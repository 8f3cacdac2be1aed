------------------------------ MODULE FixedString ------------------------------
(***************************************************************************)
(* The strings of device/std/string.hpp: texts (_String_, an array of N    *)
(* characters and a length), one view (_StringView_, a pointer and a       *)
(* length) and one writer (_StringWrite_, the same with write access).     *)
(* Neither of the last two owns characters: they look at a text, and what  *)
(* is done to the text afterwards is done under them.                      *)
(***************************************************************************)
EXTENDS Naturals, Sequences

CONSTANTS
  Texts,    \* the objects of type _String_
  Letters,  \* what strings are made of
  MAX_STRING_LENGTH,
  Nul,      \* the terminator
  Beyond    \* what a C string runs into behind the end of an array

ASSUME StringSizeAssumption == MAX_STRING_LENGTH \in Nat \ {0}
ASSUME CharacterAssumption == Nul \notin Letters /\ Beyond \notin Letters \union {Nul}

VARIABLES
  chars, length,  \* the fields of every text
  view, write,    \* where view and writer look, and their lengths
  said            \* history: what a text, the view and the writer should say

stringVars == <<chars, length, view, write, said>>

Size == MAX_STRING_LENGTH

(* Strings to assign, up to one character too long.  Neighbours differ: a  *)
(* character out of place shows.                                           *)
Given ==
  {s \in UNION {[1..n -> Letters] : n \in 0..(Size + 1)} :
     \A i \in 2..Len(s) : s[i] # s[i - 1]}

Least(a, b) == IF a < b THEN a ELSE b
FirstOf(s, n) == SubSeq(s, 1, Least(Len(s), n))

(* What strlen finds: the characters before the first terminator, and some *)
(* more behind the array when it holds none.                               *)
CString(c) ==
  IF \E i \in 1..Size : c[i] = Nul
  THEN SubSeq(c, 1, (CHOOSE i \in 1..Size :
                       c[i] = Nul /\ \A j \in 1..(i - 1) : c[j] # Nul) - 1)
  ELSE [i \in 1..Size |-> c[i]] \o <<Beyond>>

(* cString: toString, operator String *)
cString(c, len) == FirstOf(CString(c), len)

(* toString of a text, of the view and of the writer *)
TextString(t) == cString(chars[t], length[t])
ViewString == cString(chars[view.at], view.length)
WriteString == cString(chars[write.at], write.length)

Look(t, len) == [at |-> t, length |-> len]
Unknown == <<Beyond>>
-----------------------------------------------------------------------------
StringInit ==
  /\ chars = [t \in Texts |-> [i \in 1..Size |-> Nul]]
  /\ length = [t \in Texts |-> 0]
  /\ \E t \in Texts : view = Look(t, 0) /\ write = Look(t, 0)
  /\ said = [text |-> [t \in Texts |-> <<>>], write |-> <<>>, behind |-> {}]

(* The array after memcpy, and after bzero and memcpy *)
UnwipedArray(t, s) ==
  [i \in 1..Size |-> IF i <= Len(s) THEN s[i] ELSE chars[t][i]]

NewArray(t, s) == [i \in 1..Size |-> IF i <= Len(s) THEN s[i] ELSE Nul]

(* What is known of the writer when text t changes *)
WriterAfter(t) == IF write.at = t THEN Unknown ELSE said.write

Set(t, s, len, says) ==
  /\ chars' = [chars EXCEPT ![t] = NewArray(t, s)]
  /\ length' = [length EXCEPT ![t] = len]
  /\ said' = [text |-> [said.text EXCEPT ![t] = says],
              write |-> WriterAfter(t), behind |-> said.behind \ {t}]
  /\ UNCHANGED <<view, write>>

(* operator = and the constructors, from a C string, from a String or from *)
(* a view of either.                                                       *)
AssignText(t, s) ==
  Set(t, FirstOf(s, Size), Least(Len(s), Size), FirstOf(s, Size))

(* operator =(_StringView_) from another text: its length is taken from    *)
(* the view, its characters from what the other text holds by now.         *)
AssignView(t) ==
  /\ view.at # t
  /\ LET len == Least(view.length, Size)
     IN  Set(t, SubSeq(chars[view.at], 1, len), len,
             cString(chars[view.at], len))

(* The copy constructor, in place of what t was: the bytes of the other    *)
(* text up to its length, whatever stands between them by now.             *)
CopyText(t, u) ==
  /\ u # t
  /\ Set(t, SubSeq(chars[u], 1, length[u]), length[u],
         TextString(u))

(* From a view of the text itself: bzero wipes what memcpy would read.     *)
AssignSelf(t) ==
  /\ view.at = t
  /\ LET len == Least(view.length, Size)
     IN  Set(t, <<>>, len, <<>>)

(* operator = of the view *)
AssignTo(v) == view' = v /\ UNCHANGED <<chars, length, write, said>>

(* operator _StringView_ *)
TakeView(t) == AssignTo(Look(t, Least(Len(CString(chars[t])), length[t])))

(* _StringView_(char const* ) of a text's characters: a length beyond the  *)
(* array when it is full.                                                  *)
TakeCString(t) == AssignTo(Look(t, Len(CString(chars[t]))))

(* _StringWrite_(char* ) and _StringWrite_(char* , size_t) of a text's     *)
(* characters.  A writer longer than the array, where strlen has run       *)
(* beyond it, is one that the caller may not write with.                   *)
TakeWriter(t) ==
  /\ \E len \in {Len(CString(chars[t])),
                 Least(Len(CString(chars[t])), length[t])} :
       len <= Size /\ write' = Look(t, len)
  /\ said' = [said EXCEPT !.write = Unknown]
  /\ UNCHANGED <<chars, length, view>>

(* operator = of the writer: neither a terminator nor a limit; the caller  *)
(* keeps to the array.  The length of the text is not told: it cuts what   *)
(* is longer, and lets the old end show behind what is shorter.            *)
Write(s) ==
  /\ Len(s) <= Size
  /\ chars' = [chars EXCEPT ![write.at] = UnwipedArray(write.at, s)]
  /\ write' = [write EXCEPT !.length = Len(s)]
  /\ said' = [text |-> [said.text EXCEPT ![write.at] =
                          IF length[write.at] <= Len(s)
                          THEN FirstOf(s, length[write.at]) ELSE Unknown],
              write |-> s, behind |-> said.behind \cup {write.at}]
  /\ UNCHANGED <<length, view>>

(* atEnd: over the last characters of what the writer has a length of *)
WriteAtEnd(s) ==
  /\ Len(s) <= write.length
  /\ chars' = [chars EXCEPT ![write.at] =
                 [i \in 1..Size |->
                    IF i \in (write.length - Len(s) + 1)..write.length
                    THEN s[i - (write.length - Len(s))] ELSE @[i]]]
  /\ said' = [text |-> [said.text EXCEPT ![write.at] = Unknown],
              write |-> IF said.write = Unknown THEN Unknown
                        ELSE FirstOf(said.write, write.length - Len(s)) \o s,
              behind |-> said.behind \cup {write.at}]
  /\ UNCHANGED <<length, view, write>>

StringNext ==
  \/ \E t \in Texts :
       \/ AssignView(t) \/ AssignSelf(t)
       \/ TakeView(t) \/ TakeCString(t) \/ TakeWriter(t)
       \/ \E s \in Given : AssignText(t, s)
       \/ \E u \in Texts : CopyText(t, u)
  \/ \E s \in Given : Write(s) \/ WriteAtEnd(s)

StringSpec == StringInit /\ [][StringNext]_stringVars
-----------------------------------------------------------------------------
(* A text says what it was last assigned, cut to its array; what went past *)
(* its back through a writer only up to its own length.  A writer says     *)
(* what was written through it.  And a view is a window, not a copy: of    *)
(* whatever its text has been assigned since, it says the first characters *)
(* up to its length, and never the end of an older string behind them.     *)
StringsSay ==
  /\ \A t \in Texts :
       said.text[t] # Unknown => TextString(t) = said.text[t]
  /\ said.write # Unknown => WriteString = said.write
  /\ LET s == said.text[view.at]
     IN  view.length <= Size /\ view.at \notin said.behind =>
           ViewString = FirstOf(s, view.length)
=============================================================================
