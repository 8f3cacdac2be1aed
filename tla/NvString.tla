------------------------------- MODULE NvString -------------------------------
(***************************************************************************)
(* A string kept in flash (main/device/persistent/nv_string.hpp): its      *)
(* length is one NVS entry (an nv_uint8_t of nv_typed.hpp) and its         *)
(* characters are another.  An assignment writes the two one after the     *)
(* other, the size of the second being the first as read back from flash.  *)
(* setKey turns the same object to the two entries of another key.  The    *)
(* power may go at any moment, and NVS may refuse a write, which nobody    *)
(* looks at.                                                               *)
(***************************************************************************)
EXTENDS Naturals, Sequences

CONSTANTS
  Keys,     \* the keys an object may be given
  Chars,    \* the characters of a string
  Nul,      \* the terminator
  Noise,    \* a byte nobody has written
  MaxLen,   \* MAX_STRING_LENGTH
  Strings   \* the strings that are assigned

ASSUME CharAssumption ==
  Nul \notin Chars /\ Noise \notin Chars /\ Nul # Noise
(* A template argument beyond 255 would not fit the uint8_t of the length; *)
(* the default is 16.                                                      *)
ASSUME LengthAssumption == MaxLen \in 1..255
ASSUME StringAssumption == Strings \subseteq Seq(Chars)

VARIABLES
  failing,  \* whether NVS may refuse a write at all; never changes
  key,      \* the key of the object
  parked,   \* flash and history of the keys it does not have now
  turned,   \* the object has had another key since it was built
  length,   \* flash: the "_len" entry of key, 0 while there is none
  chars,    \* flash: the "_str" entry of key, empty while there is none
  code,     \* RAM: the buffer _code_
  pc,       \* "idle", or "chars" between the two writes of an assignment
  str,      \* the argument of the last assignment under this key
  stored,   \* the last assignment got both its entries into flash
  kept,     \* the last non-empty string of which this is true
  result    \* what the last read since the last write or restart returned

keyVars == <<key, parked, turned>>
vars == <<failing, keyVars, length, chars, code, pc, str, stored, kept, result>>

Byte == Chars \union {Nul, Noise}
Buffer == [1..MaxLen -> Byte]

Filled(b) == [i \in 1..MaxLen |-> b]
Entry ==
  [length |-> length, chars |-> chars, str |-> str, stored |-> stored,
   kept |-> kept]
Blank ==
  [length |-> 0, chars |-> <<>>, str |-> <<>>, stored |-> FALSE, kept |-> <<>>]
NoResult == [by |-> "nobody", bytes |-> Filled(Nul)]
-----------------------------------------------------------------------------
(* strlen without the min *)
CutNothing(s) == Len(s)

(* min(strlen, MAX_STRING_LENGTH) *)
Cut(s) == IF Len(s) < MaxLen THEN Len(s) ELSE MaxLen

(* The n bytes that start with the first of s: s, its terminator, noise *)
Bytes(s, n) ==
  [i \in 1..n |-> IF i <= Len(s) THEN s[i]
                  ELSE IF i = Len(s) + 1 THEN Nul ELSE Noise]

(* Preferences::getBytes copies an entry that fits, and nothing otherwise. *)
GetBytes(b) ==
  IF Len(chars) <= length
  THEN [i \in 1..MaxLen |-> IF i <= Len(chars) THEN chars[i] ELSE b[i]]
  ELSE b

(* if (_length_ < MAX_STRING_LENGTH) _code_[_length_] = 0 *)
Terminate(b) == IF length < MaxLen THEN [b EXCEPT ![length + 1] = Nul] ELSE b
-----------------------------------------------------------------------------
Init ==
  /\ failing \in BOOLEAN
  /\ key \in Keys /\ parked = [k \in Keys |-> Blank] /\ turned = FALSE
  /\ length = 0 /\ chars = <<>>
  /\ code = Filled(Nul)
  /\ pc = "idle" /\ str = <<>>
  /\ stored = FALSE /\ kept = <<>>
  /\ result = NoResult

(* _length_ = min(strlen, MAX): putUChar, evaluated before the putBytes it *)
(* is an argument of                                                       *)
SetLength(s) ==
  /\ pc = "idle"
  /\ length' = Cut(s) \/ (failing /\ UNCHANGED length)
  /\ str' = s /\ stored' = FALSE
  /\ result' = NoResult
  /\ pc' = "chars"
  /\ UNCHANGED <<failing, keyVars, chars, code, kept>>

PutChars(ok) ==
  /\ ok \/ failing
  /\ chars' = IF ok /\ length > 0 THEN Bytes(str, length) ELSE chars
  /\ stored' = (ok /\ length = Cut(str))
  /\ kept' = IF stored' /\ length > 0 THEN Bytes(str, length) ELSE kept

(* storage.putBytes(_chars_, _str_, _length_): the size is what getUChar   *)
(* returns, and an entry of no bytes is not written.                       *)
SetChars ==
  /\ pc = "chars"
  /\ \E ok \in BOOLEAN : PutChars(ok)
  /\ pc' = "idle"
  /\ UNCHANGED <<failing, keyVars, length, code, str, result>>

(* With the key of the characters forgotten, the length alone follows. *)
TurnLengthOnly(k) ==
  /\ key' = k
  /\ parked' = [parked EXCEPT ![key] = Entry, ![k] = Blank]
  /\ length' = parked[k].length /\ UNCHANGED chars
  /\ str' = parked[k].str /\ stored' = parked[k].stored
  /\ kept' = parked[k].kept

(* The two entries of k take the place of those of key. *)
Turn(k) ==
  /\ key' = k
  /\ parked' = [parked EXCEPT ![key] = Entry, ![k] = Blank]
  /\ length' = parked[k].length /\ chars' = parked[k].chars
  /\ str' = parked[k].str /\ stored' = parked[k].stored
  /\ kept' = parked[k].kept

(* setKey: the buffer keeps what it holds. *)
SetKey(k) ==
  /\ pc = "idle" /\ k # key
  /\ Turn(k)
  /\ turned' = TRUE /\ result' = NoResult
  /\ UNCHANGED <<failing, code, pc>>

(* bytes() and operator char const*: through the buffer of the object *)
Read ==
  /\ pc = "idle"
  /\ code' = Terminate(GetBytes(code))
  /\ result' = [by |-> "bytes", bytes |-> code']
  /\ UNCHANGED <<failing, keyVars, length, chars, pc, str, stored, kept>>

(* toString() and operator String: through a fresh local array *)
ReadString ==
  /\ pc = "idle"
  /\ result' = [by |-> "toString",
                bytes |-> Terminate(GetBytes(Filled(Noise)))]
  /\ UNCHANGED <<failing, keyVars, length, chars, code, pc, str, stored, kept>>

(* new char[] without the bzero *)
RestartUnzeroed ==
  /\ code' = Filled(Noise)
  /\ pc' = "idle" /\ turned' = FALSE
  /\ result' = NoResult
  /\ UNCHANGED <<failing, key, parked, length, chars, str, stored, kept>>

(* The power goes and comes back: flash stays, the object is built anew    *)
(* with a zeroed buffer, for the key it has now or for another.            *)
Restart ==
  /\ code' = Filled(Nul)
  /\ pc' = "idle" /\ turned' = FALSE
  /\ result' = NoResult
  /\ UNCHANGED failing
  /\ \/ UNCHANGED <<key, parked, length, chars, str, stored, kept>>
     \/ \E k \in Keys \ {key} : Turn(k)

Next ==
  \/ \E s \in Strings : SetLength(s)
  \/ SetChars
  \/ \E k \in Keys : SetKey(k)
  \/ Read \/ ReadString
  \/ Restart

Spec == Init /\ [][Next]_vars
-----------------------------------------------------------------------------
Entries ==
  [length : 0..MaxLen, chars : {c \in Seq(Byte) : Len(c) <= MaxLen},
   str : Seq(Chars), stored : BOOLEAN, kept : {c \in Seq(Byte) : Len(c) <= MaxLen}]

(* Every variable stays within its type; in particular the length read     *)
(* back from flash never leads outside of the buffer.                      *)
TypeOK ==
  /\ failing \in BOOLEAN /\ stored \in BOOLEAN /\ turned \in BOOLEAN
  /\ key \in Keys /\ parked \in [Keys -> Entries]
  /\ length \in 0..MaxLen
  /\ chars \in Seq(Byte) /\ Len(chars) <= MaxLen
  /\ kept \in Seq(Byte) /\ Len(kept) <= MaxLen
  /\ code \in Buffer
  /\ pc \in {"idle", "chars"}
  /\ str \in Seq(Chars)
  /\ result \in [by : {"nobody", "bytes", "toString"}, bytes : Buffer]

(* b holds t, and a terminator after it if there is room for one *)
Holds(b, t) ==
  /\ \A i \in 1..Len(t) : b[i] = t[i]
  /\ Len(t) < MaxLen => b[Len(t) + 1] = Nul

(* An assignment whose two writes succeeded is read back, cut to the size  *)
(* of the buffer, by either reader, before and after any number of         *)
(* restarts and changes of the key, and whatever earlier failures, power   *)
(* losses and the strings of other keys left behind in flash and buffer.   *)
ReadBack ==
  stored /\ result.by # "nobody" => Holds(result.bytes, Bytes(str, Cut(str)))

(* As long as NVS refuses nothing, a power loss between the two writes     *)
(* leaves a string that bytes() reads as the last one that is really in    *)
(* flash or as the empty one: never as a mixture with the one that got     *)
(* lost, and never as bytes nobody wrote.  An object that had another key  *)
(* before is no part of this: its buffer may show the string of that key.  *)
OldOrEmpty ==
  ~failing /\ ~turned /\ result.by = "bytes" =>
    Holds(result.bytes, kept) \/ Holds(result.bytes, <<>>)
=============================================================================
