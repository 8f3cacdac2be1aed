--------------------------------- MODULE Ipv4 ---------------------------------
(***************************************************************************)
(* The two parsers of IPv4 addresses, main/device/hal/network.cpp and      *)
(* python/ipv4.py, over the same text, one symbol at a time.  A symbol is  *)
(* its ASCII code.  The C++ parser is given the length of the text in a    *)
(* uint8_t and writes into an array that connectDevice has filled with     *)
(* zeros; connectDevice dials what is in that array and does not look at   *)
(* the verdict.                                                            *)
(***************************************************************************)
EXTENDS Integers, Sequences

CONSTANTS
  Symbols,  \* the symbols a text is made of
  MaxText,  \* bound: the length of the longest text
  Wrap      \* the values of a uint8_t: 256

ASSUME Ipv4Assumption ==
  Symbols \subseteq 0..255 /\ MaxText \in Nat /\ Wrap \in Nat \ {0}

VARIABLES
  size,     \* the length of the text
  text,     \* what has been read of it
  cpp, py   \* the local variables of the two parsers, and their verdicts

ipv4Vars == <<size, text, cpp, py>>

isdigit(s) == s \in 48..57
Dot == 46
UINT8_MAX == 255

Start ==
  [err |-> "READING", result |-> [i \in 1..4 |-> 0], index |-> 1,
   data |-> 0, digits |-> FALSE]
-----------------------------------------------------------------------------
(* network.cpp *)

CppStop(c, err) == [c EXCEPT !.err = err]

(* Storing a group as it grows, instead of when it ends *)
CppDigitStored(c, data) ==
  IF data > UINT8_MAX THEN CppStop(c, "DATA_OVERFLOW")
  ELSE [c EXCEPT !.data = data, !.digits = TRUE, !.result[c.index] = data]

CppDigit(c, data) ==
  IF data > UINT8_MAX THEN CppStop(c, "DATA_OVERFLOW")
  ELSE [c EXCEPT !.data = data, !.digits = TRUE]

(* Without data = 0 *)
CppDotKeepsData(c) ==
  IF c.index > 3 THEN CppStop(c, "INPUT_OVERFLOW")
  ELSE IF ~c.digits THEN CppStop(c, "NO_SYMBOL")
  ELSE [c EXCEPT !.result[c.index] = c.data, !.index = @ + 1, !.digits = FALSE]

CppDot(c) ==
  IF c.index > 3 THEN CppStop(c, "INPUT_OVERFLOW")
  ELSE IF ~c.digits THEN CppStop(c, "NO_SYMBOL")
  ELSE [c EXCEPT !.result[c.index] = c.data, !.data = 0, !.index = @ + 1,
                 !.digits = FALSE]

CppSymbol(c, s) ==
  IF isdigit(s) THEN CppDigit(c, c.data * 10 + s - 48)
  ELSE IF s = Dot THEN CppDot(c)
  ELSE CppStop(c, "INVALID_SYMBOL")

CppEnd(c) ==
  IF c.index = 4 /\ c.digits
  THEN [c EXCEPT !.result[4] = c.data, !.err = "SUCCESS"]
  ELSE CppStop(c, "NOT_ENOUGH_INPUT")
-----------------------------------------------------------------------------
(* ipv4.py; what it has put into its list is lost with an error *)

None == <<>>
PyStop(p, err) == [p EXCEPT !.err = err, !.result = None]

PyDigit(p, data) ==
  IF data > 255 THEN PyStop(p, "DATA_OVERFLOW")
  ELSE [p EXCEPT !.data = data, !.digits = TRUE]

(* Accepting a group without digits *)
PyDotEmpty(p) ==
  IF p.index > 3 THEN PyStop(p, "INPUT_OVERFLOW")
  ELSE [p EXCEPT !.result[p.index] = p.data, !.data = 0, !.index = @ + 1,
                 !.digits = FALSE]

PyDot(p) ==
  IF p.index > 3 THEN PyStop(p, "INPUT_OVERFLOW")
  ELSE IF ~p.digits THEN PyStop(p, "NO_SYMBOL")
  ELSE [p EXCEPT !.result[p.index] = p.data, !.data = 0, !.index = @ + 1,
                 !.digits = FALSE]

PySymbol(p, s) ==
  IF 48 <= s /\ s <= 57 THEN PyDigit(p, p.data * 10 + (s - 48))
  ELSE IF s = Dot THEN PyDot(p)
  ELSE PyStop(p, "INVALID_SYMBOL")

PyEnd(p) ==
  IF p.index = 4 /\ p.digits
  THEN [p EXCEPT !.result[4] = p.data, !.err = "SUCCESS"]
  ELSE PyStop(p, "NOT_ENOUGH_INPUT")
-----------------------------------------------------------------------------
Reading(p) == p.err = "READING"

(* uint8_t string_length *)
string_length == size % Wrap

Ipv4Init ==
  /\ size \in 0..MaxText
  /\ text = <<>>
  /\ cpp = Start /\ py = Start

(* The next symbol of the text, for whoever still reads *)
ReadSymbol(s) ==
  /\ Len(text) < size /\ (Reading(cpp) \/ Reading(py))
  /\ text' = Append(text, s)
  /\ cpp' = IF Reading(cpp) /\ Len(text) < string_length
            THEN CppSymbol(cpp, s) ELSE cpp
  /\ py' = IF Reading(py) THEN PySymbol(py, s) ELSE py
  /\ UNCHANGED size

CppFinish ==
  /\ Reading(cpp) /\ Len(text) >= string_length
  /\ cpp' = CppEnd(cpp)
  /\ UNCHANGED <<size, text, py>>

PyFinish ==
  /\ Reading(py) /\ Len(text) = size
  /\ py' = PyEnd(py)
  /\ UNCHANGED <<size, text, cpp>>

Ipv4Next ==
  \/ \E s \in Symbols : ReadSymbol(s)
  \/ CppFinish
  \/ PyFinish

Ipv4Spec == Ipv4Init /\ [][Ipv4Next]_ipv4Vars
-----------------------------------------------------------------------------
(* Properties *)

(* Both parsers come to the same verdict on every text whose length fits a *)
(* uint8_t, and to the same address when it is a good one.                 *)
SameVerdict ==
  size < Wrap /\ ~Reading(cpp) /\ ~Reading(py) =>
    /\ cpp.err = py.err
    /\ cpp.err = "SUCCESS" => cpp.result = py.result

(* connectDevice dials whatever address is in the array.  When the parser  *)
(* has refused the text, however far it had come, and however the length   *)
(* was cut, that address ends in a zero: it is the address of a network,   *)
(* never that of another device.                                           *)
FailureDialsNoHost ==
  cpp.err # "SUCCESS" => cpp.result[4] = 0

(* What an address is: four groups of digits, none above 255 *)
Value(t) ==
  LET upTo[i \in 0..Len(t)] ==
        IF i = 0 THEN 0 ELSE upTo[i - 1] * 10 + t[i] - 48
  IN  upTo[Len(t)]
IsGroup(t) ==
  t # <<>> /\ (\A i \in 1..Len(t) : isdigit(t[i])) /\ Value(t) <= UINT8_MAX
Group(t, bounds, g) == SubSeq(t, bounds[g] + 1, bounds[g + 1] - 1)
Bounds(t) ==
  {<<0, i, j, k, Len(t) + 1>> : i, j, k \in {d \in 1..Len(t) : t[d] = Dot}}
IsAddress(t, address) ==
  \E bounds \in Bounds(t) : \A g \in 1..4 :
     IsGroup(Group(t, bounds, g)) /\ Value(Group(t, bounds, g)) = address[g]

(* A text is accepted exactly when it is an address, and as that address.  *)
AcceptsAddresses ==
  ~Reading(py) =>
    IF py.err = "SUCCESS" THEN IsAddress(text, py.result)
    ELSE ~ \E bounds \in Bounds(text) :
             Len(text) = size
             /\ \A g \in 1..4 : IsGroup(Group(text, bounds, g))
=============================================================================
