---------------------------- MODULE HelpersProofs ----------------------------
(***************************************************************************)
(* The firmware's helpers keep what they promise, for every value of the   *)
(* constants: each class or function by itself, and all of them together.  *)
(***************************************************************************)
EXTENDS Helpers, SetInduction, SequenceTheorems

(***************************************************************************)
(* The two parsers of addresses agree, and a refused text dials no host.   *)
(***************************************************************************)
Parsers ==
  [err : {"READING", "SUCCESS", "DATA_OVERFLOW", "INPUT_OVERFLOW", "NO_SYMBOL",
          "INVALID_SYMBOL", "NOT_ENOUGH_INPUT"},
   result : [1..4 -> 0..UINT8_MAX], index : 1..4, data : 0..UINT8_MAX,
   digits : BOOLEAN]

(* The fourth byte is written with the verdict, and by nothing before it. *)
NoHostYet(c) == c.err # "SUCCESS" => c.result[4] = 0

(* Where the two parsers are when only one of them has come to its end, or *)
(* both                                                                    *)
Agree(c, p) == c.err = p.err /\ (c.err = "SUCCESS" => c.result = p.result)
InStep ==
  \/ Reading(cpp) /\ cpp = py
  \/ ~Reading(cpp) /\ ~Reading(py) /\ Agree(cpp, py)
  \/ Reading(cpp) /\ Len(text) = size /\ py = PyEnd(cpp)
  \/ Reading(py) /\ py \in Parsers /\ Len(text) = size /\ cpp = CppEnd(py)

Ipv4Inv ==
  /\ size \in Nat /\ text \in Seq(0..255) /\ Len(text) <= size
  /\ cpp \in Parsers /\ NoHostYet(cpp)
  /\ size < Wrap => InStep

LEMMA CppSymbolType ==
  ASSUME NEW c \in Parsers, NoHostYet(c), Reading(c), NEW s \in 0..255
  PROVE  CppSymbol(c, s) \in Parsers /\ NoHostYet(CppSymbol(c, s))
PROOF
  <1>1. CASE isdigit(s)
    <2> DEFINE data == c.data * 10 + s - 48
    <2>1. data \in Nat
      BY <1>1 DEF Parsers, isdigit, UINT8_MAX
    <2>2. CppSymbol(c, s) = CppDigit(c, data)
      BY <1>1 DEF CppSymbol
    <2> HIDE DEF data
    <2>3. CASE data > UINT8_MAX
      <3>1. CppSymbol(c, s) = [c EXCEPT !.err = "DATA_OVERFLOW"]
        BY <2>2, <2>3 DEF CppDigit, CppStop
      <3> QED
        BY <3>1 DEF Parsers, NoHostYet, Reading
    <2>4. CASE ~(data > UINT8_MAX)
      <3>1. CppSymbol(c, s) = [c EXCEPT !.data = data, !.digits = TRUE]
        BY <2>2, <2>4 DEF CppDigit
      <3>2. data \in 0..UINT8_MAX
        BY <2>1, <2>4 DEF UINT8_MAX
      <3> QED
        BY <3>1, <3>2 DEF Parsers, NoHostYet
    <2> QED
      BY <2>3, <2>4
  <1>2. CASE ~isdigit(s) /\ s = Dot
    <2>1. CppSymbol(c, s) = CppDot(c)
      BY <1>2 DEF CppSymbol
    <2>2. CASE c.index > 3 \/ ~c.digits
      <3>1. CppSymbol(c, s) \in {[c EXCEPT !.err = "INPUT_OVERFLOW"],
                                [c EXCEPT !.err = "NO_SYMBOL"]}
        BY <2>1, <2>2 DEF CppDot, CppStop
      <3> QED
        BY <3>1 DEF Parsers, NoHostYet, Reading
    <2>3. CASE ~(c.index > 3 \/ ~c.digits)
      <3> DEFINE r == [c.result EXCEPT ![c.index] = c.data]
      <3>1. CppSymbol(c, s) =
              [c EXCEPT !.result = r, !.data = 0, !.index = c.index + 1,
                        !.digits = FALSE]
        BY <2>1, <2>3 DEF CppDot, Parsers
      <3>2. /\ r \in [1..4 -> 0..UINT8_MAX] /\ r[4] = c.result[4]
            /\ c.index + 1 \in 1..4 /\ 0 \in 0..UINT8_MAX
        <4>1. c.index \in 1..3 /\ c.data \in 0..UINT8_MAX
          BY <2>3 DEF Parsers
        <4>2. c.result \in [1..4 -> 0..UINT8_MAX]
          BY DEF Parsers
        <4>3. c.index + 1 \in 1..4 /\ c.index \in 1..4 /\ c.index # 4
          BY <4>1
        <4>4. 0 \in 0..UINT8_MAX
          BY DEF UINT8_MAX
        <4>5. r \in [1..4 -> 0..UINT8_MAX] /\ r[4] = c.result[4]
          BY <4>1, <4>2, <4>3
        <4> QED
          BY <4>3, <4>4, <4>5
      <3> HIDE DEF r
      <3> QED
        BY <3>1, <3>2 DEF Parsers, NoHostYet
    <2> QED
      BY <2>2, <2>3
  <1>3. CASE ~isdigit(s) /\ s # Dot
    BY <1>3 DEF CppSymbol, CppStop, Parsers, NoHostYet, Reading
  <1> QED
    BY <1>1, <1>2, <1>3

LEMMA CppEndType ==
  ASSUME NEW c \in Parsers, NoHostYet(c), Reading(c)
  PROVE  /\ CppEnd(c) \in Parsers /\ NoHostYet(CppEnd(c))
         /\ ~Reading(CppEnd(c)) /\ ~Reading(PyEnd(c))
         /\ Agree(CppEnd(c), PyEnd(c))
PROOF
  BY DEF CppEnd, PyEnd, CppStop, PyStop, Parsers, NoHostYet, Reading, Agree

(* The same symbol in the same state *)
LEMMA SameSymbol ==
  ASSUME NEW c \in Parsers, Reading(c), NEW s \in 0..255
  PROVE  \/ Reading(CppSymbol(c, s)) /\ CppSymbol(c, s) = PySymbol(c, s)
         \/ /\ ~Reading(CppSymbol(c, s)) /\ ~Reading(PySymbol(c, s))
            /\ Agree(CppSymbol(c, s), PySymbol(c, s))
PROOF
  <1>1. isdigit(s) <=> 48 <= s /\ s <= 57
    BY DEF isdigit
  <1>2. CASE isdigit(s)
    <2> DEFINE data == c.data * 10 + s - 48
    <2>1. c.data * 10 + (s - 48) = data
      BY <1>2 DEF Parsers, isdigit, UINT8_MAX
    <2>2. /\ CppSymbol(c, s) = CppDigit(c, data)
          /\ PySymbol(c, s) = PyDigit(c, data)
      BY <1>1, <1>2, <2>1 DEF CppSymbol, PySymbol
    <2> HIDE DEF data
    <2> QED
      BY <2>2 DEF CppDigit, PyDigit, CppStop, PyStop, Parsers, Reading, Agree,
                  UINT8_MAX
  <1>3. CASE ~isdigit(s) /\ s = Dot
    <2>1. CppSymbol(c, s) = CppDot(c) /\ PySymbol(c, s) = PyDot(c)
      BY <1>1, <1>3 DEF CppSymbol, PySymbol
    <2> QED
      BY <2>1 DEF CppDot, PyDot, CppStop, PyStop, Parsers, Reading, Agree
  <1>4. CASE ~isdigit(s) /\ s # Dot
    BY <1>1, <1>4
       DEF CppSymbol, PySymbol, CppStop, PyStop, Parsers, Reading, Agree
  <1> QED
    BY <1>2, <1>3, <1>4
-----------------------------------------------------------------------------
LEMMA Ipv4InvInit == Ipv4Init => Ipv4Inv
PROOF
  BY Ipv4Assumption
     DEF Ipv4Init, Ipv4Inv, Start, Parsers, NoHostYet, InStep, Reading,
         UINT8_MAX

LEMMA Ipv4InvStep == Ipv4Inv /\ [Ipv4Next]_ipv4Vars => Ipv4Inv'
PROOF
  <1> SUFFICES ASSUME Ipv4Inv, [Ipv4Next]_ipv4Vars PROVE Ipv4Inv'
    OBVIOUS
  <1>1. size < Wrap => string_length = size
    BY Ipv4Assumption DEF Ipv4Inv, string_length
  <1>2. ASSUME NEW s \in Symbols, ReadSymbol(s) PROVE Ipv4Inv'
    <2>1. s \in 0..255
      BY Ipv4Assumption
    <2>2. /\ Len(text) < size /\ size' = size /\ text' = Append(text, s)
          /\ cpp' = IF Reading(cpp) /\ Len(text) < string_length
                    THEN CppSymbol(cpp, s) ELSE cpp
          /\ py' = IF Reading(py) THEN PySymbol(py, s) ELSE py
          /\ Reading(cpp) \/ Reading(py)
      BY <1>2 DEF ReadSymbol
    <2>3. text' \in Seq(0..255) /\ Len(text') <= size'
      BY <2>1, <2>2 DEF Ipv4Inv
    <2>4. cpp' \in Parsers /\ NoHostYet(cpp')
      BY <2>1, <2>2, CppSymbolType DEF Ipv4Inv
    <2>5. ASSUME size < Wrap PROVE InStep'
      <3>1. cpp = py /\ Reading(cpp) /\ cpp \in Parsers
        BY <2>2, <2>5 DEF Ipv4Inv, InStep
      <3>2. cpp' = CppSymbol(cpp, s) /\ py' = PySymbol(cpp, s)
        BY <1>1, <2>2, <2>5, <3>1
      <3> QED
        BY <2>1, <3>1, <3>2, SameSymbol DEF InStep, Reading, Agree
    <2> QED
      BY <2>2, <2>3, <2>4, <2>5 DEF Ipv4Inv
  <1>3. CASE CppFinish
    <2>1. /\ Reading(cpp) /\ Len(text) >= string_length
          /\ cpp' = CppEnd(cpp) /\ UNCHANGED <<size, text, py>>
      BY <1>3 DEF CppFinish
    <2>2. cpp' \in Parsers /\ NoHostYet(cpp')
      BY <2>1, CppEndType DEF Ipv4Inv
    <2>3. ASSUME size < Wrap PROVE InStep'
      <3>1. /\ ~Reading(CppEnd(cpp)) /\ ~Reading(PyEnd(cpp))
            /\ Agree(CppEnd(cpp), PyEnd(cpp))
        BY <2>1, CppEndType DEF Ipv4Inv
      <3>2. Len(text) = size
        BY <1>1, <2>1, <2>3 DEF Ipv4Inv
      <3>3. CASE cpp = py
        BY <2>1, <3>1, <3>2, <3>3 DEF InStep, Reading, Ipv4Inv
      <3>4. CASE py = PyEnd(cpp)
        BY <2>1, <3>1, <3>4 DEF InStep, Reading, Agree
      <3>5. cpp = py \/ py = PyEnd(cpp)
        <4>1. ASSUME Reading(py), cpp = CppEnd(py), cpp # py PROVE FALSE
          BY <2>1, <4>1 DEF CppEnd, CppStop, Reading, Ipv4Inv, Parsers
        <4> QED
          BY <2>1, <2>3, <4>1 DEF Ipv4Inv, InStep
      <3> QED
        BY <3>3, <3>4, <3>5
    <2> QED
      BY <2>1, <2>2, <2>3 DEF Ipv4Inv
  <1>4. CASE PyFinish
    <2>1. /\ Reading(py) /\ Len(text) = size
          /\ py' = PyEnd(py) /\ UNCHANGED <<size, text, cpp>>
      BY <1>4 DEF PyFinish
    <2>2. ASSUME size < Wrap PROVE InStep'
      <3>1. CASE cpp = py
        <4>1. Reading(cpp') /\ Len(text') = size' /\ py' = PyEnd(cpp)
          BY <2>1, <3>1 DEF Reading
        <4>2. PyEnd(cpp)' = PyEnd(cpp)
          BY <2>1 DEF PyEnd, PyStop
        <4> QED
          BY <4>1, <4>2 DEF InStep
      <3>2. CASE ~Reading(cpp) /\ cpp = CppEnd(py)
        <4>1. py' = PyEnd(py) /\ ~Reading(py') /\ Agree(cpp, py')
          BY <2>1, <3>2 DEF CppEnd, PyEnd, CppStop, PyStop, Reading, Agree,
                            Ipv4Inv, Parsers
        <4> QED
          BY <2>1, <3>2, <4>1 DEF InStep, Reading, Agree
      <3>3. Reading(cpp) /\ py = PyEnd(cpp) => cpp = py
        BY <2>1 DEF PyEnd, PyStop, Reading, Ipv4Inv, Parsers
      <3>4. Reading(py) /\ cpp = CppEnd(py) => ~Reading(cpp) \/ cpp = py
        BY DEF CppEnd, CppStop, Reading, Ipv4Inv, Parsers
      <3> QED
        BY <2>1, <2>2, <3>1, <3>2, <3>3, <3>4 DEF Ipv4Inv, InStep
    <2> QED
      BY <2>1, <2>2 DEF Ipv4Inv
  <1>5. CASE UNCHANGED ipv4Vars
    BY <1>5 DEF ipv4Vars, Ipv4Inv, NoHostYet, InStep, Reading, Agree
  <1> QED
    BY <1>2, <1>3, <1>4, <1>5 DEF Ipv4Next

(* The parsers agree on every text whose length fits the parameter.        *)
THEOREM ParsersAgree == Ipv4Spec => []SameVerdict
PROOF
  <1>1. Ipv4Inv => SameVerdict
    BY DEF Ipv4Inv, InStep, SameVerdict, Agree
  <1> QED
    BY <1>1, Ipv4InvInit, Ipv4InvStep, PTL DEF Ipv4Spec

(* Of a refused text connectDevice dials an address that ends in a zero.   *)
THEOREM RefusedTextsDialNoHost == Ipv4Spec => []FailureDialsNoHost
PROOF
  <1>1. Ipv4Inv => FailureDialsNoHost
    BY DEF Ipv4Inv, NoHostYet, FailureDialsNoHost
  <1> QED
    BY <1>1, Ipv4InvInit, Ipv4InvStep, PTL DEF Ipv4Spec
-----------------------------------------------------------------------------
(***************************************************************************)
(* The texts that are accepted are the addresses.  What a text is worth as *)
(* a number comes first, then its parts, the steps of the Python parser,   *)
(* and the invariants of its two directions: the groups it has read, and   *)
(* the good texts it keeps up with.                                        *)
(***************************************************************************)
(* The values of the first symbols of a text                               *)
IsValue(f, t) ==
  f = [i \in 0..Len(t) |-> IF i = 0 THEN 0 ELSE f[i - 1] * 10 + t[i] - 48]

(* The function by which Value is defined exists.                          *)
LEMMA ValueExists ==
  ASSUME NEW t \in Seq(0..255)
  PROVE  \E f \in [0..Len(t) -> Int] : IsValue(f, t)
<1> DEFINE step == [q \in Nat \X Int |->
                      IF q[1] \in 1..Len(t) THEN q[2] * 10 + t[q[1]] - 48
                      ELSE 0]
<1>1. step \in [Nat \X Int -> Int] /\ Len(t) \in Nat /\ 0 \in Int
  <2>1. ASSUME NEW k \in 1..Len(t), NEW v \in Int
        PROVE  v * 10 + t[k] - 48 \in Int
    <3> DEFINE d == t[k]
    <3>1. d \in 0..255
      BY ElementOfSeq
    <3> HIDE DEF d
    <3>2. v * 10 + d - 48 \in Int
      BY <3>1
    <3> QED
      BY <3>2 DEF d
  <2> QED
    BY <2>1
<1>2. ASSUME NEW i \in 1..Len(t), NEW v \in Int
      PROVE  step[<<i, v>>] = v * 10 + t[i] - 48
  OBVIOUS
<1> HIDE DEF step
<1>3. PICK f \in [0..Len(t) -> Int] :
        f[0] = 0 /\ \A i \in 1..Len(t) : f[i] = step[<<i, f[i - 1]>>]
  <2>1. \E f : IsRun(f, Len(t), Int, 0, step)
    BY <1>1, Recursion, Zenon
  <2> QED
    BY <2>1, Zenon DEF IsRun
<1>4. ASSUME NEW i \in 0..Len(t)
      PROVE  f[i] = IF i = 0 THEN 0 ELSE f[i - 1] * 10 + t[i] - 48
  <2>1. CASE i = 0
    BY <1>3, <2>1
  <2>2. CASE i # 0
    <3>1. i \in 1..Len(t) /\ i - 1 \in 0..Len(t)
      BY <1>1, <2>2
    <3>2. f[i - 1] \in Int
      BY <3>1
    <3>3. f[i] = f[i - 1] * 10 + t[i] - 48
      BY <1>2, <1>3, <3>1, <3>2
    <3> QED
      BY <2>2, <3>3
  <2> QED
    BY <2>1, <2>2
<1>5. f = [i \in 0..Len(t) |-> f[i]]
  OBVIOUS
<1>6. [i \in 0..Len(t) |-> f[i]]
        = [i \in 0..Len(t) |-> IF i = 0 THEN 0 ELSE f[i - 1] * 10 + t[i] - 48]
  BY <1>4
<1>7. IsValue(f, t)
  BY <1>5, <1>6, Zenon DEF IsValue
<1> QED
  BY <1>7

(* Its values, one symbol after the other                                  *)
LEMMA ValueSteps ==
  ASSUME NEW t \in Seq(0..255), NEW f, IsValue(f, t)
  PROVE  /\ f[0] = 0
         /\ \A i \in 0..Len(t) : i # 0 => f[i] = f[i - 1] * 10 + t[i] - 48
<1>1. ASSUME NEW i \in 0..Len(t)
      PROVE  f[i] = IF i = 0 THEN 0 ELSE f[i - 1] * 10 + t[i] - 48
  BY DEF IsValue
<1>2. 0 \in 0..Len(t)
  OBVIOUS
<1> QED
  BY <1>1, <1>2

(* There is one such function, also for two texts that begin alike.        *)
LEMMA SameValues ==
  ASSUME NEW t \in Seq(0..255), NEW u \in Seq(0..255),
         NEW f, IsValue(f, t), NEW g, IsValue(g, u),
         NEW n \in Nat, n <= Len(t), n <= Len(u),
         \A i \in 1..n : t[i] = u[i]
  PROVE  f[n] = g[n]
<1> DEFINE Holds == {i \in Nat : i <= n => f[i] = g[i]}
<1>1. 0 \in Holds
  BY ValueSteps
<1>2. \A i \in Nat : i \in Holds => i + 1 \in Holds
  <2> SUFFICES ASSUME NEW i \in Nat, i + 1 <= n, f[i] = g[i]
               PROVE  f[i + 1] = g[i + 1]
    OBVIOUS
  <2>1. /\ i + 1 \in 0..Len(t) /\ i + 1 \in 0..Len(u) /\ i + 1 # 0
        /\ (i + 1) - 1 = i /\ i + 1 \in 1..n
    OBVIOUS
  <2>2. f[i + 1] = f[(i + 1) - 1] * 10 + t[i + 1] - 48
    BY <2>1, ValueSteps
  <2>3. g[i + 1] = g[(i + 1) - 1] * 10 + u[i + 1] - 48
    BY <2>1, ValueSteps
  <2>4. t[i + 1] = u[i + 1]
    BY <2>1
  <2> QED
    BY <2>1, <2>2, <2>3, <2>4
<1> HIDE DEF Holds
<1>3. n \in Holds
  BY <1>1, <1>2, Induction
<1> QED
  BY <1>3 DEF Holds

(* Value is where any such function ends.                                  *)
LEMMA ValueIs ==
  ASSUME NEW t \in Seq(0..255), NEW f, IsValue(f, t)
  PROVE  Value(t) = f[Len(t)]
<1> DEFINE g == CHOOSE g : IsValue(g, t)
<1>1. IsValue(g, t)
  BY Zenon
<1>2. Value(t) = g[Len(t)]
  BY DEF Value, IsValue
<1> HIDE DEF g
<1>3. Len(t) \in Nat
  OBVIOUS
<1>4. f[Len(t)] = g[Len(t)]
  BY <1>1, <1>3, SameValues
<1> QED
  BY <1>2, <1>4

(* The value of a text is a number, whatever the symbols are.              *)
LEMMA ValueType ==
  ASSUME NEW t \in Seq(0..255)
  PROVE  Value(t) \in Int
<1>1. PICK f \in [0..Len(t) -> Int] : IsValue(f, t)
  BY ValueExists
<1>2. Value(t) = f[Len(t)]
  BY <1>1, ValueIs
<1> QED
  BY <1>2

(* A text without symbols is worth nothing.                                *)
LEMMA ValueEmpty ==
  ASSUME NEW t \in Seq(0..255), Len(t) = 0
  PROVE  Value(t) = 0
<1>1. PICK f \in [0..Len(t) -> Int] : IsValue(f, t)
  BY ValueExists
<1>2. f[0] = 0
  BY <1>1, ValueSteps
<1>3. Value(t) = f[Len(t)]
  BY <1>1, ValueIs
<1> QED
  BY <1>2, <1>3

(* A symbol more                                                           *)
LEMMA ValueNext ==
  ASSUME NEW t \in Seq(0..255), NEW s \in 0..255
  PROVE  /\ Value(Append(t, s)) = Value(t) * 10 + s - 48
         /\ Value(t) \in Int
<1> DEFINE u == Append(t, s)
           n == Len(t)
<1>1. /\ u \in Seq(0..255) /\ Len(u) = n + 1 /\ u[n + 1] = s
      /\ \A i \in 1..n : t[i] = u[i]
      /\ n \in Nat
  OBVIOUS
<1>2. PICK f \in [0..Len(t) -> Int] : IsValue(f, t)
  BY ValueExists
<1> HIDE DEF u
<1>3. PICK g \in [0..Len(u) -> Int] : IsValue(g, u)
  BY <1>1, ValueExists
<1>4. Value(t) = f[n] /\ Value(u) = g[n + 1]
  BY <1>1, <1>2, <1>3, ValueIs
<1>5. f[n] = g[n]
  <2>1. n <= Len(t) /\ n <= Len(u) /\ n \in Nat
    BY <1>1
  <2>2. ASSUME NEW m \in Nat, m <= Len(t), m <= Len(u),
               \A i \in 1..m : t[i] = u[i]
        PROVE  f[m] = g[m]
    <3>1. /\ t \in Seq(0..255) /\ u \in Seq(0..255)
          /\ IsValue(f, t) /\ IsValue(g, u)
      BY <1>1, <1>2, <1>3
    <3> QED
      BY ONLY <2>2, <3>1, SameValues
  <2> QED
    BY <1>1, <2>1, <2>2
<1>6. g[n + 1] = g[n] * 10 + u[n + 1] - 48
  <2>1. n + 1 \in 0..Len(u) /\ n + 1 # 0 /\ (n + 1) - 1 = n
    BY <1>1
  <2>2. g[n + 1] = g[(n + 1) - 1] * 10 + u[n + 1] - 48
    BY <1>1, <1>3, <2>1, ValueSteps
  <2> QED
    BY <2>1, <2>2
<1> QED
  BY <1>1, <1>4, <1>5, <1>6, ValueType DEF u

AllDigits(t) == \A i \in 1..Len(t) : isdigit(t[i])

(* The first digits of a number are not more than the number.              *)
LEMMA ValueGrows ==
  ASSUME NEW t \in Seq(0..255), AllDigits(t), NEW n \in 0..Len(t),
         NEW u \in Seq(0..255), Len(u) = n, \A i \in 1..n : t[i] = u[i]
  PROVE  Value(u) <= Value(t) /\ Value(u) \in Nat
<1>1. PICK f \in [0..Len(t) -> Int] : IsValue(f, t)
  BY ValueExists
<1>2. ASSUME NEW i \in Nat, i + 1 <= Len(t), f[i] >= 0
      PROVE  f[i + 1] >= f[i]
  <2>1. i + 1 \in 0..Len(t) /\ i + 1 # 0 /\ (i + 1) - 1 = i
        /\ i + 1 \in 1..Len(t) /\ i \in 0..Len(t)
    BY <1>2
  <2>2. f[i + 1] = f[(i + 1) - 1] * 10 + t[i + 1] - 48
    BY <1>1, <2>1, ValueSteps
  <2>3. t[i + 1] \in 48..57 /\ f[i] \in Int
    BY <2>1 DEF AllDigits, isdigit
  <2>4. f[i + 1] = f[i] * 10 + t[i + 1] - 48
    BY <2>1, <2>2
  <2> DEFINE a == f[i]
             d == t[i + 1]
  <2>5. a \in Int /\ d \in 48..57 /\ a >= 0 /\ f[i + 1] = a * 10 + d - 48
    BY <1>2, <2>3, <2>4
  <2> HIDE DEF a, d
  <2>6. f[i + 1] >= a
    BY <2>5
  <2> QED
    BY <2>6 DEF a
<1> DEFINE Holds == {i \in Nat :
                      i <= Len(t) => f[i] >= 0 /\ (n <= i => f[n] <= f[i])}
<1>3. 0 \in Holds
  <2>1. f[0] = 0
    BY <1>1, ValueSteps
  <2>2. n <= 0 => n = 0
    OBVIOUS
  <2> QED
    BY <2>1, <2>2
<1>4. \A i \in Nat : i \in Holds => i + 1 \in Holds
  <2> SUFFICES ASSUME NEW i \in Nat, i + 1 <= Len(t),
                      f[i] >= 0, n <= i => f[n] <= f[i]
               PROVE  f[i + 1] >= 0 /\ (n <= i + 1 => f[n] <= f[i + 1])
    OBVIOUS
  <2>1. f[i + 1] >= f[i] /\ f[i + 1] \in Int /\ f[i] \in Int /\ f[n] \in Int
    <3>1. i \in 0..Len(t) /\ i + 1 \in 0..Len(t)
      OBVIOUS
    <3>2. f[i + 1] >= f[i]
      BY <1>2
    <3> QED
      BY <3>1, <3>2
  <2>2. n <= i + 1 => n <= i \/ n = i + 1
    OBVIOUS
  <2> QED
    BY <2>1, <2>2
<1> HIDE DEF Holds
<1>5. Len(t) \in Holds /\ n \in Holds
  BY <1>3, <1>4, Induction
<1>6. f[n] <= f[Len(t)] /\ f[n] \in Nat
  BY <1>5 DEF Holds
<1>7. PICK g \in [0..Len(u) -> Int] : IsValue(g, u)
  BY ValueExists
<1>8. n \in Nat /\ n <= Len(t) /\ n <= Len(u)
  OBVIOUS
<1>9. f[n] = g[n]
  <2>1. ASSUME NEW m \in Nat, m <= Len(t), m <= Len(u),
               \A i \in 1..m : t[i] = u[i]
        PROVE  f[m] = g[m]
    <3>1. /\ t \in Seq(0..255) /\ u \in Seq(0..255)
          /\ IsValue(f, t) /\ IsValue(g, u)
      BY <1>1, <1>7
    <3> QED
      BY ONLY <2>1, <3>1, SameValues
  <2> QED
    BY <1>8, <2>1
<1> QED
  BY <1>1, <1>6, <1>7, <1>9, ValueIs

(* The symbols after place a, up to place n                                *)
Span(t, a, n) == SubSeq(t, a + 1, n)

(* The length and the symbols of a part of a text                          *)
LEMMA SpanIs ==
  ASSUME NEW t \in Seq(0..255), NEW a \in Nat, NEW n \in Nat,
         a <= n, n <= Len(t)
  PROVE  /\ Span(t, a, n) \in Seq(0..255)
         /\ Len(Span(t, a, n)) = n - a
         /\ \A i \in 1..n - a : Span(t, a, n)[i] = t[a + i]
<1> DEFINE u == SubSeq(t, a + 1, n)
<1>1. Len(t) \in Nat /\ \A i \in 1..Len(t) : t[i] \in 0..255
  BY LenProperties, ElementOfSeq
<1>2. ASSUME NEW i \in a + 1..n PROVE t[i] \in 0..255
  <2>1. i \in 1..Len(t)
    BY <1>1
  <2> QED
    BY <1>1, <2>1
<1>3. /\ u \in Seq(0..255)
      /\ Len(u) = IF a + 1 <= n THEN n - (a + 1) + 1 ELSE 0
      /\ \A i \in 1..n - (a + 1) + 1 : u[i] = t[(a + 1) + i - 1]
  BY <1>2, SubSeqProperties
<1> HIDE DEF u
<1>4. Len(u) = n - a
  BY <1>3
<1>5. ASSUME NEW i \in 1..n - a PROVE u[i] = t[a + i]
  <2>1. i \in 1..n - (a + 1) + 1 /\ (a + 1) + i - 1 = a + i
    OBVIOUS
  <2>2. u[i] = t[(a + 1) + i - 1]
    BY <1>3, <2>1
  <2> QED
    BY <2>1, <2>2
<1> QED
  BY <1>3, <1>4, <1>5 DEF u, Span

(* A part and the symbol that follows it                                   *)
LEMMA SpanNext ==
  ASSUME NEW t \in Seq(0..255), NEW a \in Nat, NEW n \in Nat,
         a <= n, n < Len(t)
  PROVE  Span(t, a, n + 1) = Append(Span(t, a, n), t[n + 1])
<1> DEFINE u == Span(t, a, n)
           v == Span(t, a, n + 1)
           s == t[n + 1]
<1>0. /\ Len(t) \in Nat /\ n + 1 \in Nat
      /\ n + 1 <= Len(t) /\ a <= n + 1 /\ n <= Len(t)
  BY LenProperties
<1>a. ASSUME NEW m \in Nat, a <= m, m <= Len(t)
      PROVE  /\ Span(t, a, m) \in Seq(0..255) /\ Len(Span(t, a, m)) = m - a
             /\ \A i \in 1..m - a : Span(t, a, m)[i] = t[a + i]
  BY ONLY <1>a, t \in Seq(0..255), a \in Nat, SpanIs
<1>1. /\ u \in Seq(0..255) /\ Len(u) = n - a
      /\ \A i \in 1..n - a : u[i] = t[a + i]
  BY <1>0, <1>a
<1>2. /\ v \in Seq(0..255) /\ Len(v) = (n + 1) - a
      /\ \A i \in 1..(n + 1) - a : v[i] = t[a + i]
  BY <1>0, <1>a
<1>3. s \in 0..255 /\ v[(n + 1) - a] = s
  <2>1. /\ n + 1 \in 1..Len(t) /\ (n + 1) - a \in 1..(n + 1) - a
        /\ a + ((n + 1) - a) = n + 1
    BY <1>0
  <2> QED
    BY <1>2, <2>1, ElementOfSeq
<1> HIDE DEF u, v, s
<1>4. /\ Append(u, s) \in Seq(0..255) /\ Len(Append(u, s)) = (n + 1) - a
      /\ \A i \in 1..n - a : Append(u, s)[i] = u[i]
      /\ Append(u, s)[(n - a) + 1] = s
  BY <1>1, <1>3, AppendProperties
<1>5. ASSUME NEW i \in 1..(n + 1) - a PROVE v[i] = Append(u, s)[i]
  <2>1. CASE i = (n + 1) - a
    <3>1. i = (n - a) + 1
      BY <2>1
    <3> QED
      BY <1>3, <1>4, <2>1, <3>1
  <2>2. CASE i # (n + 1) - a
    <3>1. i \in 1..n - a
      BY <2>2
    <3> QED
      BY <1>1, <1>2, <1>4, <3>1
  <2> QED
    BY <2>1, <2>2
<1>6. v = Append(u, s)
  BY <1>2, <1>4, <1>5, SeqEqual
<1> QED
  BY <1>6 DEF u, v, s

(* Two texts that begin alike have the same beginnings.                    *)
LEMMA SpanSame ==
  ASSUME NEW t \in Seq(0..255), NEW u \in Seq(0..255),
         NEW a \in Nat, NEW n \in Nat, a <= n, n <= Len(t), n <= Len(u),
         \A i \in 1..n : t[i] = u[i]
  PROVE  Span(t, a, n) = Span(u, a, n)
<1>1. /\ Span(t, a, n) \in Seq(0..255) /\ Len(Span(t, a, n)) = n - a
      /\ \A i \in 1..n - a : Span(t, a, n)[i] = t[a + i]
  BY SpanIs
<1>2. /\ Span(u, a, n) \in Seq(0..255) /\ Len(Span(u, a, n)) = n - a
      /\ \A i \in 1..n - a : Span(u, a, n)[i] = u[a + i]
  BY SpanIs
<1>3. \A i \in 1..n - a : a + i \in 1..n
  OBVIOUS
<1>4. \A i \in 1..n - a : Span(t, a, n)[i] = Span(u, a, n)[i]
  BY <1>1, <1>2, <1>3
<1> QED
  BY <1>1, <1>2, <1>4, SeqEqual

(* A part without symbols                                                  *)
LEMMA SpanNone ==
  ASSUME NEW t \in Seq(0..255), NEW n \in Nat, n <= Len(t)
  PROVE  /\ Span(t, n, n) \in Seq(0..255) /\ Len(Span(t, n, n)) = 0
         /\ Span(t, n, n) = <<>> /\ AllDigits(Span(t, n, n))
         /\ Value(Span(t, n, n)) = 0
<1>1. Span(t, n, n) \in Seq(0..255) /\ Len(Span(t, n, n)) = n - n
  BY SpanIs
<1>2. n - n = 0
  OBVIOUS
<1>3. AllDigits(Span(t, n, n))
  BY <1>1, <1>2 DEF AllDigits
<1> QED
  BY <1>1, <1>2, <1>3, ValueEmpty, EmptySeq

(* One digit more                                                          *)
LEMMA SpanDigit ==
  ASSUME NEW t \in Seq(0..255), NEW a \in Nat, NEW n \in Nat,
         a <= n, n < Len(t),
         isdigit(t[n + 1])
  PROVE  /\ Value(Span(t, a, n + 1)) = Value(Span(t, a, n)) * 10 + t[n + 1] - 48
         /\ Value(Span(t, a, n)) \in Int
         /\ AllDigits(Span(t, a, n)) => AllDigits(Span(t, a, n + 1))
         /\ Span(t, a, n + 1) # <<>>
<1> DEFINE u == Span(t, a, n)
           s == t[n + 1]
<1>1. u \in Seq(0..255) /\ s \in 0..255 /\ isdigit(s)
  <2>1. n <= Len(t) /\ n + 1 \in 1..Len(t)
    OBVIOUS
  <2> QED
    BY <2>1, SpanIs, ElementOfSeq
<1>2. Span(t, a, n + 1) = Append(u, s)
  BY SpanNext
<1> HIDE DEF u, s
<1>3. Value(Append(u, s)) = Value(u) * 10 + s - 48 /\ Value(u) \in Int
  BY <1>1, ValueNext
<1>4. AllDigits(u) => AllDigits(Append(u, s))
  BY <1>1 DEF AllDigits
<1>5. Append(u, s) # <<>>
  <2>1. Len(Append(u, s)) = Len(u) + 1 /\ Len(u) \in Nat
    BY <1>1, AppendProperties, LenProperties
  <2>2. Len(Append(u, s)) # 0
    BY <2>1
  <2> DEFINE w == Append(u, s)
  <2>3. w \in Seq(0..255)
    BY <1>1, AppendProperties
  <2> HIDE DEF w
  <2>4. w = <<>> => Len(w) = 0
    BY EmptySeq, Zenon
  <2> QED
    BY <2>2, <2>4 DEF w
<1> QED
  BY <1>2, <1>3, <1>4, <1>5 DEF u, s

(* What the Python parser does with a symbol                               *)
Running(p) == p \in Parsers /\ NoHostYet(p) /\ Reading(p)

(* It reads on after a digit while the group is small, and after a dot     *)
(* that ends a group.                                                      *)
LEMMA PyReadsDigit ==
  ASSUME NEW p, Running(p), NEW s \in 0..255, isdigit(s),
         p.data * 10 + s - 48 <= 255
  PROVE  LET q == PySymbol(p, s)
         IN  /\ Reading(q) /\ q.index = p.index /\ q.result = p.result
             /\ q.data = p.data * 10 + s - 48 /\ q.digits = TRUE
<1> DEFINE data == p.data * 10 + (s - 48)
<1>1. data = p.data * 10 + s - 48 /\ 48 <= s /\ s <= 57 /\ ~(data > 255)
  BY DEF Running, Parsers, isdigit, UINT8_MAX
<1> HIDE DEF data
<1>2. PySymbol(p, s) = PyDigit(p, data)
  BY <1>1 DEF PySymbol, data
<1>3. PySymbol(p, s) = [p EXCEPT !.data = data, !.digits = TRUE]
  BY <1>1, <1>2 DEF PyDigit
<1> QED
  BY <1>1, <1>3 DEF Running, Parsers, Reading

(* The dot that ends one of the first three groups                         *)
LEMMA PyReadsDot ==
  ASSUME NEW p, Running(p), p.index <= 3, p.digits
  PROVE  LET q == PySymbol(p, Dot)
         IN  /\ Reading(q) /\ q.index = p.index + 1
             /\ q.result = [p.result EXCEPT ![p.index] = p.data]
             /\ q.data = 0 /\ q.digits = FALSE
<1> DEFINE r == [p.result EXCEPT ![p.index] = p.data]
<1>1. ~(p.index > 3) /\ ~(48 <= Dot /\ Dot <= 57)
  BY DEF Running, Parsers, Dot
<1>2. PySymbol(p, Dot) = PyDot(p)
  BY <1>1 DEF PySymbol
<1>3. PySymbol(p, Dot) =
        [p EXCEPT !.result = r, !.data = 0, !.index = p.index + 1,
                  !.digits = FALSE]
  BY <1>1, <1>2 DEF PyDot, Running, Parsers
<1> HIDE DEF r
<1>4. /\ Reading(PySymbol(p, Dot)) /\ PySymbol(p, Dot).index = p.index + 1
      /\ PySymbol(p, Dot).result = r
      /\ PySymbol(p, Dot).data = 0 /\ PySymbol(p, Dot).digits = FALSE
  BY <1>3 DEF Running, Parsers, Reading
<1> QED
  BY <1>4 DEF r

(* It reads on in no other case.                                           *)
LEMMA PyReadsNoMore ==
  ASSUME NEW p, Running(p), NEW s \in 0..255, Reading(PySymbol(p, s))
  PROVE  /\ Running(PySymbol(p, s))
         /\ \/ isdigit(s) /\ p.data * 10 + s - 48 <= 255
            \/ s = Dot /\ p.index <= 3 /\ p.digits
<1>1. PySymbol(p, s) \in Parsers /\ NoHostYet(PySymbol(p, s))
  BY SameSymbol, CppSymbolType DEF Running
<1>2. isdigit(s) <=> 48 <= s /\ s <= 57
  BY DEF isdigit
<1>3. CASE isdigit(s)
  <2> DEFINE data == p.data * 10 + (s - 48)
  <2>1. data = p.data * 10 + s - 48 /\ data \in Int
    BY <1>3 DEF Running, Parsers, isdigit, UINT8_MAX
  <2>2. PySymbol(p, s) = PyDigit(p, data)
    BY <1>2, <1>3 DEF PySymbol
  <2> HIDE DEF data
  <2>3. ~(data > 255)
    BY <2>2 DEF PyDigit, PyStop, Running, Parsers, Reading
  <2> QED
    BY <1>1, <1>3, <2>1, <2>3 DEF Running
<1>4. CASE ~isdigit(s) /\ s = Dot
  <2>1. PySymbol(p, s) = PyDot(p)
    BY <1>2, <1>4 DEF PySymbol
  <2>2. ~(p.index > 3) /\ p.digits
    BY <2>1 DEF PyDot, PyStop, Running, Parsers, Reading
  <2>3. p.index \in 1..4
    BY DEF Running, Parsers
  <2> QED
    BY <1>1, <1>4, <2>2, <2>3 DEF Running
<1>5. CASE ~isdigit(s) /\ s # Dot
  BY <1>2, <1>5 DEF PySymbol, PyStop, Running, Parsers, Reading
<1> QED
  BY <1>3, <1>4, <1>5

(* At the end it succeeds in the fourth group, and only there.             *)
LEMMA PyEnds ==
  ASSUME NEW p, Running(p)
  PROVE  /\ ~Reading(PyEnd(p))
         /\ PyEnd(p).err = "SUCCESS" <=> p.index = 4 /\ p.digits
         /\ p.index = 4 /\ p.digits =>
              PyEnd(p).result = [p.result EXCEPT ![4] = p.data]
  BY DEF PyEnd, PyStop, Running, Parsers, Reading

(* A group that a dot has ended at place e, and the group being read       *)
Closes(t, a, e, v) ==
  /\ e \in 1..Len(t) /\ t[e] = Dot
  /\ a \in 0..e - 1
  /\ IsGroup(Span(t, a, e - 1)) /\ Value(Span(t, a, e - 1)) = v
Opens(t, a, v, digits) ==
  /\ a \in 0..Len(t) /\ (digits <=> a < Len(t))
  /\ AllDigits(Span(t, a, Len(t))) /\ Value(Span(t, a, Len(t))) = v

(* A byte is not above 255.                                                *)
LEMMA IsByte == \A d \in 0..255 : d <= 255
  OBVIOUS

(* What follows a part does not change it.                                 *)
LEMMA SpanMore ==
  ASSUME NEW t \in Seq(0..255), NEW s \in 0..255, NEW n \in 0..Len(t),
         NEW a \in 0..n
  PROVE  Span(Append(t, s), a, n) = Span(t, a, n)
<1> DEFINE u == Append(t, s)
<1>1. /\ u \in Seq(0..255) /\ Len(u) = Len(t) + 1 /\ Len(t) \in Nat
      /\ \A i \in 1..Len(t) : u[i] = t[i]
  BY AppendProperties, LenProperties
<1> HIDE DEF u
<1>2. a \in Nat /\ n \in Nat /\ a <= n /\ n <= Len(t) /\ n <= Len(u)
  BY <1>1
<1>3. \A i \in 1..n : u[i] = t[i]
  BY <1>1, <1>2
<1>4. Span(u, a, n) = Span(t, a, n)
  BY ONLY <1>1, <1>2, <1>3, t \in Seq(0..255), SpanSame
<1> QED
  BY <1>4 DEF u

(* A group that has ended stays as it is.                                  *)
LEMMA StillClosed ==
  ASSUME NEW t \in Seq(0..255), NEW s \in 0..255, NEW a, NEW e, NEW v,
         Closes(t, a, e, v)
  PROVE  Closes(Append(t, s), a, e, v)
<1>1. /\ Len(t) \in Nat /\ e \in 1..Len(t) /\ e - 1 \in 0..Len(t)
      /\ a \in 0..e - 1
  BY LenProperties DEF Closes
<1>2. Span(Append(t, s), a, e - 1) = Span(t, a, e - 1)
  BY <1>1, SpanMore
<1>3. e \in 1..Len(Append(t, s)) /\ Append(t, s)[e] = t[e]
  BY <1>1, AppendProperties
<1> QED
  BY <1>1, <1>2, <1>3 DEF Closes

(* A digit prolongs the group being read.                                  *)
LEMMA OneDigitMore ==
  ASSUME NEW t \in Seq(0..255), NEW s \in 0..255, NEW a, NEW v, NEW d,
         Opens(t, a, v, d), isdigit(s)
  PROVE  Opens(Append(t, s), a, v * 10 + s - 48, TRUE)
<1> DEFINE u == Append(t, s)
           n == Len(t)
<1>1. /\ u \in Seq(0..255) /\ Len(u) = n + 1 /\ n \in Nat /\ u[n + 1] = s
  BY AppendProperties, LenProperties
<1>2. a \in Nat /\ a <= n /\ a \in 0..n /\ n \in 0..Len(t)
  BY <1>1 DEF Opens
<1>3. Span(u, a, n) = Span(t, a, n)
  BY <1>2, SpanMore
<1>4. /\ AllDigits(Span(t, a, n)) /\ Value(Span(t, a, n)) = v
  BY DEF Opens
<1> HIDE DEF u, n
<1>5. n < Len(u) /\ isdigit(u[n + 1])
  BY <1>1
<1>6. /\ Value(Span(u, a, n + 1)) = Value(Span(u, a, n)) * 10 + u[n + 1] - 48
      /\ AllDigits(Span(u, a, n)) => AllDigits(Span(u, a, n + 1))
  BY ONLY <1>1, <1>2, <1>5, SpanDigit
<1>7. /\ a \in 0..Len(u) /\ a < Len(u)
      /\ AllDigits(Span(u, a, Len(u)))
      /\ Value(Span(u, a, Len(u))) = v * 10 + s - 48
  BY <1>1, <1>2, <1>3, <1>4, <1>6
<1> QED
  BY <1>7 DEF Opens, u

(* A group that has a digit and is not too large is one of an address.     *)
LEMMA OpenIsGroup ==
  ASSUME NEW t \in Seq(0..255), NEW a, NEW v, Opens(t, a, v, TRUE), v <= 255
  PROVE  /\ a \in Nat /\ a < Len(t)
         /\ IsGroup(Span(t, a, Len(t))) /\ Value(Span(t, a, Len(t))) = v
<1> DEFINE n == Len(t)
           w == Span(t, a, n)
<1>1. n \in Nat /\ n <= Len(t)
  BY LenProperties
<1>2. a \in Nat /\ a < n
  BY <1>1 DEF Opens
<1>3. AllDigits(w) /\ Value(w) = v
  BY DEF Opens
<1>4. w # <<>>
  <2> HIDE DEF n
  <2>1. a <= n
    BY <1>1, <1>2
  <2>2. Len(w) = n - a
    BY ONLY <1>1, <1>2, <2>1, t \in Seq(0..255), SpanIs
  <2> HIDE DEF w
  <2>3. Len(w) # 0
    BY <1>1, <1>2, <2>2
  <2>4. w = <<>> => Len(w) = 0
    BY EmptySeq, Zenon
  <2> QED
    BY <2>3, <2>4
<1> HIDE DEF w
<1>5. IsGroup(w)
  BY <1>3, <1>4 DEF IsGroup, AllDigits, UINT8_MAX
<1> QED
  BY <1>2, <1>3, <1>5 DEF w

(* A dot ends the group being read and begins the next.                    *)
LEMMA ADotMore ==
  ASSUME NEW t \in Seq(0..255), NEW a, NEW v, Opens(t, a, v, TRUE), v <= 255
  PROVE  /\ Closes(Append(t, Dot), a, Len(t) + 1, v)
         /\ Opens(Append(t, Dot), Len(t) + 1, 0, FALSE)
<1> DEFINE u == Append(t, Dot)
           n == Len(t)
<1>0. Dot \in 0..255
  BY DEF Dot
<1>1. /\ u \in Seq(0..255) /\ Len(u) = n + 1 /\ n \in Nat /\ u[n + 1] = Dot
  BY <1>0, AppendProperties, LenProperties
<1>2. /\ a \in Nat /\ a < n
      /\ IsGroup(Span(t, a, n)) /\ Value(Span(t, a, n)) = v
  BY OpenIsGroup
<1>3. Span(u, a, n) = Span(t, a, n)
  <2>1. a \in 0..n /\ n \in 0..Len(t)
    BY <1>1, <1>2
  <2> QED
    BY <1>0, <2>1, SpanMore
<1> HIDE DEF u, n
<1>4. IsGroup(Span(u, a, n)) /\ Value(Span(u, a, n)) = v
  BY <1>2, <1>3
<1>5. Closes(u, a, n + 1, v)
  <2>1. n + 1 \in 1..Len(u) /\ (n + 1) - 1 = n
    BY <1>1
  <2> QED
    BY <1>1, <1>2, <1>4, <2>1 DEF Closes
<1>6. Opens(u, n + 1, 0, FALSE)
  <2>1. AllDigits(Span(u, Len(u), Len(u))) /\ Value(Span(u, Len(u), Len(u))) = 0
    BY <1>1, SpanNone
  <2> QED
    BY <1>1, <2>1 DEF Opens
<1> QED
  BY <1>5, <1>6 DEF u, n

(* Where the groups of the text read so far begin                          *)
Starts(p, t, b) ==
  /\ b \in [1..4 -> Nat] /\ b[1] = 0
  /\ \A g \in 1..3 : g < p.index => Closes(t, b[g], b[g + 1], p.result[g])
  /\ Opens(t, b[p.index], p.data, p.digits)

(* Before the first symbol the first group is open.                        *)
LEMMA StartsAtNone ==
  ASSUME NEW t, t = <<>>
  PROVE  \E b : Starts(Start, t, b)
<1> DEFINE b == [g \in 1..4 |-> 0]
<1>1. t \in Seq(0..255) /\ Len(t) = 0
  BY EmptySeq
<1>2. Opens(t, 0, 0, FALSE)
  <2>1. 0 \in Nat /\ 0 <= Len(t)
    BY <1>1
  <2>2. AllDigits(Span(t, 0, 0)) /\ Value(Span(t, 0, 0)) = 0
    BY <1>1, <2>1, SpanNone
  <2> QED
    BY <1>1, <2>2 DEF Opens
<1>3. Start.index = 1 /\ Start.data = 0 /\ Start.digits = FALSE
  BY DEF Start
<1>4. b \in [1..4 -> Nat] /\ b[1] = 0 /\ \A g \in 1..3 : ~(g < Start.index)
  BY <1>3
<1> HIDE DEF b
<1>5. Starts(Start, t, b)
  BY <1>2, <1>3, <1>4 DEF Starts
<1> QED
  BY <1>5

(* The groups are where they should be after one symbol more.              *)
LEMMA StartsMore ==
  ASSUME NEW p, Running(p), NEW t \in Seq(0..255), NEW b, Starts(p, t, b),
         NEW s \in 0..255, Reading(PySymbol(p, s))
  PROVE  \E c : Starts(PySymbol(p, s), Append(t, s), c)
<1> DEFINE q == PySymbol(p, s)
           u == Append(t, s)
           i == p.index
<1>1. /\ i \in 1..4 /\ p.data \in 0..255 /\ p.result \in [1..4 -> 0..255]
      /\ p.digits \in BOOLEAN
  BY DEF Running, Parsers, UINT8_MAX
<1>2. ASSUME NEW g \in 1..3, g < i PROVE Closes(u, b[g], b[g + 1], p.result[g])
  BY <1>2, StillClosed DEF Starts
<1>3. Opens(t, b[i], p.data, p.digits) /\ b \in [1..4 -> Nat] /\ b[1] = 0
  BY DEF Starts
<1>4. CASE isdigit(s) /\ p.data * 10 + s - 48 <= 255
  <2>1. /\ q.index = i /\ q.result = p.result
        /\ q.data = p.data * 10 + s - 48 /\ q.digits = TRUE
    BY <1>4, PyReadsDigit
  <2>2. Opens(u, b[i], p.data * 10 + s - 48, TRUE)
    BY <1>3, <1>4, OneDigitMore
  <2> HIDE DEF q, u, i
  <2>3. Starts(q, u, b)
    BY <1>2, <1>3, <2>1, <2>2 DEF Starts
  <2> QED
    BY <2>3 DEF q, u
<1>5. CASE s = Dot /\ i <= 3 /\ p.digits
  <2> DEFINE n == Len(t)
             r == [p.result EXCEPT ![i] = p.data]
             c == [b EXCEPT ![i + 1] = n + 1]
  <2>1. /\ q.index = i + 1 /\ q.result = r /\ q.data = 0 /\ q.digits = FALSE
    BY <1>5, PyReadsDot
  <2>2. Closes(u, b[i], n + 1, p.data) /\ Opens(u, n + 1, 0, FALSE)
    <3>1. p.digits = TRUE
      BY <1>1, <1>5, Zenon
    <3>2. p.data <= 255
      BY <1>1, IsByte, Zenon
    <3>3. Opens(t, b[i], p.data, TRUE)
      BY <1>3, <3>1, Zenon
    <3> HIDE DEF i, n
    <3>4. /\ Closes(Append(t, Dot), b[i], Len(t) + 1, p.data)
          /\ Opens(Append(t, Dot), Len(t) + 1, 0, FALSE)
      BY ONLY <3>2, <3>3, t \in Seq(0..255), ADotMore
    <3> QED
      BY <1>5, <3>4, Zenon DEF n
  <2>3. n \in Nat /\ i \in 1..3 /\ i + 1 \in 1..4
    BY <1>1, <1>5, LenProperties
  <2>4. c \in [1..4 -> Nat] /\ c[1] = 0 /\ c[i + 1] = n + 1
        /\ \A g \in 1..4 : g # i + 1 => c[g] = b[g]
    BY <1>3, <2>3
  <2>5. r[i] = p.data /\ \A g \in 1..4 : g # i => r[g] = p.result[g]
    BY <1>1
  <2> HIDE DEF q, u, i, n, r, c
  <2>6. ASSUME NEW g \in 1..3, g < i + 1 PROVE Closes(u, c[g], c[g + 1], r[g])
    <3>1. CASE g = i
      <4>1. c[g] = b[i] /\ c[g + 1] = n + 1 /\ r[g] = p.data
        BY <2>3, <2>4, <2>5, <3>1
      <4> QED
        BY <2>2, <4>1
    <3>2. CASE g # i
      <4>1. g < i /\ g # i + 1 /\ g + 1 # i + 1 /\ g + 1 \in 1..4
        BY <2>3, <2>6, <3>2
      <4>2. c[g] = b[g] /\ c[g + 1] = b[g + 1] /\ r[g] = p.result[g]
        BY <2>4, <2>5, <4>1
      <4> QED
        BY <1>2, <4>1, <4>2
    <3> QED
      BY <3>1, <3>2
  <2>7. Opens(u, c[i + 1], 0, FALSE)
    BY <2>2, <2>4
  <2>8. Starts(q, u, c)
    BY <2>1, <2>4, <2>6, <2>7 DEF Starts
  <2> QED
    BY <2>8 DEF q, u
<1> QED
  BY <1>4, <1>5, PyReadsNoMore

(* With four groups, and a digit in the fourth, the text is an address.    *)
LEMMA StartsAddress ==
  ASSUME NEW p, Running(p), NEW t \in Seq(0..255), NEW b, Starts(p, t, b),
         p.index = 4, p.digits
  PROVE  IsAddress(t, [p.result EXCEPT ![4] = p.data])
<1> DEFINE r == [p.result EXCEPT ![4] = p.data]
           n == Len(t)
           bounds == <<0, b[2], b[3], b[4], n + 1>>
<1>1. n \in Nat /\ p.data \in 0..255 /\ p.result \in [1..4 -> 0..255]
  BY LenProperties DEF Running, Parsers, UINT8_MAX
<1>2. r[4] = p.data /\ \A g \in 1..3 : r[g] = p.result[g]
  BY <1>1
<1>3. b[1] = 0 /\ Opens(t, b[4], p.data, TRUE)
      /\ \A g \in 1..3 : Closes(t, b[g], b[g + 1], p.result[g])
  <2>1. p.digits = TRUE /\ \A g \in 1..3 : g < p.index
    BY DEF Running, Parsers
  <2> QED
    BY <2>1 DEF Starts
<1>4. /\ Closes(t, b[1], b[2], r[1]) /\ Closes(t, b[2], b[3], r[2])
      /\ Closes(t, b[3], b[4], r[3])
  BY <1>2, <1>3
<1>5. \A d \in {b[2], b[3], b[4]} : d \in 1..n /\ t[d] = Dot
  BY <1>4 DEF Closes
<1>6. bounds \in Bounds(t)
  BY <1>5 DEF Bounds
<1>7. IsGroup(Span(t, b[4], n)) /\ Value(Span(t, b[4], n)) = r[4]
  <2>1. p.data <= 255
    BY <1>1, IsByte, Zenon
  <2>2. Opens(t, b[4], p.data, TRUE)
    BY <1>3
  <2>3. IsGroup(Span(t, b[4], n)) /\ Value(Span(t, b[4], n)) = p.data
    BY <2>1, <2>2, OpenIsGroup
  <2> QED
    BY <1>2, <2>3, Zenon
<1>8. /\ Group(t, bounds, 1) = Span(t, b[1], b[2] - 1)
      /\ Group(t, bounds, 2) = Span(t, b[2], b[3] - 1)
      /\ Group(t, bounds, 3) = Span(t, b[3], b[4] - 1)
      /\ Group(t, bounds, 4) = Span(t, b[4], n)
  <2>1. (n + 1) - 1 = n
    BY <1>1
  <2>2. /\ bounds[1] = b[1] /\ bounds[2] = b[2] /\ bounds[3] = b[3]
        /\ bounds[4] = b[4] /\ bounds[5] = n + 1
    BY <1>3
  <2>3. 1 + 1 = 2 /\ 2 + 1 = 3 /\ 3 + 1 = 4 /\ 4 + 1 = 5
    OBVIOUS
  <2> HIDE DEF bounds, n
  <2> QED
    BY <2>1, <2>2, <2>3 DEF Group, Span
<1> HIDE DEF r, bounds, n
<1>9. \A g \in 1..4 :
        IsGroup(Group(t, bounds, g)) /\ Value(Group(t, bounds, g)) = r[g]
  <2>1. /\ IsGroup(Group(t, bounds, 1)) /\ Value(Group(t, bounds, 1)) = r[1]
        /\ IsGroup(Group(t, bounds, 2)) /\ Value(Group(t, bounds, 2)) = r[2]
        /\ IsGroup(Group(t, bounds, 3)) /\ Value(Group(t, bounds, 3)) = r[3]
    BY <1>4, <1>8 DEF Closes
  <2>2. \A g \in 1..4 : g = 1 \/ g = 2 \/ g = 3 \/ g = 4
    OBVIOUS
  <2> QED
    BY <1>7, <1>8, <2>1, <2>2
<1> QED
  BY <1>6, <1>9 DEF IsAddress, r

(* A text of four good groups, and where they begin and end                *)
FourGroups(u, c) ==
  c \in Bounds(u) /\ \A g \in 1..4 : IsGroup(Group(u, c, g))
GroupAt(u, a, e) ==
  /\ a \in Nat /\ e \in Nat /\ a + 1 < e /\ e <= Len(u) + 1
  /\ AllDigits(Span(u, a, e - 1)) /\ Value(Span(u, a, e - 1)) <= 255

(* Each of the four groups lies between two of the bounds, and has a digit.*)
LEMMA WhereGroupsAre ==
  ASSUME NEW u \in Seq(0..255), NEW c, FourGroups(u, c)
  PROVE  /\ c[1] = 0 /\ c[5] = Len(u) + 1
         /\ \A g \in 1..4 : GroupAt(u, c[g], c[g + 1])
         /\ \A g \in 1..3 : c[g + 1] \in 1..Len(u) /\ u[c[g + 1]] = Dot
<1>1. Len(u) \in Nat
  BY LenProperties
<1>2. PICK i \in 1..Len(u), j \in 1..Len(u), k \in 1..Len(u) :
        /\ c = <<0, i, j, k, Len(u) + 1>>
        /\ u[i] = Dot /\ u[j] = Dot /\ u[k] = Dot
  BY DEF FourGroups, Bounds
<1>3. c[1] = 0 /\ c[2] = i /\ c[3] = j /\ c[4] = k /\ c[5] = Len(u) + 1
  BY <1>2
<1>4. \A g \in 1..3 : c[g + 1] \in 1..Len(u) /\ u[c[g + 1]] = Dot
  <2>1. \A g \in 1..3 : g = 1 \/ g = 2 \/ g = 3
    OBVIOUS
  <2>2. 1 + 1 = 2 /\ 2 + 1 = 3 /\ 3 + 1 = 4
    OBVIOUS
  <2> QED
    BY <1>2, <1>3, <2>1, <2>2
<1>5. \A g \in 1..4 : c[g] \in Nat /\ c[g + 1] \in Nat /\ c[g + 1] <= Len(u) + 1
  <2>1. \A g \in 1..4 : g = 1 \/ g = 2 \/ g = 3 \/ g = 4
    OBVIOUS
  <2>2. 1 + 1 = 2 /\ 2 + 1 = 3 /\ 3 + 1 = 4 /\ 4 + 1 = 5
    OBVIOUS
  <2> QED
    BY <1>1, <1>3, <2>1, <2>2
<1>6. ASSUME NEW g \in 1..4 PROVE GroupAt(u, c[g], c[g + 1])
  <2> DEFINE a == c[g]
             e == c[g + 1]
             v == SubSeq(u, a + 1, e - 1)
  <2>1. a \in Nat /\ e \in Nat /\ e <= Len(u) + 1
    BY <1>5
  <2>2. IsGroup(v)
    BY DEF FourGroups, Group
  <2>3. a + 1 < e
    <3> SUFFICES ASSUME ~(a + 1 < e) PROVE FALSE
      OBVIOUS
    <3> HIDE DEF a, e
    <3>1. ~(a + 1 <= e - 1)
      BY <2>1
    <3>2. a + 1 \in Int /\ e - 1 \in Int
      BY <2>1
    <3>3. \A x \in a + 1..e - 1 : u[x] \in 0..255
      BY <3>1, <3>2
    <3>4. v \in Seq(0..255) /\ Len(v) = 0
      BY ONLY <3>1, <3>2, <3>3, u \in Seq(0..255), SubSeqProperties
    <3>5. v = <<>>
      BY <3>4, EmptySeq
    <3> QED
      BY <2>2, <3>5 DEF IsGroup
  <2>4. AllDigits(v) /\ Value(v) <= 255
    BY <2>2 DEF IsGroup, AllDigits, UINT8_MAX
  <2>5. v = Span(u, a, e - 1)
    BY DEF Span
  <2> HIDE DEF v
  <2> QED
    BY <2>1, <2>3, <2>4, <2>5 DEF GroupAt
<1> QED
  BY <1>3, <1>4, <1>6

(* Inside a group the next symbol is a digit, and the number stays small.  *)
LEMMA InAGroup ==
  ASSUME NEW u \in Seq(0..255), NEW a, NEW e, GroupAt(u, a, e),
         NEW n \in Nat, a <= n, n + 1 < e
  PROVE  /\ isdigit(u[n + 1])
         /\ Value(Span(u, a, n + 1)) = Value(Span(u, a, n)) * 10 + u[n + 1] - 48
         /\ Value(Span(u, a, n + 1)) <= 255
<1> DEFINE last == e - 1
           k == n + 1
           w == Span(u, a, last)
           v == Span(u, a, k)
           m == k - a
<1>1. /\ a \in Nat /\ last \in Nat /\ k \in Nat /\ Len(u) \in Nat
      /\ a <= last /\ last <= Len(u) /\ a <= k /\ k <= last
      /\ k <= Len(u) /\ n < Len(u) /\ a < k
  BY LenProperties DEF GroupAt
<1>a. ASSUME NEW x \in Nat, a <= x, x <= Len(u)
      PROVE  /\ Span(u, a, x) \in Seq(0..255) /\ Len(Span(u, a, x)) = x - a
             /\ \A i \in 1..x - a : Span(u, a, x)[i] = u[a + i]
  BY ONLY <1>1, <1>a, u \in Seq(0..255), SpanIs
<1> HIDE DEF last, k
<1>2. /\ w \in Seq(0..255) /\ Len(w) = last - a
      /\ \A i \in 1..last - a : w[i] = u[a + i]
  BY <1>1, <1>a
<1>3. /\ v \in Seq(0..255) /\ Len(v) = m
      /\ \A i \in 1..m : v[i] = u[a + i]
  BY <1>1, <1>a
<1>4. AllDigits(w) /\ Value(w) <= 255
  BY DEF GroupAt, last
<1> HIDE DEF w, v
<1>5. m \in 0..Len(w) /\ m \in 1..Len(w) /\ a + m = k
  BY <1>1, <1>2
<1>6. ASSUME NEW i \in 1..m PROVE w[i] = v[i]
  <2>1. i \in 1..last - a
    BY <1>1
  <2>2. w[i] = u[a + i]
    BY <1>2, <2>1
  <2>3. v[i] = u[a + i]
    BY <1>3
  <2> QED
    BY <2>2, <2>3
<1>7. isdigit(u[n + 1])
  <2>1. w[m] = u[k]
    BY <1>1, <1>2, <1>5
  <2> QED
    BY <1>4, <1>5, <2>1 DEF AllDigits, k
<1> HIDE DEF m
<1>8. Value(v) <= Value(w) /\ Value(v) \in Nat
  BY ONLY <1>2, <1>3, <1>4, <1>5, <1>6, ValueGrows
<1>9. Value(w) \in Int
  BY <1>2, ValueType
<1>10. Value(v) <= 255
  BY <1>4, <1>8, <1>9
<1>11. Value(Span(u, a, n + 1)) = Value(Span(u, a, n)) * 10 + u[n + 1] - 48
  BY ONLY <1>1, <1>7, u \in Seq(0..255), n \in Nat, a <= n, SpanDigit
<1> QED
  BY <1>7, <1>10, <1>11 DEF v, k

(* The Python parser keeps up with such a text.                            *)
Follows(p, u, c, n) ==
  /\ c[p.index] <= n /\ n < c[p.index + 1]
  /\ p.data = Value(Span(u, c[p.index], n))
  /\ p.digits <=> c[p.index] < n

(* One symbol later the parser is still in the group the text is in.       *)
LEMMA FollowsMore ==
  ASSUME NEW u \in Seq(0..255), NEW c, FourGroups(u, c),
         NEW p, Running(p), NEW n \in Nat, n < Len(u), Follows(p, u, c, n)
  PROVE  LET q == PySymbol(p, u[n + 1])
         IN  Reading(q) /\ Follows(q, u, c, n + 1)
<1> DEFINE i == p.index
           s == u[n + 1]
           q == PySymbol(p, s)
           a == c[i]
           e == c[i + 1]
<1>1. /\ i \in 1..4 /\ p.digits \in BOOLEAN /\ GroupAt(u, a, e)
      /\ c[5] = Len(u) + 1
      /\ i + 1 \in 1..4 => GroupAt(u, c[i + 1], c[(i + 1) + 1])
      /\ i <= 3 => e \in 1..Len(u) /\ u[e] = Dot
  <2>1. i \in 1..4 /\ p.digits \in BOOLEAN
    BY DEF Running, Parsers
  <2>2. /\ c[5] = Len(u) + 1
        /\ \A g \in 1..4 : GroupAt(u, c[g], c[g + 1])
        /\ \A g \in 1..3 : c[g + 1] \in 1..Len(u) /\ u[c[g + 1]] = Dot
    BY WhereGroupsAre
  <2> HIDE DEF i
  <2>3. i <= 3 => i \in 1..3
    BY <2>1
  <2> QED
    BY <2>1, <2>2, <2>3
<1>2. /\ a <= n /\ n < e /\ p.data = Value(Span(u, a, n))
      /\ p.digits <=> a < n
  BY DEF Follows
<1>3. /\ Len(u) \in Nat /\ a \in Nat /\ e \in Nat
      /\ a + 1 < e /\ n + 1 \in 1..Len(u)
  BY <1>1, LenProperties DEF GroupAt
<1>4. s \in 0..255
  BY <1>3, ElementOfSeq
<1>5. CASE n + 1 < e
  <2>1. /\ isdigit(s) /\ Value(Span(u, a, n + 1)) <= 255
        /\ Value(Span(u, a, n + 1)) = Value(Span(u, a, n)) * 10 + s - 48
    BY <1>1, <1>2, <1>5, InAGroup
  <2> HIDE DEF s, a, e, i
  <2>2. p.data * 10 + s - 48 <= 255
    BY <1>2, <2>1
  <2>3. /\ Reading(q) /\ q.index = p.index
        /\ q.data = p.data * 10 + s - 48 /\ q.digits = TRUE
    BY <1>4, <2>1, <2>2, PyReadsDigit
  <2>4. a <= n + 1 /\ n + 1 < e /\ a < n + 1
    BY <1>2, <1>3, <1>5
  <2>5. q.data = Value(Span(u, a, n + 1))
    BY <1>2, <2>1, <2>3
  <2> HIDE DEF q
  <2>6. Follows(q, u, c, n + 1)
    BY <2>3, <2>4, <2>5, Zenon DEF Follows, a, e, i
  <2> QED
    BY <2>3, <2>6 DEF q, s
<1>6. CASE ~(n + 1 < e)
  <2>1. n + 1 = e /\ a < n
    BY <1>2, <1>3, <1>6
  <2>2. i <= 3
    BY <1>1, <1>3, <2>1
  <2>3. s = Dot /\ p.digits
    BY <1>1, <1>2, <2>1, <2>2
  <2>4. /\ Reading(PySymbol(p, Dot)) /\ PySymbol(p, Dot).index = p.index + 1
        /\ PySymbol(p, Dot).data = 0 /\ PySymbol(p, Dot).digits = FALSE
    BY <2>2, <2>3, PyReadsDot
  <2>5. /\ Reading(q) /\ q.index = i + 1 /\ q.data = 0 /\ q.digits = FALSE
    BY <2>3, <2>4
  <2>6. GroupAt(u, e, c[(i + 1) + 1])
    BY <1>1, <2>2
  <2>7. n + 1 < c[(i + 1) + 1] /\ e <= n + 1 /\ ~(e < n + 1)
    BY <1>3, <2>1, <2>6 DEF GroupAt
  <2>8. Value(Span(u, e, n + 1)) = 0
    <3>1. n + 1 \in Nat /\ n + 1 <= Len(u)
      BY <1>3
    <3>2. Value(Span(u, n + 1, n + 1)) = 0
      BY ONLY <3>1, u \in Seq(0..255), SpanNone
    <3> QED
      BY <2>1, <3>2
  <2> HIDE DEF q, s, a, i
  <2>9. c[q.index] = e /\ c[q.index + 1] = c[(i + 1) + 1]
    BY <2>5
  <2> HIDE DEF e
  <2>10. Follows(q, u, c, n + 1)
    BY <2>5, <2>7, <2>8, <2>9 DEF Follows
  <2> QED
    BY <2>5, <2>10 DEF q, s
<1> QED
  BY <1>5, <1>6

(* At the end of such a text it is in the fourth group, with a digit.      *)
LEMMA FollowsToTheEnd ==
  ASSUME NEW u \in Seq(0..255), NEW c, FourGroups(u, c),
         NEW p, Running(p), Follows(p, u, c, Len(u))
  PROVE  p.index = 4 /\ p.digits
<1>1. p.index \in 1..4 /\ Len(u) \in Nat
  BY LenProperties DEF Running, Parsers
<1>2. ~(p.index \in 1..3)
  <2> SUFFICES ASSUME p.index \in 1..3 PROVE FALSE
    OBVIOUS
  <2>1. c[p.index + 1] \in 1..Len(u)
    BY WhereGroupsAre
  <2>2. Len(u) < c[p.index + 1]
    BY DEF Follows
  <2> QED
    BY <1>1, <2>1, <2>2
<1>3. p.index = 4
  BY <1>1, <1>2
<1>4. GroupAt(u, c[4], c[5]) /\ c[5] = Len(u) + 1
  <2>1. 4 \in 1..4 /\ 4 + 1 = 5
    OBVIOUS
  <2> QED
    BY <2>1, WhereGroupsAre
<1>5. c[4] < Len(u)
  BY <1>1, <1>4 DEF GroupAt
<1> QED
  BY <1>3, <1>5 DEF Follows

(* The groups of the text so far are the groups the parser has read, and   *)
(* whatever the rest may be, the parser keeps up with a text that is good. *)
Begins(u, t) == \A i \in 1..Len(t) : u[i] = t[i]
KeepsUp(p, t, n) ==
  \A u \in Seq(0..255) : \A c \in Bounds(u) :
    FourGroups(u, c) /\ Len(u) = n /\ Begins(u, t) =>
      p.err = "SUCCESS" \/ (Reading(p) /\ Follows(p, u, c, Len(t)))

AddressInv ==
  /\ size \in Nat /\ text \in Seq(0..255) /\ Len(text) <= size
  /\ Reading(py) => Running(py) /\ \E b : Starts(py, text, b)
  /\ py.err = "SUCCESS" => Len(text) = size /\ IsAddress(text, py.result)
  /\ KeepsUp(py, text, size)

(* Both directions hold before the first symbol.                           *)
LEMMA AddressInvInit == Ipv4Init => AddressInv
<1> SUFFICES ASSUME Ipv4Init PROVE AddressInv
  OBVIOUS
<1>1. size \in Nat /\ text = <<>> /\ py = Start
  BY Ipv4Assumption DEF Ipv4Init
<1>2. text \in Seq(0..255) /\ Len(text) = 0
  BY <1>1, EmptySeq
<1>3. Running(Start)
  BY DEF Start, Running, Parsers, NoHostYet, Reading, UINT8_MAX
<1>4. ASSUME NEW u \in Seq(0..255), NEW c, FourGroups(u, c)
      PROVE  Follows(Start, u, c, 0)
  <2>1. Start.index = 1 /\ Start.data = 0 /\ Start.digits = FALSE
    BY DEF Start
  <2>2. c[1] = 0 /\ GroupAt(u, c[1], c[1 + 1])
    <3>1. 1 \in 1..4
      OBVIOUS
    <3> QED
      BY <1>4, <3>1, WhereGroupsAre
  <2>3. 0 < c[1 + 1]
    BY <2>2 DEF GroupAt
  <2>4. Value(Span(u, 0, 0)) = 0
    <3>1. 0 \in Nat /\ 0 <= Len(u)
      BY LenProperties
    <3> QED
      BY <3>1, SpanNone
  <2> QED
    BY <2>1, <2>2, <2>3, <2>4 DEF Follows
<1>5. KeepsUp(py, text, size)
  BY <1>1, <1>2, <1>3, <1>4 DEF KeepsUp, Running
<1>6. \E b : Starts(py, text, b)
  BY <1>1, StartsAtNone
<1>7. py.err # "SUCCESS"
  BY <1>1 DEF Start
<1> QED
  BY <1>1, <1>2, <1>3, <1>5, <1>6, <1>7 DEF AddressInv

(* One symbol more, of the text of which it is the next                    *)
LEMMA KeepsUpMore ==
  ASSUME NEW p, p.err # "SUCCESS", Reading(p) => Running(p),
         NEW t \in Seq(0..255), NEW n \in Nat, Len(t) < n,
         KeepsUp(p, t, n), NEW s \in 0..255
  PROVE  KeepsUp(IF Reading(p) THEN PySymbol(p, s) ELSE p, Append(t, s), n)
<1> DEFINE q == IF Reading(p) THEN PySymbol(p, s) ELSE p
           v == Append(t, s)
<1>1. /\ Len(v) = Len(t) + 1 /\ v[Len(t) + 1] = s /\ Len(t) \in Nat
      /\ \A i \in 1..Len(t) : v[i] = t[i]
  BY AppendProperties, LenProperties
<1>2. ASSUME NEW u \in Seq(0..255), NEW c \in Bounds(u),
             FourGroups(u, c), Len(u) = n, Begins(u, v)
      PROVE  Reading(q) /\ Follows(q, u, c, Len(v))
  <2> HIDE DEF v
  <2>1. Begins(u, t) /\ u[Len(t) + 1] = s
    <3>1. Len(t) + 1 \in 1..Len(v) /\ \A i \in 1..Len(t) : i \in 1..Len(v)
      BY <1>1
    <3> QED
      BY <1>1, <1>2, <3>1 DEF Begins
  <2>2. Reading(p) /\ Follows(p, u, c, Len(t))
    BY <1>2, <2>1 DEF KeepsUp
  <2>3. Running(p) /\ Len(t) \in Nat /\ Len(t) < Len(u)
    BY <1>1, <1>2, <2>2
  <2> DEFINE k == Len(t)
  <2>4. k \in Nat /\ k < Len(u) /\ Follows(p, u, c, k)
    BY <2>2, <2>3
  <2> HIDE DEF k
  <2>5. /\ Reading(PySymbol(p, u[k + 1]))
        /\ Follows(PySymbol(p, u[k + 1]), u, c, k + 1)
    BY ONLY <1>2, <2>3, <2>4, FollowsMore
  <2> QED
    BY <1>1, <2>1, <2>2, <2>5 DEF k
<1> HIDE DEF q, v
<1>3. KeepsUp(q, v, n)
  BY <1>2 DEF KeepsUp
<1> QED
  BY <1>3 DEF q, v

(* Every step of the two parsers keeps both directions.                    *)
LEMMA AddressInvStep == AddressInv /\ [Ipv4Next]_ipv4Vars => AddressInv'
<1> SUFFICES ASSUME AddressInv, [Ipv4Next]_ipv4Vars PROVE AddressInv'
  OBVIOUS
<1>1. ASSUME NEW s \in Symbols, ReadSymbol(s) PROVE AddressInv'
  <2>1. s \in 0..255
    BY Ipv4Assumption
  <2>2. /\ Len(text) < size /\ size' = size /\ text' = Append(text, s)
        /\ py' = IF Reading(py) THEN PySymbol(py, s) ELSE py
    BY <1>1 DEF ReadSymbol
  <2>3. /\ size \in Nat /\ text \in Seq(0..255) /\ KeepsUp(py, text, size)
        /\ Reading(py) => Running(py) /\ \E b : Starts(py, text, b)
        /\ py.err = "SUCCESS" => Len(text) = size
    BY DEF AddressInv
  <2>4. py.err # "SUCCESS" /\ Len(text) \in Nat
    BY <2>2, <2>3, LenProperties
  <2>5. text' \in Seq(0..255) /\ Len(text') <= size'
    BY <2>1, <2>2, <2>3, <2>4, AppendProperties
  <2>6. KeepsUp(py', text', size')
    <3>1. KeepsUp(IF Reading(py) THEN PySymbol(py, s) ELSE py,
                  Append(text, s), size)
      BY <2>1, <2>2, <2>3, <2>4, KeepsUpMore
    <3> QED
      BY <2>2, <3>1
  <2>7. ASSUME Reading(py') PROVE Running(py') /\ \E b : Starts(py', text', b)
    <3>1. Reading(py) /\ py' = PySymbol(py, s) /\ Reading(PySymbol(py, s))
      BY <2>2, <2>7 DEF Reading
    <3>2. Running(py) /\ \E b : Starts(py, text, b)
      BY <2>3, <3>1
    <3>3. Running(PySymbol(py, s))
      BY <2>1, <3>1, <3>2, PyReadsNoMore
    <3>4. \E b : Starts(PySymbol(py, s), Append(text, s), b)
      BY <2>1, <2>3, <3>1, <3>2, StartsMore
    <3> QED
      BY <2>2, <3>1, <3>3, <3>4
  <2>8. py'.err # "SUCCESS"
    <3>1. CASE Reading(py)
      <4>1. py \in Parsers /\ py' = PySymbol(py, s)
        BY <2>2, <2>3, <3>1 DEF Running
      <4> QED
        BY <4>1, <3>1 DEF PySymbol, PyDigit, PyDot, PyStop, Parsers, Reading
    <3> QED
      BY <2>2, <2>4, <3>1
  <2> QED
    BY <2>2, <2>3, <2>5, <2>6, <2>7, <2>8 DEF AddressInv
<1>2. CASE PyFinish
  <2>1. /\ Reading(py) /\ Len(text) = size
        /\ py' = PyEnd(py) /\ UNCHANGED <<size, text>>
    BY <1>2 DEF PyFinish
  <2>2. /\ Running(py) /\ \E b : Starts(py, text, b)
        /\ size \in Nat /\ text \in Seq(0..255) /\ KeepsUp(py, text, size)
    BY <2>1 DEF AddressInv
  <2>3. /\ ~Reading(py') /\ (py'.err = "SUCCESS" <=> py.index = 4 /\ py.digits)
        /\ py.index = 4 /\ py.digits =>
             py'.result = [py.result EXCEPT ![4] = py.data]
    BY <2>1, <2>2, PyEnds
  <2>4. ASSUME py'.err = "SUCCESS" PROVE IsAddress(text, py'.result)
    BY <2>2, <2>3, <2>4, StartsAddress
  <2>5. ASSUME NEW u \in Seq(0..255), NEW c \in Bounds(u),
               FourGroups(u, c), Len(u) = size, Begins(u, text)
        PROVE  py'.err = "SUCCESS"
    <3>1. Follows(py, u, c, Len(text))
      BY <2>1, <2>2, <2>5 DEF KeepsUp, Reading
    <3>2. Follows(py, u, c, Len(u))
      BY <2>1, <2>5, <3>1
    <3> QED
      BY <2>2, <2>3, <2>5, <3>2, FollowsToTheEnd
  <2>6. KeepsUp(py', text, size)
    <3> DEFINE q == py'
    <3>1. ASSUME NEW u \in Seq(0..255), NEW c \in Bounds(u),
                 FourGroups(u, c), Len(u) = size, Begins(u, text)
          PROVE  q.err = "SUCCESS"
      BY <2>5, <3>1
    <3> HIDE DEF q
    <3>2. KeepsUp(q, text, size)
      BY <3>1 DEF KeepsUp
    <3> QED
      BY <3>2 DEF q
  <2> QED
    BY <2>1, <2>2, <2>3, <2>4, <2>6 DEF AddressInv
<1>3. CASE CppFinish \/ UNCHANGED ipv4Vars
  <2>1. UNCHANGED <<size, text, py>>
    BY <1>3 DEF CppFinish, ipv4Vars
  <2> QED
    BY <2>1 DEF AddressInv, Reading
<1> QED
  BY <1>1, <1>2, <1>3 DEF Ipv4Next

(* ipv4.py accepts a text exactly when it is four groups of digits, none   *)
(* above 255, and as the address they say, for texts of every length.      *)
THEOREM AddressesAreAccepted == Ipv4Spec => []AcceptsAddresses
<1>1. AddressInv => AcceptsAddresses
  <2> SUFFICES ASSUME AddressInv, ~Reading(py) PROVE AcceptsAddresses
    BY DEF AcceptsAddresses
  <2>1. ASSUME py.err # "SUCCESS", NEW c \in Bounds(text), Len(text) = size,
               \A g \in 1..4 : IsGroup(Group(text, c, g))
        PROVE  FALSE
    <3>1. text \in Seq(0..255) /\ KeepsUp(py, text, size)
      BY DEF AddressInv
    <3>2. FourGroups(text, c) /\ Begins(text, text)
      BY <2>1 DEF FourGroups, Begins
    <3> QED
      BY <2>1, <3>1, <3>2 DEF KeepsUp
  <2>2. py.err = "SUCCESS" => IsAddress(text, py.result)
    BY DEF AddressInv
  <2> QED
    BY <2>1, <2>2 DEF AcceptsAddresses
<1> QED
  BY <1>1, AddressInvInit, AddressInvStep, PTL DEF Ipv4Spec
-----------------------------------------------------------------------------
(***************************************************************************)
(* The wrappers of single values.                                          *)
(***************************************************************************)
(* Every class reads the type it writes, and what an object has a right to *)
(* read is in its entry.                                                   *)
EntryInv ==
  /\ class \in [Objects -> Classes]
  /\ at \in [Objects -> Places \cup {Null}]
  /\ name \in [Places -> Names]
  /\ entry \in [Types \X Names -> {Null} \cup Nat]
  /\ wrote \in [Objects -> {Null} \cup Nat]
  /\ \A o \in Objects :
       wrote[o] # Null =>
         /\ at[o] \in Places
         /\ entry[<<class[o].gets, name[at[o]]>>] = Kept(o, wrote[o])

(* No class writes under one type and reads under another.                 *)
LEMMA ReadsWhatItWrites ==
  ASSUME NEW c \in Classes
  PROVE  c.puts \in Types /\ c.gets = c.puts
  BY DEF Classes, Types, Class, nv_t, nv_float, nv_uint8_t, nv_uint32_t,
         nv_int32_t, nv_bool

(* A value that has been cut to its truth once is not changed by being cut *)
(* again when it is read.                                                  *)
LEMMA KeptTwice ==
  ASSUME NEW o \in Objects, NEW v \in Nat
  PROVE  Kept(o, v) \in Nat /\ Kept(o, Kept(o, v)) = Kept(o, v)
  BY DEF Kept, Truth

(* A write under a name reaches no entry under another name.               *)
LEMMA AssignKeeps ==
  ASSUME EntryInv, NEW o \in Objects, NEW v \in Nat, NEW lost \in BOOLEAN,
         Assign(o, v, lost)
  PROVE  EntryInv'
<1> USE NullAssumption
<1> DEFINE n == name[at[o]]
           s == <<class[o].puts, n>>
<1>1. /\ at[o] \in Places /\ n \in Names /\ s \in Types \X Names
  <2>1. at[o] \in Places /\ n \in Names
    BY DEF EntryInv, Assign
  <2>2. class[o].puts \in Types
    BY ReadsWhatItWrites DEF EntryInv
  <2> QED
    BY <2>1, <2>2
<1>2. entry' = [e \in Types \X Names |->
                  IF e = s THEN Kept(o, v)
                  ELSE IF lost /\ e[2] = n THEN Null ELSE entry[e]]
  BY DEF Assign, EntryInv
<1>3. wrote' = [p \in Objects |->
                  IF p = o THEN v
                  ELSE IF at[p] # Null /\ name[at[p]] = n THEN Null
                  ELSE wrote[p]]
  BY DEF Assign
<1>4. class' = class /\ name' = name /\ at' = at
  BY DEF Assign
<1>5. entry' \in [Types \X Names -> {Null} \cup Nat]
  BY <1>2, KeptTwice DEF EntryInv
<1>6. wrote' \in [Objects -> {Null} \cup Nat]
  BY <1>3 DEF EntryInv
<1>7. ASSUME NEW p \in Objects, wrote'[p] # Null
      PROVE  /\ at[p] \in Places
             /\ entry'[<<class[p].gets, name[at[p]]>>] = Kept(p, wrote'[p])
  <2>1. CASE p = o
    <3>1. <<class[p].gets, name[at[p]]>> = s
      BY <2>1, ReadsWhatItWrites DEF EntryInv
    <3>2. wrote'[p] = v
      BY <1>3, <2>1
    <3> QED
      BY <1>1, <1>2, <2>1, <3>1, <3>2
  <2>2. CASE p # o
    <3>1. /\ ~(at[p] # Null /\ name[at[p]] = n)
          /\ wrote'[p] = wrote[p]
      BY <1>3, <1>7, <2>2
    <3>2. /\ at[p] \in Places
          /\ entry[<<class[p].gets, name[at[p]]>>] = Kept(p, wrote[p])
      BY <1>7, <3>1 DEF EntryInv
    <3>3. name[at[p]] # n
      BY <3>1, <3>2
    <3>4. <<class[p].gets, name[at[p]]>> \in Types \X Names
      BY <3>2, ReadsWhatItWrites DEF EntryInv
    <3>5. entry'[<<class[p].gets, name[at[p]]>>]
            = entry[<<class[p].gets, name[at[p]]>>]
      <4> DEFINE e == <<class[p].gets, name[at[p]]>>
      <4>1. e # s /\ e[2] # n
        BY <3>3
      <4> QED
        BY <1>2, <3>4, <4>1
    <3> QED
      BY <3>1, <3>2, <3>5
  <2> QED
    BY <2>1, <2>2
<1> QED
  BY <1>4, <1>5, <1>6, <1>7 DEF EntryInv, Kept

(* An object reads what it wrote (TypedReadBack): no other object, name,   *)
(* type or place comes between, until its key changes, in the object or    *)
(* under it, or somebody writes under the same name.                       *)
THEOREM ValuesReadBack == TypedSpec => []TypedReadBack
<1> USE NullAssumption
<1>1. TypedInit => EntryInv
  BY DEF TypedInit, EntryInv
<1>2. EntryInv /\ [TypedNext]_typedVars => EntryInv'
  <2> SUFFICES ASSUME EntryInv, [TypedNext]_typedVars PROVE EntryInv'
    OBVIOUS
  <2>1. ASSUME NEW o \in Objects, NEW t \in Places, SetKey(o, t)
        PROVE  EntryInv'
    BY <2>1 DEF SetKey, EntryInv, Kept
  <2>2. ASSUME NEW o \in Objects, NEW v \in Values, NEW lost \in BOOLEAN,
               Assign(o, v, lost)
        PROVE  EntryInv'
    BY <2>2, AssignKeeps DEF Values
  <2>3. ASSUME NEW t \in Places, NEW n \in Names, Reuse(t, n)
        PROVE  EntryInv'
    BY <2>3 DEF Reuse, EntryInv, Kept
  <2>4. CASE UNCHANGED typedVars
    BY <2>4 DEF typedVars, EntryInv, Kept
  <2> QED
    BY <2>1, <2>2, <2>3, <2>4 DEF TypedNext
<1>3. EntryInv => TypedReadBack
  <2> SUFFICES ASSUME EntryInv, NEW o \in Objects, wrote[o] # Null
               PROVE  Got(o) = Kept(o, wrote[o])
    BY DEF TypedReadBack
  <2>1. wrote[o] \in Nat
    BY DEF EntryInv
  <2>2. /\ at[o] \in Places
        /\ entry[<<class[o].gets, name[at[o]]>>] = Kept(o, wrote[o])
    BY DEF EntryInv
  <2> QED
    BY <2>1, <2>2, KeptTwice DEF Got
<1> QED
  BY <1>1, <1>2, <1>3, PTL DEF TypedSpec
-----------------------------------------------------------------------------
(***************************************************************************)
(* getTimestamp counts days, for all years from 1970 on.                   *)
(***************************************************************************)
(* The date is one of the calendar, and the count is right so far. *)
DateInv ==
  /\ year \in Int /\ year >= FirstYear
  /\ mon \in 1..12 /\ mday \in Int /\ elapsed \in Int
  /\ days_since_1970(year, mon, mday) = days_since_1970(FirstYear, 1, 1) + elapsed

(* From one year to the next the code counts a leap day more exactly when  *)
(* the year that ends has one: the divisions by 4, 100 and 400 step where  *)
(* IsLeapYear says.                                                        *)
LEMMA LeapDayCounted ==
  ASSUME NEW y \in Int, y >= 1970
  PROVE  /\ leapyears(y) \in Int
         /\ leapyears(y + 1) = leapyears(y) + (IF IsLeapYear(y) THEN 1 ELSE 0)
<1> DEFINE a == y - 1 - 1968
           b == y - 1 - 1900
           c == y - 1 - 1600
<1>1. /\ a \in Int /\ b \in Int /\ c \in Int
      /\ a >= 0 /\ b >= 0 /\ c >= 0
      /\ (y + 1) - 1 - 1968 = a + 1 /\ (y + 1) - 1 - 1900 = b + 1
      /\ (y + 1) - 1 - 1600 = c + 1
  OBVIOUS
<1>2. (a + 1) \div 4 = (a \div 4) + (IF y % 4 = 0 THEN 1 ELSE 0)
  OBVIOUS
<1>3. (b + 1) \div 100 = (b \div 100) + (IF y % 100 = 0 THEN 1 ELSE 0)
  OBVIOUS
<1>4. (c + 1) \div 400 = (c \div 400) + (IF y % 400 = 0 THEN 1 ELSE 0)
  OBVIOUS
<1>5. /\ leapyears(y) = (a \div 4) - (b \div 100) + (c \div 400)
      /\ leapyears(y + 1)
           = ((a + 1) \div 4) - ((b + 1) \div 100) + ((c + 1) \div 400)
  BY <1>1 DEF leapyears, IntDiv
<1>6. /\ y % 400 = 0 => y % 100 = 0
      /\ y % 100 = 0 => y % 4 = 0
  OBVIOUS
<1>7. a \div 4 \in Int /\ b \div 100 \in Int /\ c \div 400 \in Int
  BY <1>1
<1> HIDE DEF a, b, c
<1> QED
  BY <1>2, <1>3, <1>4, <1>5, <1>6, <1>7 DEF IsLeapYear

(* The calendar and the code call the same years leap years.               *)
LEMMA FebruaryDays ==
  ASSUME NEW y \in Int
  PROVE  DaysOf(y, 2) = IF IsLeapYear(y) THEN 29 ELSE 28
  BY DEF DaysOf, IsLeapYear

(* The first of a month is the day after the last of the month before.     *)
LEMMA MonthsJoin ==
  ASSUME NEW y \in Int, y >= 1970, NEW m \in 1..11
  PROVE  days_since_1970(y, m + 1, 1) = days_since_1970(y, m, DaysOf(y, m)) + 1
<1>1. leapyears(y) \in Int
  BY LeapDayCounted
<1>2. m \in {1, 2, 3, 4, 5, 6, 7, 8, 9, 10, 11}
  OBVIOUS
<1>3. CASE m = 2
  BY <1>1, <1>3, FebruaryDays DEF days_since_1970, ytd
<1>4. CASE m \in {4, 6, 9, 11}
  <2>1. DaysOf(y, m) = 30
    BY <1>4 DEF DaysOf
  <2> QED
    BY <1>1, <1>4, <2>1 DEF days_since_1970, ytd
<1>5. CASE m \in {1, 3, 5, 7, 8, 10}
  <2>1. DaysOf(y, m) = 31
    BY <1>5 DEF DaysOf
  <2> QED
    BY <1>1, <1>5, <2>1 DEF days_since_1970, ytd
<1> QED
  BY <1>2, <1>3, <1>4, <1>5

(* New Year is the day after New Year's Eve.                               *)
LEMMA YearsJoin ==
  ASSUME NEW y \in Int, y >= 1970
  PROVE  days_since_1970(y + 1, 1, 1) = days_since_1970(y, 12, 31) + 1
  BY LeapDayCounted DEF days_since_1970, ytd

(* Time stamps are whole days of the calendar apart (CountsDays), however  *)
(* far the calendar is walked and from whatever year since 1970.           *)
THEOREM TimestampsCountDays == TimeSpec => []CountsDays
<1> USE YearAssumption
<1>1. TimeInit => DateInv
  <2>1. leapyears(FirstYear) \in Int
    BY LeapDayCounted
  <2> QED
    BY <2>1 DEF TimeInit, DateInv, days_since_1970, ytd
<1>2. DateInv /\ [TimeNext]_timeVars => DateInv'
  <2> SUFFICES ASSUME DateInv, [TimeNext]_timeVars PROVE DateInv'
    OBVIOUS
  <2> USE DEF DateInv
  <2>0. leapyears(year) \in Int /\ leapyears(FirstYear) \in Int /\ year >= 1970
    BY LeapDayCounted
  <2>1. CASE NextDay
    <3>1. ytd[mon] \in Int
      BY DEF ytd
    <3>2. days_since_1970(year, mon, mday + 1)
            = days_since_1970(year, mon, mday) + 1
      BY <2>0, <3>1 DEF days_since_1970
    <3>3. days_since_1970(FirstYear, 1, 1) \in Int
      BY <2>0 DEF days_since_1970, ytd
    <3> QED
      BY <2>1, <3>2, <3>3 DEF NextDay
  <2>2. CASE NextMonth
    <3>1. mon \in 1..11
      BY <2>2 DEF NextMonth
    <3>2. days_since_1970(year, mon + 1, 1)
            = days_since_1970(year, mon, mday) + 1
      BY <2>0, <2>2, <3>1, MonthsJoin DEF NextMonth
    <3>3. days_since_1970(FirstYear, 1, 1) \in Int
      BY <2>0 DEF days_since_1970, ytd
    <3> QED
      BY <2>2, <3>1, <3>2, <3>3 DEF NextMonth
  <2>3. CASE NextYear
    <3>1. days_since_1970(year + 1, 1, 1)
            = days_since_1970(year, mon, mday) + 1
      BY <2>0, <2>3, YearsJoin DEF NextYear
    <3>2. days_since_1970(FirstYear, 1, 1) \in Int
      BY <2>0 DEF days_since_1970, ytd
    <3> QED
      BY <2>3, <3>1, <3>2 DEF NextYear
  <2>4. CASE UNCHANGED timeVars
    BY <2>4 DEF timeVars
  <2> QED
    BY <2>1, <2>2, <2>3, <2>4 DEF TimeNext
<1>3. DateInv => CountsDays
  <2>1. days_since_1970(1970, 1, 1) = 0
    BY DEF days_since_1970, leapyears, IntDiv, ytd
  <2> QED
    BY <2>1 DEF DateInv, CountsDays
<1> QED
  BY <1>1, <1>2, <1>3, PTL DEF TimeSpec
-----------------------------------------------------------------------------
(* Strings *)

USE StringSizeAssumption DEF Size

Chars == [1..Size -> Letters \union {Nul}]

(* s is what array c shows of its first len characters: it ends there or   *)
(* at a terminator.                                                        *)
Shows(c, s, len) ==
  /\ s \in Seq(Letters) /\ Len(s) <= len
  /\ \A i \in 1..Len(s) : c[i] = s[i]
  /\ Len(s) = len \/ c[Len(s) + 1] = Nul

LEMMA MoreLetters ==
  /\ \A s \in Seq(Letters) : s \in Seq(Letters \union {Beyond})
  /\ Unknown \in Seq(Letters \union {Beyond})
BY DEF Unknown

LEMMA FirstOfType ==
  ASSUME NEW S, NEW s \in Seq(S), NEW n \in Nat
  PROVE  /\ FirstOf(s, n) \in Seq(S)
         /\ Len(FirstOf(s, n)) = Least(Len(s), n)
         /\ \A i \in 1..Least(Len(s), n) : FirstOf(s, n)[i] = s[i]
<1>1. Least(Len(s), n) \in 0..Len(s)
  BY DEF Least
<1> QED
  BY <1>1 DEF FirstOf

(* strlen stops at the first terminator; without one it leaves the array.  *)
LEMMA CStringEnds ==
  ASSUME NEW c \in Chars
  PROVE  /\ CString(c) \in Seq(Letters \union {Beyond})
         /\ Len(CString(c)) <= Size + 1
         /\ \A i \in 1..Len(CString(c)) :
              i <= Size => CString(c)[i] = c[i] /\ c[i] \in Letters
         /\ \/ Len(CString(c)) = Size + 1
            \/ Len(CString(c)) < Size /\ c[Len(CString(c)) + 1] = Nul
<1>1. c \in Seq(Letters \union {Nul}) /\ Len(c) = Size
  BY DEF Chars
<1>2. CASE \E i \in 1..Size : c[i] = Nul
  <2> DEFINE First(i) == c[i] = Nul /\ \A j \in 1..(i - 1) : c[j] # Nul
             S == {i \in 1..Size : c[i] = Nul}
             p == CHOOSE i \in 1..Size : First(i)
  <2>1. \E i \in 1..Size : First(i)
    <3>1. S \in SUBSET Nat /\ S # {}
      BY <1>2
    <3>2. PICK m \in S : \A i \in S : m <= i
      BY <3>1, LeastElement
    <3>3. m \in 1..Size /\ First(m)
      BY <3>2
    <3> QED
      BY <3>3
  <2>2. p \in 1..Size /\ First(p)
    BY <2>1
  <2>3. CString(c) = SubSeq(c, 1, p - 1)
    BY <1>2 DEF CString
  <2> HIDE DEF p
  <2>4. /\ Len(CString(c)) = p - 1
        /\ \A i \in 1..(p - 1) : CString(c)[i] = c[i]
    BY <1>1, <2>2, <2>3
  <2>5. \A i \in 1..(p - 1) : c[i] \in Letters
    BY <1>1, <2>2 DEF Chars
  <2>6. CString(c) \in Seq(Letters \union {Nul})
    BY <1>1, <2>2, <2>3
  <2>7. CString(c) \in Seq(Letters \union {Beyond})
    BY <2>4, <2>5, <2>6
  <2> QED
    BY <2>2, <2>4, <2>5, <2>7
<1>3. CASE ~\E i \in 1..Size : c[i] = Nul
  <2> DEFINE whole == [i \in 1..Size |-> c[i]]
  <2>1. \A i \in 1..Size : c[i] \in Letters
    BY <1>3 DEF Chars
  <2>2. /\ whole \in Seq(Letters \union {Beyond}) /\ Len(whole) = Size
        /\ \A i \in 1..Size : whole[i] = c[i]
    BY <2>1
  <2>3. CString(c) = whole \o <<Beyond>>
    BY <1>3 DEF CString
  <2> HIDE DEF whole
  <2>4. /\ CString(c) \in Seq(Letters \union {Beyond})
        /\ Len(CString(c)) = Size + 1
        /\ \A i \in 1..Size : CString(c)[i] = whole[i]
    BY <2>2, <2>3
  <2> QED
    BY <2>1, <2>2, <2>4
<1> QED
  BY <1>2, <1>3

(* A string made from an array shows it ... *)
LEMMA CStringShows ==
  ASSUME NEW c \in Chars, NEW len \in 0..Size
  PROVE  Shows(c, cString(c, len), len)
<1> DEFINE s == CString(c)
           f == cString(c, len)
<1>1. /\ s \in Seq(Letters \union {Beyond})
      /\ \A i \in 1..Len(s) : i <= Size => s[i] = c[i] /\ c[i] \in Letters
      /\ Len(s) = Size + 1 \/ (Len(s) < Size /\ c[Len(s) + 1] = Nul)
  BY CStringEnds
<1>2. f = FirstOf(s, len) /\ len \in Nat
  BY DEF cString
<1> HIDE DEF s, f
<1>3. /\ f \in Seq(Letters \union {Beyond}) /\ Len(f) = Least(Len(s), len)
      /\ \A i \in 1..Least(Len(s), len) : f[i] = s[i]
  BY <1>1, <1>2, FirstOfType
<1>4. Len(s) \in Nat /\ Len(f) \in Nat /\ Len(f) <= len /\ Len(f) <= Len(s)
  BY <1>1, <1>3 DEF Least
<1>5. \A i \in 1..Len(f) : f[i] = c[i] /\ c[i] \in Letters
  BY <1>1, <1>3, <1>4
<1>6. f \in Seq(Letters)
  BY <1>3, <1>5
<1>7. Len(f) = len \/ c[Len(f) + 1] = Nul
  BY <1>1, <1>3, <1>4 DEF Least
<1> QED
  BY <1>4, <1>5, <1>6, <1>7 DEF Shows, f

(* ... and there is only one that does. *)
LEMMA ShowsOne ==
  ASSUME NEW c \in Chars, NEW len \in 0..Size, NEW s, Shows(c, s, len)
  PROVE  cString(c, len) = s
<1> DEFINE f == cString(c, len)
<1>1. Shows(c, f, len)
  BY CStringShows
<1> HIDE DEF f
<1>2. f \in Seq(Letters) /\ s \in Seq(Letters) /\ Nul \notin Letters
  BY <1>1, CharacterAssumption DEF Shows
<1>3. ~(Len(f) < Len(s)) /\ ~(Len(s) < Len(f))
  BY <1>1, <1>2 DEF Shows
<1>4. Len(f) = Len(s) /\ \A i \in 1..Len(s) : f[i] = s[i]
  BY <1>1, <1>2, <1>3 DEF Shows
<1>5. f = s
  BY <1>2, <1>4, SeqEqual
<1> QED
  BY <1>5 DEF f

(* The beginning of what an array shows is what it shows of less.          *)
LEMMA ShowsLess ==
  ASSUME NEW c, NEW s, NEW n \in Nat, NEW len \in 0..n, Shows(c, s, n)
  PROVE  Shows(c, FirstOf(s, len), len)
<1>1. s \in Seq(Letters)
  BY DEF Shows
<1> DEFINE f == FirstOf(s, len)
<1> HIDE DEF f
<1>2. /\ f \in Seq(Letters) /\ Len(f) = Least(Len(s), len)
      /\ \A i \in 1..Least(Len(s), len) : f[i] = s[i]
  <2>1. len \in Nat
    OBVIOUS
  <2> QED
    BY <1>1, <2>1, FirstOfType DEF f
<1>3. Shows(c, f, len)
  BY <1>1, <1>2 DEF Shows, Least
<1> QED
  BY <1>3 DEF f

(* What is known of texts and writer, in these terms.  A text that nobody  *)
(* wrote to behind its back shows all of what it was assigned, as far as   *)
(* its array reaches; one that somebody did, up to its own length.         *)
StringTypes ==
  /\ chars \in [Texts -> Chars] /\ length \in [Texts -> 0..Size]
  /\ view \in [at : Texts, length : Nat]
  /\ write \in [at : Texts, length : 0..Size]
  /\ said \in [text : [Texts -> Seq(Letters \union {Beyond})],
               write : Seq(Letters \union {Beyond}), behind : SUBSET Texts]

TextsShow ==
  \A t \in Texts :
    /\ said.text[t] # Unknown => Shows(chars[t], said.text[t], length[t])
    /\ t \notin said.behind => Shows(chars[t], said.text[t], Size)

WriterShows ==
  said.write # Unknown =>
    /\ Shows(chars[write.at], said.write, write.length)
    /\ Len(said.write) = write.length

StringInv == StringTypes /\ TextsShow /\ WriterShows

LEMMA StringStart == StringInit => StringInv
<1> SUFFICES ASSUME StringInit PROVE StringInv
  OBVIOUS
<1>1. PICK u \in Texts : view = Look(u, 0) /\ write = Look(u, 0)
  BY DEF StringInit
<1>2. <<>> \in Seq(Letters \union {Beyond}) /\ <<>> \in Seq(Letters)
  OBVIOUS
<1>3. StringTypes
  BY <1>1, <1>2 DEF StringInit, StringTypes, Chars, Look
<1>4. \A t \in Texts : /\ chars[t] = [i \in 1..Size |-> Nul]
                       /\ length[t] = 0 /\ said.text[t] = <<>>
  BY DEF StringInit
<1>5. TextsShow
  <2> SUFFICES ASSUME NEW t \in Texts
               PROVE  /\ Shows(chars[t], <<>>, 0) /\ Shows(chars[t], <<>>, Size)
                      /\ said.text[t] = <<>> /\ length[t] = 0
    BY DEF TextsShow
  <2>1. chars[t][1] = Nul
    BY <1>4
  <2> QED
    BY <1>2, <1>4, <2>1 DEF Shows
<1>6. WriterShows
  BY <1>1, <1>2 DEF StringInit, WriterShows, Shows, Look
<1> QED
  BY <1>3, <1>5, <1>6 DEF StringInv

LEMMA NewArrayType ==
  ASSUME NEW t, NEW s \in Seq(Letters \union {Nul})
  PROVE  NewArray(t, s) \in Chars
BY DEF NewArray, Chars

(* The lemma on all assignments: what the new array shows is what the text *)
(* should say.                                                             *)
LEMMA SetStep ==
  ASSUME StringInv, NEW t \in Texts, NEW s \in Seq(Letters \union {Nul}),
         NEW len \in 0..Size, NEW says, Set(t, s, len, says),
         Shows(NewArray(t, s), says, len), Shows(NewArray(t, s), says, Size)
  PROVE  StringInv'
<1>1. /\ chars' = [chars EXCEPT ![t] = NewArray(t, s)]
      /\ length' = [length EXCEPT ![t] = len]
      /\ said'.text = [said.text EXCEPT ![t] = says]
      /\ said'.write = WriterAfter(t) /\ said'.behind = said.behind \ {t}
      /\ said' = [text |-> [said.text EXCEPT ![t] = says],
                  write |-> WriterAfter(t), behind |-> said.behind \ {t}]
      /\ UNCHANGED <<view, write>>
  BY DEF Set
<1>2. StringTypes /\ TextsShow /\ WriterShows
  BY DEF StringInv
<1>3. says \in Seq(Letters \union {Beyond}) /\ NewArray(t, s) \in Chars
  BY NewArrayType DEF Shows
<1>4. Unknown \in Seq(Letters \union {Beyond})
  BY DEF Unknown
<1>5. StringTypes'
  BY <1>1, <1>2, <1>3, <1>4 DEF StringTypes, WriterAfter
<1>6. TextsShow'
  <2> SUFFICES ASSUME NEW u \in Texts
               PROVE  /\ said'.text[u] # Unknown
                           => Shows(chars'[u], said'.text[u], length'[u])
                      /\ u \notin said'.behind
                           => Shows(chars'[u], said'.text[u], Size)
    BY DEF TextsShow, Shows, Unknown
  <2>1. CASE u = t
    <3>1. chars'[t] = NewArray(t, s) /\ length'[t] = len /\ said'.text[t] = says
      BY <1>1, <1>2 DEF StringTypes
    <3> QED
      BY <2>1, <3>1
  <2>2. CASE u # t
    <3>1. /\ chars'[u] = chars[u] /\ length'[u] = length[u]
          /\ said'.text[u] = said.text[u]
          /\ u \in said'.behind <=> u \in said.behind
      BY <1>1, <1>2, <2>2 DEF StringTypes
    <3> QED
      BY <1>2, <3>1 DEF TextsShow
  <2> QED
    BY <2>1, <2>2
<1>7. WriterShows'
  <2>1. CASE write.at = t
    BY <1>1, <2>1 DEF WriterShows, WriterAfter, Unknown
  <2>2. CASE write.at # t
    <3>1. /\ said'.write = said.write /\ UNCHANGED write
          /\ chars'[write.at] = chars[write.at]
      BY <1>1, <1>2, <2>2 DEF StringTypes, WriterAfter
    <3> QED
      BY <1>2, <3>1 DEF WriterShows, Shows, Unknown
  <2> QED
    BY <2>1, <2>2
<1> QED
  BY <1>5, <1>6, <1>7 DEF StringInv

LEMMA AssignTextStep ==
  ASSUME StringInv, NEW t \in Texts, NEW s \in Given, AssignText(t, s)
  PROVE  StringInv'
<1> DEFINE f == FirstOf(s, Size)
<1>1. s \in Seq(Letters)
  BY DEF Given
<1>2. /\ f \in Seq(Letters) /\ Len(f) = Least(Len(s), Size)
      /\ Len(f) \in 0..Size
  BY <1>1, FirstOfType DEF Least
<1>3. Set(t, f, Len(f), f)
  BY <1>2 DEF AssignText
<1> HIDE DEF f
<1>4. f \in Seq(Letters \union {Nul})
  BY <1>2
<1>5. Shows(NewArray(t, f), f, Len(f)) /\ Shows(NewArray(t, f), f, Size)
  BY <1>2 DEF Shows, NewArray
<1> QED
  BY <1>2, <1>3, <1>4, <1>5, SetStep

(* The bytes of an array up to a length, whatever they are, show what the  *)
(* array showed of that length.                                            *)
LEMMA CopyBytesStep ==
  ASSUME StringInv, NEW t \in Texts, NEW c \in Chars, NEW len \in 0..Size,
         Set(t, SubSeq(c, 1, len), len, cString(c, len))
  PROVE  StringInv'
<1> DEFINE s == SubSeq(c, 1, len)
           says == cString(c, len)
           a == NewArray(t, s)
<1>1. c \in Seq(Letters \union {Nul}) /\ Len(c) = Size
  BY DEF Chars
<1>2. /\ s \in Seq(Letters \union {Nul}) /\ Len(s) = len
      /\ \A i \in 1..len : s[i] = c[i]
  BY <1>1
<1>3. Shows(c, says, len)
  BY CStringShows
<1>4. \A i \in 1..Size : a[i] = IF i <= len THEN c[i] ELSE Nul
  <2> HIDE DEF s
  <2> QED
    BY <1>2 DEF NewArray
<1> HIDE DEF s, says, a
<1>5. says \in Seq(Letters) /\ Len(says) \in 0..len
  BY <1>3 DEF Shows
<1>6. \A i \in 1..Len(says) : a[i] = says[i]
  BY <1>3, <1>4, <1>5 DEF Shows
<1>7. Len(says) < len => a[Len(says) + 1] = Nul
  BY <1>3, <1>4, <1>5 DEF Shows
<1>8. len < Size => a[len + 1] = Nul
  BY <1>4
<1>9. Shows(a, says, len) /\ Shows(a, says, Size)
  BY <1>5, <1>6, <1>7, <1>8 DEF Shows
<1> QED
  BY <1>2, <1>9, SetStep DEF s, says, a

LEMMA CopyStep ==
  ASSUME StringInv, NEW t \in Texts,
         AssignView(t) \/ AssignSelf(t) \/ \E u \in Texts : CopyText(t, u)
  PROVE  StringInv'
<1>1. /\ chars \in [Texts -> Chars] /\ length \in [Texts -> 0..Size]
      /\ view.at \in Texts /\ view.length \in Nat
  BY DEF StringInv, StringTypes
<1>2. Least(view.length, Size) \in 0..Size
  BY <1>1 DEF Least
<1>3. CASE AssignView(t)
  BY <1>1, <1>2, <1>3, CopyBytesStep DEF AssignView
<1>4. CASE AssignSelf(t)
  <2> DEFINE len == Least(view.length, Size)
  <2>1. Set(t, <<>>, len, <<>>) /\ len \in 0..Size
    BY <1>2, <1>4 DEF AssignSelf
  <2> HIDE DEF len
  <2>2. Shows(NewArray(t, <<>>), <<>>, len) /\ Shows(NewArray(t, <<>>), <<>>, Size)
    BY <2>1 DEF Shows, NewArray
  <2>3. <<>> \in Seq(Letters \union {Nul})
    OBVIOUS
  <2> QED
    BY <2>1, <2>2, <2>3, SetStep
<1>5. ASSUME NEW u \in Texts, CopyText(t, u) PROVE StringInv'
  BY <1>1, <1>5, CopyBytesStep DEF CopyText, TextString
<1> QED
  BY <1>3, <1>4, <1>5

LEMMA LookStep ==
  ASSUME StringInv, NEW t \in Texts,
         TakeView(t) \/ TakeCString(t) \/ TakeWriter(t)
  PROVE  StringInv'
<1>1. /\ chars[t] \in Chars /\ length[t] \in 0..Size
  BY DEF StringInv, StringTypes
<1>2. Len(CString(chars[t])) \in Nat
  BY <1>1, CStringEnds
<1>3. Least(Len(CString(chars[t])), length[t]) \in 0..Size
  BY <1>1, <1>2 DEF Least
<1>4. CASE TakeView(t) \/ TakeCString(t)
  <2>1. /\ view' \in [at : Texts, length : Nat]
        /\ UNCHANGED <<chars, length, write, said>>
    BY <1>2, <1>3, <1>4 DEF TakeView, TakeCString, AssignTo, Look
  <2>2. StringTypes'
    BY <2>1 DEF StringInv, StringTypes
  <2>3. TextsShow' /\ WriterShows'
    BY <2>1 DEF StringInv, TextsShow, WriterShows, Shows, Unknown
  <2> QED
    BY <2>2, <2>3 DEF StringInv
<1>5. CASE TakeWriter(t)
  <2>1. /\ write' \in [at : Texts, length : 0..Size]
        /\ said' = [said EXCEPT !.write = Unknown]
        /\ UNCHANGED <<chars, length, view>>
    BY <1>2, <1>3, <1>5 DEF TakeWriter, Look
  <2>2. Unknown \in Seq(Letters \union {Beyond})
    BY DEF Unknown
  <2>3. /\ said' \in [text : [Texts -> Seq(Letters \union {Beyond})],
                      write : Seq(Letters \union {Beyond}),
                      behind : SUBSET Texts]
        /\ said'.text = said.text /\ said'.behind = said.behind
        /\ said'.write = Unknown
    BY <2>1, <2>2 DEF StringInv, StringTypes
  <2>4. StringTypes'
    BY <2>1, <2>3 DEF StringInv, StringTypes
  <2>5. TextsShow' /\ WriterShows'
    BY <2>1, <2>3 DEF StringInv, TextsShow, WriterShows, Shows, Unknown
  <2> QED
    BY <2>4, <2>5 DEF StringInv
<1> QED
  BY <1>4, <1>5

(* The writer's characters are where it says they are; the text is known   *)
(* as far as it is no longer than they are.                                *)
LEMMA WriteStep ==
  ASSUME StringInv, NEW s \in Given, Write(s)
  PROVE  StringInv'
<1> DEFINE w == write.at
           n == Len(s)
           a == UnwipedArray(w, s)
           says == IF length[w] <= n THEN FirstOf(s, length[w]) ELSE Unknown
<1>1. s \in Seq(Letters) /\ n \in 0..Size
  BY DEF Given, Write
<1>2. /\ chars' = [chars EXCEPT ![w] = a]
      /\ write' = [write EXCEPT !.length = n]
      /\ said' = [text |-> [said.text EXCEPT ![w] = says], write |-> s,
                  behind |-> said.behind \union {w}]
      /\ UNCHANGED <<length, view>>
  BY DEF Write
<1>3. StringTypes /\ TextsShow
  BY DEF StringInv
<1>4. w \in Texts /\ chars[w] \in Chars /\ length[w] \in 0..Size
  BY <1>3 DEF StringTypes
<1>5. a \in Chars /\ \A i \in 1..n : a[i] = s[i]
  BY <1>1, <1>4 DEF UnwipedArray, Chars
<1>6. length[w] <= n => /\ says = FirstOf(s, length[w]) /\ says \in Seq(Letters)
                        /\ Shows(a, says, length[w])
  <2>1. Shows(a, s, n)
    BY <1>1, <1>5 DEF Shows
  <2>2. ASSUME length[w] <= n PROVE Shows(a, FirstOf(s, length[w]), length[w])
    BY <1>1, <1>4, <2>1, <2>2, ShowsLess
  <2> QED
    BY <2>2 DEF Shows
<1>7. ~(length[w] <= n) => says = Unknown
  OBVIOUS
<1> HIDE DEF w, n, a, says
<1>8. s \in Seq(Letters \union {Beyond}) /\ says \in Seq(Letters \union {Beyond})
  BY <1>1, <1>6, <1>7, MoreLetters
<1>9. StringTypes'
  BY <1>1, <1>2, <1>3, <1>4, <1>5, <1>8 DEF StringTypes
<1>10. TextsShow'
  <2> SUFFICES ASSUME NEW u \in Texts
               PROVE  /\ said'.text[u] # Unknown
                           => Shows(chars'[u], said'.text[u], length'[u])
                      /\ u \notin said'.behind
                           => Shows(chars'[u], said'.text[u], Size)
    BY DEF TextsShow, Shows, Unknown
  <2>1. CASE u = w
    <3>1. /\ chars'[w] = a /\ length'[w] = length[w] /\ said'.text[w] = says
          /\ w \in said'.behind
      BY <1>2, <1>3, <1>4 DEF StringTypes
    <3> QED
      BY <1>6, <1>7, <2>1, <3>1
  <2>2. CASE u # w
    <3>1. /\ chars'[u] = chars[u] /\ length'[u] = length[u]
          /\ said'.text[u] = said.text[u]
          /\ u \in said'.behind <=> u \in said.behind
      BY <1>2, <1>3, <2>2 DEF StringTypes
    <3> QED
      BY <1>3, <3>1 DEF TextsShow
  <2> QED
    BY <2>1, <2>2
<1>11. WriterShows'
  <2>1. /\ said'.write = s /\ write'.at = w /\ write'.length = n
        /\ chars'[w] = a
    BY <1>2, <1>3, <1>4 DEF StringTypes, w
  <2>2. Shows(a, s, n) /\ Len(s) = n
    BY <1>1, <1>5 DEF Shows, n
  <2>3. Shows(chars'[write'.at], said'.write, write'.length)
    BY <2>1, <2>2
  <2> QED
    BY <2>1, <2>2, <2>3 DEF WriterShows, Shows
<1> QED
  BY <1>9, <1>10, <1>11 DEF StringInv

LEMMA WriteAtEndStep ==
  ASSUME StringInv, NEW s \in Given, WriteAtEnd(s)
  PROVE  StringInv'
<1> DEFINE w == write.at
           n == write.length
           k == write.length - Len(s)
           a == [i \in 1..Size |-> IF i \in (k + 1)..n THEN s[i - k]
                                   ELSE chars[w][i]]
           says == IF said.write = Unknown THEN Unknown
                   ELSE FirstOf(said.write, k) \o s
<1>1. /\ s \in Seq(Letters) /\ n \in 0..Size /\ k \in 0..n /\ Len(s) = n - k
      /\ Len(s) \in Nat
  <2>1. s \in Seq(Letters) /\ Len(s) \in Nat
    BY DEF Given
  <2>2. n \in 0..Size
    BY DEF StringInv, StringTypes
  <2>3. Len(s) <= n
    BY DEF WriteAtEnd
  <2>4. \A m \in 0..Size, l \in Nat :
          l <= m => m - l \in 0..m /\ l = m - (m - l)
    OBVIOUS
  <2>5. k \in 0..n /\ Len(s) = n - k
    BY <2>1, <2>2, <2>3, <2>4, Zenon
  <2> QED
    BY <2>1, <2>2, <2>5
<1>2. /\ chars' = [chars EXCEPT ![w] = a]
      /\ said' = [text |-> [said.text EXCEPT ![w] = Unknown], write |-> says,
                  behind |-> said.behind \union {w}]
      /\ UNCHANGED <<length, view, write>>
  <2>1. chars' = [chars EXCEPT ![w] = a] /\ UNCHANGED <<length, view, write>>
    <3>1. w \in Texts /\ chars \in [Texts -> Chars]
      BY DEF StringInv, StringTypes
    <3> QED
      BY <3>1 DEF WriteAtEnd
  <2> QED
    BY <2>1 DEF WriteAtEnd
<1>3. StringTypes /\ TextsShow /\ WriterShows
  BY DEF StringInv
<1>4. w \in Texts /\ chars[w] \in Chars
  BY <1>3 DEF StringTypes
<1>5. a \in Chars
  BY <1>1, <1>4, SMTT(30) DEF Chars
<1>6. ASSUME said.write # Unknown
      PROVE  says \in Seq(Letters) /\ Len(says) = n /\ Shows(a, says, n)
  <2> DEFINE f == FirstOf(said.write, k)
  <2>1. /\ said.write \in Seq(Letters) /\ Len(said.write) = n
        /\ \A i \in 1..n : chars[w][i] = said.write[i]
    BY <1>3, <1>6 DEF WriterShows, Shows
  <2>2. /\ f \in Seq(Letters) /\ Len(f) = k
        /\ \A i \in 1..k : f[i] = said.write[i]
    <3>1. Least(n, k) = k /\ k \in Nat
      BY <1>1 DEF Least
    <3> HIDE DEF k, n
    <3> QED
      BY <2>1, <3>1, FirstOfType, ZenonT(30)
  <2>3. says = f \o s
    BY <1>6
  <2> HIDE DEF f, says, k, n, w, a
  <2>4. /\ says \in Seq(Letters) /\ Len(says) = n
        /\ \A i \in 1..n : says[i] = IF i <= k THEN f[i] ELSE s[i - k]
    <3>1. Len(f) + Len(s) = n
      BY <1>1, <2>2
    <3>2. /\ says \in Seq(Letters) /\ Len(says) = Len(f) + Len(s)
          /\ \A i \in 1..Len(f) + Len(s) :
               says[i] = IF i <= Len(f) THEN f[i] ELSE s[i - Len(f)]
      BY <1>1, <2>2, <2>3, ConcatProperties
    <3> QED
      BY <2>2, <3>1, <3>2
  <2>5. \A i \in 1..n : a[i] = says[i]
    <3> SUFFICES ASSUME NEW i \in 1..n PROVE a[i] = says[i]
      OBVIOUS
    <3>1. CASE i <= k
      <4>1. i \in 1..Size /\ ~(i \in (k + 1)..n) /\ i \in 1..k
        BY <1>1, <3>1
      <4>2. a[i] = chars[w][i]
        BY <4>1 DEF a
      <4> QED
        BY <2>1, <2>2, <2>4, <3>1, <4>1, <4>2
    <3>2. CASE ~(i <= k)
      <4>1. i \in 1..Size /\ i \in (k + 1)..n
        BY <1>1, <3>2
      <4> QED
        BY <2>4, <3>2, <4>1 DEF a
    <3> QED
      BY <3>1, <3>2
  <2> QED
    BY <1>1, <2>4, <2>5 DEF Shows
<1> HIDE DEF w, n, k, a, says
<1>7. says = Unknown \/ said.write # Unknown
  BY DEF says
<1>8. /\ says \in Seq(Letters \union {Beyond})
      /\ Unknown \in Seq(Letters \union {Beyond})
  BY <1>6, <1>7, MoreLetters
<1>9. StringTypes'
  BY <1>1, <1>2, <1>3, <1>4, <1>5, <1>8 DEF StringTypes
<1>10. TextsShow'
  <2> SUFFICES ASSUME NEW u \in Texts
               PROVE  /\ said'.text[u] # Unknown
                           => Shows(chars'[u], said'.text[u], length'[u])
                      /\ u \notin said'.behind
                           => Shows(chars'[u], said'.text[u], Size)
    BY DEF TextsShow, Shows, Unknown
  <2>1. CASE u = w
    <3>1. said'.text[w] = Unknown /\ w \in said'.behind
      BY <1>2, <1>3, <1>4 DEF StringTypes
    <3> QED
      BY <2>1, <3>1
  <2>2. CASE u # w
    <3>1. /\ chars'[u] = chars[u] /\ length'[u] = length[u]
          /\ said'.text[u] = said.text[u]
          /\ u \in said'.behind <=> u \in said.behind
      BY <1>2, <1>3, <2>2 DEF StringTypes
    <3> QED
      BY <1>3, <3>1 DEF TextsShow
  <2> QED
    BY <2>1, <2>2
<1>11. WriterShows'
  <2>1. /\ said'.write = says /\ write'.at = w /\ write'.length = n
        /\ chars'[w] = a
    BY <1>2, <1>3, <1>4 DEF StringTypes, w, n
  <2>2. says # Unknown
          => /\ Shows(chars'[write'.at], said'.write, write'.length)
             /\ Len(said'.write) = write'.length
    BY <1>6, <1>7, <2>1
  <2> QED
    BY <2>1, <2>2 DEF WriterShows, Shows, Unknown
<1> QED
  BY <1>9, <1>10, <1>11 DEF StringInv

(* A string says what was put into it: for texts of every size, any number *)
(* of them, with a view and a writer aimed at them at any time.            *)
THEOREM StringsSayWhatTheyShould == StringSpec => []StringsSay
<1>1. StringInv /\ [StringNext]_stringVars => StringInv'
  <2> SUFFICES ASSUME StringInv, [StringNext]_stringVars PROVE StringInv'
    OBVIOUS
  <2>1. CASE UNCHANGED stringVars
    BY <2>1 DEF stringVars, StringInv, StringTypes, TextsShow, WriterShows,
       Shows, Unknown
  <2>2. ASSUME NEW t \in Texts, NEW s \in Given, AssignText(t, s)
        PROVE  StringInv'
    BY <2>2, AssignTextStep
  <2>3. ASSUME NEW t \in Texts,
               \/ AssignView(t) \/ AssignSelf(t)
               \/ \E u \in Texts : CopyText(t, u)
        PROVE  StringInv'
    BY <2>3, CopyStep
  <2>4. ASSUME NEW t \in Texts, TakeView(t) \/ TakeCString(t) \/ TakeWriter(t)
        PROVE  StringInv'
    BY <2>4, LookStep
  <2>5. ASSUME NEW s \in Given, Write(s) \/ WriteAtEnd(s)
        PROVE  StringInv'
    BY <2>5, WriteStep, WriteAtEndStep
  <2> QED
    BY <2>1, <2>2, <2>3, <2>4, <2>5 DEF StringNext
<1>2. StringInv => StringsSay
  <2> SUFFICES ASSUME StringInv PROVE StringsSay
    OBVIOUS
  <2>1. ASSUME NEW t \in Texts, said.text[t] # Unknown
        PROVE  TextString(t) = said.text[t]
    <3>1. /\ chars[t] \in Chars /\ length[t] \in 0..Size
          /\ Shows(chars[t], said.text[t], length[t])
      BY <2>1 DEF StringInv, StringTypes, TextsShow
    <3> QED
      BY <3>1, ShowsOne DEF TextString
  <2>2. ASSUME said.write # Unknown PROVE WriteString = said.write
    <3>1. /\ chars[write.at] \in Chars /\ write.length \in 0..Size
          /\ Shows(chars[write.at], said.write, write.length)
      BY <2>2 DEF StringInv, StringTypes, WriterShows
    <3> QED
      BY <3>1, ShowsOne DEF WriteString
  <2>3. ASSUME view.length <= Size, view.at \notin said.behind
        PROVE  ViewString = FirstOf(said.text[view.at], view.length)
    <3>1. /\ chars[view.at] \in Chars /\ view.length \in 0..Size /\ Size \in Nat
          /\ Shows(chars[view.at], said.text[view.at], Size)
      BY <2>3 DEF StringInv, StringTypes, TextsShow
    <3>2. Shows(chars[view.at], FirstOf(said.text[view.at], view.length),
                view.length)
      BY <3>1, ShowsLess
    <3> QED
      BY <3>1, <3>2, ShowsOne DEF ViewString
  <2> QED
    BY <2>1, <2>2, <2>3 DEF StringsSay
<1> QED
  BY <1>1, <1>2, StringStart, PTL DEF StringSpec
-----------------------------------------------------------------------------
(***************************************************************************)
(* All of them together                                                    *)
(***************************************************************************)

(* The helpers disturb none of each other's state: whatever they do        *)
(* together is what each of them does by itself.                           *)
LEMMA HelpersAreApart ==
  Spec => /\ Ipv4Spec
          /\ TimeSpec
          /\ StringSpec
          /\ TypedSpec
          /\ PointsSpec
<1>1. Init => Ipv4Init /\ TimeInit /\ StringInit /\ TypedInit /\ PointsInit
  BY DEF Init
<1>2. [Next]_helperVars => /\ [Ipv4Next]_ipv4Vars
                           /\ [TimeNext]_timeVars
                           /\ [StringNext]_stringVars
                           /\ [TypedNext]_typedVars
                           /\ [PointsNext]_pointVars
  BY DEF Next, Ipv4Job, HexJob, TimeJob, StringJob, TypedJob, PointJob,
         helperVars
<1> QED
  BY <1>1, <1>2, PTL DEF Spec, Ipv4Spec, TimeSpec, StringSpec, TypedSpec,
                         PointsSpec

(* What the parsers, the time stamps, the strings and the stored values    *)
(* promise holds in every behaviour of the helpers.                        *)
THEOREM HelpersKeepTheirPromises ==
  Spec => [](/\ SameVerdict
             /\ FailureDialsNoHost
             /\ AcceptsAddresses
             /\ CountsDays
             /\ StringsSay
             /\ TypedReadBack)
  BY HelpersAreApart, ParsersAgree, RefusedTextsDialNoHost,
     AddressesAreAccepted, TimestampsCountDays, StringsSayWhatTheyShould,
     ValuesReadBack, PTL
=============================================================================
