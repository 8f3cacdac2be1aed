--------------------------- MODULE MatterCodecProofs ---------------------------
(***************************************************************************)
(* What the Matter codec promises, for every set of messages, every        *)
(* extension, every content of the fields and every length of the payload. *)
(***************************************************************************)
EXTENDS MatterCodec, SequenceTheorems, TLAPS

(* How a decoding stops: it throws or reads through the null pointer, and  *)
(* stays at that.                                                          *)
LEMMA Stops ==
  /\ ~Failed.ok /\ ~NullRead.ok /\ Failed.end = TRUE /\ NullRead.end = FALSE
  /\ NullRead # Failed
  /\ \A r : ~Refused(r).ok
  /\ \A r : r.end = TRUE => Refused(r) = Failed
  /\ \A r : r.end = FALSE => Refused(r) = NullRead
<1>1. \A e : ~Stopped(e).ok /\ Stopped(e).end = e
  BY DEF Stopped
<1>2. /\ ~Failed.ok /\ ~NullRead.ok /\ Failed.end = TRUE /\ NullRead.end = FALSE
      /\ \A r : ~Refused(r).ok
  BY <1>1, Zenon DEF Failed, NullRead, Refused
<1>3. /\ \A r : r.end = TRUE => Refused(r) = Failed
      /\ \A r : r.end = FALSE => Refused(r) = NullRead
  BY Zenon DEF Refused, Failed, NullRead
<1> QED
  BY <1>2, <1>3

(* A reader over the bytes another decoder has left                        *)
LEMMA ReaderOver ==
  ASSUME NEW bytes
  PROVE  LET r == DataReader(bytes, FALSE) IN
           /\ r.ok /\ r.rest = bytes /\ r.field = <<>>
           /\ bytes = <<>> => r.end = FALSE
           /\ bytes # <<>> => r.end = TRUE
  BY DEF DataReader

(* A reading that has enough bytes takes them.                             *)
LEMMA ReadEnough ==
  ASSUME NEW r, NEW w, r.ok, r.end, w <= Len(r.rest)
  PROVE  Read(r, w) = Taken(r.rest, w)
  BY Zenon DEF Read

(* A reading that has taken its bytes had them, and an end to check.       *)
LEMMA ReadNeeds ==
  ASSUME NEW r, NEW w, Read(r, w).ok
  PROVE  r.ok /\ r.end /\ w <= Len(r.rest)
<1> SUFFICES ASSUME ~(r.ok /\ r.end /\ w <= Len(r.rest)) PROVE FALSE
  OBVIOUS
<1>1. \/ ~r.ok /\ Read(r, w) = r
      \/ Read(r, w) = NullRead
      \/ Read(r, w) = Failed
  BY Zenon DEF Read
<1>2. ~Failed.ok /\ ~NullRead.ok
  BY Stops
<1> QED
  BY <1>1, <1>2

(* What a reading takes and what it leaves                                 *)
LEMMA TakenParts ==
  ASSUME NEW bytes, NEW w
  PROVE  /\ Taken(bytes, w).ok
         /\ Taken(bytes, w).field = SubSeq(bytes, 1, w)
         /\ Taken(bytes, w).rest = SubSeq(bytes, w + 1, Len(bytes))
  BY DEF Taken

(* A reader that has the bytes f and t before it *)
Ahead(r, f, t) ==
  /\ r.ok /\ r.end /\ r.rest = f \o t
  /\ f \in Seq(Nat) /\ t \in Seq(Nat)

(* reads f and leaves t.                                                   *)
LEMMA ReadFront ==
  ASSUME NEW r, NEW f, NEW t, Ahead(r, f, t)
  PROVE  Read(r, Len(f)) = [ok |-> TRUE, end |-> TRUE, field |-> f, rest |-> t]
<1>0. r.ok /\ r.end /\ r.rest = f \o t /\ f \in Seq(Nat) /\ t \in Seq(Nat)
  BY Zenon DEF Ahead
<1> DEFINE b == f \o t
<1>1. /\ b \in Seq(Nat) /\ Len(f) \in Nat /\ Len(t) \in Nat
      /\ Len(b) = Len(f) + Len(t)
      /\ \A i \in 1..Len(f) + Len(t) :
           b[i] = IF i <= Len(f) THEN f[i] ELSE t[i - Len(f)]
  BY <1>0, ConcatProperties, LenProperties
<1>2. \A i \in 1..Len(b) : b[i] \in Nat
  BY <1>1, ElementOfSeq
<1> HIDE DEF b
<1>3. SubSeq(b, 1, Len(f)) = f
  <2>1. /\ SubSeq(b, 1, Len(f)) \in Seq(Nat)
        /\ Len(SubSeq(b, 1, Len(f))) = Len(f)
        /\ \A i \in 1..Len(f) : SubSeq(b, 1, Len(f))[i] = b[i]
    BY <1>1, <1>2, SubSeqProperties
  <2> QED
    BY <1>0, <1>1, <2>1, SeqEqual
<1>4. SubSeq(b, Len(f) + 1, Len(b)) = t
  <2> DEFINE u == SubSeq(b, Len(f) + 1, Len(b))
  <2>1. /\ u \in Seq(Nat)
        /\ Len(u) = IF Len(f) + 1 <= Len(b) THEN Len(b) - (Len(f) + 1) + 1 ELSE 0
        /\ \A i \in 1..Len(b) - (Len(f) + 1) + 1 : u[i] = b[(Len(f) + 1) + i - 1]
    BY <1>1, <1>2, SubSeqProperties
  <2> HIDE DEF u
  <2>2. Len(u) = Len(t)
    BY <1>1, <2>1
  <2>3. \A i \in 1..Len(t) : u[i] = t[i]
    <3> SUFFICES ASSUME NEW i \in 1..Len(t) PROVE u[i] = t[i]
      OBVIOUS
    <3>1. u[i] = b[(Len(f) + 1) + i - 1]
      BY <1>1, <2>1
    <3>2. (Len(f) + 1) + i - 1 = Len(f) + i
      BY <1>1
    <3>3. b[Len(f) + i] = t[(Len(f) + i) - Len(f)]
      <4>1. Len(f) + i \in 1..Len(f) + Len(t) /\ ~(Len(f) + i <= Len(f))
        BY <1>1
      <4> QED
        BY <1>1, <4>1, Zenon
    <3>4. (Len(f) + i) - Len(f) = i
      BY <1>1
    <3> QED
      BY <3>1, <3>2, <3>3, <3>4
  <2>4. u = t
    BY <1>0, <2>1, <2>2, <2>3, SeqEqual
  <2> QED
    BY <2>4 DEF u
<1>5. r.ok /\ r.end /\ r.rest = b /\ Len(f) <= Len(r.rest)
  BY <1>0, <1>1 DEF b
<1>6. Read(r, Len(f)) = Taken(b, Len(f))
  BY <1>5, ReadEnough
<1> QED
  BY <1>3, <1>4, <1>6, Zenon DEF Taken

(* Whatever it reads, the reader moves on by as much.                      *)
LEMMA ReadLength ==
  ASSUME NEW r, NEW w \in Nat, r.rest \in Seq(Nat), Read(r, w).ok
  PROVE  /\ Read(r, w).rest \in Seq(Nat)
         /\ Len(Read(r, w).rest) = Len(r.rest) - w
         /\ r.ok /\ r.end /\ w <= Len(r.rest)
<1>1. r.ok /\ r.end /\ w <= Len(r.rest)
  BY ReadNeeds
<1>4. Read(r, w).rest = SubSeq(r.rest, w + 1, Len(r.rest))
  <2>1. Read(r, w) = Taken(r.rest, w)
    BY <1>1, ReadEnough
  <2> QED
    BY <2>1, TakenParts, Zenon
<1>2. Len(r.rest) \in Nat /\ \A i \in w + 1..Len(r.rest) : r.rest[i] \in Nat
  BY LenProperties, ElementOfSeq
<1>3. /\ SubSeq(r.rest, w + 1, Len(r.rest)) \in Seq(Nat)
      /\ Len(SubSeq(r.rest, w + 1, Len(r.rest)))
           = IF w + 1 <= Len(r.rest) THEN Len(r.rest) - (w + 1) + 1 ELSE 0
  BY <1>2, SubSeqProperties
<1> QED
  BY <1>1, <1>2, <1>3, <1>4

(* What is written as one text can be read field by field.                 *)
LEMMA Join ==
  ASSUME NEW a \in Seq(Nat), NEW b \in Seq(Nat)
  PROVE  a \o b \in Seq(Nat)
  BY ConcatProperties

(* The parts of two byte strings joined                                    *)
LEMMA Joined ==
  ASSUME NEW a \in Seq(Nat), NEW b \in Seq(Nat)
  PROVE  /\ Len(a \o b) = Len(a) + Len(b)
         /\ \A i \in 1..Len(a) + Len(b) :
              (a \o b)[i] = IF i <= Len(a) THEN a[i] ELSE b[i - Len(a)]
         /\ a \o b \in Seq(Nat)
  BY ConcatProperties

(* Joining is associative; the Nest lemmas say so of longer messages.      *)
LEMMA Assoc ==
  ASSUME NEW a \in Seq(Nat), NEW b \in Seq(Nat), NEW c \in Seq(Nat)
  PROVE  (a \o b) \o c = a \o (b \o c)
  BY ConcatAssociative, SMTT(30)

(* A message of four parts and what follows it                             *)
LEMMA Nest4 ==
  ASSUME NEW p \in [1..5 -> Seq(Nat)]
  PROVE  /\ p[1] \o p[2] \o p[3] \o p[4] \in Seq(Nat)
         /\ (p[1] \o p[2] \o p[3] \o p[4]) \o p[5]
              = p[1] \o (p[2] \o (p[3] \o (p[4] \o p[5])))
<1> DEFINE L2 == p[1] \o p[2]
           L3 == L2 \o p[3]
           L4 == L3 \o p[4]
           R4 == p[4] \o p[5]
           R3 == p[3] \o R4
           R2 == p[2] \o R3
<1>p1. p[1] \in Seq(Nat)  OBVIOUS
<1>p2. p[2] \in Seq(Nat)  OBVIOUS
<1>p3. p[3] \in Seq(Nat)  OBVIOUS
<1>p4. p[4] \in Seq(Nat)  OBVIOUS
<1>p5. p[5] \in Seq(Nat)  OBVIOUS
<1> HIDE DEF L2, L3, L4, R4, R3, R2
<1>1. L2 \in Seq(Nat)  BY <1>p1, <1>p2, Join DEF L2
<1>2. L3 \in Seq(Nat)  BY <1>1, <1>p3, Join DEF L3
<1>3. L4 \in Seq(Nat)  BY <1>2, <1>p4, Join DEF L4
<1>4. R4 \in Seq(Nat)  BY <1>p4, <1>p5, Join DEF R4
<1>5. R3 \in Seq(Nat)  BY <1>p3, <1>4, Join DEF R3
<1>6. R2 \in Seq(Nat)  BY <1>p2, <1>5, Join DEF R2
<1>7. L4 \o p[5] = L3 \o R4
  <2>1. (L3 \o p[4]) \o p[5] = L3 \o (p[4] \o p[5])
    BY <1>2, <1>p4, <1>p5, Assoc
  <2> QED
    BY <2>1, Zenon DEF L4, R4
<1>8. L3 \o R4 = L2 \o R3
  <2>1. (L2 \o p[3]) \o R4 = L2 \o (p[3] \o R4)
    BY <1>1, <1>p3, <1>4, Assoc
  <2> QED
    BY <2>1, Zenon DEF L3, R3
<1>9. L2 \o R3 = p[1] \o R2
  <2>1. (p[1] \o p[2]) \o R3 = p[1] \o (p[2] \o R3)
    BY <1>p1, <1>p2, <1>5, Assoc
  <2> QED
    BY <2>1, Zenon DEF L2, R2
<1>10. L4 \o p[5] = p[1] \o R2
  BY <1>7, <1>8, <1>9
<1> QED
  BY <1>3, <1>10, Zenon DEF L2, L3, L4, R4, R3, R2

(* A message of five parts and what follows it                             *)
LEMMA Nest5 ==
  ASSUME NEW p \in [1..6 -> Seq(Nat)]
  PROVE  /\ p[1] \o p[2] \o p[3] \o p[4] \o p[5] \in Seq(Nat)
         /\ (p[1] \o p[2] \o p[3] \o p[4] \o p[5]) \o p[6]
              = p[1] \o (p[2] \o (p[3] \o (p[4] \o (p[5] \o p[6]))))
<1> DEFINE L2 == p[1] \o p[2]
           L3 == L2 \o p[3]
           L4 == L3 \o p[4]
           L5 == L4 \o p[5]
           R5 == p[5] \o p[6]
           R4 == p[4] \o R5
           R3 == p[3] \o R4
           R2 == p[2] \o R3
<1>p1. p[1] \in Seq(Nat)  OBVIOUS
<1>p2. p[2] \in Seq(Nat)  OBVIOUS
<1>p3. p[3] \in Seq(Nat)  OBVIOUS
<1>p4. p[4] \in Seq(Nat)  OBVIOUS
<1>p5. p[5] \in Seq(Nat)  OBVIOUS
<1>p6. p[6] \in Seq(Nat)  OBVIOUS
<1> HIDE DEF L2, L3, L4, L5, R5, R4, R3, R2
<1>1. L2 \in Seq(Nat)  BY <1>p1, <1>p2, Join DEF L2
<1>2. L3 \in Seq(Nat)  BY <1>1, <1>p3, Join DEF L3
<1>3. L4 \in Seq(Nat)  BY <1>2, <1>p4, Join DEF L4
<1>4. L5 \in Seq(Nat)  BY <1>3, <1>p5, Join DEF L5
<1>5. R5 \in Seq(Nat)  BY <1>p5, <1>p6, Join DEF R5
<1>6. R4 \in Seq(Nat)  BY <1>p4, <1>5, Join DEF R4
<1>7. R3 \in Seq(Nat)  BY <1>p3, <1>6, Join DEF R3
<1>8. R2 \in Seq(Nat)  BY <1>p2, <1>7, Join DEF R2
<1>9. L5 \o p[6] = L4 \o R5
  <2>1. (L4 \o p[5]) \o p[6] = L4 \o (p[5] \o p[6])
    BY <1>3, <1>p5, <1>p6, Assoc
  <2> QED
    BY <2>1, Zenon DEF L5, R5
<1>10. L4 \o R5 = L3 \o R4
  <2>1. (L3 \o p[4]) \o R5 = L3 \o (p[4] \o R5)
    BY <1>2, <1>p4, <1>5, Assoc
  <2> QED
    BY <2>1, Zenon DEF L4, R4
<1>11. L3 \o R4 = L2 \o R3
  <2>1. (L2 \o p[3]) \o R4 = L2 \o (p[3] \o R4)
    BY <1>1, <1>p3, <1>6, Assoc
  <2> QED
    BY <2>1, Zenon DEF L3, R3
<1>12. L2 \o R3 = p[1] \o R2
  <2>1. (p[1] \o p[2]) \o R3 = p[1] \o (p[2] \o R3)
    BY <1>p1, <1>p2, <1>7, Assoc
  <2> QED
    BY <2>1, Zenon DEF L2, R2
<1>13. L5 \o p[6] = p[1] \o R2
  BY <1>9, <1>10, <1>11, <1>12
<1> QED
  BY <1>4, <1>13, Zenon DEF L2, L3, L4, L5, R5, R4, R3, R2

(* A message of seven parts and what follows it                            *)
LEMMA Nest7 ==
  ASSUME NEW p \in [1..8 -> Seq(Nat)]
  PROVE  /\ p[1] \o p[2] \o p[3] \o p[4] \o p[5] \o p[6] \o p[7] \in Seq(Nat)
         /\ (p[1] \o p[2] \o p[3] \o p[4] \o p[5] \o p[6] \o p[7]) \o p[8]
              = p[1] \o (p[2] \o (p[3] \o (p[4] \o (p[5] \o (p[6] \o (p[7] \o p[8]))))))
<1> DEFINE L2 == p[1] \o p[2]
           L3 == L2 \o p[3]
           L4 == L3 \o p[4]
           L5 == L4 \o p[5]
           L6 == L5 \o p[6]
           L7 == L6 \o p[7]
           R7 == p[7] \o p[8]
           R6 == p[6] \o R7
           R5 == p[5] \o R6
           R4 == p[4] \o R5
           R3 == p[3] \o R4
           R2 == p[2] \o R3
<1>p1. p[1] \in Seq(Nat)  OBVIOUS
<1>p2. p[2] \in Seq(Nat)  OBVIOUS
<1>p3. p[3] \in Seq(Nat)  OBVIOUS
<1>p4. p[4] \in Seq(Nat)  OBVIOUS
<1>p5. p[5] \in Seq(Nat)  OBVIOUS
<1>p6. p[6] \in Seq(Nat)  OBVIOUS
<1>p7. p[7] \in Seq(Nat)  OBVIOUS
<1>p8. p[8] \in Seq(Nat)  OBVIOUS
<1> HIDE DEF L2, L3, L4, L5, L6, L7, R7, R6, R5, R4, R3, R2
<1>1. L2 \in Seq(Nat)  BY <1>p1, <1>p2, Join DEF L2
<1>2. L3 \in Seq(Nat)  BY <1>1, <1>p3, Join DEF L3
<1>3. L4 \in Seq(Nat)  BY <1>2, <1>p4, Join DEF L4
<1>4. L5 \in Seq(Nat)  BY <1>3, <1>p5, Join DEF L5
<1>5. L6 \in Seq(Nat)  BY <1>4, <1>p6, Join DEF L6
<1>6. L7 \in Seq(Nat)  BY <1>5, <1>p7, Join DEF L7
<1>7. R7 \in Seq(Nat)  BY <1>p7, <1>p8, Join DEF R7
<1>8. R6 \in Seq(Nat)  BY <1>p6, <1>7, Join DEF R6
<1>9. R5 \in Seq(Nat)  BY <1>p5, <1>8, Join DEF R5
<1>10. R4 \in Seq(Nat)  BY <1>p4, <1>9, Join DEF R4
<1>11. R3 \in Seq(Nat)  BY <1>p3, <1>10, Join DEF R3
<1>12. R2 \in Seq(Nat)  BY <1>p2, <1>11, Join DEF R2
<1>13. L7 \o p[8] = L6 \o R7
  <2>1. (L6 \o p[7]) \o p[8] = L6 \o (p[7] \o p[8])
    BY <1>5, <1>p7, <1>p8, Assoc
  <2> QED
    BY <2>1, Zenon DEF L7, R7
<1>14. L6 \o R7 = L5 \o R6
  <2>1. (L5 \o p[6]) \o R7 = L5 \o (p[6] \o R7)
    BY <1>4, <1>p6, <1>7, Assoc
  <2> QED
    BY <2>1, Zenon DEF L6, R6
<1>15. L5 \o R6 = L4 \o R5
  <2>1. (L4 \o p[5]) \o R6 = L4 \o (p[5] \o R6)
    BY <1>3, <1>p5, <1>8, Assoc
  <2> QED
    BY <2>1, Zenon DEF L5, R5
<1>16. L4 \o R5 = L3 \o R4
  <2>1. (L3 \o p[4]) \o R5 = L3 \o (p[4] \o R5)
    BY <1>2, <1>p4, <1>9, Assoc
  <2> QED
    BY <2>1, Zenon DEF L4, R4
<1>17. L3 \o R4 = L2 \o R3
  <2>1. (L2 \o p[3]) \o R4 = L2 \o (p[3] \o R4)
    BY <1>1, <1>p3, <1>10, Assoc
  <2> QED
    BY <2>1, Zenon DEF L3, R3
<1>18. L2 \o R3 = p[1] \o R2
  <2>1. (p[1] \o p[2]) \o R3 = p[1] \o (p[2] \o R3)
    BY <1>p1, <1>p2, <1>11, Assoc
  <2> QED
    BY <2>1, Zenon DEF L2, R2
<1>19. L7 \o p[8] = p[1] \o R2
  BY <1>13, <1>14, <1>15, <1>16, <1>17, <1>18
<1> QED
  BY <1>6, <1>19, Zenon DEF L2, L3, L4, L5, L6, L7, R7, R6, R5, R4, R3, R2

(* The parts of a message as a function, for Nest7                         *)
LEMMA Tuple8 ==
  ASSUME NEW S, NEW a \in S, NEW b \in S, NEW c \in S, NEW d \in S, NEW e \in S,
         NEW f \in S, NEW g \in S, NEW t \in S
  PROVE  <<a, b, c, d, e, f, g, t>> \in [1..8 -> S]
  OBVIOUS

(* and for Nest4                                                           *)
LEMMA Tuple5 ==
  ASSUME NEW S, NEW a \in S, NEW b \in S, NEW c \in S, NEW d \in S, NEW t \in S
  PROVE  <<a, b, c, d, t>> \in [1..5 -> S]
  OBVIOUS

(* The bytes of the alphabet are numbers.                                  *)
LEMMA BytesAreNumbers == \A b \in Byte : b \in Nat
  BY DEF Byte

(* A byte string of one byte                                               *)
LEMMA One ==
  ASSUME NEW n \in Nat
  PROVE  <<n>> \in Seq(Nat) /\ Len(<<n>>) = 1 /\ <<n>>[1] = n
  OBVIOUS

(* and for Nest5                                                           *)
LEMMA Tuple6 ==
  ASSUME NEW S, NEW a \in S, NEW b \in S, NEW c \in S, NEW d \in S, NEW e \in S,
         NEW t \in S
  PROVE  <<a, b, c, d, e, t>> \in [1..6 -> S]
  OBVIOUS
-----------------------------------------------------------------------------
(* A number is as many bytes as it is wide.                                *)
LEMMA NumberBytes ==
  ASSUME NEW w \in Nat, NEW number \in Number(w)
  PROVE  number \in Seq(Nat) /\ Len(number) = w
<1>1. number \in [1..w -> Byte] /\ Byte \subseteq Nat
  <2>1. number \in [1..w -> Byte]
    BY Zenon DEF Number
  <2> QED
    BY <2>1 DEF Byte
<1>2. number \in Seq(Byte) /\ Len(number) = w
  BY <1>1
<1> QED
  BY <1>1, <1>2, SeqMonotonic

(* An optional field is there exactly when it is not zero, and comes back  *)
(* either way.                                                             *)
LEMMA PresentBack ==
  ASSUME NEW w \in Nat \ {0}, NEW number \in Number(w)
  PROVE  /\ Present(number) \in Seq(Nat)
         /\ Len(Present(number)) = Width(~IsZero(number), w)
         /\ Or0(Present(number), w) = number
<1>1. number \in Seq(Nat) /\ Len(number) = w /\ number # <<>>
  BY NumberBytes, EmptySeq
<1>2. CASE IsZero(number)
  <2>1. Present(number) = <<>> /\ number = Zero(w)
    BY <1>1, <1>2 DEF Present, IsZero
  <2> QED
    BY <1>2, <2>1, EmptySeq DEF Width, Or0
<1>3. CASE ~IsZero(number)
  BY <1>1, <1>3 DEF Present, Width, Or0
<1> QED
  BY <1>2, <1>3

(* Every flag is found again by its mask.                                  *)
LEMMA PacketMasks ==
  ASSUME NEW d \in BOOLEAN, NEW g \in BOOLEAN, NEW s \in BOOLEAN,
         NEW flags, flags = Flag(d, HasDestNodeId) + Flag(g, HasDestGroupId)
                              + Flag(s, HasSourceNodeId)
  PROVE  /\ flags \in Nat /\ Version(flags) = 0
         /\ Set(flags, HasDestNodeId) <=> d
         /\ Set(flags, HasDestGroupId) <=> g
         /\ Set(flags, HasSourceNodeId) <=> s
  BY DEF Flag, Set, Version, HasDestNodeId, HasDestGroupId, HasSourceNodeId

(* The security flags hold the session type and the extension mark.        *)
LEMMA SecurityMasks ==
  ASSUME NEW type \in SessionType, NEW e \in BOOLEAN,
         NEW flags, flags = type + Flag(e, HasMessageExtension)
  PROVE  /\ flags \in Nat /\ flags % 4 = type
         /\ ~Set(flags, HasPrivacyEnhancements) /\ ~Set(flags, IsControlMessage)
         /\ Set(flags, HasMessageExtension) <=> e
  BY DEF Flag, Set, SessionType, HasPrivacyEnhancements, IsControlMessage,
         HasMessageExtension

AllMarks(i, a, q, v, e) ==
  Flag(i, IsInitiatorMessage) + Flag(a, IsAckMessage) + Flag(q, RequiresAck)
    + Flag(v, HasVendorId) + Flag(e, HasSecureExtension)

Shows(flags, i, a, q, v, e) ==
  /\ flags \in Nat
  /\ Set(flags, IsInitiatorMessage) <=> i
  /\ HasAck(flags) <=> a
  /\ Set(flags, RequiresAck) <=> q
  /\ Set(flags, HasVendorId) <=> v
  /\ Set(flags, HasSecureExtension) <=> e

(* The exchange flags hold their five marks.                               *)
LEMMA PayloadMasks ==
  ASSUME NEW i \in BOOLEAN, NEW a \in BOOLEAN, NEW q \in BOOLEAN,
         NEW v \in BOOLEAN, NEW e \in BOOLEAN
  PROVE  Shows(AllMarks(i, a, q, v, e), i, a, q, v, e)
  BY DEF Shows, AllMarks, Flag, Set, HasAck, IsInitiatorMessage, IsAckMessage, RequiresAck,
         HasVendorId, HasSecureExtension
-----------------------------------------------------------------------------
(* The packet header with the mark of a message extension *)
MarkedPacket(h, e) ==
  EncodePacketHeader(
    [h EXCEPT !.sessionType = @ + Flag(e, HasMessageExtension)])

PacketHeaderRead(h, e) ==
  [sessionId |-> h.sessionId, sessionType |-> h.sessionType,
   messageId |-> h.messageId, hasPrivacyEnhancements |-> FALSE,
   isControlMessage |-> FALSE, hasMessageExtensions |-> e,
   sourceNodeId |-> h.sourceNodeId, destNodeId |-> h.destNodeId,
   destGroupId |-> h.destGroupId]

(* The decoder finds the packet header again, and where it ends.  It       *)
(* refuses both kinds of destination at once and loses two of the marks.   *)
LEMMA PacketHeaderBack ==
  ASSUME NEW h \in PacketHeader, NEW e \in BOOLEAN, NEW t \in Seq(Nat), NEW r,
         NEW bytes, bytes = MarkedPacket(h, e),
         r.ok, r.end, r.rest = bytes \o t
  PROVE  /\ bytes \in Seq(Nat)
         /\ IF IsZero(h.destNodeId) \/ IsZero(h.destGroupId)
            THEN DecodePacketHeader(r)
                   = [ok |-> TRUE, end |-> TRUE,
                      rest |-> t, field |-> PacketHeaderRead(h, e)]
            ELSE DecodePacketHeader(r) = Failed
<1> DEFINE F == PacketFlags(h)
           S == h.sessionType + Flag(e, HasMessageExtension)
           source == Present(h.sourceNodeId)
           dest == Present(h.destNodeId)
           group == Present(h.destGroupId)
           p == << <<F>>, h.sessionId, <<S>>, h.messageId, source, dest, group, t >>
           R7 == group \o t
           R6 == dest \o R7
           R5 == source \o R6
           R4 == h.messageId \o R5
           R3 == <<S>> \o R4
           R2 == h.sessionId \o R3
<1>1. /\ h.sessionId \in Number(2) /\ h.messageId \in Number(4)
      /\ h.sourceNodeId \in Number(8) /\ h.destNodeId \in Number(8)
      /\ h.destGroupId \in Number(2) /\ h.sessionType \in SessionType
  BY Zenon DEF PacketHeader
<1>2. /\ F \in Nat /\ Version(F) = 0
      /\ Set(F, HasDestNodeId) <=> ~IsZero(h.destNodeId)
      /\ Set(F, HasDestGroupId) <=> ~IsZero(h.destGroupId)
      /\ Set(F, HasSourceNodeId) <=> ~IsZero(h.sourceNodeId)
  <2>1. /\ IsZero(h.destNodeId) \in BOOLEAN /\ IsZero(h.destGroupId) \in BOOLEAN
        /\ IsZero(h.sourceNodeId) \in BOOLEAN
    BY DEF IsZero
  <2> QED
    BY <2>1, PacketMasks DEF PacketFlags
<1>3. /\ S \in Nat /\ S % 4 = h.sessionType
      /\ ~Set(S, HasPrivacyEnhancements) /\ ~Set(S, IsControlMessage)
      /\ Set(S, HasMessageExtension) <=> e
  BY <1>1, SecurityMasks
<1>4. /\ h.sessionId \in Seq(Nat) /\ Len(h.sessionId) = 2
      /\ h.messageId \in Seq(Nat) /\ Len(h.messageId) = 4
  BY <1>1, NumberBytes
<1>5. /\ source \in Seq(Nat) /\ Or0(source, 8) = h.sourceNodeId
      /\ Len(source) = Width(Set(F, HasSourceNodeId), 8)
  <2>1. /\ source \in Seq(Nat) /\ Or0(source, 8) = h.sourceNodeId
        /\ Len(source) = Width(~IsZero(h.sourceNodeId), 8)
    <3>1. 8 \in Nat \ {0} /\ 2 \in Nat \ {0}
      OBVIOUS
    <3> QED
      BY <1>1, <3>1, PresentBack
  <2> QED
    BY <1>2, <2>1 DEF Width
<1>6. /\ dest \in Seq(Nat) /\ Or0(dest, 8) = h.destNodeId
      /\ Len(dest) = Width(Set(F, HasDestNodeId), 8)
  <2>1. /\ dest \in Seq(Nat) /\ Or0(dest, 8) = h.destNodeId
        /\ Len(dest) = Width(~IsZero(h.destNodeId), 8)
    <3>1. 8 \in Nat \ {0} /\ 2 \in Nat \ {0}
      OBVIOUS
    <3> QED
      BY <1>1, <3>1, PresentBack
  <2> QED
    BY <1>2, <2>1 DEF Width
<1>7. /\ group \in Seq(Nat) /\ Or0(group, 2) = h.destGroupId
      /\ Len(group) = Width(Set(F, HasDestGroupId), 2)
  <2>1. /\ group \in Seq(Nat) /\ Or0(group, 2) = h.destGroupId
        /\ Len(group) = Width(~IsZero(h.destGroupId), 2)
    <3>1. 8 \in Nat \ {0} /\ 2 \in Nat \ {0}
      OBVIOUS
    <3> QED
      BY <1>1, <3>1, PresentBack
  <2> QED
    BY <1>2, <2>1 DEF Width
<1> HIDE DEF F, S, source, dest, group
<1>8. /\ <<F>> \in Seq(Nat) /\ Len(<<F>>) = 1 /\ <<F>>[1] = F
      /\ <<S>> \in Seq(Nat) /\ Len(<<S>>) = 1 /\ <<S>>[1] = S
  BY <1>2, <1>3
<1>9. bytes \in Seq(Nat) /\ r.rest = <<F>> \o R2
  <2>1. p \in [1..8 -> Seq(Nat)]
    BY <1>4, <1>5, <1>6, <1>7, <1>8, Tuple8
  <2>2. bytes = p[1] \o p[2] \o p[3] \o p[4] \o p[5] \o p[6] \o p[7]
    BY DEF MarkedPacket, EncodePacketHeader, F, S, source, dest, group, PacketFlags,
           PacketHeader
  <2>3. <<F>> \o R2
          = p[1] \o (p[2] \o (p[3] \o (p[4] \o (p[5] \o (p[6] \o (p[7] \o p[8]))))))
    OBVIOUS
  <2>4. p[8] = t
    OBVIOUS
  <2> HIDE DEF p, R2
  <2>5. /\ p[1] \o p[2] \o p[3] \o p[4] \o p[5] \o p[6] \o p[7] \in Seq(Nat)
        /\ (p[1] \o p[2] \o p[3] \o p[4] \o p[5] \o p[6] \o p[7]) \o p[8]
             = p[1] \o (p[2] \o (p[3] \o (p[4] \o (p[5] \o (p[6] \o (p[7] \o p[8]))))))
    BY <2>1, Nest7
  <2> QED
    BY <2>2, <2>3, <2>4, <2>5, Zenon
<1>10. /\ R7 \in Seq(Nat) /\ R6 \in Seq(Nat) /\ R5 \in Seq(Nat)
       /\ R4 \in Seq(Nat) /\ R3 \in Seq(Nat) /\ R2 \in Seq(Nat)
  <2>1. R7 \in Seq(Nat)  BY <1>7, Join
  <2> HIDE DEF R7
  <2>2. R6 \in Seq(Nat)  BY <1>6, <2>1, Join
  <2> HIDE DEF R6
  <2>3. R5 \in Seq(Nat)  BY <1>5, <2>2, Join
  <2> HIDE DEF R5
  <2>4. R4 \in Seq(Nat)  BY <1>4, <2>3, Join
  <2> HIDE DEF R4
  <2>5. R3 \in Seq(Nat)  BY <1>8, <2>4, Join
  <2> HIDE DEF R3
  <2>6. R2 \in Seq(Nat)  BY <1>4, <2>5, Join
  <2> QED
    BY <2>1, <2>2, <2>3, <2>4, <2>5, <2>6
<1> DEFINE q1 == Read(r, 1)
           q2 == Read(q1, 2)
           q3 == Read(q2, 1)
           q4 == Read(q3, 4)
           q5 == Read(q4, Width(Set(q1.field[1], HasSourceNodeId), 8))
           q6 == Read(q5, Width(Set(q1.field[1], HasDestNodeId), 8))
           q7 == Read(q6, Width(Set(q1.field[1], HasDestGroupId), 2))
<1>11. DecodePacketHeader(r)
         = IF /\ q7.ok
              /\ ~(/\ Set(q1.field[1], HasDestNodeId)
                   /\ Set(q1.field[1], HasDestGroupId))
              /\ Version(q1.field[1]) = 0
              /\ q3.field[1] % 4 \in SessionType
              /\ ~Set(q3.field[1], HasPrivacyEnhancements)
              /\ ~Set(q3.field[1], IsControlMessage)
           THEN [ok |-> TRUE, end |-> TRUE, rest |-> q7.rest,
                 field |->
                   [sessionId |-> q2.field, sessionType |-> q3.field[1] % 4,
                    messageId |-> q4.field, hasPrivacyEnhancements |-> FALSE,
                    isControlMessage |-> FALSE,
                    hasMessageExtensions |->
                      Set(q3.field[1], HasMessageExtension),
                    sourceNodeId |-> Or0(q5.field, 8),
                    destNodeId |-> Or0(q6.field, 8),
                    destGroupId |-> Or0(q7.field, 2)]]
           ELSE Refused(q7)
  BY Zenon DEF DecodePacketHeader
<1> HIDE DEF q1, q2, q3, q4, q5, q6, q7, R2, R3, R4, R5, R6, R7
<1>12. q1 = [ok |-> TRUE, end |-> TRUE, field |-> <<F>>, rest |-> R2]
  <2>1. Ahead(r, <<F>>, R2)
    BY <1>8, <1>9, <1>10 DEF Ahead
  <2>2. Read(r, Len(<<F>>))
            = [ok |-> TRUE, end |-> TRUE, field |-> <<F>>, rest |-> R2]
    BY <2>1, ReadFront
  <2> QED
    BY <1>8, <2>2 DEF q1
<1>13. q1.field[1] = F
  BY <1>8, <1>12
<1>14. q2 = [ok |-> TRUE, end |-> TRUE, field |-> h.sessionId, rest |-> R3]
  <2>1. Ahead(q1, h.sessionId, R3)
    BY <1>4, <1>10, <1>12 DEF R2, Ahead
  <2>2. Read(q1, Len(h.sessionId))
            = [ok |-> TRUE, end |-> TRUE, field |-> h.sessionId, rest |-> R3]
    BY <2>1, ReadFront, ZenonT(30)
  <2> QED
    BY <1>4, <2>2 DEF q2
<1>15. q3 = [ok |-> TRUE, end |-> TRUE, field |-> <<S>>, rest |-> R4]
  <2>1. Ahead(q2, <<S>>, R4)
    BY <1>8, <1>10, <1>14 DEF R3, Ahead
  <2>2. Read(q2, Len(<<S>>))
            = [ok |-> TRUE, end |-> TRUE, field |-> <<S>>, rest |-> R4]
    BY <2>1, ReadFront
  <2> QED
    BY <1>8, <2>2 DEF q3
<1>16. q4 = [ok |-> TRUE, end |-> TRUE, field |-> h.messageId, rest |-> R5]
  <2>1. Ahead(q3, h.messageId, R5)
    BY <1>4, <1>10, <1>15 DEF R4, Ahead
  <2>2. Read(q3, Len(h.messageId))
            = [ok |-> TRUE, end |-> TRUE, field |-> h.messageId, rest |-> R5]
    BY <2>1, ReadFront, ZenonT(30)
  <2> QED
    BY <1>4, <2>2 DEF q4
<1>17. q5 = [ok |-> TRUE, end |-> TRUE, field |-> source, rest |-> R6]
  <2>1. Ahead(q4, source, R6)
    BY <1>5, <1>10, <1>16 DEF R5, Ahead
  <2>2. Read(q4, Len(source))
            = [ok |-> TRUE, end |-> TRUE, field |-> source, rest |-> R6]
    BY <2>1, ReadFront
  <2> QED
    BY <1>5, <1>13, <2>2 DEF q5
<1>18. q6 = [ok |-> TRUE, end |-> TRUE, field |-> dest, rest |-> R7]
  <2>1. Ahead(q5, dest, R7)
    BY <1>6, <1>10, <1>17 DEF R6, Ahead
  <2>2. Read(q5, Len(dest))
            = [ok |-> TRUE, end |-> TRUE, field |-> dest, rest |-> R7]
    BY <2>1, ReadFront
  <2> QED
    BY <1>6, <1>13, <2>2 DEF q6
<1>19. q7 = [ok |-> TRUE, end |-> TRUE, field |-> group, rest |-> t]
  <2>1. Ahead(q6, group, t)
    BY <1>7, <1>18 DEF R7, Ahead
  <2>2. Read(q6, Len(group))
            = [ok |-> TRUE, end |-> TRUE, field |-> group, rest |-> t]
    BY <2>1, ReadFront
  <2> QED
    BY <1>7, <1>13, <2>2 DEF q7
<1>20. q3.field[1] = S
  BY <1>8, <1>15
<1>21. DecodePacketHeader(r)
         = IF ~(~IsZero(h.destNodeId) /\ ~IsZero(h.destGroupId))
           THEN [ok |-> TRUE, end |-> TRUE,
                 rest |-> t, field |-> PacketHeaderRead(h, e)]
           ELSE Failed
  <2>1. /\ q7.ok /\ q7.rest = t /\ q2.field = h.sessionId
        /\ q4.field = h.messageId /\ q5.field = source /\ q6.field = dest
        /\ q7.field = group
    BY <1>14, <1>16, <1>17, <1>18, <1>19
  <2>2. Set(S, HasMessageExtension) = e
    BY <1>3 DEF Set
  <2>3. Refused(q7) = Failed
    BY <1>19, Stops
  <2> QED
    BY <1>1, <1>2, <1>3, <1>5, <1>6, <1>7, <1>11, <1>13, <1>20, <2>1, <2>2, <2>3
       DEF PacketHeaderRead
<1> QED
  BY <1>9, <1>21
(* The length of a packet header does not depend on its marks.             *)
LEMMA MarkedLength ==
  ASSUME NEW h \in PacketHeader, NEW e \in BOOLEAN
  PROVE  /\ MarkedPacket(h, e) \in Seq(Nat)
         /\ Len(MarkedPacket(h, e))
              = 8 + Len(Present(h.sourceNodeId)) + Len(Present(h.destNodeId))
                  + Len(Present(h.destGroupId))
         /\ Len(MarkedPacket(h, e)) \in Nat /\ Len(MarkedPacket(h, e)) > 0
<1> DEFINE F == PacketFlags(h)
           S == h.sessionType + Flag(e, HasMessageExtension)
           source == Present(h.sourceNodeId)
           dest == Present(h.destNodeId)
           group == Present(h.destGroupId)
           A == <<F>> \o h.sessionId
           B == A \o <<S>>
           C == B \o h.messageId
           D == C \o source
           E == D \o dest
<1>1. /\ h.sessionId \in Number(2) /\ h.messageId \in Number(4)
      /\ h.sourceNodeId \in Number(8) /\ h.destNodeId \in Number(8)
      /\ h.destGroupId \in Number(2) /\ h.sessionType \in SessionType
  BY Zenon DEF PacketHeader
<1>2. F \in Nat /\ S \in Nat
  <2>1. /\ IsZero(h.destNodeId) \in BOOLEAN /\ IsZero(h.destGroupId) \in BOOLEAN
        /\ IsZero(h.sourceNodeId) \in BOOLEAN
    BY DEF IsZero
  <2> QED
    BY <1>1, <2>1, PacketMasks, SecurityMasks DEF PacketFlags
<1>3. /\ h.sessionId \in Seq(Nat) /\ Len(h.sessionId) = 2
      /\ h.messageId \in Seq(Nat) /\ Len(h.messageId) = 4
  BY <1>1, NumberBytes
<1>4. source \in Seq(Nat) /\ dest \in Seq(Nat) /\ group \in Seq(Nat)
  <2>1. 8 \in Nat \ {0} /\ 2 \in Nat \ {0}
    OBVIOUS
  <2> QED
    BY <1>1, <2>1, PresentBack
<1>5. MarkedPacket(h, e) = E \o group
  BY DEF MarkedPacket, EncodePacketHeader, F, S, source, dest, group,
         PacketFlags, PacketHeader
<1> HIDE DEF F, S, source, dest, group
<1>6. <<F>> \in Seq(Nat) /\ Len(<<F>>) = 1 /\ <<S>> \in Seq(Nat) /\ Len(<<S>>) = 1
  BY <1>2, One
<1>7. A \in Seq(Nat) /\ Len(A) = 3
  <2>1. A \in Seq(Nat) /\ Len(A) = Len(<<F>>) + Len(h.sessionId)
    BY <1>3, <1>6, Joined, Zenon
  <2> QED
    BY <1>3, <1>6, <2>1
<1> HIDE DEF A
<1>8. B \in Seq(Nat) /\ Len(B) = 4
  <2>1. B \in Seq(Nat) /\ Len(B) = Len(A) + Len(<<S>>)
    BY <1>6, <1>7, Joined, Zenon
  <2> QED
    BY <1>6, <1>7, <2>1
<1> HIDE DEF B
<1>9. C \in Seq(Nat) /\ Len(C) = 8
  <2>1. C \in Seq(Nat) /\ Len(C) = Len(B) + Len(h.messageId)
    BY <1>3, <1>8, Joined, Zenon
  <2> QED
    BY <1>3, <1>8, <2>1
<1> HIDE DEF C
<1>10. D \in Seq(Nat) /\ Len(D) = 8 + Len(source)
  BY <1>4, <1>9, Joined
<1> HIDE DEF D
<1>11. E \in Seq(Nat) /\ Len(E) = 8 + Len(source) + Len(dest)
  BY <1>4, <1>10, Joined
<1> HIDE DEF E
<1>12. /\ E \o group \in Seq(Nat)
       /\ Len(E \o group) = 8 + Len(source) + Len(dest) + Len(group)
  BY <1>4, <1>11, Joined
<1>13. Len(source) \in Nat /\ Len(dest) \in Nat /\ Len(group) \in Nat
  BY <1>4, LenProperties
<1> QED
  BY <1>5, <1>12, <1>13 DEF source, dest, group
-----------------------------------------------------------------------------
(* An extension that is there is read with its length, and one that is not *)
(* is not looked for.                                                      *)
LEMMA ExtensionBytes ==
  ASSUME NEW c \in BOOLEAN
  PROVE  ExtensionIf(c) \in Seq(Nat) /\ Extension \in Seq(Nat)
<1> DEFINE a == <<Len(Extension) % 256>>
           b == <<Len(Extension) \div 256>>
<1>1. Extension \in Seq(Nat)
  <2>1. Byte \subseteq Nat
    BY DEF Byte
  <2> QED
    BY <2>1, MatterAssumption, SeqMonotonic
<1>2. a \in Seq(Nat) /\ b \in Seq(Nat)
  <2>1. Len(Extension) \in Nat
    BY <1>1, LenProperties
  <2> QED
    BY <2>1
<1>3. ExtensionIf(c) = IF c THEN (a \o b) \o Extension ELSE <<>>
  BY Zenon DEF ExtensionIf
<1> HIDE DEF a, b
<1>4. a \o b \in Seq(Nat)
  BY <1>2, Join
<1>5. (a \o b) \o Extension \in Seq(Nat)
  BY <1>1, <1>4, Join
<1> QED
  BY <1>1, <1>3, <1>5

(* An extension that is announced is read whole.                           *)
LEMMA ExtensionBack ==
  ASSUME NEW c \in BOOLEAN, NEW t \in Seq(Nat), NEW r,
         r.ok, r.end, r.rest = ExtensionIf(c) \o t
  PROVE  ReadExtension(r, c)
           = [ok |-> TRUE, end |-> TRUE,
              field |-> IF c THEN Extension ELSE <<>>, rest |-> t]
<1> DEFINE size == Read(r, Width(c, 2))
           n == IF c THEN size.field[1] + 256 * size.field[2] ELSE 0
<1>1. ReadExtension(r, c) = Read(size, n)
  BY Zenon DEF ReadExtension
<1>2. CASE c
  <2> DEFINE a == <<Len(Extension) % 256>>
             b == <<Len(Extension) \div 256>>
             f == a \o b
  <2>1. Extension \in Seq(Nat) /\ Len(Extension) \in Nat
    BY ExtensionBytes, LenProperties
  <2>2. a \in Seq(Nat) /\ b \in Seq(Nat) /\ Len(a) = 1 /\ Len(b) = 1
    BY <2>1
  <2>3. a[1] + 256 * b[1] = Len(Extension)
    BY <2>1
  <2>4. r.rest = (f \o Extension) \o t
    BY <1>2, Zenon DEF ExtensionIf
  <2> HIDE DEF a, b
  <2>5. f \in Seq(Nat) /\ Len(f) = 2 /\ f[1] = a[1] /\ f[2] = b[1]
    <3>1. /\ Len(a \o b) = Len(a) + Len(b)
          /\ \A i \in 1..Len(a) + Len(b) :
               (a \o b)[i] = IF i <= Len(a) THEN a[i] ELSE b[i - Len(a)]
          /\ a \o b \in Seq(Nat)
      BY <2>2, Joined
    <3> QED
      BY <2>2, <3>1
  <2> HIDE DEF f, size
  <2>6. r.rest = f \o (Extension \o t)
    BY <2>1, <2>4, <2>5, Assoc
  <2>7. Ahead(r, f, Extension \o t)
    BY <2>1, <2>5, <2>6, Join DEF Ahead
  <2>8. size = [ok |-> TRUE, end |-> TRUE, field |-> f, rest |-> Extension \o t]
    <3>1. Read(r, Len(f)) = [ok |-> TRUE, end |-> TRUE, field |-> f,
                             rest |-> Extension \o t]
      BY <2>7, ReadFront
    <3> QED
      BY <1>2, <2>5, <3>1 DEF size, Width
  <2>9. Ahead(size, Extension, t) /\ n = Len(Extension)
    BY <1>2, <2>1, <2>3, <2>5, <2>8 DEF Ahead
  <2>10. Read(size, Len(Extension))
           = [ok |-> TRUE, end |-> TRUE, field |-> Extension, rest |-> t]
    BY <2>9, ReadFront
  <2> QED
    BY <1>1, <1>2, <2>9, <2>10
<1>3. CASE ~c
  <2> DEFINE f == ExtensionIf(c)
  <2>1. f = <<>> /\ f \in Seq(Nat) /\ Len(f) = 0
    BY <1>3 DEF ExtensionIf
  <2>2. Ahead(r, f, t)
    BY <2>1 DEF Ahead
  <2> HIDE DEF f, size
  <2>3. Read(r, Len(f)) = [ok |-> TRUE, end |-> TRUE, field |-> f, rest |-> t]
    BY <2>2, ReadFront
  <2>4. size = [ok |-> TRUE, end |-> TRUE, field |-> f, rest |-> t]
    BY <1>3, <2>1, <2>3 DEF size, Width
  <2>5. t = f \o t
    BY <2>1, ConcatEmptySeq
  <2>6. Ahead(size, f, t)
    BY <2>1, <2>4, <2>5 DEF Ahead
  <2>7. Read(size, Len(f))
            = [ok |-> TRUE, end |-> TRUE, field |-> f, rest |-> t]
    BY <2>6, ReadFront
  <2>8. n = 0
    BY <1>3
  <2> QED
    BY <1>1, <1>3, <2>1, <2>7, <2>8
<1> QED
  BY <1>2, <1>3
(* An extension that is not announced takes nothing.                       *)
LEMMA NoExtension ==
  ASSUME NEW r, r.ok, r.end, r.rest \in Seq(Nat)
  PROVE  ReadExtension(r, FALSE).rest = r.rest
<1> DEFINE c == FALSE
<1>1. c \in BOOLEAN /\ ExtensionIf(c) = <<>>
  BY DEF ExtensionIf
<1>2. r.rest = ExtensionIf(c) \o r.rest
  BY <1>1, ConcatEmptySeq
<1>3. ReadExtension(r, c).rest = r.rest
  <2> HIDE DEF c
  <2>1. ReadExtension(r, c)
          = [ok |-> TRUE, end |-> TRUE, field |-> IF c THEN Extension ELSE <<>>,
             rest |-> r.rest]
    BY <1>1, <1>2, ExtensionBack
  <2> QED
    BY <2>1
<1> QED
  BY <1>3, Zenon
-----------------------------------------------------------------------------
(* The lower half of a protocol id and the vendor, which is its upper half *)
LEMMA Halves ==
  ASSUME NEW p \in Number(4)
  PROVE  /\ SubSeq(p, 1, 2) \in Seq(Nat) /\ Len(SubSeq(p, 1, 2)) = 2
         /\ SubSeq(p, 1, 2)[1] = p[1] /\ SubSeq(p, 1, 2)[2] = p[2]
         /\ SubSeq(p, 3, 4) \in Seq(Nat) /\ Len(SubSeq(p, 3, 4)) = 2
         /\ SubSeq(p, 3, 4)[1] = p[3] /\ SubSeq(p, 3, 4)[2] = p[4]
<1>1. p \in Seq(Nat) /\ Len(p) = 4
  BY NumberBytes
<1>2. \A i \in 1..4 : p[i] \in Nat
  BY <1>1, ElementOfSeq
<1> QED
  BY <1>1, <1>2, SubSeqProperties

(* A protocol id is its two halves.                                        *)
LEMMA HalvesMakeWhole ==
  ASSUME NEW p \in Number(4)
  PROVE  p = SubSeq(p, 1, 2) \o SubSeq(p, 3, 4)
<1> DEFINE a == SubSeq(p, 1, 2)
           b == SubSeq(p, 3, 4)
           s == a \o b
<1>1. p \in Seq(Nat) /\ Len(p) = 4
  BY NumberBytes
<1>2. /\ a \in Seq(Nat) /\ Len(a) = 2 /\ a[1] = p[1] /\ a[2] = p[2]
      /\ b \in Seq(Nat) /\ Len(b) = 2 /\ b[1] = p[3] /\ b[2] = p[4]
  BY Halves
<1> HIDE DEF a, b
<1>3. /\ Len(s) = Len(a) + Len(b)
      /\ \A i \in 1..Len(a) + Len(b) :
           s[i] = IF i <= Len(a) THEN a[i] ELSE b[i - Len(a)]
      /\ s \in Seq(Nat)
  BY <1>2, Joined
<1> HIDE DEF s
<1>4. /\ Len(s) = 4 /\ s[1] = p[1] /\ s[2] = p[2] /\ s[3] = p[3] /\ s[4] = p[4]
  BY <1>2, <1>3
<1>5. \A i \in 1..Len(p) : p[i] = s[i]
  BY <1>1, <1>4
<1>6. p = s
  BY <1>1, <1>3, <1>4, <1>5, SeqEqual
<1> QED
  BY <1>6 DEF s, a, b

(* Two bytes are zero when each is.                                        *)
LEMMA ZeroPair ==
  ASSUME NEW f \in Seq(Nat), Len(f) = 2
  PROVE  IsZero(f) <=> f[1] = 0 /\ f[2] = 0
<1>1. Zero(2) \in Seq(Nat) /\ Len(Zero(2)) = 2 /\ \A i \in 1..2 : Zero(2)[i] = 0
  BY DEF Zero
<1>2. CASE f[1] = 0 /\ f[2] = 0
  <2>1. \A i \in 1..2 : f[i] = Zero(2)[i]
    BY <1>1, <1>2
  <2>2. f = Zero(2)
    BY <1>1, <2>1, SeqEqual
  <2> QED
    BY <1>2, <2>2 DEF IsZero
<1>3. CASE ~(f[1] = 0 /\ f[2] = 0)
  <2>1. f # Zero(2)
    BY <1>1, <1>3
  <2> QED
    BY <1>3, <2>1 DEF IsZero
<1> QED
  BY <1>2, <1>3

(* Two bytes of protocol id become four.                                   *)
LEMMA Padded ==
  ASSUME NEW f \in Seq(Nat), Len(f) = 2
  PROVE  /\ SubSeq(f \o Zero(2), 1, 4) \in Seq(Nat)
         /\ Len(SubSeq(f \o Zero(2), 1, 4)) = 4
         /\ SubSeq(f \o Zero(2), 1, 4)[1] = f[1]
         /\ SubSeq(f \o Zero(2), 1, 4)[2] = f[2]
         /\ SubSeq(f \o Zero(2), 1, 4)[3] = 0
         /\ SubSeq(f \o Zero(2), 1, 4)[4] = 0
<1> DEFINE z == Zero(2)
           b == f \o z
<1>1. z \in Seq(Nat) /\ Len(z) = 2 /\ \A i \in 1..2 : z[i] = 0
  BY DEF Zero
<1> HIDE DEF z
<1>2. /\ b \in Seq(Nat) /\ Len(b) = 4
      /\ b[1] = f[1] /\ b[2] = f[2] /\ b[3] = 0 /\ b[4] = 0
  <2>1. /\ Len(b) = Len(f) + Len(z)
        /\ \A i \in 1..Len(f) + Len(z) :
             b[i] = IF i <= Len(f) THEN f[i] ELSE z[i - Len(f)]
        /\ b \in Seq(Nat)
    BY <1>1, Joined
  <2> QED
    BY <1>1, <2>1
<1> HIDE DEF b
<1>3. \A i \in 1..4 : b[i] \in Nat
  BY <1>2, ElementOfSeq
<1>4. /\ SubSeq(b, 1, 4) \in Seq(Nat) /\ Len(SubSeq(b, 1, 4)) = 4
      /\ \A i \in 1..4 : SubSeq(b, 1, 4)[i] = b[i]
  BY <1>2, <1>3, SubSeqProperties
<1>5. /\ SubSeq(b, 1, 4)[1] = f[1] /\ SubSeq(b, 1, 4)[2] = f[2]
      /\ SubSeq(b, 1, 4)[3] = 0 /\ SubSeq(b, 1, 4)[4] = 0
  BY <1>2, <1>4
<1> QED
  BY <1>4, <1>5 DEF b, z

(* Setting a flag replaces the first byte.                                 *)
LEMMA FirstReplaced ==
  ASSUME NEW F \in Nat, NEW G \in Nat, NEW u \in Seq(Nat)
  PROVE  [(<<F>> \o u) EXCEPT ![1] = G] = <<G>> \o u /\ (<<F>> \o u)[1] = F
<1> DEFINE a == <<F>>
           b == <<G>>
           s == a \o u
           v == b \o u
           x == [s EXCEPT ![1] = G]
<1>1. /\ a \in Seq(Nat) /\ Len(a) = 1 /\ a[1] = F
      /\ b \in Seq(Nat) /\ Len(b) = 1 /\ b[1] = G /\ Len(u) \in Nat
  BY LenProperties
<1> HIDE DEF a, b
<1>2. /\ Len(s) = Len(a) + Len(u) /\ s \in Seq(Nat)
      /\ \A i \in 1..Len(a) + Len(u) :
           s[i] = IF i <= Len(a) THEN a[i] ELSE u[i - Len(a)]
  BY <1>1, Joined
<1>3. /\ Len(v) = Len(b) + Len(u) /\ v \in Seq(Nat)
      /\ \A i \in 1..Len(b) + Len(u) :
           v[i] = IF i <= Len(b) THEN b[i] ELSE u[i - Len(b)]
  BY <1>1, Joined
<1> HIDE DEF s, v
<1>4. 1 \in 1..Len(s)
  BY <1>1, <1>2
<1>5. /\ x \in Seq(Nat) /\ Len(x) = Len(s)
      /\ \A j \in 1..Len(s) : x[j] = IF j = 1 THEN G ELSE s[j]
  BY <1>2, <1>4, ExceptSeq
<1> HIDE DEF x
<1>6. x = v
  <2>1. Len(x) = Len(v)
    BY <1>1, <1>2, <1>3, <1>5
  <2>2. \A i \in 1..Len(x) : x[i] = v[i]
    <3> SUFFICES ASSUME NEW i \in 1..Len(x) PROVE x[i] = v[i]
      OBVIOUS
    <3>1. i \in Nat /\ i \in 1..Len(s) /\ i \in 1..1 + Len(u) /\ i >= 1
      BY <1>1, <1>2, <1>5
    <3>2. CASE i = 1
      BY <1>1, <1>3, <1>5, <3>1, <3>2
    <3>3. CASE i # 1
      <4>1. ~(i <= 1)
        BY <3>1, <3>3
      <4>2. x[i] = s[i]
        BY <1>5, <3>1, <3>3
      <4>3. s[i] = u[i - 1]
        BY <1>1, <1>2, <3>1, <4>1
      <4>4. v[i] = u[i - 1]
        BY <1>1, <1>3, <3>1, <4>1
      <4> QED
        BY <4>2, <4>3, <4>4
    <3> QED
      BY <3>2, <3>3
  <2> QED
    BY <1>3, <1>5, <2>1, <2>2, SeqEqual
<1>7. s[1] = F
  BY <1>1, <1>2
<1> QED
  BY <1>6, <1>7 DEF x, v, s, a, b

ProtocolBytes(h) ==
  IF IsZero(VendorId(h)) THEN SubSeq(h.protocolId, 1, 2) ELSE h.protocolId

(* The payload header with the mark of a secured extension *)
MarkedHeader(h, e) ==
  [EncodePayloadHeader(h) EXCEPT ![1] = @ + Flag(e, HasSecureExtension)]

Marks(h, e) == PayloadFlags(h) + Flag(e, HasSecureExtension)

(* The exchange flags of a header, and what they are once marked           *)
LEMMA PayloadFlagsFound ==
  ASSUME NEW h \in PayloadHeader, NEW e \in BOOLEAN,
         NEW F, F = PayloadFlags(h), NEW G, G = Marks(h, e)
  PROVE  /\ F \in Nat /\ G \in Nat
         /\ Set(G, IsInitiatorMessage) <=> h.isInitiatorMessage
         /\ HasAck(G) <=> ~IsZero(h.ackedMessageId)
         /\ Set(G, RequiresAck) <=> h.requiresAck
         /\ Set(G, HasVendorId) <=> ~IsZero(VendorId(h))
         /\ Set(G, HasSecureExtension) <=> e
<1> DEFINE a == ~IsZero(h.ackedMessageId)
           v == ~IsZero(VendorId(h))
<1>1. h.isInitiatorMessage \in BOOLEAN /\ h.requiresAck \in BOOLEAN
  BY Zenon DEF PayloadHeader
<1>2. a \in BOOLEAN /\ v \in BOOLEAN
  BY DEF IsZero
<1>3. F = Flag(h.isInitiatorMessage, IsInitiatorMessage) + Flag(a, IsAckMessage)
            + Flag(h.requiresAck, RequiresAck) + Flag(v, HasVendorId)
  BY Zenon DEF PayloadFlags
<1> HIDE DEF a, v
<1>4. F \in Nat
  BY <1>3 DEF Flag, IsInitiatorMessage, IsAckMessage, RequiresAck, HasVendorId
<1>5. G = AllMarks(h.isInitiatorMessage, a, h.requiresAck, v, e)
  BY <1>3, Zenon DEF Marks, AllMarks
<1>6. Shows(G, h.isInitiatorMessage, a, h.requiresAck, v, e)
  BY <1>1, <1>2, <1>5, PayloadMasks, Zenon
<1> QED
  BY <1>4, <1>6, Zenon DEF a, v, Shows

(* The fields of the payload header as they stand one after the other      *)
LEMMA PayloadHeaderBytes ==
  ASSUME NEW h \in PayloadHeader, NEW e \in BOOLEAN, NEW t \in Seq(Nat)
  PROVE  /\ MarkedHeader(h, e) \in Seq(Nat)
         /\ MarkedHeader(h, e) \o t
              = <<Marks(h, e)>> \o (<<h.messageType>> \o (h.exchangeId \o
                  (ProtocolBytes(h) \o (Present(h.ackedMessageId) \o t))))
         /\ <<h.messageType>> \in Seq(Nat) /\ h.exchangeId \in Seq(Nat)
         /\ ProtocolBytes(h) \in Seq(Nat) /\ Present(h.ackedMessageId) \in Seq(Nat)
<1> DEFINE bytes == MarkedHeader(h, e)
           F == PayloadFlags(h)
           G == Marks(h, e)
           type == <<h.messageType>>
           id == ProtocolBytes(h)
           acked == Present(h.ackedMessageId)
           p == << <<F>>, type, h.exchangeId, id, acked >>
           q == << <<G>>, type, h.exchangeId, id, acked >>
           s == << <<G>>, type, h.exchangeId, id, acked, t >>
           u == type \o (h.exchangeId \o (id \o acked))
<1>0. F \in Nat /\ G \in Nat
  BY PayloadFlagsFound
<1>1. /\ h.messageType \in Byte /\ h.exchangeId \in Number(2)
      /\ h.protocolId \in Number(4) /\ h.ackedMessageId \in Number(4)
  BY Zenon DEF PayloadHeader
<1>2. type \in Seq(Nat) /\ <<F>> \in Seq(Nat) /\ <<G>> \in Seq(Nat)
  <2>1. h.messageType \in Nat
    BY <1>1, BytesAreNumbers, Zenon
  <2> QED
    BY <1>0, <2>1, One
<1>3. h.exchangeId \in Seq(Nat) /\ h.protocolId \in Seq(Nat)
  BY <1>1, NumberBytes
<1>4. id \in Seq(Nat)
  BY <1>1, <1>3, Halves DEF ProtocolBytes
<1>5. acked \in Seq(Nat)
  <2>1. 4 \in Nat \ {0}
    OBVIOUS
  <2> QED
    BY <1>1, <2>1, PresentBack
<1>6. EncodePayloadHeader(h) = <<F>> \o type \o h.exchangeId \o id \o acked
  BY Zenon DEF EncodePayloadHeader, ProtocolBytes
<1> HIDE DEF bytes, F, G, type, id, acked
<1>7. /\ p \in [1..5 -> Seq(Nat)] /\ q \in [1..5 -> Seq(Nat)]
      /\ s \in [1..6 -> Seq(Nat)]
  BY <1>2, <1>3, <1>4, <1>5, Tuple5, Tuple6
<1>8. /\ p[1] = <<F>> /\ p[2] = type /\ p[3] = h.exchangeId /\ p[4] = id
      /\ p[5] = acked
      /\ q[1] = <<G>> /\ q[2] = type /\ q[3] = h.exchangeId /\ q[4] = id
      /\ q[5] = acked
      /\ s[1] = <<G>> /\ s[2] = type /\ s[3] = h.exchangeId /\ s[4] = id
      /\ s[5] = acked /\ s[6] = t
  OBVIOUS
<1> HIDE DEF p, q, s
<1>9. EncodePayloadHeader(h) = <<F>> \o u
  BY <1>6, <1>7, <1>8, Nest4
<1>10. <<G>> \o type \o h.exchangeId \o id \o acked = <<G>> \o u
  BY <1>7, <1>8, Nest4
<1>11. u \in Seq(Nat)
  <2>1. id \o acked \in Seq(Nat)
    BY <1>4, <1>5, Join
  <2>2. h.exchangeId \o (id \o acked) \in Seq(Nat)
    BY <1>3, <2>1, Join
  <2> QED
    BY <1>2, <2>2, Join
<1> HIDE DEF u
<1>12. bytes = <<G>> \o u
  <2>1. [(<<F>> \o u) EXCEPT ![1] = G] = <<G>> \o u /\ (<<F>> \o u)[1] = F
    BY <1>0, <1>11, FirstReplaced
  <2>2. bytes = [EncodePayloadHeader(h) EXCEPT
                   ![1] = EncodePayloadHeader(h)[1] + Flag(e, HasSecureExtension)]
    BY DEF bytes, MarkedHeader
  <2>3. EncodePayloadHeader(h)[1] + Flag(e, HasSecureExtension) = G
    BY <1>9, <2>1 DEF F, G, Marks
  <2> QED
    BY <1>9, <2>1, <2>2, <2>3
<1>13. bytes \in Seq(Nat)
  BY <1>2, <1>11, <1>12, Join
<1>14. bytes \o t
         = <<G>> \o (type \o (h.exchangeId \o (id \o (acked \o t))))
  <2>1. (<<G>> \o type \o h.exchangeId \o id \o acked) \o t
         = <<G>> \o (type \o (h.exchangeId \o (id \o (acked \o t))))
    BY <1>7, <1>8, Nest5
  <2> QED
    BY <1>10, <1>12, <2>1
<1> QED
  BY <1>2, <1>3, <1>4, <1>5, <1>13, <1>14 DEF bytes, G, type, id, acked

(* An encoded payload header begins with its flags.                        *)
LEMMA FlagsFirst ==
  ASSUME NEW h \in PayloadHeader
  PROVE  \E F \in Nat, u \in Seq(Nat) : EncodePayloadHeader(h) = <<F>> \o u
<1> DEFINE F == PayloadFlags(h)
           type == <<h.messageType>>
           id == ProtocolBytes(h)
           acked == Present(h.ackedMessageId)
           p == << <<F>>, type, h.exchangeId, id, acked >>
           u == type \o (h.exchangeId \o (id \o acked))
<1>1. F \in Nat
  BY PayloadFlagsFound
<1>2. /\ type \in Seq(Nat) /\ h.exchangeId \in Seq(Nat)
      /\ id \in Seq(Nat) /\ acked \in Seq(Nat)
  <2>1. <<>> \in Seq(Nat) /\ FALSE \in BOOLEAN
    OBVIOUS
  <2> QED
    BY <2>1, PayloadHeaderBytes, Zenon
<1>3. EncodePayloadHeader(h) = <<F>> \o type \o h.exchangeId \o id \o acked
  BY Zenon DEF EncodePayloadHeader, ProtocolBytes
<1> HIDE DEF F, type, id, acked
<1>4. <<F>> \in Seq(Nat)
  BY <1>1, One
<1>5. p \in [1..5 -> Seq(Nat)]
  BY <1>2, <1>4, Tuple5
<1>6. p[1] = <<F>> /\ p[2] = type /\ p[3] = h.exchangeId /\ p[4] = id
      /\ p[5] = acked
  OBVIOUS
<1> HIDE DEF p
<1>7. EncodePayloadHeader(h) = <<F>> \o u
  BY <1>3, <1>5, <1>6, Nest4
<1>8. u \in Seq(Nat)
  <2>1. id \o acked \in Seq(Nat)
    BY <1>2, Join
  <2>2. h.exchangeId \o (id \o acked) \in Seq(Nat)
    BY <1>2, <2>1, Join
  <2> QED
    BY <1>2, <2>2, Join
<1> HIDE DEF u
<1> QED
  BY <1>1, <1>7, <1>8

PayloadHeaderRead(h, e) ==
  [exchangeId |-> h.exchangeId, protocolId |-> h.protocolId,
   messageType |-> h.messageType, isInitiatorMessage |-> h.isInitiatorMessage,
   requiresAck |-> h.requiresAck, ackedMessageId |-> h.ackedMessageId,
   hasSecuredExtension |-> e]

FoundAgain(d, h, e, t) ==
  d = [ok |-> TRUE, end |-> TRUE, rest |-> t, field |-> PayloadHeaderRead(h, e)]

(* d takes the protocol id of h or the beginning of t for something else.   *)
Misread(d, h, e, t) ==
  /\ d.end
  /\ d.rest \in Seq(Nat) /\ d.field.hasSecuredExtension = e
  /\ d.field.protocolId # h.protocolId \/ Len(d.rest) # Len(t)

(* The decoder finds the payload header again, and where it ends, when the *)
(* vendor is the common one; of another vendor's header it makes another   *)
(* protocol or another end.                                                *)
LEMMA PayloadHeaderBack ==
  ASSUME NEW h \in PayloadHeader, NEW e \in BOOLEAN, NEW t \in Seq(Nat), NEW r,
         r.ok, r.end, r.rest = MarkedHeader(h, e) \o t
  PROVE  /\ MarkedHeader(h, e) \in Seq(Nat)
         /\ IsZero(VendorId(h)) => FoundAgain(DecodePayloadHeader(r), h, e, t)
         /\ ~IsZero(VendorId(h)) /\ DecodePayloadHeader(r).ok =>
              Misread(DecodePayloadHeader(r), h, e, t)
<1> DEFINE bytes == MarkedHeader(h, e)
           F == PayloadFlags(h)
           G == Marks(h, e)
           type == <<h.messageType>>
           id == ProtocolBytes(h)
           acked == Present(h.ackedMessageId)
           R5 == acked \o t
           R4 == id \o R5
           R3 == h.exchangeId \o R4
           R2 == type \o R3
<1>1. /\ h.messageType \in Byte /\ h.exchangeId \in Number(2)
      /\ h.protocolId \in Number(4) /\ h.ackedMessageId \in Number(4)
      /\ h.isInitiatorMessage \in BOOLEAN /\ h.requiresAck \in BOOLEAN
  BY Zenon DEF PayloadHeader
<1>2. /\ F \in Nat /\ G \in Nat
      /\ Set(G, IsInitiatorMessage) <=> h.isInitiatorMessage
      /\ HasAck(G) <=> ~IsZero(h.ackedMessageId)
      /\ Set(G, RequiresAck) <=> h.requiresAck
      /\ Set(G, HasVendorId) <=> ~IsZero(VendorId(h))
      /\ Set(G, HasSecureExtension) <=> e
  BY PayloadFlagsFound
<1>3. /\ type \in Seq(Nat) /\ Len(type) = 1 /\ type[1] = h.messageType
      /\ <<G>> \in Seq(Nat) /\ Len(<<G>>) = 1 /\ <<G>>[1] = G
  <2>1. h.messageType \in Nat
    BY <1>1, BytesAreNumbers, Zenon
  <2> QED
    BY <1>2, <2>1, One
<1>4. /\ h.exchangeId \in Seq(Nat) /\ Len(h.exchangeId) = 2
      /\ h.protocolId \in Seq(Nat) /\ Len(h.protocolId) = 4
  BY <1>1, NumberBytes
<1>5. /\ acked \in Seq(Nat) /\ Or0(acked, 4) = h.ackedMessageId
      /\ Len(acked) = Width(HasAck(G), 4)
  <2>1. /\ acked \in Seq(Nat) /\ Or0(acked, 4) = h.ackedMessageId
        /\ Len(acked) = Width(~IsZero(h.ackedMessageId), 4)
    <3>1. 4 \in Nat \ {0}
      OBVIOUS
    <3> QED
      BY <1>1, <3>1, PresentBack
  <2> QED
    BY <1>2, <2>1 DEF Width
<1>6. /\ bytes \in Seq(Nat) /\ r.rest = <<G>> \o R2
      /\ id \in Seq(Nat)
  <2>1. /\ bytes \in Seq(Nat)
        /\ bytes \o t
             = <<Marks(h, e)>> \o (<<h.messageType>> \o (h.exchangeId \o
                 (ProtocolBytes(h) \o (Present(h.ackedMessageId) \o t))))
        /\ ProtocolBytes(h) \in Seq(Nat)
    BY PayloadHeaderBytes, Zenon
  <2> QED
    BY <2>1, Zenon
<1> HIDE DEF F, G, type, id, acked
<1>7. R5 \in Seq(Nat)  BY <1>5, Join
<1> HIDE DEF R5
<1>8. R4 \in Seq(Nat)  BY <1>6, <1>7, Join
<1> HIDE DEF R4
<1>9. R3 \in Seq(Nat)  BY <1>4, <1>8, Join
<1> HIDE DEF R3
<1>10. R2 \in Seq(Nat)  BY <1>3, <1>9, Join
<1> DEFINE q1 == Read(r, 1)
           q2 == Read(q1, 1)
           q3 == Read(q2, 2)
           q4 == Read(q3, Width(Set(q1.field[1], HasVendorId), 2))
           q5 == Read(q4, IF IsZero(q4.field) THEN 2 ELSE 4)
           q6 == Read(q5, Width(HasAck(q1.field[1]), 4))
           read == [exchangeId |-> q3.field,
                    protocolId |-> SubSeq(q5.field \o Zero(2), 1, 4),
                    messageType |-> q2.field[1],
                    isInitiatorMessage |-> Set(q1.field[1], IsInitiatorMessage),
                    requiresAck |-> Set(q1.field[1], RequiresAck),
                    ackedMessageId |-> Or0(q6.field, 4),
                    hasSecuredExtension |-> Set(q1.field[1], HasSecureExtension)]
<1>11. DecodePayloadHeader(r)
         = IF q6.ok
           THEN [ok |-> TRUE, end |-> TRUE, rest |-> q6.rest, field |-> read]
           ELSE Refused(q6)
  BY Zenon DEF DecodePayloadHeader
<1> HIDE DEF q1, q2, q3, q4, q5, q6, R2
<1>12. q1 = [ok |-> TRUE, end |-> TRUE, field |-> <<G>>, rest |-> R2]
  <2>1. Ahead(r, <<G>>, R2)
    BY <1>3, <1>6, <1>10 DEF Ahead
  <2>2. Read(r, Len(<<G>>))
            = [ok |-> TRUE, end |-> TRUE, field |-> <<G>>, rest |-> R2]
    BY <2>1, ReadFront
  <2> QED
    BY <1>3, <2>2 DEF q1
<1>13. q1.field[1] = G
  BY <1>3, <1>12
<1>14. q2 = [ok |-> TRUE, end |-> TRUE, field |-> type, rest |-> R3]
  <2>1. Ahead(q1, type, R3)
    BY <1>3, <1>9, <1>12 DEF R2, Ahead
  <2>2. Read(q1, Len(type))
            = [ok |-> TRUE, end |-> TRUE, field |-> type, rest |-> R3]
    BY <2>1, ReadFront
  <2> QED
    BY <1>3, <2>2 DEF q2
<1>15. q3 = [ok |-> TRUE, end |-> TRUE, field |-> h.exchangeId, rest |-> R4]
  <2>1. Ahead(q2, h.exchangeId, R4)
    BY <1>4, <1>8, <1>14 DEF R3, Ahead
  <2>2. Read(q2, Len(h.exchangeId))
            = [ok |-> TRUE, end |-> TRUE, field |-> h.exchangeId, rest |-> R4]
    BY <2>1, ReadFront
  <2> QED
    BY <1>4, <2>2 DEF q3
<1>16. /\ q2.field[1] = h.messageType
       /\ read.hasSecuredExtension = e
  <2>1. q2.field[1] = h.messageType
    BY <1>3, <1>14
  <2>2. Set(G, HasSecureExtension) = e
    BY <1>2 DEF Set
  <2>3. read.hasSecuredExtension = Set(q1.field[1], HasSecureExtension)
    OBVIOUS
  <2> QED
    BY <1>13, <2>1, <2>2, <2>3
<1>17. CASE IsZero(VendorId(h))
  <2>1. id = SubSeq(h.protocolId, 1, 2) /\ id \in Seq(Nat) /\ Len(id) = 2
    BY <1>1, <1>17, Halves DEF id, ProtocolBytes
  <2>2. q4 = [ok |-> TRUE, end |-> TRUE, field |-> <<>>, rest |-> R4]
    <3>1. R4 = <<>> \o R4 /\ <<>> \in Seq(Nat)
      BY <1>8, ConcatEmptySeq
    <3>2. Ahead(q3, <<>>, R4)
      BY <1>8, <1>15, <3>1 DEF Ahead
    <3>3. Read(q3, Len(<<>>))
              = [ok |-> TRUE, end |-> TRUE, field |-> <<>>, rest |-> R4]
      BY <3>2, ReadFront
    <3> QED
      BY <1>2, <1>13, <1>17, <3>3 DEF q4, Width
  <2>3. IsZero(q4.field)
    <3>1. <<>> = Zero(0) /\ Len(<<>>) = 0
      BY DEF Zero
    <3> QED
      BY <2>2, <3>1 DEF IsZero
  <2>4. q5 = [ok |-> TRUE, end |-> TRUE, field |-> id, rest |-> R5]
    <3>1. Ahead(q4, id, R5)
      BY <1>7, <2>1, <2>2 DEF R4, Ahead
    <3>2. Read(q4, Len(id))
              = [ok |-> TRUE, end |-> TRUE, field |-> id, rest |-> R5]
      BY <3>1, ReadFront
    <3> QED
      BY <2>1, <2>3, <3>2 DEF q5
  <2>5. q6 = [ok |-> TRUE, end |-> TRUE, field |-> acked, rest |-> t]
    <3>1. Ahead(q5, acked, t)
      BY <1>5, <2>4 DEF R5, Ahead
    <3>2. Read(q5, Len(acked))
              = [ok |-> TRUE, end |-> TRUE, field |-> acked, rest |-> t]
      BY <3>1, ReadFront
    <3> QED
      BY <1>5, <1>13, <3>2 DEF q6
  <2>6. SubSeq(q5.field \o Zero(2), 1, 4) = h.protocolId
    <3> DEFINE s == SubSeq(id \o Zero(2), 1, 4)
    <3>1. /\ s \in Seq(Nat) /\ Len(s) = 4
          /\ s[1] = id[1] /\ s[2] = id[2] /\ s[3] = 0 /\ s[4] = 0
      BY <2>1, Padded
    <3>2. id[1] = h.protocolId[1] /\ id[2] = h.protocolId[2]
      BY <1>1, <2>1, Halves
    <3>3. h.protocolId[3] = 0 /\ h.protocolId[4] = 0
      <4> DEFINE v == SubSeq(h.protocolId, 3, 4)
      <4>1. /\ v \in Seq(Nat) /\ Len(v) = 2
            /\ v[1] = h.protocolId[3] /\ v[2] = h.protocolId[4]
        BY <1>1, Halves
      <4>2. IsZero(v)
        BY <1>17 DEF VendorId
      <4> HIDE DEF v
      <4> QED
        BY <4>1, <4>2, ZeroPair
    <3> HIDE DEF s
    <3>4. \A i \in 1..4 : s[i] = h.protocolId[i]
      BY <3>1, <3>2, <3>3
    <3>5. Len(s) = Len(h.protocolId) /\ \A i \in 1..Len(s) : s[i] = h.protocolId[i]
      BY <1>4, <3>1, <3>4
    <3>6. s = h.protocolId
      BY <1>4, <3>1, <3>5, SeqEqual
    <3> QED
      BY <2>4, <3>6 DEF s
  <2>7. /\ q6.ok /\ q6.rest = t /\ q3.field = h.exchangeId /\ q6.field = acked
    BY <1>15, <2>5
  <2>8. /\ Set(G, IsInitiatorMessage) = h.isInitiatorMessage
        /\ Set(G, RequiresAck) = h.requiresAck
        /\ Set(G, HasSecureExtension) = e
    BY <1>1, <1>2 DEF Set
  <2>9. read = PayloadHeaderRead(h, e)
    BY <1>5, <1>13, <1>16, <2>6, <2>7, <2>8 DEF PayloadHeaderRead
  <2> QED
    BY <1>6, <1>11, <1>17, <2>7, <2>9 DEF FoundAgain
<1>18. CASE ~IsZero(VendorId(h)) /\ DecodePayloadHeader(r).ok
  <2> DEFINE low == SubSeq(h.protocolId, 1, 2)
             high == SubSeq(h.protocolId, 3, 4)
             d == DecodePayloadHeader(r)
  <2>1. /\ low \in Seq(Nat) /\ Len(low) = 2
        /\ low[1] = h.protocolId[1] /\ low[2] = h.protocolId[2]
        /\ high \in Seq(Nat) /\ Len(high) = 2
        /\ high[1] = h.protocolId[3] /\ high[2] = h.protocolId[4]
    BY <1>1, Halves
  <2>2. id = h.protocolId
    BY <1>18 DEF id, ProtocolBytes
  <2>3. id = low \o high
    BY <1>1, <2>2, HalvesMakeWhole
  <2>4. ~IsZero(high)
    BY <1>18 DEF VendorId
  <2> HIDE DEF low, high
  <2>5. R4 = low \o (high \o R5) /\ high \o R5 \in Seq(Nat)
    <3>1. (low \o high) \o R5 = low \o (high \o R5)
      BY <1>7, <2>1, Assoc, ZenonT(30)
    <3> QED
      BY <1>7, <2>1, <2>3, <3>1, Join DEF R4
  <2>6. Len(high \o R5) = 2 + Len(R5) /\ Len(R5) = Len(acked) + Len(t)
    <3>1. Len(acked \o t) = Len(acked) + Len(t)
      BY <1>5, Joined
    <3>2. Len(high \o R5) = Len(high) + Len(R5)
      BY <1>7, <2>1, Joined
    <3> QED
      BY <2>1, <3>1, <3>2 DEF R5
  <2>7. q4 = [ok |-> TRUE, end |-> TRUE, field |-> low, rest |-> high \o R5]
    <3>1. Ahead(q3, low, high \o R5)
      BY <1>15, <2>1, <2>5 DEF Ahead
    <3>2. Read(q3, Len(low))
              = [ok |-> TRUE, end |-> TRUE, field |-> low, rest |-> high \o R5]
      BY <3>1, ReadFront
    <3> QED
      BY <1>2, <1>13, <1>18, <2>1, <3>2 DEF q4, Width
  <2>8. d = [ok |-> TRUE, end |-> TRUE,
             rest |-> q6.rest, field |-> read] /\ q6.ok
    <3>1. CASE q6.ok
      BY <1>11, <3>1
    <3>2. CASE ~q6.ok
      BY <1>11, <1>18, <3>2, Stops
    <3> QED
      BY <3>1, <3>2
  <2> HIDE DEF d
  <2>9. /\ d.rest = q6.rest /\ d.end /\ d.field.hasSecuredExtension = e
        /\ d.field.protocolId = SubSeq(q5.field \o Zero(2), 1, 4)
    <3>1. d.field = read /\ d.rest = q6.rest /\ d.end
      BY <2>8
    <3>2. read.protocolId = SubSeq(q5.field \o Zero(2), 1, 4)
      OBVIOUS
    <3> QED
      BY <1>16, <3>1, <3>2
  <2>10. q6 = Read(q5, Len(acked)) /\ Len(acked) \in Nat
    BY <1>5, <1>13, LenProperties DEF q6
  <2>11. CASE IsZero(low)
    <3>1. q5 = [ok |-> TRUE, end |-> TRUE, field |-> high, rest |-> R5]
      <4>1. Ahead(q4, high, R5)
        BY <1>7, <2>1, <2>7 DEF Ahead
      <4>2. Read(q4, Len(high))
                = [ok |-> TRUE, end |-> TRUE, field |-> high, rest |-> R5]
        BY <4>1, ReadFront
      <4> QED
        BY <2>1, <2>7, <2>11, <4>2 DEF q5
    <3>2. q6.rest \in Seq(Nat)
      BY <1>7, <2>8, <2>10, <3>1, ReadLength
    <3>3. d.field.protocolId # h.protocolId
      <4> DEFINE s == SubSeq(high \o Zero(2), 1, 4)
      <4>1. s[1] = high[1] /\ s[2] = high[2] /\ s[3] = 0 /\ s[4] = 0
        BY <2>1, Padded
      <4>2. ~(high[1] = 0 /\ high[2] = 0)
        BY <2>1, <2>4, ZeroPair
      <4>3. s = d.field.protocolId
        BY <2>9, <3>1
      <4> HIDE DEF s
      <4> QED
        BY <2>1, <4>1, <4>2, <4>3
    <3> QED
      BY <1>6, <1>18, <2>9, <3>2, <3>3 DEF d, Misread
  <2>12. CASE ~IsZero(low)
    <3>1. q5 = Read(q4, 4) /\ q4.rest \in Seq(Nat) /\ Len(q4.rest) = 2 + Len(R5)
      BY <2>5, <2>6, <2>7, <2>12 DEF q5
    <3>2. q5.ok /\ q5.rest \in Seq(Nat) /\ Len(q5.rest) = Len(q4.rest) - 4
      <4>1. q5.ok
        BY <2>8, <2>10, ReadNeeds
      <4>2. 4 \in Nat
        OBVIOUS
      <4> QED
        BY <3>1, <4>1, <4>2, ReadLength
    <3>3. /\ q6.rest \in Seq(Nat)
          /\ Len(q6.rest) = Len(q5.rest) - Len(acked)
      BY <2>8, <2>10, <3>2, ReadLength
    <3>4. Len(q6.rest) # Len(t)
      <4>1. Len(t) \in Nat
        BY LenProperties
      <4> QED
        BY <2>6, <2>10, <3>1, <3>2, <3>3, <4>1
    <3> QED
      BY <1>6, <1>18, <2>9, <3>3, <3>4 DEF d, Misread
  <2> QED
    BY <2>11, <2>12
<1>19. CASE ~IsZero(VendorId(h)) /\ ~DecodePayloadHeader(r).ok
  BY <1>6, <1>19
<1> QED
  BY <1>17, <1>18, <1>19
-----------------------------------------------------------------------------
(* A decoder that has failed has failed for all of the message.            *)
LEMMA OkBefore ==
  ASSUME NEW r
  PROVE  /\ \A w : Read(r, w).ok => r.ok
         /\ \A c : ReadExtension(r, c).ok => r.ok
         /\ DecodePayloadHeader(r).ok => r.ok
<1>1. \A s, w : Read(s, w).ok => s.ok
  BY ReadNeeds
<1>2. \A c : ReadExtension(r, c).ok => r.ok
  <2> TAKE c
  <2> DEFINE size == Read(r, Width(c, 2))
             n == IF c THEN size.field[1] + 256 * size.field[2] ELSE 0
  <2>1. ReadExtension(r, c) = Read(size, n)
    BY Zenon DEF ReadExtension
  <2>2. size.ok => r.ok
    BY <1>1, Zenon
  <2> HIDE DEF size, n
  <2> QED
    BY <1>1, <2>1, <2>2, Zenon
<1>3. DecodePayloadHeader(r).ok => r.ok
  <2> DEFINE q1 == Read(r, 1)
             q2 == Read(q1, 1)
             q3 == Read(q2, 2)
             q4 == Read(q3, Width(Set(q1.field[1], HasVendorId), 2))
             q5 == Read(q4, IF IsZero(q4.field) THEN 2 ELSE 4)
             q6 == Read(q5, Width(HasAck(q1.field[1]), 4))
  <2>1. \E x : DecodePayloadHeader(r)
                 = IF q6.ok THEN [ok |-> TRUE, end |-> TRUE,
                                  rest |-> q6.rest, field |-> x]
                   ELSE Refused(q6)
    BY Zenon DEF DecodePayloadHeader
  <2> HIDE DEF q1, q2, q3, q4, q5, q6
  <2>2. (q1.ok => r.ok) /\ (q2.ok => q1.ok) /\ (q3.ok => q2.ok)
    BY <1>1, Zenon DEF q1, q2, q3
  <2>3. (q4.ok => q3.ok) /\ (q5.ok => q4.ok) /\ (q6.ok => q5.ok)
    BY <1>1, Zenon DEF q4, q5, q6
  <2>4. q6.ok => r.ok
    BY <2>2, <2>3
  <2> QED
    BY <2>1, <2>4, Stops
<1> QED
  BY <1>1, <1>2, <1>3

(* The two decoders and their extensions, over bytes that have storage *)
Decoded(bytes) == DecodedMessage(bytes, TRUE)
PacketPart(bytes) == DecodePacketHeader(DataReader(bytes, TRUE))
ExtensionPart(bytes) ==
  ReadExtension(PacketPart(bytes), PacketPart(bytes).field.hasMessageExtensions)
PayloadPart(bytes) ==
  IF ExtensionPart(bytes).ok THEN DataReader(ExtensionPart(bytes).rest, FALSE)
  ELSE ExtensionPart(bytes)
HeaderPart(bytes) == DecodePayloadHeader(PayloadPart(bytes))
SecuredPart(bytes) ==
  ReadExtension(HeaderPart(bytes), HeaderPart(bytes).field.hasSecuredExtension)

(* A decoding is the four readings one after the other.                    *)
LEMMA DecodedParts ==
  ASSUME NEW bytes
  PROVE  /\ SecuredPart(bytes).ok =>
              /\ HeaderPart(bytes).ok /\ ExtensionPart(bytes).ok
              /\ PacketPart(bytes).ok
         /\ Decoded(bytes)
              = IF SecuredPart(bytes).ok
                THEN [ok |-> TRUE, end |-> TRUE, rest |-> <<>>,
                      field |->
                        [packetHeader |-> PacketPart(bytes).field,
                         payloadHeader |-> HeaderPart(bytes).field,
                         securityExtension |-> SecuredPart(bytes).field,
                         payload |-> SecuredPart(bytes).rest]]
                ELSE Refused(SecuredPart(bytes))
         /\ Decoded(bytes).ok <=> SecuredPart(bytes).ok
<1>1. Decoded(bytes)
        = IF SecuredPart(bytes).ok
          THEN [ok |-> TRUE, end |-> TRUE, rest |-> <<>>,
                field |->
                  [packetHeader |-> PacketPart(bytes).field,
                   payloadHeader |-> HeaderPart(bytes).field,
                   securityExtension |-> SecuredPart(bytes).field,
                   payload |-> SecuredPart(bytes).rest]]
          ELSE Refused(SecuredPart(bytes))
  BY Zenon DEF Decoded, DecodedMessage, SecuredPart, HeaderPart, PayloadPart,
               ExtensionPart, PacketPart
<1>2. SecuredPart(bytes).ok => HeaderPart(bytes).ok
  BY OkBefore, Zenon DEF SecuredPart
<1>3. HeaderPart(bytes).ok => ExtensionPart(bytes).ok
  <2>1. HeaderPart(bytes).ok => PayloadPart(bytes).ok
    BY OkBefore, Zenon DEF HeaderPart
  <2>2. ~ExtensionPart(bytes).ok => PayloadPart(bytes) = ExtensionPart(bytes)
    BY Zenon DEF PayloadPart
  <2> QED
    BY <2>1, <2>2
<1>4. ExtensionPart(bytes).ok => PacketPart(bytes).ok
  BY OkBefore, Zenon DEF ExtensionPart
<1>5. Decoded(bytes).ok <=> SecuredPart(bytes).ok
  <2>1. CASE SecuredPart(bytes).ok
    BY <1>1, <2>1
  <2>2. CASE ~SecuredPart(bytes).ok
    BY <1>1, <2>2, Stops
  <2> QED
    BY <2>1, <2>2
<1> QED
  BY <1>1, <1>2, <1>3, <1>4, <1>5
-----------------------------------------------------------------------------
(* What the four decoders make of a message that arrives whole.            *)
OneDestination(m) ==
  IsZero(m.packetHeader.destNodeId) \/ IsZero(m.packetHeader.destGroupId)

(* d is what is read from the payload header of m and what follows it.     *)
Arrives(m, e, d) ==
  \E t \in Seq(Nat) : \E r :
     /\ d = DecodePayloadHeader(r)
     /\ r.ok /\ r.end /\ r.rest = MarkedHeader(m.payloadHeader, e) \o t
     /\ t = ExtensionIf(e) \o m.payload

(* The bytes are what decodePacket takes of m, and what it leaves.         *)
Splits(m, e, bytes) ==
  \E t \in Seq(Nat) :
     /\ bytes = MarkedPacket(m.packetHeader, e) \o (ExtensionIf(e) \o t)
     /\ OneDestination(m) =>
          ExtensionPart(bytes).ok /\ ExtensionPart(bytes).rest = t

(* There is always something to read where a payload header is.            *)
LEMMA HeaderNotEmpty ==
  ASSUME NEW h \in PayloadHeader, NEW e \in BOOLEAN, NEW t \in Seq(Nat)
  PROVE  MarkedHeader(h, e) \o t # <<>>
<1> DEFINE u == <<h.messageType>> \o (h.exchangeId \o
                  (ProtocolBytes(h) \o (Present(h.ackedMessageId) \o t)))
<1>1. /\ MarkedHeader(h, e) \o t = <<Marks(h, e)>> \o u
      /\ <<h.messageType>> \in Seq(Nat) /\ h.exchangeId \in Seq(Nat)
      /\ ProtocolBytes(h) \in Seq(Nat) /\ Present(h.ackedMessageId) \in Seq(Nat)
  BY PayloadHeaderBytes, ZenonT(30)
<1>2. u \in Seq(Nat)
  <2>1. Present(h.ackedMessageId) \o t \in Seq(Nat)
    BY <1>1, Join
  <2>2. ProtocolBytes(h) \o (Present(h.ackedMessageId) \o t) \in Seq(Nat)
    BY <1>1, <2>1, Join
  <2>3. h.exchangeId \o (ProtocolBytes(h) \o (Present(h.ackedMessageId) \o t))
          \in Seq(Nat)
    BY <1>1, <2>2, Join
  <2> QED
    BY <1>1, <2>3, Join
<1> HIDE DEF u
<1>3. <<Marks(h, e)>> \in Seq(Nat) /\ Len(<<Marks(h, e)>>) = 1
  BY PayloadFlagsFound, One
<1>4. Len(<<Marks(h, e)>> \o u) = 1 + Len(u) /\ Len(u) \in Nat
  BY <1>2, <1>3, Joined, LenProperties
<1>5. Len(<<>>) = 0
  OBVIOUS
<1> QED
  BY <1>1, <1>4, <1>5

(* The two headers read from an encoded message                            *)
LEMMA ExtendedParts ==
  ASSUME NEW m \in Message, NEW kinds,
         NEW e1 \in BOOLEAN, e1 <=> "message" \in kinds,
         NEW e2 \in BOOLEAN, e2 <=> "secured" \in kinds,
         NEW bytes, bytes = Extended(m, kinds)
  PROVE  /\ bytes \in Seq(Nat)
         /\ OneDestination(m) =>
              /\ PacketPart(bytes).field = PacketHeaderRead(m.packetHeader, e1)
              /\ Arrives(m, e2, HeaderPart(bytes))
         /\ ~OneDestination(m) => ~PacketPart(bytes).ok
         /\ Splits(m, e1, bytes)
<1> DEFINE E1 == MarkedPacket(m.packetHeader, e1)
           X1 == ExtensionIf(e1)
           E2 == MarkedHeader(m.payloadHeader, e2)
           X2 == ExtensionIf(e2)
           payload == m.payload
           p == <<E1, X1, E2, X2, payload>>
           R4 == X2 \o payload
           R3 == E2 \o R4
           R2 == X1 \o R3
           r == DataReader(bytes, TRUE)
<1>1. /\ m.packetHeader \in PacketHeader /\ m.payloadHeader \in PayloadHeader
      /\ payload \in Seq(Byte)
  BY Zenon DEF Message
<1>2. payload \in Seq(Nat)
  <2>1. Byte \subseteq Nat
    BY DEF Byte
  <2> QED
    BY <1>1, <2>1, SeqMonotonic
<1>3. X1 \in Seq(Nat) /\ X2 \in Seq(Nat)
  BY ExtensionBytes, Zenon
<1>4. E2 \in Seq(Nat)
  BY <1>1, <1>2, PayloadHeaderBytes, Zenon
<1>5. bytes = E1 \o X1 \o E2 \o X2 \o payload
  BY Zenon DEF Extended, MarkedPacket, MarkedHeader
<1> HIDE DEF E1, X1, E2, X2, payload
<1>6. R4 \in Seq(Nat)  BY <1>2, <1>3, Join
<1> HIDE DEF R4
<1>7. R3 \in Seq(Nat)  BY <1>4, <1>6, Join
<1> HIDE DEF R3
<1>8. R2 \in Seq(Nat)  BY <1>3, <1>7, Join
<1> HIDE DEF R2
<1>9. E1 \in Seq(Nat)
  <2> DEFINE s == DataReader(E1 \o R2, TRUE)
  <2>1. s.ok /\ s.end /\ s.rest = E1 \o R2
    BY DEF DataReader
  <2> HIDE DEF s
  <2> QED
    BY <1>1, <1>8, <2>1, PacketHeaderBack, Zenon DEF E1
<1>10. bytes \in Seq(Nat) /\ bytes = E1 \o R2
  <2>1. p \in [1..5 -> Seq(Nat)]
    BY <1>2, <1>3, <1>4, <1>9, Tuple5
  <2>2. p[1] = E1 /\ p[2] = X1 /\ p[3] = E2 /\ p[4] = X2 /\ p[5] = payload
    OBVIOUS
  <2> HIDE DEF p
  <2>3. E1 \o X1 \o E2 \o X2 \o payload = E1 \o (X1 \o (E2 \o (X2 \o payload)))
    BY <2>1, <2>2, Nest4
  <2>4. bytes = E1 \o R2
    BY <1>5, <2>3, Zenon DEF R2, R3, R4
  <2> QED
    BY <1>8, <1>9, <2>4, Join
<1>11. r.ok /\ r.end /\ r.rest = E1 \o R2
  BY <1>10 DEF DataReader
<1> HIDE DEF r
<1>12. IF OneDestination(m)
       THEN DecodePacketHeader(r)
              = [ok |-> TRUE, end |-> TRUE, rest |-> R2,
                 field |-> PacketHeaderRead(m.packetHeader, e1)]
       ELSE DecodePacketHeader(r) = Failed
  BY <1>1, <1>8, <1>11, PacketHeaderBack, Zenon DEF E1, OneDestination
<1>13. PacketPart(bytes) = DecodePacketHeader(r)
  BY Zenon DEF PacketPart, r
<1>14. CASE OneDestination(m)
  <2> DEFINE k == PacketPart(bytes)
             x == ExtensionPart(bytes)
             y == PayloadPart(bytes)
  <2>1. k = [ok |-> TRUE, end |-> TRUE, rest |-> R2,
             field |-> PacketHeaderRead(m.packetHeader, e1)]
    BY <1>12, <1>13, <1>14, Zenon
  <2>2. x = ReadExtension(k, k.field.hasMessageExtensions)
    BY Zenon DEF ExtensionPart
  <2>3. /\ HeaderPart(bytes) = DecodePayloadHeader(y)
        /\ x.ok => y = DataReader(x.rest, FALSE)
    BY Zenon DEF HeaderPart, PayloadPart
  <2> HIDE DEF k, x, y
  <2>4. k.ok /\ k.end /\ k.rest = X1 \o R3
    BY <2>1 DEF R2
  <2>5. k.field = PacketHeaderRead(m.packetHeader, e1)
    BY <2>1
  <2>6. PacketHeaderRead(m.packetHeader, e1).hasMessageExtensions = e1
    BY DEF PacketHeaderRead
  <2>7. ReadExtension(k, e1)
          = [ok |-> TRUE, end |-> TRUE,
             field |-> IF e1 THEN Extension ELSE <<>>, rest |-> R3]
    BY <1>7, <2>4, ExtensionBack, Zenon DEF X1
  <2>8. x = ReadExtension(k, e1)
    BY <2>2, <2>5, <2>6, Zenon
  <2>9. x.ok /\ x.rest = R3
    BY <2>7, <2>8
  <2>10. Arrives(m, e2, HeaderPart(bytes))
    <3>1. R4 \in Seq(Nat) /\ x.rest = E2 \o R4 /\ R4 = X2 \o payload
      BY <1>6, <2>9 DEF R3, R4
    <3>2. x.rest # <<>>
      BY <1>1, <3>1, HeaderNotEmpty, Zenon DEF E2
    <3>3. y.ok /\ y.end /\ y.rest = x.rest
      BY <2>3, <2>9, <3>2, ReaderOver
    <3> QED
      BY <2>3, <3>1, <3>3, Zenon DEF Arrives, E2, X2, payload
  <2>11. Splits(m, e1, bytes)
    BY <1>7, <1>10, <2>9, Zenon DEF Splits, R2, E1, X1, x
  <2> QED
    BY <1>10, <1>14, <2>5, <2>10, <2>11, Zenon DEF k
<1>15. CASE ~OneDestination(m)
  <2>1. PacketPart(bytes) = Failed
    BY <1>12, <1>13, <1>15, Zenon
  <2>2. ~PacketPart(bytes).ok
    BY <2>1, Stops
  <2>3. Splits(m, e1, bytes)
    BY <1>7, <1>10, <1>15, Zenon DEF Splits, R2, E1, X1
  <2> QED
    BY <1>10, <1>15, <2>2, <2>3, Zenon
<1> QED
  BY <1>14, <1>15

(* A message without extensions has the two headers as they were sent.     *)
LEMMA PlainParts ==
  ASSUME NEW m \in Message
  PROVE  LET bytes == Extended(m, {}) IN
           /\ OneDestination(m) =>
                /\ PacketPart(bytes).field = PacketHeaderRead(m.packetHeader, FALSE)
                /\ Arrives(m, FALSE, HeaderPart(bytes))
           /\ ~OneDestination(m) => ~PacketPart(bytes).ok
<1> DEFINE bytes == Extended(m, {})
           e == "message" \in {}
           kinds == {}
<1>1. e \in BOOLEAN /\ (e <=> "message" \in kinds) /\ (e <=> "secured" \in kinds)
  OBVIOUS
<1>2. bytes = Extended(m, kinds)
  OBVIOUS
<1>3. e = FALSE
  OBVIOUS
<1> HIDE DEF bytes, e, kinds
<1>4. /\ OneDestination(m) =>
           /\ PacketPart(bytes).field = PacketHeaderRead(m.packetHeader, e)
           /\ Arrives(m, e, HeaderPart(bytes))
      /\ ~OneDestination(m) => ~PacketPart(bytes).ok
  BY <1>1, <1>2, ExtendedParts, ZenonT(30)
<1> QED
  BY <1>3, <1>4 DEF bytes

(* A packet header comes back with the extension mark.                     *)
LEMMA UnmarkedHeader ==
  ASSUME NEW h \in PacketHeader, h.hasPrivacyEnhancements = FALSE,
         h.isControlMessage = FALSE, NEW e
  PROVE  PacketHeaderRead(h, e) = [h EXCEPT !.hasMessageExtensions = e]
<1>1. [h EXCEPT !.hasMessageExtensions = e]
        = [sessionId |-> h.sessionId, sessionType |-> h.sessionType,
           messageId |-> h.messageId,
           hasPrivacyEnhancements |-> h.hasPrivacyEnhancements,
           isControlMessage |-> h.isControlMessage, hasMessageExtensions |-> e,
           sourceNodeId |-> h.sourceNodeId, destNodeId |-> h.destNodeId,
           destGroupId |-> h.destGroupId]
  BY DEF PacketHeader
<1> QED
  BY <1>1, Zenon DEF PacketHeaderRead

(* A message the two sides agree on comes back with its extensions ...     *)
LEMMA AgreedComesBack ==
  ASSUME NEW m \in Message, Encodable(m), Agreed(m), NEW kinds,
         NEW e1 \in BOOLEAN, e1 <=> "message" \in kinds,
         NEW e2 \in BOOLEAN, e2 <=> "secured" \in kinds,
         NEW bytes, bytes = Extended(m, kinds)
  PROVE  /\ SecuredPart(bytes).ok
         /\ Decoded(bytes).field = WithExtensions(m, kinds)
<1> DEFINE hp == m.packetHeader
           hq == m.payloadHeader
<1>1. e1 \in BOOLEAN /\ e2 \in BOOLEAN
  OBVIOUS
<1>2. hp \in PacketHeader /\ hq \in PayloadHeader
  BY Zenon DEF Message
<1>3. /\ IsZero(hp.destNodeId) \/ IsZero(hp.destGroupId)
      /\ IsZero(VendorId(hq))
      /\ hp.hasPrivacyEnhancements = FALSE /\ hp.isControlMessage = FALSE
      /\ m.securityExtension = <<>>
  <2>1. /\ IsZero(hp.destNodeId) \/ IsZero(hp.destGroupId)
        /\ IsZero(VendorId(hq))
        /\ ~hp.hasPrivacyEnhancements /\ ~hp.isControlMessage
        /\ m.securityExtension = <<>>
    BY Zenon DEF Agreed, Encodable
  <2>2. hp.hasPrivacyEnhancements \in BOOLEAN /\ hp.isControlMessage \in BOOLEAN
    BY <1>2, Zenon DEF PacketHeader
  <2> QED
    BY <2>1, <2>2
<1>4. PacketHeaderRead(hp, e1) = [hp EXCEPT !.hasMessageExtensions = e1]
  BY <1>2, <1>3, UnmarkedHeader, Zenon
<1>5. PayloadHeaderRead(hq, e2) = [hq EXCEPT !.hasSecuredExtension = e2]
  BY <1>2 DEF PayloadHeaderRead, PayloadHeader
<1>6. WithExtensions(m, kinds)
        = [packetHeader |-> PacketHeaderRead(hp, e1),
           payloadHeader |-> PayloadHeaderRead(hq, e2),
           securityExtension |-> IF e2 THEN Extension ELSE <<>>,
           payload |-> m.payload]
  BY <1>3, <1>4, <1>5, Zenon DEF WithExtensions
<1>7. m.payload \in Seq(Nat)
  <2>1. m.payload \in Seq(Byte)
    BY Zenon DEF Message
  <2>2. Byte \subseteq Nat
    BY DEF Byte
  <2> QED
    BY <2>1, <2>2, SeqMonotonic
<1>8. /\ PacketPart(bytes).field = PacketHeaderRead(hp, e1)
      /\ Arrives(m, e2, HeaderPart(bytes))
  <2>1. OneDestination(m)
    BY <1>3, Zenon DEF OneDestination
  <2> QED
    BY <2>1, ExtendedParts, ZenonT(30)
<1>20. PICK t \in Seq(Nat) :
        \E r :
          /\ HeaderPart(bytes) = DecodePayloadHeader(r)
          /\ r.ok /\ r.end /\ r.rest = MarkedHeader(hq, e2) \o t
          /\ t = ExtensionIf(e2) \o m.payload
  BY <1>8, Zenon DEF Arrives
<1>9. PICK r :
        /\ HeaderPart(bytes) = DecodePayloadHeader(r)
        /\ r.ok /\ r.end /\ r.rest = MarkedHeader(hq, e2) \o t
        /\ t = ExtensionIf(e2) \o m.payload
  BY <1>20, Zenon
<1> DEFINE d == HeaderPart(bytes)
<1> HIDE DEF hp, hq
<1>10. d = [ok |-> TRUE, end |-> TRUE,
            rest |-> t, field |-> PayloadHeaderRead(hq, e2)]
  <2>1. FoundAgain(DecodePayloadHeader(r), hq, e2, t)
    BY <1>1, <1>2, <1>3, <1>9, PayloadHeaderBack, Zenon
  <2> QED
    BY <1>9, <2>1, Zenon DEF FoundAgain
<1>11. SecuredPart(bytes) = ReadExtension(d, d.field.hasSecuredExtension)
  BY Zenon DEF SecuredPart
<1> HIDE DEF d
<1>12. d.ok /\ d.end /\ d.rest = ExtensionIf(e2) \o m.payload
       /\ d.field = PayloadHeaderRead(hq, e2)
  BY <1>9, <1>10
<1>13. PayloadHeaderRead(hq, e2).hasSecuredExtension = e2
  BY DEF PayloadHeaderRead
<1>14. ReadExtension(d, e2)
         = [ok |-> TRUE, end |-> TRUE, field |-> IF e2 THEN Extension ELSE <<>>,
            rest |-> m.payload]
  BY <1>1, <1>7, <1>12, ExtensionBack, Zenon
<1>15. SecuredPart(bytes) = ReadExtension(d, e2)
  BY <1>11, <1>12, <1>13, Zenon
<1>16. /\ SecuredPart(bytes).ok
       /\ SecuredPart(bytes).field = IF e2 THEN Extension ELSE <<>>
       /\ SecuredPart(bytes).rest = m.payload
  BY <1>14, <1>15
<1>17. HeaderPart(bytes).field = PayloadHeaderRead(hq, e2)
  BY <1>12 DEF d
<1> DEFINE f == [packetHeader |-> PacketPart(bytes).field,
                 payloadHeader |-> HeaderPart(bytes).field,
                 securityExtension |-> SecuredPart(bytes).field,
                 payload |-> SecuredPart(bytes).rest]
<1>18. Decoded(bytes) = [ok |-> TRUE, end |-> TRUE, rest |-> <<>>, field |-> f]
  BY <1>16, DecodedParts, Zenon
<1>19. f = WithExtensions(m, kinds)
  BY <1>6, <1>8, <1>16, <1>17, Zenon
<1> HIDE DEF f
<1> QED
  BY <1>16, <1>18, <1>19

(* ... and another one does not come back as it was.                       *)
LEMMA OthersDoNot ==
  ASSUME NEW m \in Message, Encodable(m), ~Agreed(m),
         NEW bytes, bytes = Extended(m, {}), Decoded(bytes).ok,
         Decoded(bytes).field = m
  PROVE  FALSE
<1> DEFINE hp == m.packetHeader
           hq == m.payloadHeader
<1>1. hp \in PacketHeader /\ hq \in PayloadHeader
  BY Zenon DEF Message
<1>2. /\ OneDestination(m) =>
           /\ PacketPart(bytes).field = PacketHeaderRead(hp, FALSE)
           /\ Arrives(m, FALSE, HeaderPart(bytes))
      /\ ~OneDestination(m) => ~PacketPart(bytes).ok
  BY PlainParts, Zenon
<1>3. SecuredPart(bytes).ok /\ HeaderPart(bytes).ok /\ PacketPart(bytes).ok
  BY DecodedParts, Zenon
<1> DEFINE f == [packetHeader |-> PacketPart(bytes).field,
                 payloadHeader |-> HeaderPart(bytes).field,
                 securityExtension |-> SecuredPart(bytes).field,
                 payload |-> SecuredPart(bytes).rest]
<1>4. Decoded(bytes) = [ok |-> TRUE, end |-> TRUE, rest |-> <<>>, field |-> f]
  BY <1>3, DecodedParts, Zenon
<1>5. /\ PacketPart(bytes).field = hp /\ HeaderPart(bytes).field = hq
      /\ SecuredPart(bytes).rest = m.payload
  <2>1. m = f
    BY <1>4
  <2> QED
    BY <2>1
<1> HIDE DEF f
<1>6. OneDestination(m)
  BY <1>2, <1>3
<1>7. ~hp.hasPrivacyEnhancements /\ ~hp.isControlMessage
  <2>1. hp = PacketHeaderRead(hp, FALSE)
    BY <1>2, <1>5, <1>6
  <2>2. /\ PacketHeaderRead(hp, FALSE).hasPrivacyEnhancements = FALSE
        /\ PacketHeaderRead(hp, FALSE).isControlMessage = FALSE
    BY DEF PacketHeaderRead
  <2> HIDE DEF hp
  <2> QED
    BY <2>1, <2>2
<1>8. ~IsZero(VendorId(hq))
  BY <1>6, <1>7, Zenon DEF Agreed, OneDestination
<1>20. PICK t \in Seq(Nat) :
        \E r :
          /\ HeaderPart(bytes) = DecodePayloadHeader(r)
          /\ r.ok /\ r.end /\ r.rest = MarkedHeader(hq, FALSE) \o t
          /\ t = ExtensionIf(FALSE) \o m.payload
  BY <1>2, <1>6, Zenon DEF Arrives
<1>9. PICK r :
        /\ HeaderPart(bytes) = DecodePayloadHeader(r)
        /\ r.ok /\ r.end /\ r.rest = MarkedHeader(hq, FALSE) \o t
        /\ t = ExtensionIf(FALSE) \o m.payload
  BY <1>20, Zenon
<1> DEFINE d == HeaderPart(bytes)
<1> HIDE DEF hp, hq
<1>10. /\ d.end /\ d.rest \in Seq(Nat) /\ d.field.hasSecuredExtension = FALSE
       /\ d.field.protocolId # hq.protocolId \/ Len(d.rest) # Len(t)
  <2>1. DecodePayloadHeader(r).ok
    BY <1>3, <1>9, Zenon
  <2>2. FALSE \in BOOLEAN
    OBVIOUS
  <2>3. Misread(DecodePayloadHeader(r), hq, FALSE, t)
    BY <1>1, <1>8, <1>9, <2>1, <2>2, PayloadHeaderBack, Zenon
  <2> QED
    BY <1>9, <2>3, Zenon DEF Misread
<1>11. d.field.protocolId = hq.protocolId
  BY <1>5
<1>12. SecuredPart(bytes).rest = d.rest
  <2>1. SecuredPart(bytes) = ReadExtension(d, d.field.hasSecuredExtension)
    BY Zenon DEF SecuredPart
  <2>2. d.ok
    BY <1>3
  <2> HIDE DEF d
  <2>3. SecuredPart(bytes) = ReadExtension(d, FALSE)
    BY <1>10, <2>1, Zenon
  <2> QED
    BY <1>10, <2>2, <2>3, NoExtension
<1>13. t = m.payload
  <2>1. m.payload \in Seq(Byte)
    BY Zenon DEF Message
  <2>2. ExtensionIf(FALSE) = <<>>
    BY DEF ExtensionIf
  <2>3. <<>> \o m.payload = m.payload
    BY <2>1, ConcatEmptySeq
  <2> QED
    BY <1>9, <2>2, <2>3
<1> QED
  BY <1>5, <1>10, <1>11, <1>12, <1>13
-----------------------------------------------------------------------------
(* A decoder that reads the beginning of a message reads what the decoder  *)
(* of all of it reads, or fails.                                           *)
Begins(s, t) ==
  t \in Seq(Nat) /\ \E n \in 0..Len(t) : s = SubSeq(t, 1, n)

(* The first bytes of a byte string                                        *)
LEMMA BeginningOfSeq ==
  ASSUME NEW t \in Seq(Nat), NEW n \in 0..Len(t)
  PROVE  /\ SubSeq(t, 1, n) \in Seq(Nat) /\ Len(SubSeq(t, 1, n)) = n
         /\ \A i \in 1..n : SubSeq(t, 1, n)[i] = t[i]
<1>1. Len(t) \in Nat /\ \A i \in 1..Len(t) : t[i] \in Nat
  BY LenProperties, ElementOfSeq
<1>2. \A i \in 1..n : t[i] \in Nat
  BY <1>1
<1> QED
  BY <1>1, <1>2, SubSeqProperties

(* The bytes after the first ones                                          *)
LEMMA EndOfSeq ==
  ASSUME NEW t \in Seq(Nat), NEW w \in 0..Len(t)
  PROVE  /\ SubSeq(t, w + 1, Len(t)) \in Seq(Nat)
         /\ Len(SubSeq(t, w + 1, Len(t))) = Len(t) - w
         /\ \A i \in 1..Len(t) - w : SubSeq(t, w + 1, Len(t))[i] = t[w + i]
<1> DEFINE u == SubSeq(t, w + 1, Len(t))
<1>1. Len(t) \in Nat /\ \A i \in 1..Len(t) : t[i] \in Nat
  BY LenProperties, ElementOfSeq
<1>2. \A i \in w + 1..Len(t) : t[i] \in Nat
  BY <1>1
<1>3. /\ u \in Seq(Nat)
      /\ Len(u) = IF w + 1 <= Len(t) THEN Len(t) - (w + 1) + 1 ELSE 0
      /\ \A i \in 1..Len(t) - (w + 1) + 1 : u[i] = t[(w + 1) + i - 1]
  BY <1>1, <1>2, SubSeqProperties
<1> HIDE DEF u
<1>4. Len(u) = Len(t) - w
  BY <1>1, <1>3
<1>5. \A i \in 1..Len(t) - w : u[i] = t[w + i]
  <2> SUFFICES ASSUME NEW i \in 1..Len(t) - w PROVE u[i] = t[w + i]
    OBVIOUS
  <2>1. i \in 1..Len(t) - (w + 1) + 1 /\ (w + 1) + i - 1 = w + i
    BY <1>1
  <2>2. u[i] = t[(w + 1) + i - 1]
    BY <1>3, <2>1
  <2> QED
    BY <2>1, <2>2
<1> QED
  BY <1>3, <1>4, <1>5 DEF u

(* Both strings give the same first bytes, and what is left begins alike.  *)
LEMMA BeginsWith ==
  ASSUME NEW s, NEW t, Begins(s, t), NEW w \in Nat, w <= Len(s)
  PROVE  /\ w <= Len(t) /\ SubSeq(s, 1, w) = SubSeq(t, 1, w)
         /\ SubSeq(s, 1, w) \in Seq(Nat) /\ Len(SubSeq(s, 1, w)) = w
         /\ Begins(SubSeq(s, w + 1, Len(s)), SubSeq(t, w + 1, Len(t)))
         /\ Len(s) \in Nat
         /\ Len(SubSeq(s, w + 1, Len(s))) = Len(s) - w
         /\ Len(SubSeq(t, w + 1, Len(t))) = Len(t) - w
<1>1. t \in Seq(Nat) /\ Len(t) \in Nat
  BY LenProperties DEF Begins
<1>2. PICK n \in 0..Len(t) : s = SubSeq(t, 1, n)
  BY DEF Begins
<1>3. /\ s \in Seq(Nat) /\ Len(s) = n /\ n \in Nat /\ n <= Len(t)
      /\ \A i \in 1..n : s[i] = t[i]
  BY <1>1, <1>2, BeginningOfSeq
<1>4. w \in 0..Len(s) /\ w \in 0..Len(t)
  BY <1>1, <1>3
<1> DEFINE a == SubSeq(s, 1, w)
           b == SubSeq(t, 1, w)
           c == SubSeq(s, w + 1, Len(s))
           d == SubSeq(t, w + 1, Len(t))
           e == SubSeq(d, 1, n - w)
<1>5. /\ a \in Seq(Nat) /\ Len(a) = w /\ \A i \in 1..w : a[i] = s[i]
      /\ b \in Seq(Nat) /\ Len(b) = w /\ \A i \in 1..w : b[i] = t[i]
  BY <1>1, <1>3, <1>4, BeginningOfSeq
<1>6. /\ c \in Seq(Nat) /\ Len(c) = n - w /\ \A i \in 1..n - w : c[i] = s[w + i]
      /\ d \in Seq(Nat) /\ Len(d) = Len(t) - w
      /\ \A i \in 1..Len(t) - w : d[i] = t[w + i]
  BY <1>1, <1>3, <1>4, EndOfSeq
<1> HIDE DEF a, b, c, d
<1>7. a = b
  <2>1. \A i \in 1..w : a[i] = b[i]
    BY <1>3, <1>4, <1>5
  <2> QED
    BY <1>5, <2>1, SeqEqual
<1>8. n - w \in 0..Len(d)
  BY <1>1, <1>3, <1>4, <1>6
<1>9. e \in Seq(Nat) /\ Len(e) = n - w /\ \A i \in 1..n - w : e[i] = d[i]
  BY <1>6, <1>8, BeginningOfSeq
<1> HIDE DEF e
<1>10. c = e
  <2>1. ASSUME NEW i \in 1..n - w PROVE c[i] = e[i]
    <3>1. w + i \in 1..n /\ i \in 1..Len(t) - w
      BY <1>1, <1>3, <1>4
    <3>2. c[i] = s[w + i] /\ s[w + i] = t[w + i]
      BY <1>3, <1>6, <3>1
    <3>3. e[i] = d[i] /\ d[i] = t[w + i]
      BY <1>6, <1>9, <3>1
    <3> QED
      BY <3>2, <3>3
  <2>2. Len(c) = Len(e) /\ \A i \in 1..Len(c) : c[i] = e[i]
    BY <1>6, <1>9, <2>1
  <2> QED
    BY <1>6, <1>9, <2>2, SeqEqual
<1>11. Begins(c, d)
  BY <1>6, <1>8, <1>10 DEF Begins, e
<1> QED
  BY <1>3, <1>4, <1>5, <1>6, <1>7, <1>11 DEF a, b, c, d

Short(r, q, d) ==
  r.ok => /\ q.ok /\ (r.end => q.end)
          /\ r.field = q.field /\ Begins(r.rest, q.rest)
          /\ Len(q.rest) = Len(r.rest) + d

(* A reading of the shorter string fails or reads the same.                *)
LEMMA ReadShort ==
  ASSUME NEW r, NEW q, NEW d \in Nat, Short(r, q, d), NEW w, NEW v, r.ok => w = v /\ w \in Nat
  PROVE  /\ Short(Read(r, w), Read(q, v), d)
         /\ Read(r, w).ok => Read(r, w).field \in Seq(Nat) /\ Len(Read(r, w).field) = w
<1>1. CASE r.ok /\ r.end /\ w <= Len(r.rest)
  <2>1. /\ w = v /\ w \in Nat /\ q.ok /\ q.end /\ Begins(r.rest, q.rest)
        /\ Len(q.rest) = Len(r.rest) + d
    BY <1>1 DEF Short
  <2>2. /\ w <= Len(q.rest) /\ SubSeq(r.rest, 1, w) = SubSeq(q.rest, 1, w)
        /\ SubSeq(r.rest, 1, w) \in Seq(Nat) /\ Len(SubSeq(r.rest, 1, w)) = w
        /\ Begins(SubSeq(r.rest, w + 1, Len(r.rest)),
                  SubSeq(q.rest, w + 1, Len(q.rest)))
        /\ Len(r.rest) \in Nat
        /\ Len(SubSeq(r.rest, w + 1, Len(r.rest))) = Len(r.rest) - w
        /\ Len(SubSeq(q.rest, w + 1, Len(q.rest))) = Len(q.rest) - w
    BY <1>1, <2>1, BeginsWith
  <2>5. Len(SubSeq(q.rest, w + 1, Len(q.rest)))
          = Len(SubSeq(r.rest, w + 1, Len(r.rest))) + d
    BY <2>1, <2>2
  <2>3. Read(r, w) = Taken(r.rest, w) /\ Read(q, v) = Taken(q.rest, v)
    BY <1>1, <2>1, <2>2, ReadEnough, Zenon
  <2>6. \A b : Taken(b, v).ok /\ Taken(b, v).end
    BY DEF Taken
  <2>4. /\ Read(r, w).field = SubSeq(r.rest, 1, w)
        /\ Read(r, w).rest = SubSeq(r.rest, w + 1, Len(r.rest))
        /\ Read(q, v).ok /\ Read(q, v).end
        /\ Read(q, v).field = SubSeq(q.rest, 1, v)
        /\ Read(q, v).rest = SubSeq(q.rest, v + 1, Len(q.rest))
    BY <2>3, <2>6, TakenParts, ZenonT(30)
  <2> QED
    BY <2>1, <2>2, <2>4, <2>5, Zenon DEF Short
<1>2. CASE ~(r.ok /\ r.end /\ w <= Len(r.rest))
  <2>2. ~Read(r, w).ok
    BY <1>2, ReadNeeds
  <2> QED
    BY <2>2 DEF Short
<1> QED
  BY <1>1, <1>2

(* So does the reading of an extension,                                    *)
LEMMA ReadExtensionShort ==
  ASSUME NEW r, NEW q, NEW d \in Nat, Short(r, q, d), NEW c, NEW b, r.ok => c = b /\ c \in BOOLEAN
  PROVE  Short(ReadExtension(r, c), ReadExtension(q, b), d)
<1> DEFINE s == Read(r, Width(c, 2))
           u == Read(q, Width(b, 2))
           n == IF c THEN s.field[1] + 256 * s.field[2] ELSE 0
           k == IF b THEN u.field[1] + 256 * u.field[2] ELSE 0
<1>1. ReadExtension(r, c) = Read(s, n) /\ ReadExtension(q, b) = Read(u, k)
  BY Zenon DEF ReadExtension
<1>2. r.ok => Width(c, 2) = Width(b, 2) /\ Width(c, 2) \in Nat
  BY DEF Width
<1>3. /\ Short(s, u, d)
      /\ s.ok => s.field \in Seq(Nat) /\ Len(s.field) = Width(c, 2)
  BY <1>2, ReadShort, Zenon
<1>4. s.ok => r.ok
  BY OkBefore, Zenon
<1> HIDE DEF s, u
<1>5. s.ok => n = k /\ n \in Nat
  <2> SUFFICES ASSUME s.ok PROVE n = k /\ n \in Nat
    OBVIOUS
  <2>1. s.field = u.field /\ c = b /\ c \in BOOLEAN
    BY <1>3, <1>4 DEF Short
  <2>2. CASE c
    <3>1. s.field \in Seq(Nat) /\ Len(s.field) = 2
      BY <1>3, <2>2 DEF Width
    <3>2. s.field[1] \in Nat /\ s.field[2] \in Nat
      BY <3>1, ElementOfSeq
    <3> QED
      BY <2>1, <2>2, <3>2
  <2>3. CASE ~c
    BY <2>1, <2>3
  <2> QED
    BY <2>1, <2>2, <2>3
<1> HIDE DEF n, k
<1>6. Short(Read(s, n), Read(u, k), d)
  BY <1>3, <1>5, ReadShort
<1> QED
  BY <1>1, <1>6, Zenon

(* What the decoder of the packet header makes of the fields it has read   *)
PacketGood(flags, security) ==
  /\ ~(Set(flags, HasDestNodeId) /\ Set(flags, HasDestGroupId))
  /\ Version(flags) = 0
  /\ security % 4 \in SessionType
  /\ ~Set(security, HasPrivacyEnhancements) /\ ~Set(security, IsControlMessage)

PacketRecord(session, security, message, source, dest, group) ==
  [sessionId |-> session, sessionType |-> security % 4, messageId |-> message,
   hasPrivacyEnhancements |-> FALSE, isControlMessage |-> FALSE,
   hasMessageExtensions |-> Set(security, HasMessageExtension),
   sourceNodeId |-> Or0(source, 8), destNodeId |-> Or0(dest, 8),
   destGroupId |-> Or0(group, 2)]

(* The width of an optional field is a number.                             *)
LEMMA WidthIsNumber ==
  ASSUME NEW c
  PROVE  Width(c, 2) \in Nat /\ Width(c, 4) \in Nat /\ Width(c, 8) \in Nat
  BY DEF Width

(* that of a packet header,                                                *)
LEMMA PacketHeaderShort ==
  ASSUME NEW r, NEW q, NEW d \in Nat, Short(r, q, d)
  PROVE  /\ Short(DecodePacketHeader(r), DecodePacketHeader(q), d)
         /\ DecodePacketHeader(r).ok =>
              DecodePacketHeader(r).field.hasMessageExtensions \in BOOLEAN
<1> DEFINE r1 == Read(r, 1)
           r2 == Read(r1, 2)
           r3 == Read(r2, 1)
           r4 == Read(r3, 4)
           r5 == Read(r4, Width(Set(r1.field[1], HasSourceNodeId), 8))
           r6 == Read(r5, Width(Set(r1.field[1], HasDestNodeId), 8))
           r7 == Read(r6, Width(Set(r1.field[1], HasDestGroupId), 2))
           q1 == Read(q, 1)
           q2 == Read(q1, 2)
           q3 == Read(q2, 1)
           q4 == Read(q3, 4)
           q5 == Read(q4, Width(Set(q1.field[1], HasSourceNodeId), 8))
           q6 == Read(q5, Width(Set(q1.field[1], HasDestNodeId), 8))
           q7 == Read(q6, Width(Set(q1.field[1], HasDestGroupId), 2))
           g == PacketGood(r1.field[1], r3.field[1])
           f == PacketRecord(r2.field, r3.field[1], r4.field, r5.field, r6.field,
                             r7.field)
<1>1. DecodePacketHeader(r)
        = IF r7.ok /\ PacketGood(r1.field[1], r3.field[1])
          THEN [ok |-> TRUE, end |-> TRUE, rest |-> r7.rest,
                field |-> PacketRecord(r2.field, r3.field[1], r4.field, r5.field,
                                       r6.field, r7.field)]
          ELSE Refused(r7)
  BY Zenon DEF DecodePacketHeader, PacketGood, PacketRecord
<1>2. DecodePacketHeader(q)
        = IF q7.ok /\ PacketGood(q1.field[1], q3.field[1])
          THEN [ok |-> TRUE, end |-> TRUE, rest |-> q7.rest,
                field |-> PacketRecord(q2.field, q3.field[1], q4.field, q5.field,
                                       q6.field, q7.field)]
          ELSE Refused(q7)
  BY Zenon DEF DecodePacketHeader, PacketGood, PacketRecord
<1> HIDE DEF r1, r2, r3, r4, r5, r6, r7, q1, q2, q3, q4, q5, q6, q7
<1>3. Short(r1, q1, d) /\ Short(r2, q2, d) /\ Short(r3, q3, d) /\ Short(r4, q4, d)
  <2>1. 1 \in Nat /\ 2 \in Nat /\ 4 \in Nat
    OBVIOUS
  <2>2. Short(r1, q1, d)  BY <2>1, ReadShort, Zenon DEF r1, q1
  <2>3. Short(r2, q2, d)  BY <2>1, <2>2, ReadShort, Zenon DEF r2, q2
  <2>4. Short(r3, q3, d)  BY <2>1, <2>3, ReadShort, Zenon DEF r3, q3
  <2>5. Short(r4, q4, d)  BY <2>1, <2>4, ReadShort, Zenon DEF r4, q4
  <2> QED
    BY <2>2, <2>3, <2>4, <2>5
<1>4. /\ (r7.ok => r6.ok) /\ (r6.ok => r5.ok) /\ (r5.ok => r4.ok)
      /\ (r4.ok => r3.ok) /\ (r3.ok => r2.ok) /\ (r2.ok => r1.ok)
  <2>1. (r7.ok => r6.ok) /\ (r6.ok => r5.ok) /\ (r5.ok => r4.ok)
    BY OkBefore, Zenon DEF r7, r6, r5
  <2>2. (r4.ok => r3.ok) /\ (r3.ok => r2.ok) /\ (r2.ok => r1.ok)
    BY OkBefore, Zenon DEF r4, r3, r2
  <2> QED
    BY <2>1, <2>2
<1>5. r1.ok => r1.field = q1.field
  BY <1>3 DEF Short
<1>6. Short(r5, q5, d)
  <2> DEFINE w == Width(Set(r1.field[1], HasSourceNodeId), 8)
             v == Width(Set(q1.field[1], HasSourceNodeId), 8)
  <2>1. r4.ok => w = v /\ w \in Nat
    BY <1>4, <1>5, WidthIsNumber
  <2> HIDE DEF w, v
  <2>2. Short(Read(r4, w), Read(q4, v), d)
    BY <1>3, <2>1, ReadShort
  <2> QED
    BY <2>2, Zenon DEF w, v, r5, q5
<1>7. Short(r6, q6, d)
  <2> DEFINE w == Width(Set(r1.field[1], HasDestNodeId), 8)
             v == Width(Set(q1.field[1], HasDestNodeId), 8)
  <2>1. r5.ok => w = v /\ w \in Nat
    BY <1>4, <1>5, WidthIsNumber
  <2> HIDE DEF w, v
  <2>2. Short(Read(r5, w), Read(q5, v), d)
    BY <1>6, <2>1, ReadShort
  <2> QED
    BY <2>2, Zenon DEF w, v, r6, q6
<1>8. Short(r7, q7, d)
  <2> DEFINE w == Width(Set(r1.field[1], HasDestGroupId), 2)
             v == Width(Set(q1.field[1], HasDestGroupId), 2)
  <2>1. r6.ok => w = v /\ w \in Nat
    BY <1>4, <1>5, WidthIsNumber
  <2> HIDE DEF w, v
  <2>2. Short(Read(r6, w), Read(q6, v), d)
    BY <1>7, <2>1, ReadShort
  <2> QED
    BY <2>2, Zenon DEF w, v, r7, q7
<1>9. CASE r7.ok /\ g
  <2>1. /\ r1.field = q1.field /\ r2.field = q2.field /\ r3.field = q3.field
        /\ r4.field = q4.field /\ r5.field = q5.field /\ r6.field = q6.field
        /\ r7.field = q7.field /\ q7.ok /\ Begins(r7.rest, q7.rest)
        /\ Len(q7.rest) = Len(r7.rest) + d
    BY <1>3, <1>4, <1>6, <1>7, <1>8, <1>9 DEF Short
  <2>2. DecodePacketHeader(r)
            = [ok |-> TRUE, end |-> TRUE, rest |-> r7.rest, field |-> f]
    BY <1>1, <1>9, Zenon
  <2>3. DecodePacketHeader(q)
            = [ok |-> TRUE, end |-> TRUE, rest |-> q7.rest, field |-> f]
    BY <1>2, <1>9, <2>1, Zenon
  <2>4. f.hasMessageExtensions \in BOOLEAN
    BY DEF PacketRecord, Set
  <2> HIDE DEF f
  <2> QED
    BY <2>1, <2>2, <2>3, <2>4 DEF Short
<1>10. CASE ~(r7.ok /\ g)
  <2>1. DecodePacketHeader(r) = Refused(r7)
    BY <1>1, <1>10, Zenon
  <2>2. ~DecodePacketHeader(r).ok
    BY <2>1, Stops
  <2> QED
    BY <2>2 DEF Short
<1> QED
  BY <1>9, <1>10

PayloadRecord(flags, type, exchange, protocol, acked) ==
  [exchangeId |-> exchange,
   protocolId |-> SubSeq(protocol \o Zero(2), 1, 4),
   messageType |-> type[1],
   isInitiatorMessage |-> Set(flags, IsInitiatorMessage),
   requiresAck |-> Set(flags, RequiresAck),
   ackedMessageId |-> Or0(acked, 4),
   hasSecuredExtension |-> Set(flags, HasSecureExtension)]

(* and that of a payload header.                                           *)
LEMMA PayloadHeaderShort ==
  ASSUME NEW r, NEW q, NEW d \in Nat, Short(r, q, d)
  PROVE  /\ Short(DecodePayloadHeader(r), DecodePayloadHeader(q), d)
         /\ DecodePayloadHeader(r).ok =>
              DecodePayloadHeader(r).field.hasSecuredExtension \in BOOLEAN
<1> DEFINE r1 == Read(r, 1)
           r2 == Read(r1, 1)
           r3 == Read(r2, 2)
           r4 == Read(r3, Width(Set(r1.field[1], HasVendorId), 2))
           r5 == Read(r4, IF IsZero(r4.field) THEN 2 ELSE 4)
           r6 == Read(r5, Width(HasAck(r1.field[1]), 4))
           q1 == Read(q, 1)
           q2 == Read(q1, 1)
           q3 == Read(q2, 2)
           q4 == Read(q3, Width(Set(q1.field[1], HasVendorId), 2))
           q5 == Read(q4, IF IsZero(q4.field) THEN 2 ELSE 4)
           q6 == Read(q5, Width(HasAck(q1.field[1]), 4))
           f == PayloadRecord(r1.field[1], r2.field, r3.field, r5.field, r6.field)
<1>1. DecodePayloadHeader(r)
        = IF r6.ok
          THEN [ok |-> TRUE, end |-> TRUE, rest |-> r6.rest,
                field |-> PayloadRecord(r1.field[1], r2.field, r3.field,
                                        r5.field, r6.field)]
          ELSE Refused(r6)
  BY Zenon DEF DecodePayloadHeader, PayloadRecord
<1>2. DecodePayloadHeader(q)
        = IF q6.ok
          THEN [ok |-> TRUE, end |-> TRUE, rest |-> q6.rest,
                field |-> PayloadRecord(q1.field[1], q2.field, q3.field,
                                        q5.field, q6.field)]
          ELSE Refused(q6)
  BY Zenon DEF DecodePayloadHeader, PayloadRecord
<1> HIDE DEF r1, r2, r3, r4, r5, r6, q1, q2, q3, q4, q5, q6
<1>3. Short(r1, q1, d) /\ Short(r2, q2, d) /\ Short(r3, q3, d)
  <2>1. 1 \in Nat /\ 2 \in Nat
    OBVIOUS
  <2>2. Short(r1, q1, d)  BY <2>1, ReadShort, Zenon DEF r1, q1
  <2>3. Short(r2, q2, d)  BY <2>1, <2>2, ReadShort, Zenon DEF r2, q2
  <2>4. Short(r3, q3, d)  BY <2>1, <2>3, ReadShort, Zenon DEF r3, q3
  <2> QED
    BY <2>2, <2>3, <2>4
<1>4. /\ (r6.ok => r5.ok) /\ (r5.ok => r4.ok)
      /\ (r4.ok => r3.ok) /\ (r3.ok => r2.ok) /\ (r2.ok => r1.ok)
  <2>1. (r6.ok => r5.ok) /\ (r5.ok => r4.ok)
    BY OkBefore, Zenon DEF r6, r5
  <2>2. (r4.ok => r3.ok) /\ (r3.ok => r2.ok) /\ (r2.ok => r1.ok)
    BY OkBefore, Zenon DEF r4, r3, r2
  <2> QED
    BY <2>1, <2>2
<1>5. r1.ok => r1.field = q1.field
  BY <1>3 DEF Short
<1>6. Short(r4, q4, d)
  <2> DEFINE w == Width(Set(r1.field[1], HasVendorId), 2)
             v == Width(Set(q1.field[1], HasVendorId), 2)
  <2>1. r3.ok => w = v /\ w \in Nat
    BY <1>4, <1>5, WidthIsNumber
  <2> HIDE DEF w, v
  <2>2. Short(Read(r3, w), Read(q3, v), d)
    BY <1>3, <2>1, ReadShort
  <2> QED
    BY <2>2, Zenon DEF w, v, r4, q4
<1>7. Short(r5, q5, d)
  <2> DEFINE w == IF IsZero(r4.field) THEN 2 ELSE 4
             v == IF IsZero(q4.field) THEN 2 ELSE 4
  <2>1. r4.ok => w = v /\ w \in Nat
    BY <1>6 DEF Short
  <2> HIDE DEF w, v
  <2>2. Short(Read(r4, w), Read(q4, v), d)
    BY <1>6, <2>1, ReadShort
  <2> QED
    BY <2>2, Zenon DEF w, v, r5, q5
<1>8. Short(r6, q6, d)
  <2> DEFINE w == Width(HasAck(r1.field[1]), 4)
             v == Width(HasAck(q1.field[1]), 4)
  <2>1. r5.ok => w = v /\ w \in Nat
    BY <1>4, <1>5, WidthIsNumber
  <2> HIDE DEF w, v
  <2>2. Short(Read(r5, w), Read(q5, v), d)
    BY <1>7, <2>1, ReadShort
  <2> QED
    BY <2>2, Zenon DEF w, v, r6, q6
<1>9. CASE r6.ok
  <2>1. /\ r1.field = q1.field /\ r2.field = q2.field /\ r3.field = q3.field
        /\ r5.field = q5.field /\ r6.field = q6.field
        /\ q6.ok /\ Begins(r6.rest, q6.rest)
        /\ Len(q6.rest) = Len(r6.rest) + d
    BY <1>3, <1>4, <1>7, <1>8, <1>9 DEF Short
  <2>2. DecodePayloadHeader(r)
            = [ok |-> TRUE, end |-> TRUE, rest |-> r6.rest, field |-> f]
    BY <1>1, <1>9, Zenon
  <2>3. DecodePayloadHeader(q)
            = [ok |-> TRUE, end |-> TRUE, rest |-> q6.rest, field |-> f]
    BY <1>2, <2>1, Zenon
  <2>4. f.hasSecuredExtension \in BOOLEAN
    BY DEF PayloadRecord, Set
  <2> HIDE DEF f
  <2> QED
    BY <2>1, <2>2, <2>3, <2>4 DEF Short
<1>10. CASE ~r6.ok
  <2>1. DecodePayloadHeader(r) = Refused(r6)
    BY <1>1, <1>10, Zenon
  <2>2. ~DecodePayloadHeader(r).ok
    BY <2>1, Stops
  <2> QED
    BY <2>2 DEF Short
<1> QED
  BY <1>9, <1>10

(* Before a reader that is given nothing there is nothing.                 *)
LEMMA BeginsEmpty ==
  ASSUME NEW s, NEW t, Begins(s, t)
  PROVE  s \in Seq(Nat) /\ Len(s) \in Nat /\ (s = <<>> <=> Len(s) = 0)
<1>1. t \in Seq(Nat) /\ \E n \in 0..Len(t) : s = SubSeq(t, 1, n)
  BY DEF Begins
<1>2. s \in Seq(Nat)
  BY <1>1, BeginningOfSeq
<1> QED
  BY <1>2, EmptySeq, LenProperties

(* The message extension of a cut message is the whole one, or missing.    *)
LEMMA ExtensionCut ==
  ASSUME NEW whole, NEW part, Begins(part, whole),
         NEW d \in Nat, Len(whole) = Len(part) + d
  PROVE  /\ Short(PacketPart(part), PacketPart(whole), d)
         /\ Short(ExtensionPart(part), ExtensionPart(whole), d)
<1>1. Short(DataReader(part, TRUE), DataReader(whole, TRUE), d)
  BY DEF Short, DataReader
<1>2. /\ Short(PacketPart(part), PacketPart(whole), d)
      /\ PacketPart(part).ok =>
           PacketPart(part).field.hasMessageExtensions \in BOOLEAN
  BY <1>1, PacketHeaderShort, Zenon DEF PacketPart
<1>3. Short(ExtensionPart(part), ExtensionPart(whole), d)
  <2> DEFINE c == PacketPart(part).field.hasMessageExtensions
             b == PacketPart(whole).field.hasMessageExtensions
  <2>1. PacketPart(part).ok => c = b /\ c \in BOOLEAN
    BY <1>2 DEF Short
  <2> HIDE DEF c, b
  <2>2. Short(ReadExtension(PacketPart(part), c),
              ReadExtension(PacketPart(whole), b), d)
    BY <1>2, <2>1, ReadExtensionShort
  <2> QED
    BY <2>2, Zenon DEF ExtensionPart, c, b
<1> QED
  BY <1>2, <1>3

(* All that can be missing is the end of the payload.                      *)
LEMMA CutParts ==
  ASSUME NEW whole, NEW part, Begins(part, whole), SecuredPart(part).ok
  PROVE  /\ SecuredPart(whole).ok
         /\ PacketPart(part).field = PacketPart(whole).field
         /\ HeaderPart(part).field = HeaderPart(whole).field
         /\ SecuredPart(part).field = SecuredPart(whole).field
         /\ Begins(SecuredPart(part).rest, SecuredPart(whole).rest)
<1>0. /\ whole \in Seq(Nat) /\ Len(whole) \in Nat /\ Len(part) \in Nat
      /\ Len(part) <= Len(whole)
  <2>1. whole \in Seq(Nat) /\ \E n \in 0..Len(whole) : part = SubSeq(whole, 1, n)
    BY DEF Begins
  <2> QED
    BY <2>1, BeginningOfSeq, LenProperties
<1> DEFINE d == Len(whole) - Len(part)
<1>1. d \in Nat /\ Len(whole) = Len(part) + d
  BY <1>0
<1> HIDE DEF d
<1>2. /\ Short(PacketPart(part), PacketPart(whole), d)
      /\ Short(ExtensionPart(part), ExtensionPart(whole), d)
  BY <1>1, ExtensionCut
<1>3. Short(PayloadPart(part), PayloadPart(whole), d)
  <2> DEFINE x == ExtensionPart(part)
             y == ExtensionPart(whole)
             u == PayloadPart(part)
             v == PayloadPart(whole)
  <2>1. x.ok => u = DataReader(x.rest, FALSE)
    BY Zenon DEF PayloadPart
  <2>2. y.ok => v = DataReader(y.rest, FALSE)
    BY Zenon DEF PayloadPart
  <2>3. ~x.ok => ~u.ok
    BY Zenon DEF PayloadPart
  <2>4. Short(x, y, d)
    BY <1>2
  <2> HIDE DEF x, y, u, v
  <2>5. CASE x.ok
    <3>1. /\ y.ok /\ Begins(x.rest, y.rest) /\ Len(y.rest) = Len(x.rest) + d
      BY <2>4, <2>5 DEF Short
    <3>2. x.rest # <<>> => y.rest # <<>>
      <4>1. Len(x.rest) \in Nat /\ (x.rest = <<>> <=> Len(x.rest) = 0)
        BY <3>1, BeginsEmpty
      <4>2. y.rest = <<>> => Len(y.rest) = 0
        OBVIOUS
      <4> QED
        BY <1>1, <3>1, <4>1, <4>2
    <3>3. /\ u.ok /\ u.rest = x.rest /\ u.field = <<>> /\ (u.end <=> x.rest # <<>>)
          /\ v.ok /\ v.rest = y.rest /\ v.field = <<>> /\ (v.end <=> y.rest # <<>>)
      BY <2>1, <2>2, <2>5, <3>1, ReaderOver
    <3> QED
      BY <3>1, <3>2, <3>3 DEF Short, u, v
  <2>6. CASE ~x.ok
    BY <2>3, <2>6 DEF Short, u, v
  <2> QED
    BY <2>5, <2>6
<1>4. /\ Short(HeaderPart(part), HeaderPart(whole), d)
      /\ HeaderPart(part).ok =>
           HeaderPart(part).field.hasSecuredExtension \in BOOLEAN
  BY <1>1, <1>3, PayloadHeaderShort, Zenon DEF HeaderPart
<1>5. Short(SecuredPart(part), SecuredPart(whole), d)
  <2> DEFINE c == HeaderPart(part).field.hasSecuredExtension
             b == HeaderPart(whole).field.hasSecuredExtension
  <2>1. HeaderPart(part).ok => c = b /\ c \in BOOLEAN
    BY <1>4 DEF Short
  <2> HIDE DEF c, b
  <2>2. Short(ReadExtension(HeaderPart(part), c),
              ReadExtension(HeaderPart(whole), b), d)
    BY <1>1, <1>4, <2>1, ReadExtensionShort
  <2> QED
    BY <2>2, Zenon DEF SecuredPart, c, b
<1>6. HeaderPart(part).ok /\ PacketPart(part).ok
  BY DecodedParts, Zenon
<1> QED
  BY <1>2, <1>4, <1>5, <1>6, Zenon DEF Short
-----------------------------------------------------------------------------
(* A reader that checks its end, or has met it                             *)
Checked(r) == (r.ok /\ r.end = TRUE) \/ r = Failed

(* Such a reader stays one,                                                *)
LEMMA ReadChecked ==
  ASSUME NEW r, NEW w, Checked(r)
  PROVE  Checked(Read(r, w))
<1>1. Checked(Failed)
  BY DEF Checked
<1>2. \A bytes : Checked(Taken(bytes, w))
  BY DEF Checked, Taken
<1>3. CASE r.ok /\ r.end = TRUE
  <2>1. Read(r, w) = Taken(r.rest, w) \/ Read(r, w) = Failed
    <3>1. r.ok /\ r.end
      BY <1>3
    <3> QED
      BY <3>1, Zenon DEF Read
  <2> QED
    BY <1>1, <1>2, <2>1
<1>4. CASE r = Failed
  <2>1. Read(r, w) = r
    <3>1. ~r.ok
      BY <1>4, Stops
    <3> QED
      BY <3>1, Zenon DEF Read
  <2> QED
    BY <1>1, <1>4, <2>1
<1> QED
  BY <1>3, <1>4 DEF Checked

(* what is thrown is thrown on,                                            *)
LEMMA RefusedChecked ==
  /\ \A r : Checked(r) => Refused(r) = Failed
  /\ Refused(NullRead) = NullRead /\ NullRead # Failed
  /\ ~NullRead.ok /\ ~Failed.ok
<1>1. \A r : Checked(r) => r.end = TRUE
  BY Stops DEF Checked
<1> QED
  BY <1>1, Stops

(* with every decoder.                                                     *)
LEMMA DecodersChecked ==
  ASSUME NEW r, Checked(r)
  PROVE  /\ Checked(DecodePacketHeader(r)) /\ Checked(DecodePayloadHeader(r))
         /\ \A c : Checked(ReadExtension(r, c))
<1> DEFINE r1 == Read(r, 1)
           r2 == Read(r1, 2)
           r3 == Read(r2, 1)
           r4 == Read(r3, 4)
           r5 == Read(r4, Width(Set(r1.field[1], HasSourceNodeId), 8))
           r6 == Read(r5, Width(Set(r1.field[1], HasDestNodeId), 8))
           r7 == Read(r6, Width(Set(r1.field[1], HasDestGroupId), 2))
           q2 == Read(r1, 1)
           q3 == Read(q2, 2)
           q4 == Read(q3, Width(Set(r1.field[1], HasVendorId), 2))
           q5 == Read(q4, IF IsZero(q4.field) THEN 2 ELSE 4)
           q6 == Read(q5, Width(HasAck(r1.field[1]), 4))
<1>1. \A x, t : Checked([ok |-> TRUE, end |-> TRUE, rest |-> t, field |-> x])
  BY DEF Checked
<1>2. Checked(Failed)
  BY DEF Checked
<1>3. \/ DecodePacketHeader(r) = Refused(r7)
      \/ \E x : DecodePacketHeader(r)
                  = [ok |-> TRUE, end |-> TRUE, rest |-> r7.rest, field |-> x]
  BY Zenon DEF DecodePacketHeader
<1>4. \/ DecodePayloadHeader(r) = Refused(q6)
      \/ \E x : DecodePayloadHeader(r)
                  = [ok |-> TRUE, end |-> TRUE, rest |-> q6.rest, field |-> x]
  BY Zenon DEF DecodePayloadHeader
<1> HIDE DEF r1, r2, r3, r4, r5, r6, r7, q2, q3, q4, q5, q6
<1>5. Checked(r1) /\ Checked(r2) /\ Checked(r3) /\ Checked(r4)
  <2>1. Checked(r1)  BY ReadChecked, Zenon DEF r1
  <2>2. Checked(r2)  BY <2>1, ReadChecked, Zenon DEF r2
  <2>3. Checked(r3)  BY <2>2, ReadChecked, Zenon DEF r3
  <2>4. Checked(r4)  BY <2>3, ReadChecked, Zenon DEF r4
  <2> QED
    BY <2>1, <2>2, <2>3, <2>4
<1>6. Checked(r7)
  <2>1. Checked(r5)  BY <1>5, ReadChecked, Zenon DEF r5
  <2>2. Checked(r6)  BY <2>1, ReadChecked, Zenon DEF r6
  <2> QED
    BY <2>2, ReadChecked, Zenon DEF r7
<1>7. Checked(q6)
  <2>1. Checked(q2)  BY <1>5, ReadChecked, Zenon DEF q2
  <2>2. Checked(q3)  BY <2>1, ReadChecked, Zenon DEF q3
  <2>3. Checked(q4)  BY <2>2, ReadChecked, Zenon DEF q4
  <2>4. Checked(q5)  BY <2>3, ReadChecked, Zenon DEF q5
  <2> QED
    BY <2>4, ReadChecked, Zenon DEF q6
<1>8. Checked(DecodePacketHeader(r))
  BY <1>1, <1>2, <1>3, <1>6, RefusedChecked, Zenon
<1>9. Checked(DecodePayloadHeader(r))
  BY <1>1, <1>2, <1>4, <1>7, RefusedChecked, Zenon
<1>10. ASSUME NEW c PROVE Checked(ReadExtension(r, c))
  BY ReadChecked, Zenon DEF ReadExtension
<1> QED
  BY <1>8, <1>9, <1>10

(* A packet header is not read from nothing.                               *)
LEMMA DecoderNeeds ==
  ASSUME NEW r, DecodePacketHeader(r).ok
  PROVE  1 <= Len(r.rest)
<1> DEFINE r1 == Read(r, 1)
           r2 == Read(r1, 2)
           r3 == Read(r2, 1)
           r4 == Read(r3, 4)
           r5 == Read(r4, Width(Set(r1.field[1], HasSourceNodeId), 8))
           r6 == Read(r5, Width(Set(r1.field[1], HasDestNodeId), 8))
           r7 == Read(r6, Width(Set(r1.field[1], HasDestGroupId), 2))
<1>1. r7.ok \/ DecodePacketHeader(r) = Refused(r7)
  BY Zenon DEF DecodePacketHeader
<1> HIDE DEF r1, r2, r3, r4, r5, r6, r7
<1>2. r7.ok
  BY <1>1, Stops
<1>3. r4.ok
  BY <1>2, ReadNeeds, Zenon DEF r7, r6, r5
<1>4. r1.ok
  BY <1>3, ReadNeeds, Zenon DEF r4, r3, r2
<1> QED
  BY <1>4, ReadNeeds, Zenon DEF r1

(* A reader without an end reads through the null pointer at once, and     *)
(* what has happened cannot be undone.                                     *)
LEMMA NullDecoders ==
  ASSUME NEW r, (r.ok /\ r.end = FALSE) \/ r = NullRead
  PROVE  /\ DecodePacketHeader(r) = NullRead
         /\ DecodePayloadHeader(r) = NullRead
         /\ \A c : ReadExtension(NullRead, c) = NullRead
<1>1. \A w : Read(NullRead, w) = NullRead
  BY RefusedChecked, Zenon DEF Read
<1>2. Read(r, 1) = NullRead
  <2>1. CASE r.ok /\ r.end = FALSE
    <3>1. r.ok /\ ~r.end
      BY <2>1
    <3> QED
      BY <3>1, Zenon DEF Read
  <2>2. CASE r = NullRead
    BY <1>1, <2>2
  <2> QED
    BY <2>1, <2>2
<1>3. ~NullRead.ok /\ Refused(NullRead) = NullRead
  BY RefusedChecked
<1>4. DecodePacketHeader(r) = NullRead
  BY <1>1, <1>2, <1>3, Zenon DEF DecodePacketHeader
<1>5. DecodePayloadHeader(r) = NullRead
  BY <1>1, <1>2, <1>3, Zenon DEF DecodePayloadHeader
<1>6. ASSUME NEW c PROVE ReadExtension(NullRead, c) = NullRead
  BY <1>1, Zenon DEF ReadExtension
<1> QED
  BY <1>4, <1>5, <1>6

(* What a decoding that did not succeed has ended in: it has read through  *)
(* the null pointer exactly when nothing was left for the second decoder.  *)
LEMMA DecodedOutcome ==
  ASSUME NEW bytes
  PROVE  /\ ~Decoded(bytes).ok => Decoded(bytes) \in {Failed, NullRead}
         /\ Decoded(bytes) = NullRead
              <=> ExtensionPart(bytes).ok /\ ExtensionPart(bytes).rest = <<>>
<1> DEFINE x == ExtensionPart(bytes)
           y == PayloadPart(bytes)
           z == SecuredPart(bytes)
<1>1. Checked(x)
  <2>1. Checked(DataReader(bytes, TRUE))
    BY DEF Checked, DataReader
  <2>2. Checked(PacketPart(bytes))
    BY <2>1, DecodersChecked, Zenon DEF PacketPart
  <2> QED
    BY <2>2, DecodersChecked, Zenon DEF ExtensionPart
<1>2. IF x.ok THEN y = DataReader(x.rest, FALSE) ELSE y = x
  BY Zenon DEF PayloadPart
<1>3. HeaderPart(bytes) = DecodePayloadHeader(y)
  BY Zenon DEF HeaderPart
<1>4. z = ReadExtension(HeaderPart(bytes),
                        HeaderPart(bytes).field.hasSecuredExtension)
  BY Zenon DEF SecuredPart
<1>5. /\ ~z.ok => Decoded(bytes) = Refused(z)
      /\ Decoded(bytes).ok <=> z.ok
  BY DecodedParts, Zenon
<1> HIDE DEF x, y, z
<1>6. CASE x.ok /\ x.rest = <<>>
  <2>1. y.ok /\ y.end = FALSE
    BY <1>2, <1>6, ReaderOver
  <2>2. HeaderPart(bytes) = NullRead
    BY <1>3, <2>1, NullDecoders, Zenon
  <2>3. z = NullRead
    BY <1>4, <2>1, <2>2, NullDecoders, Zenon
  <2> QED
    BY <1>5, <1>6, <2>3, RefusedChecked DEF x
<1>7. CASE ~(x.ok /\ x.rest = <<>>)
  <2>1. Checked(y)
    <3>1. CASE x.ok
      BY <1>2, <1>7, <3>1, ReaderOver DEF Checked
    <3>2. CASE ~x.ok
      BY <1>1, <1>2, <3>2, Zenon
    <3> QED
      BY <3>1, <3>2
  <2>2. Checked(HeaderPart(bytes))
    BY <1>3, <2>1, DecodersChecked, Zenon
  <2>3. Checked(z)
    BY <1>4, <2>2, DecodersChecked, Zenon
  <2>4. Decoded(bytes).ok \/ Decoded(bytes) = Failed
    BY <1>5, <2>3, RefusedChecked
  <2> QED
    BY <1>7, <2>4, RefusedChecked DEF x
<1> QED
  BY <1>6, <1>7

(* Storage matters to an empty datagram alone, and that is not decoded.    *)
LEMMA EmptyDatagram ==
  ASSUME NEW bytes, NEW storage \in BOOLEAN
  PROVE  /\ bytes # <<>> => DecodedMessage(bytes, storage) = Decoded(bytes)
         /\ bytes = <<>> => DecodedMessage(bytes, storage) \in {Failed, NullRead}
<1>1. ASSUME bytes # <<>> PROVE DecodedMessage(bytes, storage) = Decoded(bytes)
  <2>1. DataReader(bytes, storage) = DataReader(bytes, TRUE)
    BY <1>1 DEF DataReader
  <2> QED
    BY <2>1, Zenon DEF DecodedMessage, Decoded
<1>2. ASSUME bytes = <<>>
      PROVE  DecodedMessage(bytes, storage) \in {Failed, NullRead}
  <2> DEFINE r == DataReader(bytes, storage)
             p == DecodePacketHeader(r)
             x == ReadExtension(p, p.field.hasMessageExtensions)
             y == IF x.ok THEN DataReader(x.rest, FALSE) ELSE x
             h == DecodePayloadHeader(y)
             z == ReadExtension(h, h.field.hasSecuredExtension)
  <2>1. ~z.ok => DecodedMessage(bytes, storage) = Refused(z)
    BY Zenon DEF DecodedMessage
  <2>2. /\ r.ok /\ r.rest = <<>>
        /\ storage => r.end = TRUE
        /\ ~storage => r.end = FALSE
    BY <1>2 DEF DataReader
  <2> HIDE DEF r
  <2>3. CASE storage
    <3>1. Checked(r)
      BY <2>2, <2>3 DEF Checked
    <3>2. ~p.ok
      BY <2>2, DecoderNeeds
    <3>3. Checked(p)
      BY <3>1, DecodersChecked, Zenon
    <3> HIDE DEF p
    <3>4. ~x.ok /\ Checked(x)
      BY <3>2, <3>3, OkBefore, DecodersChecked, Zenon
    <3> HIDE DEF x
    <3>5. y = x
      BY <3>4, Zenon
    <3> HIDE DEF y
    <3>6. ~h.ok /\ Checked(h)
      BY <3>4, <3>5, OkBefore, DecodersChecked, Zenon
    <3> HIDE DEF h
    <3>7. ~z.ok /\ Checked(z)
      BY <3>6, OkBefore, DecodersChecked, Zenon
    <3> HIDE DEF z
    <3> QED
      BY <2>1, <3>7, RefusedChecked
  <2>4. CASE ~storage
    <3>1. p = NullRead
      BY <2>2, <2>4, NullDecoders, Zenon
    <3> HIDE DEF p
    <3>2. x = NullRead
      BY <2>2, <2>4, <3>1, NullDecoders, Zenon
    <3> HIDE DEF x
    <3>3. y = NullRead
      BY <3>2, RefusedChecked
    <3> HIDE DEF y
    <3>4. h = NullRead
      BY <3>3, NullDecoders, Zenon
    <3> HIDE DEF h
    <3>5. z = NullRead
      BY <3>3, <3>4, NullDecoders, Zenon
    <3> HIDE DEF z
    <3> QED
      BY <2>1, <3>5, RefusedChecked
  <2> QED
    BY <2>3, <2>4
<1> QED
  BY <1>1, <1>2
-----------------------------------------------------------------------------
(* What is encoded is the message without extensions.                      *)
LEMMA EncodedIsExtended ==
  ASSUME NEW m \in Message
  PROVE  EncodedMessage(m) = Extended(m, {})
<1> DEFINE hp == m.packetHeader
           hq == m.payloadHeader
           P == EncodePacketHeader(hp)
           Q == EncodePayloadHeader(hq)
<1>1. hp \in PacketHeader /\ hq \in PayloadHeader /\ m.payload \in Seq(Byte)
  BY Zenon DEF Message
<1>2. /\ Flag("message" \in {}, HasMessageExtension) = 0
      /\ Flag("secured" \in {}, HasSecureExtension) = 0
      /\ ExtensionIf("message" \in {}) = <<>>
      /\ ExtensionIf("secured" \in {}) = <<>>
  BY DEF Flag, ExtensionIf
<1>3. [hp EXCEPT !.sessionType = @ + 0] = hp
  <2>1. hp.sessionType + 0 = hp.sessionType
    BY <1>1 DEF PacketHeader, SessionType
  <2> QED
    BY <1>1, <2>1 DEF PacketHeader
<1>4. P \in Seq(Nat)
  <2> DEFINE r == DataReader(MarkedPacket(hp, FALSE) \o <<>>, TRUE)
  <2>1. r.ok /\ r.end /\ r.rest = MarkedPacket(hp, FALSE) \o <<>>
    BY DEF DataReader
  <2>2. <<>> \in Seq(Nat) /\ FALSE \in BOOLEAN
    OBVIOUS
  <2> HIDE DEF r
  <2>3. MarkedPacket(hp, FALSE) \in Seq(Nat)
    BY <1>1, <2>1, <2>2, PacketHeaderBack, Zenon
  <2>4. Flag(FALSE, HasMessageExtension) = 0
    BY DEF Flag
  <2> QED
    BY <1>3, <2>3, <2>4, Zenon DEF MarkedPacket
<1>5. Q \in Seq(Nat) /\ [Q EXCEPT ![1] = @ + 0] = Q
  <2> DEFINE b == MarkedHeader(hq, FALSE)
  <2>1. b \in Seq(Nat)
    <3>1. <<>> \in Seq(Nat) /\ FALSE \in BOOLEAN
      OBVIOUS
    <3> QED
      BY <1>1, <3>1, PayloadHeaderBytes, Zenon
  <2>2. b = [Q EXCEPT ![1] = @ + 0]
    <3>1. Flag(FALSE, HasSecureExtension) = 0
      BY DEF Flag
    <3> QED
      BY <3>1, Zenon DEF MarkedHeader
  <2>3. \E F \in Nat, u \in Seq(Nat) : Q = <<F>> \o u
    BY <1>1, FlagsFirst
  <2>4. PICK F \in Nat, u \in Seq(Nat) : Q = <<F>> \o u
    BY <2>3
  <2> HIDE DEF Q
  <2>5. Q[1] = F /\ [Q EXCEPT ![1] = F] = Q
    BY <2>4, FirstReplaced
  <2>6. Q[1] + 0 = F
    BY <2>5
  <2>7. [Q EXCEPT ![1] = @ + 0] = Q
    BY <2>5, <2>6
  <2> QED
    BY <2>1, <2>2, <2>7
<1>6. Extended(m, {}) = P \o <<>> \o Q \o <<>> \o m.payload
  BY <1>2, <1>3, <1>5, Zenon DEF Extended
<1> HIDE DEF P, Q
<1>7. P \o <<>> = P
  BY <1>4, ConcatEmptySeq
<1>8. P \o Q \in Seq(Nat)
  BY <1>4, <1>5, Join
<1>9. (P \o Q) \o <<>> = P \o Q
  BY <1>8, ConcatEmptySeq
<1>10. EncodedMessage(m) = P \o Q \o m.payload
  BY Zenon DEF EncodedMessage, P, Q
<1> QED
  BY <1>6, <1>7, <1>9, <1>10, Zenon

(* A message without extensions is itself.                                 *)
LEMMA NothingExtended ==
  ASSUME NEW m \in Message, Encodable(m)
  PROVE  WithExtensions(m, {}) = m
<1> DEFINE hp == m.packetHeader
           hq == m.payloadHeader
<1>1. hp \in PacketHeader /\ hq \in PayloadHeader
  BY Zenon DEF Message
<1>2. m = [packetHeader |-> hp, payloadHeader |-> hq,
           securityExtension |-> m.securityExtension, payload |-> m.payload]
  BY DEF Message
<1>3. hp.hasMessageExtensions = FALSE /\ hq.hasSecuredExtension = FALSE
  <2>1. hp.hasMessageExtensions \in BOOLEAN /\ hq.hasSecuredExtension \in BOOLEAN
    BY <1>1, Zenon DEF PacketHeader, PayloadHeader
  <2>2. ~hp.hasMessageExtensions /\ ~hq.hasSecuredExtension
    BY DEF Encodable
  <2> QED
    BY <2>1, <2>2
<1>4. [hp EXCEPT !.hasMessageExtensions = FALSE] = hp
  BY <1>1, <1>3 DEF PacketHeader
<1>5. [hq EXCEPT !.hasSecuredExtension = FALSE] = hq
  BY <1>1, <1>3 DEF PayloadHeader
<1>6. ("message" \in {}) = FALSE /\ ("secured" \in {}) = FALSE
  OBVIOUS
<1>7. WithExtensions(m, {})
        = [packetHeader |-> [hp EXCEPT !.hasMessageExtensions = FALSE],
           payloadHeader |-> [hq EXCEPT !.hasSecuredExtension = FALSE],
           securityExtension |-> m.securityExtension, payload |-> m.payload]
  BY <1>6 DEF WithExtensions
<1> QED
  BY <1>2, <1>4, <1>5, <1>7, Zenon
-----------------------------------------------------------------------------
(* The bytes on their way are the beginning of the message that was        *)
(* encoded and, if others did so, extended; what is decoded is decoded     *)
(* from them.                                                              *)
MatterInv ==
  /\ msg \in Messages
  /\ phase = "new" => extended = {}
  /\ phase \in {"wire", "decoded"} =>
       /\ Encodable(msg)
       /\ length = Len(Extended(msg, extended))
       /\ Begins(wire, Extended(msg, extended))
  /\ phase = "decoded" =>
       \E storage \in BOOLEAN : decoded = DecodedMessage(wire, storage)

(* A beginning as long as the whole is the whole.                          *)
LEMMA AllOfSeq ==
  ASSUME NEW t \in Seq(Nat), NEW s, Begins(s, t)
  PROVE  Len(s) = Len(t) => s = t
<1>1. PICK n \in 0..Len(t) : s = SubSeq(t, 1, n)
  BY DEF Begins
<1>2. Len(s) = n /\ s \in Seq(Nat) /\ \A i \in 1..n : s[i] = t[i]
  BY <1>1, BeginningOfSeq
<1> QED
  BY <1>2, SeqEqual

(* An encoded message is a byte string.                                    *)
LEMMA ExtendedSeq ==
  ASSUME NEW m \in Message, NEW kinds
  PROVE  /\ Extended(m, kinds) \in Seq(Nat)
         /\ Begins(Extended(m, kinds), Extended(m, kinds))
<1> DEFINE e1 == "message" \in kinds
           e2 == "secured" \in kinds
           b == Extended(m, kinds)
<1>1. /\ e1 \in BOOLEAN /\ e2 \in BOOLEAN
      /\ (e1 <=> "message" \in kinds) /\ (e2 <=> "secured" \in kinds)
  OBVIOUS
<1> HIDE DEF e1, e2
<1>2. b \in Seq(Nat)
  BY <1>1, ExtendedParts, Zenon
<1> HIDE DEF b
<1>3. Len(b) \in Nat /\ Len(b) \in 0..Len(b)
  BY <1>2, LenProperties
<1>4. /\ SubSeq(b, 1, Len(b)) \in Seq(Nat) /\ Len(SubSeq(b, 1, Len(b))) = Len(b)
      /\ \A i \in 1..Len(b) : SubSeq(b, 1, Len(b))[i] = b[i]
  BY <1>2, <1>3, BeginningOfSeq
<1>5. SubSeq(b, 1, Len(b)) = b
  BY <1>2, <1>4, SeqEqual
<1>6. Begins(b, b)
  BY <1>2, <1>3, <1>5 DEF Begins
<1> QED
  BY <1>2, <1>6 DEF b

(* What decodePacket takes of an encoded message has the length of its     *)
(* header and its message extension.                                       *)
LEMMA ExtendedSplit ==
  ASSUME NEW m \in Message, NEW kinds
  PROVE  /\ Extended(m, kinds) # <<>>
         /\ \E e \in BOOLEAN :
              /\ Splits(m, e, Extended(m, kinds))
              /\ ExtensionIf("message" \in kinds) = ExtensionIf(e)
         /\ \A e \in BOOLEAN :
              /\ MarkedPacket(m.packetHeader, e) \in Seq(Nat)
              /\ Len(MarkedPacket(m.packetHeader, e))
                   = Len(EncodePacketHeader(m.packetHeader))
              /\ Len(MarkedPacket(m.packetHeader, e)) \in Nat \ {0}
<1> DEFINE e1 == "message" \in kinds
           e2 == "secured" \in kinds
           b == Extended(m, kinds)
           hp == m.packetHeader
<1>1. /\ e1 \in BOOLEAN /\ e2 \in BOOLEAN
      /\ (e1 <=> "message" \in kinds) /\ (e2 <=> "secured" \in kinds)
      /\ e1 = ("message" \in kinds)
  OBVIOUS
<1> HIDE DEF e1, e2
<1>2. b \in Seq(Nat) /\ Splits(m, e1, b)
  BY <1>1, ExtendedParts, Zenon
<1>3. hp \in PacketHeader
  BY Zenon DEF Message
<1>4. EncodePacketHeader(hp) = MarkedPacket(hp, FALSE)
  <2>1. hp.sessionType + 0 = hp.sessionType
    BY <1>3 DEF PacketHeader, SessionType
  <2>2. [hp EXCEPT !.sessionType = @ + 0] = hp
    BY <1>3, <2>1 DEF PacketHeader
  <2>3. Flag(FALSE, HasMessageExtension) = 0
    BY DEF Flag
  <2> QED
    BY <2>2, <2>3, Zenon DEF MarkedPacket
<1> HIDE DEF b
<1>5. \A e \in BOOLEAN :
        /\ MarkedPacket(hp, e) \in Seq(Nat)
        /\ Len(MarkedPacket(hp, e)) = Len(EncodePacketHeader(hp))
        /\ Len(MarkedPacket(hp, e)) \in Nat \ {0}
  <2>1. FALSE \in BOOLEAN
    OBVIOUS
  <2> HIDE DEF hp
  <2> TAKE e \in BOOLEAN
  <2>3. /\ Len(MarkedPacket(hp, e)) = Len(MarkedPacket(hp, FALSE))
        /\ MarkedPacket(hp, e) \in Seq(Nat)
        /\ Len(MarkedPacket(hp, e)) \in Nat /\ Len(MarkedPacket(hp, e)) > 0
    BY <1>3, <2>1, MarkedLength, Zenon
  <2>4. \A n \in Nat : n > 0 => n \in Nat \ {0}
    OBVIOUS
  <2> QED
    BY <1>4, <2>3, <2>4, Zenon
<1>6. b # <<>>
  <2>1. PICK t \in Seq(Nat) : b = MarkedPacket(hp, e1) \o (ExtensionIf(e1) \o t)
    BY <1>2 DEF Splits
  <2>2. ExtensionIf(e1) \o t \in Seq(Nat)
    BY <1>1, ExtensionBytes, Join
  <2>3. /\ Len(b) = Len(MarkedPacket(hp, e1)) + Len(ExtensionIf(e1) \o t)
        /\ Len(ExtensionIf(e1) \o t) \in Nat
        /\ Len(MarkedPacket(hp, e1)) \in Nat \ {0}
    BY <1>1, <1>5, <2>1, <2>2, Joined, LenProperties
  <2>4. Len(<<>>) = 0
    OBVIOUS
  <2> QED
    BY <2>3, <2>4
<1> QED
  BY <1>1, <1>2, <1>5, <1>6, Zenon DEF b, hp

(* The beginning of a message that is as long as its first part            *)
LEMMA CutOff ==
  ASSUME NEW a \in Seq(Nat), NEW t \in Seq(Nat), NEW s, Begins(s, a \o t),
         Len(s) = Len(a)
  PROVE  s = a
<1>1. PICK n \in 0..Len(a \o t) : s = SubSeq(a \o t, 1, n)
  BY DEF Begins
<1>2. /\ a \o t \in Seq(Nat) /\ Len(a \o t) = Len(a) + Len(t)
      /\ \A i \in 1..Len(a) + Len(t) :
           (a \o t)[i] = IF i <= Len(a) THEN a[i] ELSE t[i - Len(a)]
      /\ Len(a) \in Nat /\ Len(t) \in Nat
  BY Joined, LenProperties
<1>3. Len(s) = n /\ s \in Seq(Nat) /\ \A i \in 1..n : s[i] = (a \o t)[i]
  BY <1>1, <1>2, BeginningOfSeq
<1>4. \A i \in 1..Len(s) : s[i] = a[i]
  BY <1>2, <1>3
<1> QED
  BY <1>3, <1>4, SeqEqual

(* The second decoder is left nothing exactly when the message was cut     *)
(* where the first one stops.                                              *)
LEMMA CutAtPacket ==
  ASSUME NEW m \in Message, OneDestination(m), NEW kinds,
         NEW part, Begins(part, Extended(m, kinds))
  PROVE  /\ Len(part) = PacketLength(m, kinds)
              <=> ExtensionPart(part).ok /\ ExtensionPart(part).rest = <<>>
         /\ Len(part) = PacketLength(m, kinds) => part # <<>>
<1> DEFINE b == Extended(m, kinds)
           hp == m.packetHeader
<1>1. PICK e \in BOOLEAN :
        Splits(m, e, b) /\ ExtensionIf("message" \in kinds) = ExtensionIf(e)
  BY ExtendedSplit, Zenon
<1> DEFINE P == MarkedPacket(hp, e)
           X == ExtensionIf(e)
<1>2. /\ P \in Seq(Nat) /\ X \in Seq(Nat)
      /\ PacketLength(m, kinds) = Len(P) + Len(X)
      /\ Len(P) \in Nat \ {0} /\ Len(X) \in Nat
  <2>1. X \in Seq(Nat) /\ Len(X) \in Nat
    BY ExtensionBytes, LenProperties
  <2>2. P \in Seq(Nat) /\ Len(P) = Len(EncodePacketHeader(hp)) /\ Len(P) \in Nat \ {0}
    BY ExtendedSplit
  <2> QED
    BY <1>1, <2>1, <2>2 DEF PacketLength
<1>3. PICK t \in Seq(Nat) :
        b = P \o (X \o t) /\ ExtensionPart(b).ok /\ ExtensionPart(b).rest = t
  BY <1>1, Zenon DEF Splits
<1>4. hp \in PacketHeader /\ (IsZero(hp.destNodeId) \/ IsZero(hp.destGroupId))
  BY Zenon DEF Message, OneDestination
<1> HIDE DEF b, X, hp
<1>5. X \o t \in Seq(Nat) /\ Len(X \o t) = Len(X) + Len(t) /\ Len(t) \in Nat
  BY <1>2, Joined, LenProperties
<1>6. b \in Seq(Nat) /\ Len(b) = Len(P) + Len(X) + Len(t)
  <2> HIDE DEF P
  <2> QED
    BY <1>2, <1>3, <1>5, Joined
<1>7. Begins(part, b) /\ Len(part) \in Nat /\ Len(part) <= Len(b)
  <2>1. Begins(part, b)
    BY DEF b
  <2>2. \E n \in 0..Len(b) : part = SubSeq(b, 1, n)
    BY <2>1 DEF Begins
  <2> QED
    BY <1>6, <2>1, <2>2, BeginningOfSeq
<1>8. ASSUME ExtensionPart(part).ok, ExtensionPart(part).rest = <<>>
      PROVE  Len(part) = PacketLength(m, kinds)
  <2> DEFINE d == Len(b) - Len(part)
  <2>1. d \in Nat /\ Len(b) = Len(part) + d
    BY <1>2, <1>5, <1>6, <1>7
  <2> HIDE DEF d
  <2>2. Short(ExtensionPart(part), ExtensionPart(b), d)
    BY <1>7, <2>1, ExtensionCut
  <2>3. Len(t) = Len(<<>>) + d /\ Len(<<>>) = 0
    BY <1>3, <1>8, <2>2 DEF Short
  <2> HIDE DEF P
  <2>4. Len(t) = d
    BY <2>1, <2>3
  <2> QED
    BY <1>2, <1>6, <1>7, <2>1, <2>4
<1>9. ASSUME Len(part) = PacketLength(m, kinds)
      PROVE  /\ ExtensionPart(part).ok /\ ExtensionPart(part).rest = <<>>
             /\ part # <<>>
  <2>1. P \o X \in Seq(Nat) /\ Len(P \o X) = Len(P) + Len(X)
    <3> HIDE DEF P
    <3> QED
      BY <1>2, Joined
  <2>2. b = (P \o X) \o t
    <3> HIDE DEF P
    <3> QED
      BY <1>2, <1>3, Assoc
  <2>3. part = P \o X
    <3> HIDE DEF P
    <3> QED
      BY <1>2, <1>7, <1>9, <2>1, <2>2, CutOff
  <2> DEFINE r == DataReader(part, TRUE)
             k == PacketPart(part)
  <2>4. r.ok /\ r.end /\ r.rest = P \o X
    BY <2>3 DEF DataReader
  <2>5. k = DecodePacketHeader(r)
    BY Zenon DEF PacketPart
  <2> HIDE DEF r
  <2>6. k = [ok |-> TRUE, end |-> TRUE, rest |-> X,
             field |-> PacketHeaderRead(hp, e)]
    BY <1>2, <1>4, <2>4, <2>5, PacketHeaderBack, Zenon
  <2>7. ExtensionPart(part) = ReadExtension(k, k.field.hasMessageExtensions)
    BY Zenon DEF ExtensionPart
  <2> HIDE DEF k, P
  <2>8. k.ok /\ k.end /\ k.rest = ExtensionIf(e) \o <<>> /\ <<>> \in Seq(Nat)
    BY <1>2, <2>6, ConcatEmptySeq DEF X
  <2>9. k.field.hasMessageExtensions = e
    BY <2>6 DEF PacketHeaderRead
  <2>10. ReadExtension(k, e)
           = [ok |-> TRUE, end |-> TRUE,
              field |-> IF e THEN Extension ELSE <<>>,
              rest |-> <<>>]
    BY <2>8, ExtensionBack, Zenon
  <2>11. ExtensionPart(part) = ReadExtension(k, e)
    BY <2>7, <2>9, Zenon
  <2>12. Len(<<>>) = 0
    OBVIOUS
  <2>13. part # <<>>
    BY <1>2, <2>1, <2>3, <2>12
  <2> QED
    BY <2>10, <2>11, <2>13
<1> QED
  BY <1>8, <1>9

(* The invariant holds at first,                                           *)
LEMMA InitMatter == Init => MatterInv
  BY DEF Init, MatterInv

(* after every step,                                                       *)
LEMMA NextMatter ==
  ASSUME MatterInv, [Next]_vars
  PROVE  MatterInv'
<1>1. msg \in Messages /\ msg \in Message
  BY MatterAssumption DEF MatterInv
<1>2. CASE Encode
  <2>1. /\ phase' = "wire" /\ msg' = msg /\ extended' = {} /\ Encodable(msg)
        /\ wire' = EncodedMessage(msg) /\ length' = Len(wire')
    BY <1>2 DEF Encode, MatterInv
  <2>2. wire' = Extended(msg, {})
    BY <1>1, <2>1, EncodedIsExtended
  <2>3. Begins(wire', Extended(msg', extended'))
    BY <1>1, <2>1, <2>2, ExtendedSeq
  <2> QED
    BY <1>1, <2>1, <2>2, <2>3 DEF MatterInv
<1>3. CASE Refuse
  BY <1>1, <1>3 DEF Refuse, MatterInv
<1>4. CASE Extend
  <2>1. /\ phase = "wire" /\ phase' = "wire" /\ msg' = msg /\ Encodable(msg)
        /\ wire' = Extended(msg, extended') /\ length' = Len(wire')
    BY <1>4 DEF Extend, MatterInv
  <2>2. Begins(wire', Extended(msg', extended'))
    BY <1>1, <2>1, ExtendedSeq
  <2> QED
    BY <1>1, <2>1, <2>2 DEF MatterInv
<1>5. CASE Cut
  <2>1. /\ phase = "wire" /\ Len(wire) = length /\ Encodable(msg)
        /\ length = Len(Extended(msg, extended))
        /\ Begins(wire, Extended(msg, extended))
        /\ phase' = phase /\ msg' = msg /\ extended' = extended
        /\ length' = length
    BY <1>5 DEF Cut, MatterInv
  <2>2. PICK n \in 0..length - 1 : wire' = SubSeq(wire, 1, n)
    BY <1>5 DEF Cut
  <2>3. Extended(msg, extended) \in Seq(Nat)
    BY <1>1, ExtendedSeq
  <2>4. wire = Extended(msg, extended)
    BY <2>1, <2>3, AllOfSeq
  <2>5. n \in 0..Len(Extended(msg, extended))
    BY <2>1, <2>3, LenProperties
  <2>6. Begins(wire', Extended(msg, extended))
    BY <2>2, <2>3, <2>4, <2>5 DEF Begins
  <2>7. Begins(wire', Extended(msg', extended'))
    BY <2>1, <2>6
  <2>8. length' = Len(Extended(msg', extended'))
    BY <2>1
  <2> QED
    BY <1>1, <2>1, <2>7, <2>8 DEF MatterInv
<1>6. CASE Decode
  <2>1. /\ phase = "wire" /\ phase' = "decoded" /\ msg' = msg /\ wire' = wire
        /\ length' = length /\ extended' = extended
        /\ Encodable(msg)
        /\ \E storage \in BOOLEAN : decoded' = DecodedMessage(wire, storage)
        /\ length = Len(Extended(msg, extended))
        /\ Begins(wire, Extended(msg, extended))
    BY <1>6 DEF Decode, MatterInv
  <2>2. \E storage \in BOOLEAN : decoded' = DecodedMessage(wire', storage)
    BY <2>1
  <2>3. /\ length' = Len(Extended(msg', extended'))
        /\ Begins(wire', Extended(msg', extended'))
    BY <2>1
  <2> QED
    BY <1>1, <2>1, <2>2, <2>3 DEF MatterInv
<1>7. CASE UNCHANGED vars
  <2>1. /\ phase' = phase /\ msg' = msg /\ wire' = wire /\ length' = length
        /\ extended' = extended /\ decoded' = decoded
    BY <1>7 DEF vars
  <2> QED
    BY <2>1 DEF MatterInv
<1> QED
  BY <1>2, <1>3, <1>4, <1>5, <1>6, <1>7 DEF Next

(* and always.                                                             *)
LEMMA SpecMatter == Spec => []MatterInv
  BY InitMatter, NextMatter, PTL DEF Spec

(* Before a cut the wire holds the encoded message and its extensions.     *)
LEMMA WholeIsExtended ==
  ASSUME MatterInv, Whole
  PROVE  /\ msg \in Message /\ Encodable(msg)
         /\ wire = Extended(msg, extended) /\ decoded = Decoded(wire)
<1>1. /\ msg \in Message /\ Encodable(msg)
      /\ Len(wire) = Len(Extended(msg, extended))
      /\ Begins(wire, Extended(msg, extended))
      /\ \E storage \in BOOLEAN : decoded = DecodedMessage(wire, storage)
  BY MatterAssumption DEF MatterInv, Whole
<1>2. Extended(msg, extended) \in Seq(Nat)
  BY <1>1, ExtendedSeq
<1>3. wire = Extended(msg, extended)
  BY <1>1, <1>2, AllOfSeq
<1>4. Extended(msg, extended) # <<>>
  BY <1>1, ExtendedSplit
<1> QED
  BY <1>1, <1>3, <1>4, EmptyDatagram

(* A message with another payload                                          *)
LEMMA PayloadReplaced ==
  ASSUME NEW a, NEW b, NEW c, NEW d, NEW e
  PROVE  [[packetHeader |-> a, payloadHeader |-> b, securityExtension |-> c,
           payload |-> d] EXCEPT !.payload = e]
           = [packetHeader |-> a, payloadHeader |-> b, securityExtension |-> c,
              payload |-> e]
  OBVIOUS

(* An agreed message comes back, with the extensions it was given.         *)
LEMMA ComesBack ==
  ASSUME NEW m \in Message, Encodable(m), Agreed(m), NEW kinds
  PROVE  /\ SecuredPart(Extended(m, kinds)).ok
         /\ Decoded(Extended(m, kinds)).field = WithExtensions(m, kinds)
<1> DEFINE e1 == "message" \in kinds
           e2 == "secured" \in kinds
           b == Extended(m, kinds)
<1>1. /\ e1 \in BOOLEAN /\ e2 \in BOOLEAN
      /\ (e1 <=> "message" \in kinds) /\ (e2 <=> "secured" \in kinds)
      /\ b = Extended(m, kinds)
  OBVIOUS
<1> HIDE DEF e1, e2, b
<1>2. SecuredPart(b).ok /\ Decoded(b).field = WithExtensions(m, kinds)
  BY <1>1, AgreedComesBack
<1> QED
  BY <1>1, <1>2

(* A message that arrives as this codec wrote it comes back exactly when   *)
(* it is one the two sides agree on, whatever is in its fields.            *)
THEOREM MessagesComeBack == Spec => []RoundTrip
<1>1. ASSUME MatterInv PROVE RoundTrip
  <2> SUFFICES ASSUME Whole, extended = {}
               PROVE  decoded.ok /\ decoded.field = msg <=> Agreed(msg)
    BY DEF RoundTrip
  <2> DEFINE b == Extended(msg, {})
  <2>1. /\ msg \in Message /\ Encodable(msg) /\ wire = b
        /\ decoded = Decoded(b)
    BY <1>1, WholeIsExtended
  <2>2. CASE Agreed(msg)
    <3>1. SecuredPart(b).ok /\ Decoded(b).field = WithExtensions(msg, {})
      BY <2>1, <2>2, ComesBack
    <3>2. Decoded(b).ok
      BY <3>1, DecodedParts
    <3>3. WithExtensions(msg, {}) = msg
      BY <2>1, NothingExtended
    <3> QED
      BY <2>1, <2>2, <3>1, <3>2, <3>3
  <2>3. CASE ~Agreed(msg)
    <3>1. ~(Decoded(b).ok /\ Decoded(b).field = msg)
      <4> SUFFICES ASSUME Decoded(b).ok, Decoded(b).field = msg
                   PROVE  FALSE
        OBVIOUS
      <4>1. b = Extended(msg, {})
        OBVIOUS
      <4> HIDE DEF b
      <4> QED
        BY <2>1, <2>3, <4>1, OthersDoNot
    <3> QED
      BY <2>1, <2>3, <3>1
  <2> QED
    BY <2>2, <2>3
<1> QED
  BY <1>1, SpecMatter, PTL

(* The extensions of others are skipped, however long they are.            *)
THEOREM ExtensionsAreSkipped == Spec => []ExtensionSkipped
<1>1. ASSUME MatterInv PROVE ExtensionSkipped
  <2> SUFFICES ASSUME Whole, Agreed(msg)
               PROVE  decoded.ok /\ decoded.field = WithExtensions(msg, extended)
    BY DEF ExtensionSkipped
  <2> DEFINE b == Extended(msg, extended)
  <2>1. /\ msg \in Message /\ Encodable(msg) /\ wire = b
        /\ decoded = Decoded(b)
    BY <1>1, WholeIsExtended
  <2>2. SecuredPart(b).ok /\ Decoded(b).field = WithExtensions(msg, extended)
    BY <2>1, ComesBack
  <2>3. Decoded(b).ok
    BY <2>2, DecodedParts
  <2> QED
    BY <2>1, <2>2, <2>3
<1> QED
  BY <1>1, SpecMatter, PTL

(* Of what is decoded from a cut message nothing but the end of the        *)
(* payload is missing.                                                     *)
LEMMA CutComesBack ==
  ASSUME NEW m \in Message, Encodable(m), Agreed(m), NEW kinds,
         NEW part, Begins(part, Extended(m, kinds)), Decoded(part).ok
  PROVE  \E n \in 0..Len(m.payload) :
            Decoded(part).field = Beginning(m, kinds, n)
<1> DEFINE b == Extended(m, kinds)
           w == WithExtensions(m, kinds)
           S(bytes) == [packetHeader |-> PacketPart(bytes).field,
                        payloadHeader |-> HeaderPart(bytes).field,
                        securityExtension |-> SecuredPart(bytes).field,
                        payload |-> SecuredPart(bytes).rest]
<1>1. Begins(part, b)
  OBVIOUS
<1>2. SecuredPart(part).ok /\ Decoded(part).field = S(part)
  <2>1. SecuredPart(part).ok
    BY DecodedParts
  <2>2. Decoded(part) = [ok |-> TRUE, end |-> TRUE, rest |-> <<>>,
                         field |-> S(part)]
    BY <2>1, DecodedParts, Zenon
  <2> QED
    BY <2>1, <2>2
<1>3. SecuredPart(b).ok /\ Decoded(b).field = w
  BY ComesBack
<1>4. w = S(b)
  <2>1. Decoded(b) = [ok |-> TRUE, end |-> TRUE, rest |-> <<>>, field |-> S(b)]
    BY <1>3, DecodedParts, Zenon
  <2> QED
    BY <1>3, <2>1
<1>5. w.payload = m.payload
  BY DEF WithExtensions
<1> HIDE DEF b, w
<1>6. /\ PacketPart(part).field = PacketPart(b).field
      /\ HeaderPart(part).field = HeaderPart(b).field
      /\ SecuredPart(part).field = SecuredPart(b).field
      /\ Begins(SecuredPart(part).rest, SecuredPart(b).rest)
  BY <1>1, <1>2, CutParts
<1>7. SecuredPart(b).rest = m.payload
  BY <1>4, <1>5
<1>8. PICK n \in 0..Len(m.payload) :
        SecuredPart(part).rest = SubSeq(m.payload, 1, n)
  BY <1>6, <1>7 DEF Begins
<1>9. Decoded(part).field = [w EXCEPT !.payload = SubSeq(@, 1, n)]
  <2> DEFINE u == SubSeq(m.payload, 1, n)
  <2>1. Decoded(part).field
          = [packetHeader |-> PacketPart(b).field,
             payloadHeader |-> HeaderPart(b).field,
             securityExtension |-> SecuredPart(b).field, payload |-> u]
    BY <1>2, <1>6, <1>8, Zenon
  <2>2. w = [packetHeader |-> PacketPart(b).field,
             payloadHeader |-> HeaderPart(b).field,
             securityExtension |-> SecuredPart(b).field,
             payload |-> SecuredPart(b).rest]
    BY <1>4, Zenon
  <2> HIDE DEF u
  <2>3. [w EXCEPT !.payload = u] = Decoded(part).field
    BY <2>1, <2>2, PayloadReplaced
  <2> QED
    BY <1>5, <2>3 DEF u
<1> QED
  BY <1>9 DEF w, Beginning

(* Wherever a message is cut, nothing but the end of its payload is        *)
(* missing from what is decoded, and the decoder reads through a null      *)
(* pointer only in an empty datagram and in one cut where decodePacket     *)
(* stops, where it always does.                                            *)
THEOREM CutsReadNullOnlyWhenEmpty == Spec => []CutReadsNullOnlyWhenEmpty
<1>1. ASSUME MatterInv PROVE CutReadsNullOnlyWhenEmpty
  <2> DEFINE b == Extended(msg, extended)
             empty == PacketLength(msg, extended)
  <2> SUFFICES ASSUME phase = "decoded", Agreed(msg)
               PROVE  /\ decoded.ok => \E n \in 0..Len(msg.payload) :
                                         decoded.field = Beginning(msg, extended, n)
                      /\ ~decoded.ok => decoded \in {Failed, NullRead}
                      /\ decoded = NullRead => Len(wire) \in {0, empty}
                      /\ Len(wire) = empty => decoded = NullRead
    BY DEF CutReadsNullOnlyWhenEmpty
  <2>1. /\ msg \in Message /\ Encodable(msg) /\ Begins(wire, b)
        /\ \E storage \in BOOLEAN : decoded = DecodedMessage(wire, storage)
    BY <1>1, MatterAssumption DEF MatterInv
  <2>2. OneDestination(msg)
    BY Zenon DEF Agreed, OneDestination
  <2>3. /\ Len(wire) = empty
             <=> ExtensionPart(wire).ok /\ ExtensionPart(wire).rest = <<>>
        /\ Len(wire) = empty => wire # <<>>
    BY <2>1, <2>2, CutAtPacket
  <2>4. CASE wire = <<>>
    <3>1. decoded \in {Failed, NullRead} /\ Len(wire) = 0
      BY <2>1, <2>4, EmptyDatagram
    <3> QED
      BY <2>3, <2>4, <3>1, RefusedChecked
  <2>5. CASE wire # <<>>
    <3>1. decoded = Decoded(wire)
      BY <2>1, <2>5, EmptyDatagram
    <3>2. decoded.ok => \E n \in 0..Len(msg.payload) :
                          decoded.field = Beginning(msg, extended, n)
      BY <2>1, <3>1, CutComesBack
    <3>3. /\ ~decoded.ok => decoded \in {Failed, NullRead}
          /\ decoded = NullRead <=> Len(wire) = empty
      BY <2>3, <3>1, DecodedOutcome, Zenon
    <3> QED
      BY <3>2, <3>3
  <2> QED
    BY <2>4, <2>5
<1> QED
  BY <1>1, SpecMatter, PTL
=============================================================================
