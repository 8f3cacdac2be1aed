---------------------------- MODULE NvStringProofs ----------------------------
(***************************************************************************)
(* What NvString promises, proved for every alphabet, every buffer size    *)
(* and every length of the strings assigned.                               *)
(***************************************************************************)
EXTENDS NvString, TLAPS

(* The length that is written, and the bytes that are *)
LEMMA CutType ==
  ASSUME NEW s \in Seq(Chars)
  PROVE  Cut(s) \in 0..MaxLen /\ Len(s) \in Nat
PROOF
  <1>1. Len(s) \in Nat
    OBVIOUS
  <1> QED
    BY <1>1, LengthAssumption DEF Cut

LEMMA BytesType ==
  ASSUME NEW s \in Seq(Chars), NEW n \in 0..MaxLen
  PROVE  /\ Bytes(s, n) \in Seq(Byte)
         /\ Len(Bytes(s, n)) = n
         /\ \A i \in 1..n : Bytes(s, n)[i] \in Byte
PROOF
  <1>1. n \in Nat /\ Len(s) \in Nat
    BY LengthAssumption
  <1>2. \A i \in 1..n : (IF i <= Len(s) THEN s[i]
                         ELSE IF i = Len(s) + 1 THEN Nul ELSE Noise) \in Byte
    BY <1>1 DEF Byte
  <1> QED
    BY <1>1, <1>2 DEF Bytes

(* What a read makes of the buffer it starts with, byte by byte *)
LEMMA ReadEffect ==
  ASSUME TypeOK, NEW b \in Buffer
  PROVE  LET r == Terminate(GetBytes(b))
             fits == Len(chars) <= length
         IN  /\ r \in Buffer
             /\ \A i \in 1..MaxLen :
                  r[i] = IF i = length + 1 THEN Nul
                         ELSE IF fits /\ i <= Len(chars) THEN chars[i]
                         ELSE b[i]
PROOF
  <1>1. /\ length \in 0..MaxLen /\ MaxLen \in Nat /\ Len(chars) \in Nat
        /\ chars \in Seq(Byte) /\ Nul \in Byte
    BY LengthAssumption DEF TypeOK, Byte
  <1> DEFINE g == GetBytes(b)
  <1>2. /\ g \in Buffer
        /\ \A i \in 1..MaxLen :
             g[i] = IF Len(chars) <= length /\ i <= Len(chars) THEN chars[i]
                    ELSE b[i]
    <2>1. CASE Len(chars) <= length
      <3>1. \A i \in 1..MaxLen :
              (IF i <= Len(chars) THEN chars[i] ELSE b[i]) \in Byte
        BY <1>1 DEF Buffer
      <3> QED
        BY <2>1, <3>1 DEF GetBytes, Buffer
    <2>2. CASE ~(Len(chars) <= length)
      BY <2>2 DEF GetBytes
    <2> QED
      BY <2>1, <2>2
  <1> HIDE DEF g
  <1>3. CASE length < MaxLen
    <2>1. Terminate(g) = [g EXCEPT ![length + 1] = Nul]
      BY <1>3 DEF Terminate
    <2>2. length + 1 \in 1..MaxLen
      BY <1>1, <1>3
    <2> QED
      BY <1>1, <1>2, <2>1, <2>2 DEF Buffer, g
  <1>4. CASE ~(length < MaxLen)
    <2>1. Terminate(g) = g /\ length = MaxLen
      BY <1>1, <1>4 DEF Terminate
    <2> QED
      BY <1>1, <1>2, <2>1 DEF g
  <1> QED
    BY <1>3, <1>4
-----------------------------------------------------------------------------
(* Every variable keeps its type: a length read back from flash never      *)
(* leads outside of the buffer.                                            *)
LEMMA FilledType == \A c \in Byte : Filled(c) \in Buffer
PROOF
  BY DEF Filled, Buffer

LEMMA TypeInit == Init => TypeOK
PROOF
  <1> SUFFICES ASSUME Init PROVE TypeOK
    OBVIOUS
  <1>1. Nul \in Byte /\ MaxLen \in Nat /\ 0 \in 0..MaxLen
    BY LengthAssumption DEF Byte
  <1>2. <<>> \in Seq(Byte) /\ Len(<<>>) = 0
    OBVIOUS
  <1>3. <<>> \in Seq(Chars)
    OBVIOUS
  <1>4. Filled(Nul) \in Buffer
    BY <1>1, FilledType
  <1>5. NoResult \in [by : {"nobody", "bytes", "toString"}, bytes : Buffer]
    BY <1>4 DEF NoResult
  <1>6. failing \in BOOLEAN /\ stored \in BOOLEAN
    BY DEF Init
  <1>7. /\ length \in 0..MaxLen /\ Len(chars) <= MaxLen /\ Len(kept) <= MaxLen
        /\ chars \in Seq(Byte) /\ kept \in Seq(Byte)
    BY <1>1, <1>2 DEF Init
  <1>8. Blank \in Entries
    BY <1>1, <1>2, <1>3 DEF Blank, Entries
  <1>9. key \in Keys /\ parked \in [Keys -> Entries] /\ turned \in BOOLEAN
    BY <1>8 DEF Init
  <1> QED
    BY <1>3, <1>4, <1>5, <1>6, <1>7, <1>9 DEF Init, TypeOK

(* What the object has, and what flash keeps, after it turned to a key *)
LEMMA TurnEffect ==
  ASSUME TypeOK, NEW k \in Keys, Turn(k)
  PROVE  /\ key' \in Keys /\ parked' \in [Keys -> Entries]
         /\ \A j \in Keys : parked'[j] \in {parked[j], Entry, Blank}
         /\ parked[k] \in Entries
         /\ length' = parked[k].length /\ chars' = parked[k].chars
         /\ str' = parked[k].str /\ stored' = parked[k].stored
         /\ kept' = parked[k].kept
PROOF
  <1>1. MaxLen \in Nat /\ 0 \in 0..MaxLen
    BY LengthAssumption
  <1>2. <<>> \in Seq(Byte) /\ Len(<<>>) = 0 /\ <<>> \in Seq(Chars)
    OBVIOUS
  <1>3. Blank \in Entries
    BY <1>1, <1>2 DEF Blank, Entries
  <1>4. Entry \in Entries
    BY DEF TypeOK, Entry, Entries
  <1>5. /\ parked \in [Keys -> Entries]
        /\ parked' = [parked EXCEPT ![key] = Entry, ![k] = Blank]
    BY DEF TypeOK, Turn
  <1>6. \A j \in Keys :
          parked'[j] = IF j = k THEN Blank
                       ELSE IF j = key THEN Entry ELSE parked[j]
    BY <1>5
  <1>7. parked' \in [Keys -> Entries]
    BY <1>3, <1>4, <1>5
  <1>8. key' \in Keys /\ parked[k] \in Entries
    BY <1>5 DEF Turn
  <1> QED
    BY <1>6, <1>7, <1>8 DEF Turn

(* The variables of one entry, after it was one of those kept in flash *)
LEMMA TurnType ==
  ASSUME TypeOK, NEW k \in Keys, Turn(k)
  PROVE  /\ length' \in 0..MaxLen /\ stored' \in BOOLEAN
         /\ chars' \in Seq(Byte) /\ Len(chars') <= MaxLen
         /\ kept' \in Seq(Byte) /\ Len(kept') <= MaxLen
         /\ str' \in Seq(Chars)
PROOF
  BY TurnEffect DEF Entries

LEMMA TypeStep == TypeOK /\ [Next]_vars => TypeOK'
PROOF
  <1> SUFFICES ASSUME TypeOK, [Next]_vars PROVE TypeOK'
    OBVIOUS
  <1>1. Nul \in Byte /\ Noise \in Byte /\ MaxLen \in Nat
    BY LengthAssumption DEF Byte
  <1>2. NoResult \in [by : {"nobody", "bytes", "toString"}, bytes : Buffer]
    BY <1>1, FilledType DEF NoResult
  <1>3. CASE \E s \in Strings : SetLength(s)
    <2>1. PICK s \in Strings : SetLength(s)
      BY <1>3
    <2>2. s \in Seq(Chars)
      BY StringAssumption
    <2> QED
      BY <1>2, <2>1, <2>2, CutType DEF SetLength, TypeOK, keyVars
  <1>4. CASE SetChars
    <2>1. PICK ok \in BOOLEAN : PutChars(ok)
      BY <1>4 DEF SetChars
    <2>2. /\ Bytes(str, length) \in Seq(Byte)
          /\ Len(Bytes(str, length)) = length /\ length <= MaxLen
      BY <1>1, BytesType DEF TypeOK
    <2>3. stored' \in BOOLEAN
      BY <2>1 DEF PutChars
    <2>4. chars' \in {chars, Bytes(str, length)}
          /\ kept' \in {kept, Bytes(str, length)}
      BY <2>1 DEF PutChars
    <2>5. /\ chars' \in Seq(Byte) /\ Len(chars') <= MaxLen
          /\ kept' \in Seq(Byte) /\ Len(kept') <= MaxLen
      BY <2>2, <2>4 DEF TypeOK
    <2>6. /\ pc' = "idle"
          /\ UNCHANGED <<failing, key, parked, turned, length, code, str, result>>
      BY <1>4 DEF SetChars, keyVars
    <2> QED
      BY <2>3, <2>5, <2>6 DEF TypeOK
  <1>5. CASE Read
    <2>1. code \in Buffer
      BY DEF TypeOK
    <2>2. code' \in Buffer
      BY <1>5, <2>1, ReadEffect DEF Read
    <2> QED
      BY <1>5, <2>2 DEF Read, TypeOK, keyVars
  <1>6. CASE ReadString
    <2>1. Terminate(GetBytes(Filled(Noise))) \in Buffer
      BY <1>1, FilledType, ReadEffect
    <2> QED
      BY <1>6, <2>1 DEF ReadString, TypeOK, keyVars
  <1>7. CASE Restart
    <2>1. /\ code' \in Buffer /\ pc' = "idle" /\ turned' = FALSE
          /\ result' = NoResult /\ failing' = failing
      BY <1>1, <1>7, FilledType DEF Restart
    <2>2. CASE UNCHANGED <<key, parked, length, chars, str, stored, kept>>
      BY <1>2, <2>1, <2>2 DEF TypeOK
    <2>3. CASE \E k \in Keys \ {key} : Turn(k)
      <3>1. PICK k \in Keys : Turn(k)
        BY <2>3
      <3> QED
        BY <1>2, <2>1, <3>1, TurnEffect, TurnType DEF TypeOK
    <2> QED
      BY <1>7, <2>2, <2>3 DEF Restart
  <1>8. CASE UNCHANGED vars
    BY <1>8 DEF vars, keyVars, TypeOK
  <1>9. CASE \E k \in Keys : SetKey(k)
    <2>1. PICK k \in Keys : SetKey(k)
      BY <1>9
    <2>2. /\ Turn(k) /\ turned' = TRUE /\ result' = NoResult
          /\ UNCHANGED <<failing, code, pc>>
      BY <2>1 DEF SetKey
    <2> QED
      BY <1>2, <2>2, TurnEffect, TurnType DEF TypeOK
  <1> QED
    BY <1>3, <1>4, <1>5, <1>6, <1>7, <1>8, <1>9 DEF Next

(* Every variable keeps its type (TypeOK), whatever was read from flash.   *)
THEOREM TypeCorrect == Spec => []TypeOK
PROOF
  BY TypeInit, TypeStep, PTL DEF Spec
-----------------------------------------------------------------------------
(* The characters of an entry, if it has any, are those its length is of. *)
Whole(e) ==
  e.stored =>
    /\ e.length = Cut(e.str)
    /\ e.length > 0 => e.chars = Bytes(e.str, e.length)

(* Between the two writes there is nothing to read; afterwards both        *)
(* entries belong to the string that was assigned, under every key.        *)
StoredInv ==
  /\ pc = "chars" => ~stored /\ result = NoResult
  /\ stored =>
       /\ length = Cut(str)
       /\ length > 0 => chars = Bytes(str, length)
  /\ \A k \in Keys : Whole(parked[k])

(* While NVS refuses nothing the characters in flash are those of the last *)
(* non-empty string, and where the length is of another one the buffer     *)
(* shows no more than they do, unless it has served another key.           *)
TornInv ==
  ~failing =>
    /\ pc = "chars" => length = Cut(str)
    /\ chars = kept
    /\ \A k \in Keys : parked[k].chars = parked[k].kept
    /\ pc = "idle" /\ ~turned /\ length # 0 /\ length # Len(chars) =>
         \A i \in 1..MaxLen :
           length < Len(chars) \/ i > Len(chars) => code[i] = Nul

IInv == TypeOK /\ StoredInv /\ ReadBack /\ TornInv /\ OldOrEmpty

(* What either reader returns of a string that is wholly in flash *)
LEMMA StoredHolds ==
  ASSUME TypeOK, StoredInv, stored, NEW b \in Buffer
  PROVE  Holds(Terminate(GetBytes(b)), Bytes(str, Cut(str)))
PROOF
  <1> DEFINE r == Terminate(GetBytes(b))
             n == Cut(str)
             t == Bytes(str, n)
  <1>1. /\ n \in 0..MaxLen /\ MaxLen \in Nat /\ length = n
        /\ length > 0 => chars = t
    BY LengthAssumption, CutType DEF TypeOK, StoredInv
  <1>2. Len(t) = n
    BY <1>1, BytesType DEF TypeOK
  <1>3. \A i \in 1..MaxLen :
          r[i] = IF i = length + 1 THEN Nul
                 ELSE IF Len(chars) <= length /\ i <= Len(chars) THEN chars[i]
                 ELSE b[i]
    BY ReadEffect
  <1> HIDE DEF r, n, t
  <1>4. ASSUME NEW i \in 1..n PROVE r[i] = t[i]
    BY <1>1, <1>2, <1>3, <1>4
  <1>5. n < MaxLen => r[n + 1] = Nul
    BY <1>1, <1>3
  <1> QED
    BY <1>2, <1>4, <1>5 DEF Holds, r, n, t

(* What bytes() returns while NVS refuses nothing *)
LEMMA TornHolds ==
  ASSUME TypeOK, TornInv, ~failing, ~turned, pc = "idle"
  PROVE  \/ Holds(Terminate(GetBytes(code)), kept)
         \/ Holds(Terminate(GetBytes(code)), <<>>)
PROOF
  <1> DEFINE r == Terminate(GetBytes(code))
  <1>1. /\ length \in 0..MaxLen /\ MaxLen \in Nat /\ MaxLen > 0
        /\ Len(chars) \in 0..MaxLen /\ chars = kept
        /\ code \in Buffer
    BY LengthAssumption DEF TypeOK, TornInv
  <1>2. \A i \in 1..MaxLen :
          r[i] = IF i = length + 1 THEN Nul
                 ELSE IF Len(chars) <= length /\ i <= Len(chars) THEN chars[i]
                 ELSE code[i]
    BY <1>1, ReadEffect
  <1>3. length # 0 /\ length # Len(chars) =>
          \A i \in 1..MaxLen :
            length < Len(chars) \/ i > Len(chars) => code[i] = Nul
    BY DEF TornInv
  <1> HIDE DEF r
  <1>4. ASSUME r[1] = Nul PROVE Holds(r, <<>>)
    BY <1>1, <1>4 DEF Holds
  <1>5. ASSUME length # 0, Len(chars) <= length PROVE Holds(r, kept)
    <2>1. \A i \in 1..Len(kept) : r[i] = kept[i]
      BY <1>1, <1>2, <1>5
    <2>2. Len(kept) < MaxLen => r[Len(kept) + 1] = Nul
      BY <1>1, <1>2, <1>3, <1>5
    <2> QED
      BY <2>1, <2>2 DEF Holds
  <1>6. CASE length = 0
    BY <1>1, <1>2, <1>4, <1>6 DEF r
  <1>7. CASE length # 0 /\ Len(chars) <= length
    BY <1>5, <1>7 DEF r
  <1>8. CASE length # 0 /\ ~(Len(chars) <= length)
    BY <1>1, <1>2, <1>3, <1>4, <1>8 DEF r
  <1> QED
    BY <1>6, <1>7, <1>8

LEMMA InvInit == Init => IInv
PROOF
  <1> SUFFICES ASSUME Init PROVE IInv
    OBVIOUS
  <1>1. TypeOK
    BY TypeInit
  <1>2. StoredInv /\ ReadBack /\ OldOrEmpty
    BY DEF Init, StoredInv, Whole, Blank, ReadBack, OldOrEmpty, NoResult
  <1>3. TornInv
    BY DEF Init, TornInv, Blank
  <1> QED
    BY <1>1, <1>2, <1>3 DEF IInv

(* Whatever the object turns to is whole, and so is what it leaves. *)
LEMMA TurnInv ==
  ASSUME TypeOK, StoredInv, NEW k \in Keys, Turn(k)
  PROVE  /\ stored' => /\ length' = Cut(str')
                       /\ length' > 0 => chars' = Bytes(str', length')
         /\ \A j \in Keys : Whole(parked'[j])
PROOF
  <1>1. Whole(parked[k]) /\ Whole(Entry) /\ Whole(Blank)
    BY DEF StoredInv, Whole, Entry, Blank
  <1>2. \A j \in Keys : Whole(parked[j])
    BY DEF StoredInv
  <1>3. \A j \in Keys : parked'[j] \in {parked[j], Entry, Blank}
    BY TurnEffect
  <1>4. \A j \in Keys : Whole(parked'[j])
    BY <1>1, <1>2, <1>3 DEF Whole
  <1> QED
    BY <1>1, <1>4, TurnEffect DEF Whole

LEMMA TurnTorn ==
  ASSUME TypeOK, TornInv, ~failing, NEW k \in Keys, Turn(k)
  PROVE  chars' = kept' /\ \A j \in Keys : parked'[j].chars = parked'[j].kept
PROOF
  <1>1. /\ chars = kept /\ Entry.chars = Entry.kept /\ Blank.chars = Blank.kept
        /\ \A j \in Keys : parked[j].chars = parked[j].kept
    BY DEF TornInv, Entry, Blank
  <1>2. \A j \in Keys : parked'[j] \in {parked[j], Entry, Blank}
    BY TurnEffect
  <1> QED
    BY <1>1, <1>2, TurnEffect

LEMMA InvStep == IInv /\ [Next]_vars => IInv'
PROOF
  <1> SUFFICES ASSUME IInv, [Next]_vars PROVE IInv'
    OBVIOUS
  <1>1. TypeOK /\ StoredInv /\ ReadBack /\ TornInv /\ OldOrEmpty /\ TypeOK'
    BY TypeStep DEF IInv
  <1>2. NoResult.by = "nobody"
    BY DEF NoResult
  <1>3. ASSUME NEW s \in Strings, SetLength(s) PROVE IInv'
    <2>1. StoredInv' /\ ReadBack' /\ OldOrEmpty'
      BY <1>1, <1>2, <1>3 DEF SetLength, keyVars, StoredInv, Whole, Cut,
             Bytes, ReadBack, OldOrEmpty
    <2>2. TornInv'
      BY <1>1, <1>3 DEF SetLength, keyVars, TornInv, Cut
    <2> QED
      BY <1>1, <2>1, <2>2 DEF IInv
  <1>4. CASE SetChars
    <2>1. PICK ok \in BOOLEAN : PutChars(ok)
      BY <1>4 DEF SetChars
    <2>2. /\ pc = "chars" /\ pc' = "idle" /\ result = NoResult
          /\ UNCHANGED <<failing, parked, turned, length, code, str, result>>
      BY <1>1, <1>4 DEF SetChars, keyVars, StoredInv
    <2>3. /\ length \in Nat /\ Len(Bytes(str, length)) = length
          /\ Cut(str)' = Cut(str) /\ Bytes(str, length)' = Bytes(str, length)
      BY <1>1, <2>2, LengthAssumption, BytesType DEF TypeOK, Cut, Bytes
    <2>4. StoredInv'
      <3>1. /\ stored' => length = Cut(str)
            /\ stored' /\ length > 0 => chars' = Bytes(str, length)
        BY <2>1 DEF PutChars
      <3>2. \A k \in Keys : Whole(parked[k])'
        BY <1>1, <2>2 DEF StoredInv, Whole, Cut, Bytes
      <3> QED
        BY <2>2, <2>3, <3>1, <3>2 DEF StoredInv
    <2>5. ReadBack' /\ OldOrEmpty'
      BY <1>2, <2>2 DEF ReadBack, OldOrEmpty
    <2>6. TornInv'
      <3> SUFFICES ASSUME ~failing' PROVE TornInv'
        BY DEF TornInv
      <3>1. ok /\ length = Cut(str) /\ stored' /\ chars = kept
        BY <1>1, <2>1, <2>2 DEF PutChars, TornInv
      <3>2. chars' = kept' /\ (length > 0 => Len(chars') = length)
        BY <2>1, <2>3, <3>1 DEF PutChars
      <3> QED
        BY <1>1, <2>2, <2>3, <3>2 DEF TornInv
    <2> QED
      BY <1>1, <2>4, <2>5, <2>6 DEF IInv
  <1>5. CASE Read
    <2>1. /\ pc = "idle" /\ code' = Terminate(GetBytes(code))
          /\ result' = [by |-> "bytes", bytes |-> code']
          /\ UNCHANGED <<failing, parked, turned, length, chars, pc, str, stored,
                         kept>>
          /\ code \in Buffer
      BY <1>1, <1>5 DEF Read, TypeOK, keyVars
    <2>2. Cut(str)' = Cut(str) /\ Bytes(str, Cut(str))' = Bytes(str, Cut(str))
          /\ Bytes(str, length)' = Bytes(str, length)
      BY <2>1 DEF Cut, Bytes
    <2>3. StoredInv'
      BY <1>1, <2>1, <2>2 DEF StoredInv, Whole, Cut, Bytes
    <2>4. ReadBack'
      BY <1>1, <2>1, <2>2, StoredHolds DEF ReadBack
    <2>5. OldOrEmpty'
      BY <1>1, <2>1, TornHolds DEF OldOrEmpty
    <2>6. TornInv'
      <3>1. \A i \in 1..MaxLen :
              code'[i] = IF i = length + 1 THEN Nul
                         ELSE IF Len(chars) <= length /\ i <= Len(chars)
                              THEN chars[i] ELSE code[i]
        BY <1>1, <2>1, ReadEffect
      <3>2. length \in Nat /\ Len(chars) \in Nat /\ MaxLen \in Nat
        BY <1>1, LengthAssumption DEF TypeOK
      <3> QED
        BY <1>1, <2>1, <3>1, <3>2 DEF TornInv
    <2> QED
      BY <1>1, <2>3, <2>4, <2>5, <2>6 DEF IInv
  <1>6. CASE ReadString
    <2>1. /\ pc = "idle"
          /\ result' = [by |-> "toString",
                        bytes |-> Terminate(GetBytes(Filled(Noise)))]
          /\ UNCHANGED <<failing, parked, turned, length, chars, code, pc, str,
                         stored, kept>>
      BY <1>6 DEF ReadString, keyVars
    <2>2. Filled(Noise) \in Buffer
      BY FilledType DEF Byte
    <2>3. ReadBack'
      BY <1>1, <2>1, <2>2, StoredHolds DEF ReadBack, Cut, Bytes
    <2>4. StoredInv' /\ TornInv' /\ OldOrEmpty'
      BY <1>1, <2>1 DEF StoredInv, Whole, TornInv, OldOrEmpty, Cut, Bytes
    <2> QED
      BY <1>1, <2>3, <2>4 DEF IInv
  <1>7. CASE Restart
    <2>1. /\ code' = Filled(Nul) /\ pc' = "idle" /\ result' = NoResult
          /\ failing' = failing
      BY <1>7 DEF Restart
    <2>2. ReadBack' /\ OldOrEmpty'
      BY <1>2, <2>1 DEF ReadBack, OldOrEmpty
    <2>3. \A i \in 1..MaxLen : code'[i] = Nul
      BY <2>1 DEF Filled
    <2>4. CASE UNCHANGED <<key, parked, length, chars, str, stored, kept>>
      <3>1. StoredInv' /\ TornInv'
        BY <1>1, <2>1, <2>3, <2>4 DEF StoredInv, Whole, TornInv, Cut, Bytes
      <3> QED
        BY <1>1, <2>2, <3>1 DEF IInv
    <2>5. CASE \E k \in Keys \ {key} : Turn(k)
      <3>1. PICK k \in Keys : Turn(k)
        BY <2>5
      <3>2. StoredInv'
        BY <1>1, <2>1, <3>1, TurnInv DEF StoredInv, Whole, Cut, Bytes
      <3>3. TornInv'
        BY <1>1, <2>1, <2>3, <3>1, TurnTorn DEF TornInv
      <3> QED
        BY <1>1, <2>2, <3>2, <3>3 DEF IInv
    <2> QED
      BY <1>7, <2>4, <2>5 DEF Restart
  <1>8. CASE UNCHANGED vars
    <2>1. StoredInv' /\ TornInv'
      BY <1>1, <1>8 DEF vars, keyVars, StoredInv, Whole, TornInv, Cut, Bytes
    <2>2. ReadBack'
      BY <1>1, <1>8 DEF vars, ReadBack, Cut, Bytes
    <2>3. OldOrEmpty'
      BY <1>1, <1>8 DEF vars, keyVars, OldOrEmpty
    <2> QED
      BY <1>1, <2>1, <2>2, <2>3 DEF IInv
  <1>9. ASSUME NEW k \in Keys, SetKey(k) PROVE IInv'
    <2>1. /\ Turn(k) /\ pc = "idle" /\ turned' = TRUE /\ result' = NoResult
          /\ UNCHANGED <<failing, code, pc>>
      BY <1>9 DEF SetKey
    <2>2. ReadBack' /\ OldOrEmpty'
      BY <1>2, <2>1 DEF ReadBack, OldOrEmpty
    <2>3. StoredInv'
      BY <1>1, <2>1, TurnInv DEF StoredInv, Whole, Cut, Bytes
    <2>4. TornInv'
      BY <1>1, <2>1, TurnTorn DEF TornInv
    <2> QED
      BY <1>1, <2>2, <2>3, <2>4 DEF IInv
  <1> QED
    BY <1>3, <1>4, <1>5, <1>6, <1>7, <1>8, <1>9 DEF Next

LEMMA InvHolds == Spec => []IInv
PROOF
  BY InvInit, InvStep, PTL DEF Spec

(* An assignment whose two writes succeeded is read back by either reader, *)
(* before and after restarts, whatever failures came before it.            *)
THEOREM AssignmentsReadBack == Spec => []ReadBack
PROOF
  <1>1. IInv => ReadBack
    BY DEF IInv
  <1> QED
    BY <1>1, InvHolds, PTL

(* A power loss between the two writes leaves the last string that is      *)
(* really in flash or the empty one, as bytes() reads it.                  *)
THEOREM TornStringReadsOldOrEmpty == Spec => []OldOrEmpty
PROOF
  <1>1. IInv => OldOrEmpty
    BY DEF IInv
  <1> QED
    BY <1>1, InvHolds, PTL
=============================================================================
