---------------------------- MODULE TuyaFrameProofs ----------------------------
(***************************************************************************)
(* The passes over a buffer leave a proper frame, and read a report whole, *)
(* for every size of the buffer and every length that fits it; the Python  *)
(* port writes the same frame up to the HMAC.                              *)
(***************************************************************************)
EXTENDS TuyaFramePair, TLAPS

(* Padding adds one to sixteen bytes. *)
LEMMA PaddedBounds ==
  ASSUME NEW length \in Nat
  PROVE  /\ Padded(length) \in Nat
         /\ length < Padded(length) /\ Padded(length) <= length + 16
BY DEF Padded

(* What is encrypted has room for version and document. *)
LEMMA EncryptedBounds ==
  ASSUME n \in Nat
  PROVE  /\ Encrypted \in Nat
         /\ kind # "message" => n + 15 < Encrypted /\ Encrypted <= n + 31
         /\ kind = "message" => Encrypted = n
<1>1. n + 15 \in Nat
  OBVIOUS
<1> QED
  BY <1>1, PaddedBounds DEF Encrypted

(* A step that keeps kind and length keeps what is computed from them. *)
LEMMA LengthsKept ==
  ASSUME UNCHANGED <<kind, n>>
  PROVE  /\ Encrypted' = Encrypted
         /\ Extent' = Extent
         /\ Fits' <=> Fits
         /\ \A i : FrameByte(i)' = FrameByte(i)
<1>1. Encrypted' = Encrypted
  BY DEF Encrypted, Padded
<1>2. Extent' = Extent
  BY <1>1 DEF Extent, PayloadSize
<1>3. ASSUME NEW i PROVE FrameByte(i)' = FrameByte(i)
  BY <1>1 DEF FrameByte, PlainByte, In
<1> QED
  BY <1>1, <1>2, <1>3 DEF Fits

-----------------------------------------------------------------------------
(* What the lengths are between two passes. *)
LengthInv ==
  /\ kind \in {"message", "json", "report"}
  /\ n \in Messages \union Documents
  /\ pc \in IF kind = "report" THEN {"arrive", "decrypt", "parse"}
                               ELSE {"prepare", "fill", "sign", "ready"}
  /\ pc \in {"prepare", "arrive"} => size = 0
  /\ pc \in {"fill", "sign", "ready"} => size = PayloadSize(Encrypted)
  /\ pc \in {"decrypt", "parse"} => size = 4 + PayloadSize(Encrypted)
  /\ given \in Nat

(* Nothing has been written beyond what is needed. *)
CleanBehind ==
  /\ pc \in {"prepare", "arrive"} => \A i \in Addresses : mem[i] = Untouched
  /\ Fits => \A i \in Addresses : i >= Extent => mem[i] = Untouched

(* Header and suffix stand from the first pass to the last; the payload    *)
(* stands from the second on, the HMAC after the third.                    *)
FrameSoFar ==
  /\ pc = "fill" =>
       \A i \in Addresses : In(i, 16, Encrypted) => mem[i] = <<"zero", i - 16>>
  /\ pc \in {"fill", "sign", "ready"} =>
       \A i \in Addresses :
         i < 16 \/ In(i, 48 + Encrypted, 4) => mem[i] = FrameByte(i)
  /\ pc \in {"sign", "ready"} /\ Fits =>
       \A i \in Addresses : In(i, 16, Encrypted) => mem[i] = FrameByte(i)
  /\ pc = "ready" =>
       \A i \in Addresses :
         In(i, 16 + Encrypted, 32) => mem[i] = FrameByte(i)

(* The HMAC is computed over bytes that do not change after it. *)
SignedSoFar ==
  pc = "ready" /\ Fits =>
    /\ DOMAIN signed = 0..16 + Encrypted - 1
    /\ \A i \in DOMAIN signed : signed[i] = mem[i]

(* The document of a report, before and after it is decrypted. *)
ReportSoFar ==
  /\ pc = "decrypt" =>
       \A i \in Addresses :
         In(i, 35, n) => mem[i] = <<"cipher", <<"json", i - 35>>>>
  /\ pc = "parse" =>
       /\ n <= given
       /\ \A i \in Addresses : In(i, 35, n) => mem[i] = <<"json", i - 35>>

FrameInv ==
  /\ LengthInv
  /\ DOMAIN mem = Addresses
  /\ CleanBehind
  /\ FrameSoFar
  /\ SignedSoFar
  /\ ReportSoFar

LEMMA InitFrame == Init => FrameInv
<1> SUFFICES ASSUME Init PROVE FrameInv
  OBVIOUS
<1>1. LengthInv
  BY DEF Init, LengthInv
<1>2. DOMAIN mem = Addresses /\ CleanBehind
  BY DEF Init, CleanBehind
<1>3. pc \in {"prepare", "arrive"}
  BY DEF Init
<1>4. FrameSoFar /\ SignedSoFar /\ ReportSoFar
  BY <1>3 DEF FrameSoFar, SignedSoFar, ReportSoFar
<1> QED
  BY <1>1, <1>2, <1>4 DEF FrameInv

(* The facts about lengths that every step below needs. *)
LEMMA Bounds ==
  ASSUME LengthInv
  PROVE  /\ n \in Nat /\ Encrypted \in Nat /\ Size \in Nat \ {0}
         /\ Addresses \subseteq Nat
         /\ kind # "message" => n + 15 < Encrypted
         /\ kind = "message" => Encrypted = n
         /\ kind # "report" => Extent = 52 + Encrypted
         /\ kind = "report" =>
              /\ Extent \in Nat
              /\ 60 + Encrypted <= Extent /\ Extent <= 75 + Encrypted
<1>1. n \in Nat /\ Size \in Nat \ {0}
  BY LengthAssumption DEF LengthInv
<1>2. Addresses \subseteq Nat
  BY LengthAssumption DEF Addresses
<1>3. /\ Encrypted \in Nat
      /\ kind # "message" => n + 15 < Encrypted
      /\ kind = "message" => Encrypted = n
  BY <1>1, EncryptedBounds
<1>4. kind # "report" => Extent = 52 + Encrypted
  BY <1>3 DEF Extent, PayloadSize
<1>5. kind = "report" => /\ Extent \in Nat
                         /\ 60 + Encrypted <= Extent
                         /\ Extent <= 75 + Encrypted
  BY <1>3 DEF Extent, PayloadSize
<1> QED
  BY <1>1, <1>2, <1>3, <1>4, <1>5

LEMMA PrepareFrame == FrameInv /\ Prepare => FrameInv'
<1> SUFFICES ASSUME FrameInv, Prepare PROVE FrameInv'
  OBVIOUS
<1>1. LengthInv /\ kind # "report" /\ pc' = "fill" /\ UNCHANGED <<kind, n>>
  BY DEF FrameInv, LengthInv, Prepare
<1>2. LengthInv'
  BY <1>1, LengthsKept DEF LengthInv, Prepare, PayloadSize
<1>3. DOMAIN mem' = Addresses
  BY DEF Prepare, Prepared, Put
<1>4. CleanBehind'
  BY <1>1, LengthsKept, Bounds
     DEF FrameInv, CleanBehind, Prepare, Prepared, Put, In
<1>5. FrameSoFar'
  <2>1. ASSUME NEW i \in Addresses, In(i, 16, Encrypted)
        PROVE  mem'[i] = <<"zero", i - 16>>
    BY <1>1, <2>1, Bounds DEF Prepare, Prepared, Put, In
  <2>2. ASSUME NEW i \in Addresses, i < 16 \/ In(i, 48 + Encrypted, 4)
        PROVE  mem'[i] = FrameByte(i)
    BY <1>1, <2>2, Bounds DEF Prepare, Prepared, Put, In, FrameByte
  <2> QED
    BY <1>1, <2>1, <2>2, LengthsKept DEF FrameSoFar
<1>6. SignedSoFar' /\ ReportSoFar'
  BY <1>1 DEF SignedSoFar, ReportSoFar
<1> QED
  BY <1>2, <1>3, <1>4, <1>5, <1>6 DEF FrameInv

LEMMA CopyMessageFrame == FrameInv /\ CopyMessage => FrameInv'
<1> SUFFICES ASSUME FrameInv, CopyMessage PROVE FrameInv'
  OBVIOUS
<1>1. /\ LengthInv /\ kind = "message" /\ pc = "fill" /\ pc' = "sign"
      /\ UNCHANGED <<kind, n>>
  BY DEF FrameInv, LengthInv, CopyMessage
<1>2. LengthInv'
  BY <1>1, LengthsKept DEF LengthInv, CopyMessage, PayloadSize
<1>3. DOMAIN mem' = Addresses
  BY DEF CopyMessage, Encipher
<1>4. CleanBehind'
  BY <1>1, LengthsKept, Bounds
     DEF FrameInv, CleanBehind, CopyMessage, Encipher, Put, In
<1>5. FrameSoFar'
  <2>1. ASSUME NEW i \in Addresses, i < 16 \/ In(i, 48 + Encrypted, 4)
        PROVE  mem'[i] = FrameByte(i)
    <3>1. mem'[i] = mem[i]
      BY <1>1, <2>1, Bounds DEF CopyMessage, Encipher, Put, In
    <3> QED
      BY <1>1, <2>1, <3>1 DEF FrameInv, FrameSoFar
  <2>2. ASSUME NEW i \in Addresses, In(i, 16, Encrypted)
        PROVE  mem'[i] = FrameByte(i)
    BY <1>1, <2>2, Bounds
       DEF CopyMessage, Encipher, Put, In, FrameByte, PlainByte
  <2> QED
    BY <1>1, <2>1, <2>2, LengthsKept DEF FrameSoFar
<1>6. SignedSoFar' /\ ReportSoFar'
  BY <1>1 DEF SignedSoFar, ReportSoFar
<1> QED
  BY <1>2, <1>3, <1>4, <1>5, <1>6 DEF FrameInv

(* What sendJSON leaves between header and HMAC: the block of padding that *)
(* encryptDataECB adds reaches into the place of the HMAC, not beyond it.  *)
LEMMA FillJSONFrame == FrameInv /\ FillJSON => FrameInv'
<1> SUFFICES ASSUME FrameInv, FillJSON PROVE FrameInv'
  OBVIOUS
<1>1. /\ LengthInv /\ kind = "json" /\ pc = "fill" /\ pc' = "sign"
      /\ UNCHANGED <<kind, n>>
  BY DEF FrameInv, LengthInv, FillJSON
<1>2. LengthInv'
  BY <1>1, LengthsKept DEF LengthInv, FillJSON, PayloadSize
<1>3. DOMAIN mem' = Addresses
  BY DEF FillJSON, WithPadding, Encipher
<1> DEFINE padded == Padded(Encrypted)
           document == IF n < Size THEN n ELSE Size
<1>4. /\ padded \in Nat /\ Encrypted < padded /\ padded <= Encrypted + 16
      /\ document \in Nat /\ document <= n
      /\ Fits => document = n
  <2>1. /\ n \in Nat /\ Encrypted \in Nat /\ Size \in Nat
        /\ Extent = 52 + Encrypted /\ n + 15 < Encrypted
    BY <1>1, Bounds
  <2>2. /\ padded \in Nat /\ Encrypted < padded /\ padded <= Encrypted + 16
    BY <2>1, PaddedBounds
  <2>3. Fits => n < Size
    BY <2>1 DEF Fits
  <2> QED
    BY <2>1, <2>2, <2>3
<1>5. ASSUME NEW i \in Addresses
      PROVE  mem'[i] =
               LET b == IF In(i, 16 + Encrypted, padded - Encrypted)
                        THEN <<"padding", i - (16 + Encrypted)>>
                        ELSE IF In(i, 16, 3) THEN <<"version", i - 16>>
                        ELSE IF In(i, 16, 15) THEN <<"zero", i - 16>>
                        ELSE IF In(i, 31, document) THEN <<"json", i - 31>>
                        ELSE mem[i]
               IN  IF In(i, 16, padded) THEN <<"cipher", b>> ELSE b
  BY <1>5 DEF FillJSON, WithPadding, WithDocument, Encipher, Put
<1> HIDE DEF padded, document
<1> DEFINE E == Encrypted
<1> HIDE DEF E
<1>6. /\ E \in Nat /\ n \in Nat /\ n + 15 < E
      /\ E < padded /\ padded <= E + 16
      /\ Extent = 52 + E /\ Addresses \subseteq Nat
  BY <1>1, <1>4, Bounds DEF E
<1>7. ASSUME NEW i \in Addresses, i < 16 \/ 48 + E <= i
      PROVE  mem'[i] = mem[i]
  <2>1. i \in Nat
    BY <1>6
  <2>2. /\ ~In(i, 16, padded) /\ ~In(i, 16 + E, padded - E)
        /\ ~In(i, 16, 3) /\ ~In(i, 16, 15) /\ ~In(i, 31, document)
    BY <1>6, <1>7, <1>4, <2>1 DEF In
  <2> QED
    BY <1>5, <2>2 DEF E
<1>8. CleanBehind'
  <2>1. ASSUME NEW i \in Addresses, Fits, i >= Extent
        PROVE  mem'[i] = Untouched
    <3>1. mem'[i] = mem[i]
      BY <1>6, <1>7, <2>1
    <3> QED
      BY <2>1, <3>1 DEF FrameInv, CleanBehind
  <2> QED
    BY <1>1, <2>1, LengthsKept DEF CleanBehind
<1>9. FrameSoFar'
  <2>1. ASSUME NEW i \in Addresses, i < 16 \/ In(i, 48 + Encrypted, 4)
        PROVE  mem'[i] = FrameByte(i)
    <3>1. mem'[i] = mem[i]
      BY <1>6, <1>7, <2>1 DEF In, E
    <3> QED
      BY <1>1, <2>1, <3>1 DEF FrameInv, FrameSoFar
  <2>2. ASSUME NEW i \in Addresses, In(i, 16, Encrypted), Fits
        PROVE  mem'[i] = FrameByte(i)
    <3>1. mem[i] = <<"zero", i - 16>>
      BY <1>1, <2>2 DEF FrameInv, FrameSoFar
    <3>2. i \in Nat /\ 16 <= i /\ i < 16 + E /\ document = n
      BY <1>6, <1>4, <2>2 DEF In, E
    <3>3. In(i, 16, padded) /\ ~In(i, 16 + E, padded - E)
      BY <1>6, <1>4, <3>2 DEF In
    <3>4. mem'[i] = <<"cipher", IF In(i, 16, 3) THEN <<"version", i - 16>>
                                ELSE IF In(i, 16, 15) THEN <<"zero", i - 16>>
                                ELSE IF In(i, 31, n) THEN <<"json", i - 31>>
                                ELSE <<"zero", i - 16>>>>
      BY <1>5, <3>1, <3>2, <3>3 DEF E
    <3>5. PlainByte(i) = IF In(i, 16, 3) THEN <<"version", i - 16>>
                         ELSE IF In(i, 31, n) THEN <<"json", i - 31>>
                         ELSE <<"zero", i - 16>>
      BY <1>1 DEF PlainByte
    <3>6. mem'[i] = <<"cipher", PlainByte(i)>>
      <4>1. CASE In(i, 16, 15)
        <5>1. ~In(i, 31, n)
          BY <3>2, <4>1, <1>6 DEF In
        <5> QED
          BY <3>4, <3>5, <4>1, <5>1
      <4>2. CASE ~In(i, 16, 15)
        BY <3>4, <3>5, <4>2
      <4> QED
        BY <4>1, <4>2
    <3> QED
      BY <2>2, <3>2, <3>6 DEF FrameByte, In
  <2> QED
    BY <1>1, <2>1, <2>2, LengthsKept DEF FrameSoFar
<1>10. SignedSoFar' /\ ReportSoFar'
  BY <1>1 DEF SignedSoFar, ReportSoFar
<1> QED
  BY <1>2, <1>3, <1>8, <1>9, <1>10 DEF FrameInv

LEMMA ChecksumFrame == FrameInv /\ Checksum => FrameInv'
<1> SUFFICES ASSUME FrameInv, Checksum PROVE FrameInv'
  OBVIOUS
<1>1. /\ LengthInv /\ kind # "report" /\ pc = "sign" /\ pc' = "ready"
      /\ UNCHANGED <<kind, n>>
  BY DEF FrameInv, LengthInv, Checksum
<1>2. LengthInv'
  BY <1>1, LengthsKept DEF LengthInv, Checksum, PayloadSize
<1>3. size - (32 + 4) = Encrypted
  BY <1>1, Bounds DEF LengthInv, PayloadSize
<1>4. /\ mem' = Put(mem, 16 + Encrypted, 32, "hmac")
      /\ signed' = [i \in {a \in Addresses : a < 16 + Encrypted} |-> mem[i]]
  BY <1>3 DEF Checksum
<1>5. DOMAIN mem' = Addresses
  BY <1>4 DEF Put
<1>6. ASSUME NEW i \in Addresses, ~In(i, 16 + Encrypted, 32)
      PROVE  mem'[i] = mem[i]
  BY <1>4, <1>6 DEF Put
<1>7. CleanBehind'
  BY <1>1, <1>6, LengthsKept, Bounds DEF FrameInv, CleanBehind, In
<1>8. FrameSoFar'
  <2>1. ASSUME NEW i \in Addresses, i < 16 \/ In(i, 48 + Encrypted, 4)
        PROVE  mem'[i] = FrameByte(i)
    BY <1>1, <1>6, <2>1, Bounds DEF FrameInv, FrameSoFar, In
  <2>2. ASSUME NEW i \in Addresses, In(i, 16, Encrypted), Fits
        PROVE  mem'[i] = FrameByte(i)
    <3>1. ~In(i, 16 + Encrypted, 32)
      BY <1>1, <2>2, Bounds DEF In
    <3> QED
      BY <1>1, <1>6, <2>2, <3>1 DEF FrameInv, FrameSoFar
  <2>3. ASSUME NEW i \in Addresses, In(i, 16 + Encrypted, 32)
        PROVE  mem'[i] = FrameByte(i)
    BY <1>1, <1>4, <2>3, Bounds DEF Put, FrameByte, In
  <2> QED
    BY <1>1, <2>1, <2>2, <2>3, LengthsKept DEF FrameSoFar
<1>9. SignedSoFar'
  <2>1. ASSUME Fits
        PROVE  {a \in Addresses : a < 16 + Encrypted} = 0..16 + Encrypted - 1
    BY <1>1, <2>1, Bounds, LengthAssumption DEF Fits, Addresses
  <2>2. ASSUME NEW i \in DOMAIN signed'
        PROVE  signed'[i] = mem'[i]
    <3>1. i \in Addresses /\ i < 16 + Encrypted /\ signed'[i] = mem[i]
      BY <1>4, <2>2
    <3> QED
      BY <1>1, <1>6, <3>1, Bounds DEF In
  <2> QED
    BY <1>4, <2>1, <2>2, LengthsKept, <1>1 DEF SignedSoFar
<1>10. ReportSoFar'
  BY <1>1 DEF ReportSoFar
<1> QED
  BY <1>2, <1>5, <1>7, <1>8, <1>9, <1>10 DEF FrameInv

LEMMA ArriveFrame == FrameInv /\ Arrive => FrameInv'
<1> SUFFICES ASSUME FrameInv, Arrive PROVE FrameInv'
  OBVIOUS
<1>1. /\ LengthInv /\ kind = "report" /\ pc = "arrive" /\ pc' = "decrypt"
      /\ UNCHANGED <<kind, n>>
  BY DEF FrameInv, LengthInv, Arrive
<1>2. LengthInv'
  BY <1>1, LengthsKept DEF LengthInv, Arrive, PayloadSize
<1>3. DOMAIN mem' = Addresses
  BY DEF Arrive, Put
<1>4. CleanBehind'
  <2>1. ASSUME NEW i \in Addresses, 56 + Encrypted <= i
        PROVE  mem'[i] = mem[i]
    BY <1>1, <2>1, Bounds DEF Arrive, Put, Encipher, In
  <2> QED
    BY <1>1, <2>1, LengthsKept, Bounds DEF FrameInv, CleanBehind
<1>5. ReportSoFar'
  BY <1>1, Bounds DEF ReportSoFar, Arrive, Put, Encipher, In
<1>6. FrameSoFar' /\ SignedSoFar'
  BY <1>1 DEF FrameSoFar, SignedSoFar
<1> QED
  BY <1>2, <1>3, <1>4, <1>5, <1>6 DEF FrameInv

(* The length counts at least 40 bytes more than the document needs, so    *)
(* that the padding and the version which are taken off leave it whole.    *)
LEMMA DecryptReportFrame == FrameInv /\ DecryptReport => FrameInv'
<1> SUFFICES ASSUME FrameInv, DecryptReport PROVE FrameInv'
  OBVIOUS
<1>1. /\ LengthInv /\ kind = "report" /\ pc = "decrypt" /\ pc' = "parse"
      /\ UNCHANGED <<kind, n, size>>
      /\ size = 4 + PayloadSize(Encrypted)
  BY DEF FrameInv, LengthInv, DecryptReport
<1>2. PICK pad \in 0..16 : given' = size - pad - 15
  BY DEF DecryptReport, PayloadLength, Padding
<1>3. given' \in Nat /\ n <= given'
  BY <1>1, <1>2, Bounds DEF PayloadSize
<1>4. LengthInv'
  BY <1>1, <1>3, LengthsKept DEF LengthInv
<1> DEFINE whole == 16 * ((PayloadLength + 15) \div 16)
<1>5. mem' = Decipher(mem, 20, whole)
  BY DEF DecryptReport
<1>6. /\ whole \in Nat /\ Encrypted + 40 <= whole
      /\ Extent = 20 + whole
  BY <1>1, Bounds DEF PayloadLength, PayloadSize, Extent
<1> HIDE DEF whole
<1>7. DOMAIN mem' = Addresses
  BY <1>5 DEF Decipher
<1>8. CleanBehind'
  <2>1. ASSUME NEW i \in Addresses, i >= Extent
        PROVE  mem'[i] = mem[i]
    BY <1>1, <1>5, <1>6, <2>1, Bounds DEF Decipher, In
  <2> QED
    BY <1>1, <2>1, LengthsKept DEF FrameInv, CleanBehind
<1>9. ReportSoFar'
  <2>1. ASSUME NEW i \in Addresses, In(i, 35, n)
        PROVE  mem'[i] = <<"json", i - 35>>
    <3>1. mem[i] = <<"cipher", <<"json", i - 35>>>>
      BY <1>1, <2>1 DEF FrameInv, ReportSoFar
    <3>2. In(i, 20, whole)
      BY <1>1, <1>6, <2>1, Bounds DEF In
    <3> QED
      BY <1>5, <3>1, <3>2 DEF Decipher
  <2> QED
    BY <1>1, <1>3, <2>1 DEF ReportSoFar
<1>10. FrameSoFar' /\ SignedSoFar'
  BY <1>1 DEF FrameSoFar, SignedSoFar
<1> QED
  BY <1>4, <1>7, <1>8, <1>9, <1>10 DEF FrameInv

LEMMA StutterFrame == FrameInv /\ UNCHANGED vars => FrameInv'
<1> SUFFICES ASSUME FrameInv, UNCHANGED vars PROVE FrameInv'
  OBVIOUS
<1>1. UNCHANGED <<kind, n>>
  BY DEF vars
<1>2. UNCHANGED <<pc, mem, size, signed, given>>
  BY DEF vars
<1>3. LengthInv'
  BY <1>1, <1>2, LengthsKept DEF FrameInv, LengthInv, PayloadSize
<1>4. CleanBehind' /\ SignedSoFar'
  BY <1>1, <1>2, LengthsKept DEF FrameInv, CleanBehind, SignedSoFar
<1>5. FrameSoFar'
  BY <1>1, <1>2, LengthsKept DEF FrameInv, FrameSoFar
<1>6. ReportSoFar'
  BY <1>1, <1>2 DEF FrameInv, ReportSoFar
<1> QED
  BY <1>2, <1>3, <1>4, <1>5, <1>6 DEF FrameInv

(* The strengthened invariant holds in every state of every behaviour.     *)
THEOREM FrameAlways == Spec => []FrameInv
<1>1. FrameInv /\ [Next]_vars => FrameInv'
  BY PrepareFrame, CopyMessageFrame, FillJSONFrame, ChecksumFrame,
     ArriveFrame, DecryptReportFrame, StutterFrame DEF Next
<1> QED
  BY InitFrame, <1>1, PTL DEF Spec

-----------------------------------------------------------------------------
(* Every variable keeps its type, and the header counts what follows it.   *)
THEOREM FrameTypeCorrect == Spec => []TypeOK
<1>1. FrameInv => TypeOK
  BY DEF FrameInv, LengthInv, TypeOK
<1> QED
  BY FrameAlways, <1>1, PTL

(* The frame that sendMessage and sendJSON give to the socket is whole,    *)
(* for every message and document that fits, in a buffer of any size.      *)
THEOREM FramesAreWhole == Spec => []FrameAsSent
<1>1. ASSUME FrameInv, pc = "ready", Fits, NEW i \in 0..Extent - 1
      PROVE  mem[i] = FrameByte(i)
  <2>1. LengthInv /\ kind # "report"
    BY <1>1 DEF FrameInv, LengthInv
  <2>2. i \in Addresses
    BY <1>1, <2>1, Bounds, LengthAssumption DEF Fits, Addresses
  <2>3. \/ i < 16 \/ In(i, 48 + Encrypted, 4)
        \/ In(i, 16, Encrypted) \/ In(i, 16 + Encrypted, 32)
    BY <2>1, <2>2, Bounds DEF In
  <2> QED
    BY <1>1, <2>2, <2>3 DEF FrameInv, FrameSoFar
<1>2. FrameInv => FrameAsSent
  BY <1>1 DEF FrameAsSent
<1> QED
  BY FrameAlways, <1>2, PTL

(* The HMAC in a frame is computed over the bytes the frame is sent with.  *)
THEOREM HmacCoversWhatIsSent == Spec => []SignedAsSent
<1>1. FrameInv => SignedAsSent
  BY DEF FrameInv, SignedSoFar, SignedAsSent
<1> QED
  BY FrameAlways, <1>1, PTL

(* No pass over a frame that fits leaves the buffer, the decryption beyond *)
(* the end of a received frame included.                                   *)
THEOREM PassesStayInside == Spec => []InsideBuffer
<1>1. FrameInv => InsideBuffer
  <2> SUFFICES ASSUME FrameInv, Fits, NEW i \in Addresses, i >= Size
               PROVE  mem[i] = Untouched
    BY DEF InsideBuffer
  <2>1. i >= Extent
    BY Bounds DEF FrameInv, Fits
  <2> QED
    BY <2>1 DEF FrameInv, CleanBehind
<1> QED
  BY FrameAlways, <1>1, PTL

(* The JSON parser is given the whole document of every report that fits.  *)
THEOREM ReportsAreReadWhole == Spec => []DocumentGiven
<1>1. ASSUME FrameInv, pc = "parse", Fits, NEW k \in 0..n - 1
      PROVE  mem[35 + k] = <<"json", k>>
  <2>1. LengthInv /\ kind = "report"
    BY <1>1 DEF FrameInv, LengthInv
  <2>2. 35 + k \in Addresses /\ In(35 + k, 35, n)
    BY <1>1, <2>1, Bounds, LengthAssumption DEF Fits, Addresses, In
  <2>3. (35 + k) - 35 = k
    BY <2>1, Bounds
  <2> QED
    BY <1>1, <2>2, <2>3 DEF FrameInv, ReportSoFar
<1>2. FrameInv => DocumentGiven
  BY <1>1 DEF FrameInv, ReportSoFar, DocumentGiven
<1> QED
  BY FrameAlways, <1>2, PTL
-----------------------------------------------------------------------------
(* The Python port *)

(* What the port has written: the header and zeroes, then the message. *)
PyInv ==
  kind = "message" /\ pc \in {"fill", "sign", "ready"} =>
    /\ DOMAIN code = 0..52 + n - 1
    /\ \A i \in 0..15 : code[i] = <<"header", i>>
    /\ pc # "fill" =>
         \A i \in 16..16 + n - 1 : code[i] = <<"cipher", <<"message", i - 16>>>>

LEMMA PyStep ==
  ASSUME FrameInv, PyInv, [PairNext]_pairVars
  PROVE  PyInv'
<1> USE DEF PyInv
<1>0. LengthInv /\ (kind = "message" => n \in Nat)
  BY Bounds DEF FrameInv
<1>1. CASE PairPrepare
  <2>1. /\ kind = "message" /\ pc' = "fill" /\ n' = n
        /\ code' = Py!Blank(n)
    BY <1>1 DEF PairPrepare, Prepare, Py!prepare_tuya_code
  <2>2. 16 + Py!compute_payload_size(n) - 1 = 52 + n - 1
    BY <1>0, <2>1 DEF Py!compute_payload_size
  <2>3. /\ DOMAIN code' = 0..52 + n - 1
        /\ \A i \in 0..52 + n - 1 : i < 16 => code'[i] = <<"header", i>>
    BY <2>1, <2>2 DEF Py!Blank
  <2> QED
    BY <1>0, <2>1, <2>3, SMTT(30)
<1>2. CASE PairCopy
  <2>1. /\ kind = "message" /\ pc = "fill" /\ pc' = "sign" /\ n' = n
        /\ code' = Py!Store(code, 16,
                     [i \in 0..n - 1 |-> <<"cipher", <<"message", i>>>>])
    BY <1>2 DEF PairCopy, CopyMessage, Py!copy_data
  <2>2. ASSUME NEW i \in DOMAIN code
        PROVE  code'[i] = IF i - 16 \in 0..n - 1 /\ i >= 16
                          THEN <<"cipher", <<"message", i - 16>>>>
                          ELSE code[i]
    BY <2>1 DEF Py!Store
  <2>3. DOMAIN code' = 0..52 + n - 1 /\ DOMAIN code = 0..52 + n - 1
    BY <2>1 DEF Py!Store
  <2>4. ASSUME NEW i \in 0..15 PROVE code'[i] = <<"header", i>>
    <3>1. i \in DOMAIN code /\ ~(i >= 16)
      BY <1>0, <2>1, <2>3
    <3>2. code'[i] = code[i]
      BY <2>2, <3>1
    <3> QED
      BY <2>1, <3>2
  <2>5. ASSUME NEW i \in 16..16 + n - 1
        PROVE  code'[i] = <<"cipher", <<"message", i - 16>>>>
    <3>1. i \in DOMAIN code /\ i >= 16 /\ i - 16 \in 0..n - 1
      BY <1>0, <2>1, <2>3, SMTT(30)
    <3> QED
      BY <2>2, <3>1
  <2> QED
    BY <2>1, <2>3, <2>4, <2>5
<1>3. CASE PairChecksum
  BY <1>3 DEF PairChecksum, Checksum, Py!checksum_tuya_code
<1>4. CASE Alone
  <2>1. kind' # "message"
    BY <1>0, <1>4
       DEF Alone, Prepare, Checksum, FillJSON, Arrive, DecryptReport, LengthInv
  <2> QED
    BY <2>1
<1>5. CASE UNCHANGED pairVars
  BY <1>5 DEF pairVars
<1> QED
  BY <1>1, <1>2, <1>3, <1>4, <1>5 DEF PairNext

(* The two codecs side by side are still the one codec: what is proved of  *)
(* it holds of the pair.                                                   *)
THEOREM PairIsFrame == PairSpec => Spec
<1>1. PairInit => Init
  BY DEF PairInit
<1>2. [PairNext]_pairVars => [Next]_vars
  BY DEF PairNext, PairPrepare, PairCopy, PairChecksum, Alone, Next, pairVars,
     vars
<1> QED
  BY <1>1, <1>2, PTL DEF PairSpec, Spec

(* The port writes the header and the encrypted payload that the original  *)
(* writes, for every length of message that fits the original's buffer.    *)
THEOREM PortWritesSamePayload == PairSpec => []PySamePayload
<1>1. PairInit => PyInv
  BY DEF PairInit, Init, PyInv
<1>2. FrameInv /\ PyInv /\ [PairNext]_pairVars => PyInv'
  BY PyStep
<1>3. FrameInv /\ PyInv => PySamePayload
  <2> SUFFICES ASSUME FrameInv, PyInv, pc = "ready", kind = "message", Fits
               PROVE  /\ DOMAIN code = 0..Extent - 1
                      /\ \A i \in 0..16 + n - 1 : code[i] = mem[i]
    BY DEF PySamePayload
  <2>1. /\ n \in Nat /\ Encrypted = n /\ Extent = 52 + n
        /\ Size \in Nat /\ Slack \in Nat
    BY Bounds, LengthAssumption DEF FrameInv
  <2>2. DOMAIN code = 0..Extent - 1
    BY <2>1 DEF PyInv
  <2>3. ASSUME NEW i \in 0..16 + n - 1 PROVE code[i] = mem[i]
    <3>1. i \in Addresses /\ (i < 16 \/ In(i, 16, Encrypted))
      BY <2>1 DEF Fits, Addresses, In
    <3>2. mem[i] = FrameByte(i)
      BY <3>1 DEF FrameInv, FrameSoFar
    <3>3. CASE i < 16
      BY <3>2, <3>3, <2>1 DEF PyInv, FrameByte
    <3>4. CASE i >= 16
      <4>1. mem[i] = <<"cipher", <<"message", i - 16>>>>
        BY <3>1, <3>2, <3>4, <2>1 DEF FrameByte, PlainByte, In
      <4>2. i \in 16..16 + n - 1
        BY <3>4, <2>1
      <4> QED
        BY <4>1, <4>2 DEF PyInv
    <3> QED
      BY <2>1, <3>3, <3>4
  <2> QED
    BY <2>2, <2>3
<1> QED
  BY <1>1, <1>2, <1>3, PairIsFrame, FrameAlways, PTL DEF PairSpec
=============================================================================
