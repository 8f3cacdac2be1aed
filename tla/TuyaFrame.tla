------------------------------- MODULE TuyaFrame -------------------------------
(***************************************************************************)
(* A Tuya 3.4 frame in the buffers of a session                            *)
(* (main/backend/tuya/libtuya.cpp, sendMessage, sendJSON and handleSignal  *)
(* of main/device/session/TuyaSession.cpp): which bytes the successive     *)
(* passes over the buffer write, and what is left when they are done.      *)
(*                                                                         *)
(* A byte is <<source, index>>, the index-th byte of that source, or       *)
(* <<"cipher", b>>, what AES-ECB makes of b.                               *)
(***************************************************************************)
EXTENDS Naturals

CONSTANTS
  Size,      \* of inBuffer and of outBuffer: 512
  Slack,     \* bound: bytes watched beyond the end of the buffer
  Messages,  \* lengths of the messages sent: 16, a nonce; 48, its HMAC
  Documents  \* lengths of the JSON documents sent and received

ASSUME LengthAssumption ==
  /\ Size \in Nat \ {0} /\ Slack \in Nat
  /\ Messages \subseteq Nat /\ Documents \subseteq Nat

VARIABLES
  kind,    \* "message", "json": sent; "report": received
  n,       \* length of the message or document
  pc,      \* the pass that comes next
  mem,     \* the buffer, and Slack bytes beyond it
  size,    \* the payload size in the header
  signed,  \* the bytes the HMAC was computed over
  given    \* how many bytes the JSON parser is given

vars == <<kind, n, pc, mem, size, signed, given>>

Addresses == 0..Size + Slack - 1
Untouched == <<"old", 0>>

(* ((length + 16) >> 4) << 4, for the 15 bytes of version and a document *)
Padded(length) == 16 * ((length + 16) \div 16)
Encrypted == IF kind = "message" THEN n ELSE Padded(n + 15)

(* computePayloadSize with an HMAC *)
PayloadSize(length) == length + 32 + 4
-----------------------------------------------------------------------------
In(i, from, length) == from <= i /\ i < from + length

Put(m, from, length, source) ==
  [i \in Addresses |->
     IF In(i, from, length) THEN <<source, i - from>> ELSE m[i]]

Encipher(m, from, length) ==
  [i \in Addresses |->
     IF In(i, from, length) THEN <<"cipher", m[i]>> ELSE m[i]]

Decipher(m, from, length) ==
  [i \in Addresses |->
     IF ~In(i, from, length) THEN m[i]
     ELSE IF m[i][1] = "cipher" THEN m[i][2] ELSE <<"noise", 0>>]

(* Zeroes up to the length of the frame counted from the payload *)
PreparedTooFar(length) ==
  Put(Put(Put(mem, 0, 16, "header"),
          16, PayloadSize(length) + 16, "zero"),
      16 + length + 32, 4, "suffix")

(* prepareTuyaCode: header, zeroes for payload and HMAC, suffix *)
Prepared(length) ==
  Put(Put(Put(mem, 0, 16, "header"),
          16, length + 32, "zero"),
      16 + length + 32, 4, "suffix")

(* 15 bytes of version and zeroes, after the document behind them *)
WithDocument(m) ==
  Put(Put(Put(m, 31, IF n < Size THEN n ELSE Size, "json"),
          16, 15, "zero"),
      16, 3, "version")

(* encryptDataECB with its default padding, on a length that is a multiple *)
(* of the block already: a whole block of padding goes behind it, where    *)
(* the HMAC is going to be.                                                *)
WithPadding(m, length) ==
  LET padded == Padded(length) IN
  Encipher(Put(m, 16 + length, padded - length, "padding"), 16, padded)

Init ==
  /\ kind \in {"message", "json", "report"}
  /\ n \in IF kind = "message" THEN Messages ELSE Documents
  /\ pc = IF kind = "report" THEN "arrive" ELSE "prepare"
  /\ mem = [i \in Addresses |-> Untouched]
  /\ size = 0 /\ signed = [i \in {} |-> Untouched] /\ given = 0

(* The header counts the payload alone *)
PrepareBare ==
  /\ pc = "prepare"
  /\ mem' = Prepared(Encrypted)
  /\ size' = Encrypted
  /\ pc' = "fill"
  /\ UNCHANGED <<kind, n, signed, given>>

(* prepareTuyaCode, as sendMessage and sendJSON call it *)
Prepare ==
  /\ pc = "prepare"
  /\ mem' = Prepared(Encrypted)
  /\ size' = PayloadSize(Encrypted)
  /\ pc' = "fill"
  /\ UNCHANGED <<kind, n, signed, given>>

(* encodeTuyaCode: memcpy of what was encrypted in a buffer of its own *)
CopyMessage ==
  /\ pc = "fill" /\ kind = "message"
  /\ mem' = Encipher(Put(mem, 16, n, "message"), 16, n)
  /\ pc' = "sign"
  /\ UNCHANGED <<kind, n, size, signed, given>>

(* sendJSON: serializeJson, the version, encryptDataECB *)
FillJSON ==
  /\ pc = "fill" /\ kind = "json"
  /\ mem' = WithPadding(WithDocument(mem), Encrypted)
  /\ pc' = "sign"
  /\ UNCHANGED <<kind, n, size, signed, given>>

(* checksumTuyaCode for a crc32 in place of the HMAC *)
ChecksumShort ==
  /\ pc = "sign"
  /\ LET length == size - (4 + 4) IN
       /\ signed' = [i \in {a \in Addresses : a < 16 + length} |-> mem[i]]
       /\ mem' = Put(mem, 16 + length, 4, "hmac")
  /\ pc' = "ready"
  /\ UNCHANGED <<kind, n, size, given>>

(* checksumTuyaCode: the length comes back from the header *)
Checksum ==
  /\ pc = "sign"
  /\ LET length == size - (32 + 4) IN
       /\ signed' = [i \in {a \in Addresses : a < 16 + length} |-> mem[i]]
       /\ mem' = Put(mem, 16 + length, 32, "hmac")
  /\ pc' = "ready"
  /\ UNCHANGED <<kind, n, size, given>>

(* A status report of the bulb (external): header, return code, encrypted  *)
(* version and document, HMAC, suffix.                                     *)
Arrive ==
  /\ pc = "arrive"
  /\ LET e == Encrypted
         plain == Put(Put(Put(mem, 20, e, "padding"), 20, 15, "version"),
                      35, n, "json")
     IN  mem' = Put(Put(Put(Put(Encipher(plain, 20, e), 0, 16, "header"),
                            16, 4, "code"),
                        20 + e, 32, "hmac"),
                    52 + e, 4, "suffix")
  /\ size' = 4 + PayloadSize(Encrypted)
  /\ pc' = "decrypt"
  /\ UNCHANGED <<kind, n, signed, given>>

(* getTuyaPayload: 20 bytes in, but the size as the header has it *)
PayloadLength == size

(* Any last byte taken for padding *)
PaddingAny == 0..255

(* What decryptDataECB takes off the length as padding: the last byte, if  *)
(* it can be one.  That byte lies four bytes beyond the frame here, so it  *)
(* is whatever the decryption of the suffix and of old bytes gives.        *)
Padding == 0..16

(* handleSignal: decryptDataECB over everything the header counts, in      *)
(* whole blocks, then less by the padding and by 15 bytes of version.      *)
DecryptReport ==
  /\ pc = "decrypt"
  /\ mem' = Decipher(mem, 20, 16 * ((PayloadLength + 15) \div 16))
  /\ \E pad \in Padding : given' = PayloadLength - pad - 15
  /\ pc' = "parse"
  /\ UNCHANGED <<kind, n, size, signed>>

Next == Prepare \/ CopyMessage \/ FillJSON \/ Checksum \/ Arrive \/ DecryptReport

Spec == Init /\ [][Next]_vars
-----------------------------------------------------------------------------
(* The frame as the protocol has it, byte by byte *)
PlainByte(i) ==
  IF kind = "message" THEN <<"message", i - 16>>
  ELSE IF In(i, 16, 3) THEN <<"version", i - 16>>
  ELSE IF In(i, 31, n) THEN <<"json", i - 31>>
  ELSE <<"zero", i - 16>>

FrameByte(i) ==
  IF i < 16 THEN <<"header", i>>
  ELSE IF In(i, 16, Encrypted) THEN <<"cipher", PlainByte(i)>>
  ELSE IF In(i, 16 + Encrypted, 32) THEN <<"hmac", i - (16 + Encrypted)>>
  ELSE <<"suffix", i - (48 + Encrypted)>>

(* How much of the buffer the frame and the passes over it need; a report  *)
(* is decrypted up to fifteen bytes beyond its end.                        *)
Extent ==
  IF kind = "report" THEN 20 + 16 * ((4 + PayloadSize(Encrypted) + 15) \div 16)
                     ELSE 16 + PayloadSize(Encrypted)
Fits == Extent <= Size

(* Every variable keeps its type, and the header counts what follows it.   *)
TypeOK ==
  /\ kind \in {"message", "json", "report"}
  /\ n \in Messages \union Documents
  /\ pc \in {"prepare", "fill", "sign", "ready", "arrive", "decrypt", "parse"}
  /\ DOMAIN mem = Addresses
  /\ size \in {0, PayloadSize(Encrypted), 4 + PayloadSize(Encrypted)}
  /\ given \in Nat

(* The frame that is sent is header, encrypted payload, HMAC and suffix,   *)
(* with the document entire: what the passes write beyond the payload --   *)
(* the block of padding above all -- is overwritten by those that follow.  *)
FrameAsSent ==
  pc = "ready" /\ Fits =>
    \A i \in 0..Extent - 1 : mem[i] = FrameByte(i)

(* The HMAC is that of the bytes which are sent: nothing before it changes *)
(* any more.                                                               *)
SignedAsSent ==
  pc = "ready" /\ Fits =>
    /\ DOMAIN signed = 0..16 + Encrypted - 1
    /\ \A i \in DOMAIN signed : signed[i] = mem[i]

(* No pass over a frame that fits the buffer writes beyond the buffer.     *)
InsideBuffer ==
  Fits => \A i \in Addresses : i >= Size => mem[i] = Untouched

(* The parser is given the whole document of a report, whatever the last   *)
(* byte that was decrypted happens to say about padding.                   *)
DocumentGiven ==
  pc = "parse" /\ Fits =>
    /\ n <= given
    /\ \A k \in 0..n - 1 : mem[35 + k] = <<"json", k>>
=============================================================================
