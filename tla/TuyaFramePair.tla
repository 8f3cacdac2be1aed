----------------------------- MODULE TuyaFramePair -----------------------------
(***************************************************************************)
(* The C++ codec and its Python port, given the same message.  Both make   *)
(* the frame in three steps; the port knows messages alone.                *)
(***************************************************************************)
EXTENDS TuyaFrame

VARIABLES
  code,    \* of PyTuya
  payload  \* of PyTuya

Py == INSTANCE PyTuya

pairVars == <<kind, n, pc, mem, size, signed, given, code, payload>>

PairInit == Init /\ Py!PyCodecInit

PairPrepare == Prepare /\ kind = "message" /\ Py!prepare_tuya_code(n)

PairCopy ==
  CopyMessage /\ Py!copy_data([i \in 0..n - 1 |-> <<"cipher", <<"message", i>>>>])

PairChecksum == Checksum /\ kind = "message" /\ Py!checksum_tuya_code(size)

(* What the port has no part in *)
Alone ==
  /\ \/ kind = "json" /\ (Prepare \/ Checksum)
     \/ FillJSON \/ Arrive \/ DecryptReport
  /\ UNCHANGED <<code, payload>>

PairNext == PairPrepare \/ PairCopy \/ PairChecksum \/ Alone

PairSpec == PairInit /\ [][PairNext]_pairVars
-----------------------------------------------------------------------------
(* The port writes the same header and the same payload as the original,   *)
(* at the same places, in a frame of the same length -- wherever the frame *)
(* fits the original's buffer; the port takes what room it needs.          *)
PySamePayload ==
  pc = "ready" /\ kind = "message" /\ Fits =>
    /\ DOMAIN code = 0..Extent - 1
    /\ \A i \in 0..16 + n - 1 : code[i] = mem[i]

(* "HMAC is written behind the payload" (python/tuya.py:101): the frame    *)
(* the port returns ends as the original's does.                           *)
PySealed ==
  pc = "ready" /\ kind = "message" =>
    \A i \in 16 + n..Extent - 1 : code[i] = mem[i]
=============================================================================
