-------------------------------- MODULE PyTuya --------------------------------
(***************************************************************************)
(* The frame codec of the Python client, python/tuya.py: the frame of a    *)
(* message that was encrypted already, with an HMAC.  Bytes are named as   *)
(* in TuyaFrame.  A slice of a bytearray is a copy; `payload` is the copy  *)
(* that the two functions fill, and that nobody reads afterwards.          *)
(***************************************************************************)
EXTENDS Naturals

VARIABLES
  code,    \* the frame: out, then code
  payload  \* payload, the slice behind the header

compute_payload_size(data_length) == data_length + 32 + 4

Bytes(length, source) == [i \in 0..length - 1 |-> <<source, i>>]

(* buffer[from:from + length] *)
Slice(buffer, from, length) == [i \in 0..length - 1 |-> buffer[from + i]]

(* buffer[from:from + length] = bytes *)
Store(buffer, from, bytes) ==
  [i \in DOMAIN buffer |-> IF i - from \in DOMAIN bytes /\ i >= from
                           THEN bytes[i - from] ELSE buffer[i]]

(* bytearray(total_length) with the header at its start *)
Blank(data_length) ==
  [i \in 0..16 + compute_payload_size(data_length) - 1 |->
     IF i < 16 THEN <<"header", i>> ELSE <<"zero", i - 16>>]

PyCodecInit == code = [i \in {} |-> <<"zero", 0>>] /\ payload = code

prepare_tuya_code(data_length) ==
  LET out == Blank(data_length) IN
    /\ code' = out
    /\ payload' = Store(Slice(out, 16, compute_payload_size(data_length)),
                        data_length + 32, Bytes(4, "suffix"))

(* The copy over the header *)
copy_data_first(encrypted_data) ==
  /\ code' = Store(code, 0, encrypted_data)
  /\ UNCHANGED payload

(* encode_tuya_code, between its two calls *)
copy_data(encrypted_data) ==
  /\ code' = Store(code, 16, encrypted_data)
  /\ UNCHANGED payload

checksum_tuya_code(payload_size) ==
  /\ payload' = Store(Slice(code, 16, payload_size),
                      payload_size - (32 + 4), Bytes(32, "hmac"))
  /\ UNCHANGED code
=============================================================================
