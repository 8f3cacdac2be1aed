---------------------------------- MODULE Hex ----------------------------------
(***************************************************************************)
(* Bytes written as hexadecimal text and read again, by the two writers    *)
(* and the two readers of the repository: binary_hex and                   *)
(* tallymarker_hextobin (device/std/utils.cpp), b2h and h2b                *)
(* (spake2/bigint/hex.hpp).  A character is its ASCII code.  One step is   *)
(* one round of a loop.                                                    *)
(***************************************************************************)
EXTENDS Naturals, Sequences

CONSTANTS
  HexBytes,  \* the bytes that are written
  MaxBytes,  \* bound: how many of them
  HexWrap    \* the values of a uint8_t: 256

ASSUME HexAssumption ==
  HexBytes \subseteq 0..255 /\ MaxBytes \in Nat \ {0} /\ HexWrap \in Nat \ {0}

VARIABLES
  pin,       \* the bytes
  writer, reader,
  hexText,   \* what the writer has written
  pos,       \* where the reader is, counted from 0
  bytes      \* what it has read

hexVars == <<pin, writer, reader, hexText, pos, bytes>>

(* The digits of binary_hex are capitals, those of b2h are not *)
Digit(d) == IF d < 10 THEN 48 + d ELSE (IF writer = "binary_hex" THEN 55 ELSE 87) + d

DigitsLowFirst(b) == <<Digit(b % 16), Digit(b \div 16)>>

Digits(b) == <<Digit(b \div 16), Digit(b % 16)>>

(* Both tables of values; other characters count as 0 for the first reader *)
(* and are not written here for the second.                                *)
hashmap(c) ==
  CASE c \in 48..57  -> c - 48
    [] c \in 65..70  -> c - 55
    [] c \in 97..102 -> c - 87
    [] OTHER -> 0

(* tallymarker_hextobin counts in a uint8_t, h2b in a size_t *)
Next2 == IF reader = "h2b" THEN pos + 2 ELSE (pos + 2) % HexWrap
-----------------------------------------------------------------------------
HexInit ==
  /\ pin \in UNION {[1..n -> HexBytes] : n \in 1..MaxBytes}
  /\ writer \in {"binary_hex", "b2h"} /\ reader \in {"tallymarker_hextobin", "h2b"}
  /\ hexText = <<>> /\ pos = 0 /\ bytes = [i \in 1..Len(pin) |-> 0]

(* The writer is done; the reader is; a uint8_t counts to the end *)
Written == Len(hexText) = 2 * Len(pin)
AtEnd == Written /\ pos = 2 * Len(pin)
Countable == Len(pin) \in 1..((HexWrap - 1) \div 2)

WriteByte ==
  /\ ~Written
  /\ hexText' = hexText \o Digits(pin[Len(hexText) \div 2 + 1])
  /\ UNCHANGED <<pin, writer, reader, pos, bytes>>

(* The array of tallymarker_hextobin has as many bytes as were written,    *)
(* that of h2b grows to them.                                              *)
ReadByte ==
  /\ Written /\ pos < 2 * Len(pin)
  /\ bytes' = [bytes EXCEPT ![pos \div 2 + 1] =
                 16 * hashmap(hexText[pos + 1]) + hashmap(hexText[pos + 2])]
  /\ pos' = Next2
  /\ UNCHANGED <<pin, writer, reader, hexText>>

HexNext == WriteByte \/ ReadByte
=============================================================================
