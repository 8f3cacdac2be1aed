----------------------------- MODULE DataWriterLL -----------------------------
(***************************************************************************)
(* The low-level writer of main/std/types.hpp: a pointer that moves        *)
(* through a buffer of a given capacity.  Every write asks ensureCapacity  *)
(* first, which throws or returns.                                         *)
(***************************************************************************)
EXTENDS Naturals

CONSTANTS
  MaxCapacity,  \* bound: the largest buffer
  MaxBlock      \* bound: the longest array given to writeBytes

VARIABLES
  capacity,  \* of the buffer; 0 where the caller does not say
  size,      \* getSize(): ptr - data
  thrown     \* the last write threw "Buffer overflow"

vars == <<capacity, size, thrown>>

(* ensureCapacity(additionalBytes) looks at what has been written. *)
EnsureCapacity(additionalBytes) == capacity = 0 \/ size <= capacity

Write(length) ==
  IF EnsureCapacity(length)
  THEN size' = size + length /\ thrown' = FALSE /\ UNCHANGED capacity
  ELSE thrown' = TRUE /\ UNCHANGED <<capacity, size>>

Init ==
  /\ capacity \in 0..MaxCapacity
  /\ size = 0 /\ thrown = FALSE

WriteUInt == \E length \in {1, 2, 4, 8} : Write(length)
WriteBytes == \E length \in 0..MaxBlock : Write(length)

(* A buffer without capacity may grow without limit: the bound. *)
Next == size <= MaxCapacity + MaxBlock /\ (WriteUInt \/ WriteBytes)

Spec == Init /\ [][Next]_vars
-----------------------------------------------------------------------------
(* Nothing is written beyond the buffer: the check made before every write *)
(* is described as checking that there is enough room for it.              *)
StaysInBuffer == capacity > 0 => size <= capacity
=============================================================================
