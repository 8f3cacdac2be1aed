------------------------------- MODULE MCTlvWire -------------------------------
(* A short element, one whose encoding is just within the short form, one  *)
(* that needs the long form, and two that contain others; the tags of two  *)
(* have two bytes.                                                         *)
EXTENDS TlvWire

Bytes(n) == [i \in 1..n |-> 85]
MCItems ==
  {[tag |-> 1, value |-> Bytes(1)], [tag |-> 40705, value |-> Bytes(126)],
   [tag |-> 2, value |-> Bytes(255)],
   [tag |-> 48, value |-> <<>>], [tag |-> 48898, value |-> <<>>]}
=============================================================================
