------------------------------ MODULE TuyaLink ------------------------------
(***************************************************************************)
(* What a Tuya 3.4 session promises, without sockets, frames or the loop   *)
(* task: two ends that agree on a key, and one command that is carried out *)
(* once at most and only by an end that holds a key.                       *)
(***************************************************************************)
CONSTANTS
  Nonces,   \* what a session key is made from
  None,     \* the end has no session key
  Garbage   \* a key nobody else has

VARIABLES
  ctl,      \* the key of the controller
  bulb,     \* the key of the bulb
  command   \* "kept", "given", or "obeyed"

linkVars == <<ctl, bulb, command>>

LinkInit == ctl = None /\ bulb = None /\ command = "kept"

(* The controller takes a key; the bulb, still waiting for the answer,     *)
(* has none.                                                               *)
Take(n) ==
  /\ ctl = None /\ bulb = None
  /\ ctl' = n
  /\ UNCHANGED <<bulb, command>>

(* The bulb follows, with the controller's key unless that is gone.        *)
Follow(n) ==
  /\ bulb = None /\ ctl \in {None, n}
  /\ bulb' = n
  /\ UNCHANGED <<ctl, command>>

(* A connection ends: at one end, or, when the next one begins, at both.   *)
Part ==
  /\ \/ ctl' = None /\ bulb' = bulb
     \/ ctl' = ctl /\ bulb' = None
     \/ ctl' = None /\ bulb' = None
  /\ UNCHANGED command

Give ==
  /\ command = "kept" /\ ctl # None
  /\ command' = "given"
  /\ UNCHANGED <<ctl, bulb>>

Obey ==
  /\ command = "given" /\ bulb # None
  /\ command' = "obeyed"
  /\ UNCHANGED <<ctl, bulb>>

LinkNext ==
  \/ \E n \in Nonces \union {Garbage} : Take(n)
  \/ \E n \in Nonces : Follow(n)
  \/ Part \/ Give \/ Obey

LinkSpec == LinkInit /\ [][LinkNext]_linkVars

(* Two ends that both hold a key hold the same one. *)
Agreed == ctl # None /\ bulb # None => ctl = bulb
=============================================================================
