-------------------------------- MODULE Helpers --------------------------------
(***************************************************************************)
(* The firmware's helper classes and functions, for one run.  They share   *)
(* nothing and never meet: a behaviour is one of them at work, the others  *)
(* stay where they are.                                                    *)
(***************************************************************************)
EXTENDS Ipv4, Hex, TimeStamp, FixedString, NvTyped, Points

VARIABLE job  \* the one at work

helperVars ==
  <<job, ipv4Vars, hexVars, timeVars, stringVars, typedVars, pointVars>>

Jobs == {"ipv4", "hex", "time", "string", "typed", "point"}

(* All initial states of the one at work, a single one of the others *)
Init ==
  /\ job \in Jobs
  /\ IF job = "ipv4" THEN Ipv4Init ELSE size = 0 /\ Ipv4Init
  /\ IF job = "hex" THEN HexInit
     ELSE pin = <<0>> /\ writer = "b2h" /\ reader = "h2b" /\ HexInit
  /\ TimeInit
  /\ IF job = "string" THEN StringInit
     ELSE view = Look(CHOOSE t \in Texts : TRUE, 0) /\ StringInit
  /\ IF job = "typed" THEN TypedInit
     ELSE /\ class = [o \in Objects |-> nv_t]
          /\ name = [t \in Places |-> CHOOSE n \in Names : TRUE]
          /\ TypedInit
  /\ IF job = "point" THEN PointsInit
     ELSE /\ P = 7 /\ B = 0 /\ point = [format |-> 4, x |-> 0, y |-> 0]
          /\ PointsInit

Ipv4Job ==
  /\ job = "ipv4" /\ Ipv4Next
  /\ UNCHANGED <<job, hexVars, timeVars, stringVars, typedVars, pointVars>>

HexJob ==
  /\ job = "hex" /\ HexNext
  /\ UNCHANGED <<job, ipv4Vars, timeVars, stringVars, typedVars, pointVars>>

TimeJob ==
  /\ job = "time" /\ TimeNext
  /\ UNCHANGED <<job, ipv4Vars, hexVars, stringVars, typedVars, pointVars>>

StringJob ==
  /\ job = "string" /\ StringNext
  /\ UNCHANGED <<job, ipv4Vars, hexVars, timeVars, typedVars, pointVars>>

TypedJob ==
  /\ job = "typed" /\ TypedNext
  /\ UNCHANGED <<job, ipv4Vars, hexVars, timeVars, stringVars, pointVars>>

PointJob ==
  /\ job = "point" /\ PointsNext
  /\ UNCHANGED <<job, ipv4Vars, hexVars, timeVars, stringVars, typedVars>>

Next == Ipv4Job \/ HexJob \/ TimeJob \/ StringJob \/ TypedJob \/ PointJob

(* The loops run to their end; the rest may stop at any time.              *)
Spec == Init /\ [][Next]_helperVars /\ WF_helperVars(HexJob)
-----------------------------------------------------------------------------
(* The reader of hexadecimal text ends with the bytes that were written,   *)
(* whoever wrote them.  tallymarker_hextobin never ends when they are half *)
(* as many as a uint8_t has values: its counter is back at 0 then.         *)
BytesComeBack ==
  (job = "hex" /\ (reader = "h2b" \/ Countable)) ~> (AtEnd /\ bytes = pin)
=============================================================================
