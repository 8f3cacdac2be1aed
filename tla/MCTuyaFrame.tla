------------------------------ MODULE MCTuyaFrame ------------------------------
(* The real buffer and messages, and documents from the empty one to one   *)
(* that does not fit any more, most of them around the block boundaries.   *)
EXTENDS TuyaFramePair

MCDocuments == 2..20 \union 30..34 \union 410..436
=============================================================================
