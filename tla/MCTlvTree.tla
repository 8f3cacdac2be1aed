------------------------------- MODULE MCTlvTree -------------------------------
(* One element: the shape of a tree and the NoItem of a node that has been  *)
(* moved from tell trees apart.  Variables and free cells are alike: any   *)
(* free cell may be the one that is chosen.                                *)
EXTENDS TlvTree

MCSymmetry == Permutations(Locals) \union Permutations(Cells)
MCItems == {[tag |-> 1, value |-> <<85>>]}
=============================================================================
