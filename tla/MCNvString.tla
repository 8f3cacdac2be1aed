----------------------------- MODULE MCNvString -----------------------------
(* NvString for TLC: from no character to one more than fit into a buffer  *)
(* of two, and in every order of shorter after longer and the reverse.     *)
EXTENDS NvString, TLC

CONSTANTS a, b

MCStrings == {<<>>, <<a>>, <<b, a, a>>}
Interchangeable == Permutations(Keys)
=============================================================================
