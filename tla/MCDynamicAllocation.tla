------------------------ MODULE MCDynamicAllocation ------------------------
(***************************************************************************)
(* DynamicAllocation for TLC.  Addresses are interchangeable, and so are   *)
(* the words the parser writes.                                            *)
(***************************************************************************)
EXTENDS DynamicAllocation, TLC

Interchangeable == Permutations(Blocks) \cup Permutations(Words)
=============================================================================
