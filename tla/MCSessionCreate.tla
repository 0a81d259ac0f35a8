--------------------------- MODULE MCSessionCreate ---------------------------
(***************************************************************************)
(* Small instances of SessionCreate.                                       *)
(***************************************************************************)
EXTENDS SessionCreate, TLC

Symmetry == Permutations(Reqs) \cup Permutations(Ids) \cup Permutations(Bodies)
=============================================================================
