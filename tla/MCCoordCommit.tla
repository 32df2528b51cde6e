--------------------------- MODULE MCCoordCommit ---------------------------
(***************************************************************************)
(* CoordCommit on small instances.  Nodes are interchangeable: they are    *)
(* only compared for equality.                                             *)
(***************************************************************************)
EXTENDS CoordCommit, TLC

Symmetry == Permutations(Node)

=============================================================================
