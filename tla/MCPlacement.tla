----------------------------- MODULE MCPlacement -----------------------------
(* Instances of Placement for TLC. *)
EXTENDS Placement

FourNodes == 1..4
Labelling == {"", "rack1", "rack2"}
UpToThree == 0..3


=============================================================================
