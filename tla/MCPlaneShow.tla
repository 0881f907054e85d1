---------------------------- MODULE MCPlaneShow ----------------------------
(* Instances of PlaneShow for TLC.                                         *)
EXTENDS PlaneShow, TLC

Symmetry == Permutations(Thread)
Succeeds == {"ok"}
MayFail == {"ok", "error"}
=============================================================================
