--------------------------- MODULE MCEmptyBuffer ---------------------------
(* Instances of EmptyBuffer for TLC.                                       *)
EXTENDS EmptyBuffer, TLC

(* No action or property singles out a thread or an address.               *)
Symmetry == Permutations(Thread) \cup Permutations(Header)

OnlyBlocked == {TRUE}
BothModes == BOOLEAN
NullOption == {"null"}
AllOptions == {"null", "frame", "noluma"}
Accepts == {"ok"}
MayReject == {"ok", "error"}
=============================================================================
