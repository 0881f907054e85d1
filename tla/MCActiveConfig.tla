--------------------------- MODULE MCActiveConfig ---------------------------
(* Instances of ActiveConfig for TLC.                                      *)
EXTENDS ActiveConfig

AllIndexes == -1..4
OneOfEachRate == {0, 2, 3}
Succeeds == {"ok"}
MayFail == {"ok", "error"}
=============================================================================
