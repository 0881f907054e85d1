--------------------------- MODULE MCFrameService ---------------------------
(* Instances of FrameService for TLC.                                      *)
EXTENDS FrameService, TLC

CONSTANTS c1, c2   \* clients

(* Both clients submit frames; the first one also shows or hides the plane *)
(* and asks for a dump.                                                    *)
FrameCalls ==
  c1 :> {"EMPTY_BUFFER", "CHANGE_PLANE_SHOW", "DUMP"} @@ c2 :> {"EMPTY_BUFFER"}

MayFail == {"ok", "error"}
=============================================================================
