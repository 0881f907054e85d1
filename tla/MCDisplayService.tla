-------------------------- MODULE MCDisplayService --------------------------
(* Instances of DisplayService for TLC.                                    *)
EXTENDS DisplayService, TLC

CONSTANTS c1, c2, c3   \* clients

(* The composer submits frames and shows or hides the plane, a second      *)
(* client submits frames, a third one changes the mode and dumps, by the   *)
(* code DUMP and by that of dumpsys.                                       *)
AllCalls ==
  c1 :> {"EMPTY_BUFFER", "CHANGE_PLANE_SHOW"} @@ c2 :> {"EMPTY_BUFFER"}
    @@ c3 :> {"SET_ACTIVE_CONFIG", "default", "DUMP"}
ModeClients ==
  c1 :> {"SET_ACTIVE_CONFIG"} @@ c2 :> {"GET_DISPLAY_CONFIGS"} @@ c3 :> {"SET_POWER_MODE"}

Succeeds == {"ok"}
MayFail == {"ok", "error"}
=============================================================================
