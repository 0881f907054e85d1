--------------------------- MODULE FrameHandover ---------------------------
(***************************************************************************)
(* What a blocking EmptyBuffer promises: callers take turns, the component *)
(* has at most one frame, and a turn ends only when the component does not *)
(* have the frame, either because it never took it or because it is done   *)
(* with it.                                                                *)
(***************************************************************************)
CONSTANTS Thread, NoThread

VARIABLES
  turn,   \* the caller whose call is in progress
  frame   \* where that caller's frame is

handoverVars == <<turn, frame>>

Init == turn = NoThread /\ frame = "none"

Begin ==
  /\ turn = NoThread
  /\ turn' \in Thread
  /\ UNCHANGED frame

(* The component accepts the frame of the caller whose turn it is.         *)
Give ==
  /\ turn # NoThread /\ frame = "none"
  /\ frame' = "given"
  /\ UNCHANGED turn

(* The component is done with it.                                          *)
Done ==
  /\ frame = "given"
  /\ frame' = "done"
  /\ UNCHANGED turn

End ==
  /\ turn # NoThread /\ frame \in {"none", "done"}
  /\ turn' = NoThread /\ frame' = "none"

Next == Begin \/ Give \/ Done \/ End

Spec == Init /\ [][Next]_handoverVars
=============================================================================
