----------------------------- MODULE MCStartUp -----------------------------
(***************************************************************************)
(* Both programs, any step of which may fail.                              *)
(***************************************************************************)
EXTENDS StartUp

BothPrograms == {"daemon", "display_init"}

AnyStep == IonSteps \cup
  {"OMX_Init", "OMX_GetHandle", "AddPort", "AddOsdPort", "in", "out", "blend",
   "mute", "submit", "unmute"}
=============================================================================
