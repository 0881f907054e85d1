----------------------------- MODULE ModeSwitch -----------------------------
(***************************************************************************)
(* What setActiveConfig promises to clients that ask for one mode at a     *)
(* time: the display leaves the active mode only for the mode asked for,   *)
(* in one step, and that mode becomes the active one before the next       *)
(* request; a refused request changes neither.  A request that begins      *)
(* while another is in progress voids the promise, for good.               *)
(***************************************************************************)
CONSTANTS
  Mode,   \* the modes a client can ask for
  Shown   \* the output definition of each mode

VARIABLES
  phase,   \* how far the request in progress is
  asked,   \* the mode it asks for; the active one when there is none
  active,  \* the mode clients are told is active
  output   \* the definition the display applies

switchVars == <<phase, asked, active, output>>

Init ==
  /\ phase = "rest"
  /\ active \in Mode /\ asked = active
  /\ output = Shown[active]

Ask ==
  /\ phase = "rest"
  /\ asked' \in Mode \ {active}
  /\ phase' = "asked"
  /\ UNCHANGED <<active, output>>

Apply ==
  /\ phase = "asked"
  /\ output' = Shown[asked]
  /\ phase' = "applied"
  /\ UNCHANGED <<asked, active>>

Refuse ==
  /\ phase = "asked"
  /\ asked' = active
  /\ phase' = "rest"
  /\ UNCHANGED <<active, output>>

Commit ==
  /\ phase = "applied"
  /\ active' = asked
  /\ phase' = "rest"
  /\ UNCHANGED <<asked, output>>

(* A second request overlaps the first: from here on anything may happen   *)
(* to the mode.                                                            *)
Overlap == phase # "rest" /\ phase' = "void"

Next == Ask \/ Apply \/ Refuse \/ Commit \/ Overlap

Spec == Init /\ [][Next]_switchVars
=============================================================================
