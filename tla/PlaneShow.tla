----------------------------- MODULE PlaneShow -----------------------------
(***************************************************************************)
(* The mute state of the OSD plane.  Two handlers of the display manager   *)
(* change it: CHANGE_PLANE_SHOW, which runs under initialized_mutex and    *)
(* decides on PlaneShowStatus, and EMPTY_BUFFER, whose last step unmutes   *)
(* the plane without any lock and decides on the mute type cached in the   *)
(* port.  Both end in VdcComponent::ConfigCommonMute, which first          *)
(* configures the component and then updates the cache.                    *)
(***************************************************************************)
CONSTANTS
  Thread,    \* binder threads
  Results,   \* what OMX_SetConfig may return
  NoThread   \* nobody holds initialized_mutex

ASSUME ConstantsAssumption ==
  /\ NoThread \notin Thread
  /\ Results \subseteq {"ok", "error"}

VARIABLES
  pc,      \* where each thread is
  target,  \* the argument mute_type of its ConfigCommonMute
  guard,   \* initialized_mutex
  shown,   \* PlaneShowStatus & TYPE_OSD
  cache,   \* BasePort::mute
  hw,      \* the mute type the component applies to the plane
  failed   \* history: an OMX_SetConfig has failed

vars == <<pc, target, guard, shown, cache, hw, failed>>

MuteType == {"MuteDisable", "MuteBlack", "MuteColored"}

(* A thread is in ChangePlaneShow (with or without a change to make), in   *)
(* the last step of EmptyBuffer, or in the two steps of ConfigCommonMute.  *)
ThreadPc == {"idle", "decide", "config", "cache", "status", "unlock"}

(* AddOsdPort has muted the plane.  BasePort::mute has no initial value:   *)
(* when that OMX_SetConfig fails, the cache holds anything.                *)
Init ==
  /\ pc = [t \in Thread |-> "idle"]
  /\ target = [t \in Thread |-> "MuteBlack"]
  /\ guard = NoThread
  /\ shown = FALSE
  /\ \/ "ok" \in Results /\ cache = "MuteBlack" /\ hw = "MuteBlack" /\ failed = FALSE
     \/ "error" \in Results /\ cache \in MuteType /\ hw \in MuteType /\ failed = TRUE

Goto(t, label) == pc' = [pc EXCEPT ![t] = label]

-----------------------------------------------------------------------------
(* The handler of CHANGE_PLANE_SHOW takes the mutex.                       *)
LockPlane(t, show) ==
  /\ pc[t] = "idle"
  /\ guard = NoThread
  /\ guard' = t
  /\ target' = [target EXCEPT ![t] = IF show THEN "MuteDisable" ELSE "MuteColored"]
  /\ Goto(t, "decide")
  /\ UNCHANGED <<shown, cache, hw, failed>>

(* Mutant of Decide: ChangePlaneShow trusts the cache, as ChangeMute does. *)
DecideOnCache(t) ==
  /\ pc[t] = "decide"
  /\ Goto(t, IF cache = target[t] THEN "status" ELSE "config")
  /\ UNCHANGED <<target, guard, shown, cache, hw, failed>>

(* A change is made only when PlaneShowStatus differs from the request.    *)
(* The cached mute type plays no part in it.                               *)
Decide(t) ==
  /\ pc[t] = "decide"
  /\ Goto(t, IF shown # (target[t] = "MuteDisable") THEN "config" ELSE "unlock")
  /\ UNCHANGED <<target, guard, shown, cache, hw, failed>>

(* ChangeMute(ps, OMX_MuteDisable), the last step of EmptyBuffer: nothing  *)
(* to do when the cache says the plane is not muted.                       *)
ChangeMute(t) ==
  /\ pc[t] = "idle"
  /\ cache # "MuteDisable"
  /\ target' = [target EXCEPT ![t] = "MuteDisable"]
  /\ Goto(t, "config")
  /\ UNCHANGED <<guard, shown, cache, hw, failed>>

(* What follows ConfigCommonMute: ChangePlaneShow sets PlaneShowStatus     *)
(* whether it worked or not, EmptyBuffer is done.                          *)
AfterConfig(t) == IF guard = t THEN "status" ELSE "idle"

(* ConfigCommonMute: OMX_SetConfig reaches the component ...               *)
ConfigOk(t) ==
  /\ pc[t] = "config"
  /\ "ok" \in Results
  /\ hw' = target[t]
  /\ Goto(t, "cache")
  /\ UNCHANGED <<target, guard, shown, cache, failed>>

(* Mutant of ConfigError: the error is logged, the cache updated anyway.   *)
ConfigErrorIgnored(t) ==
  /\ pc[t] = "config"
  /\ "error" \in Results
  /\ failed' = TRUE
  /\ Goto(t, "cache")
  /\ UNCHANGED <<target, guard, shown, cache, hw>>

(* ... or fails, and the cache keeps its value.                            *)
ConfigError(t) ==
  /\ pc[t] = "config"
  /\ "error" \in Results
  /\ failed' = TRUE
  /\ Goto(t, AfterConfig(t))
  /\ UNCHANGED <<target, guard, shown, cache, hw>>

(* Mutant of SetMuteType: the cache is given an OMX_PLANESHOWTYPE.         *)
SetShowType(t) ==
  /\ pc[t] = "cache"
  /\ cache' = IF target[t] = "MuteDisable" THEN "Show" ELSE "Hide"
  /\ Goto(t, AfterConfig(t))
  /\ UNCHANGED <<target, guard, shown, hw, failed>>

SetMuteType(t) ==
  /\ pc[t] = "cache"
  /\ cache' = target[t]
  /\ Goto(t, AfterConfig(t))
  /\ UNCHANGED <<target, guard, shown, hw, failed>>

SetPlaneShowStatus(t) ==
  /\ pc[t] = "status"
  /\ shown' = (target[t] = "MuteDisable")
  /\ Goto(t, "unlock")
  /\ UNCHANGED <<target, guard, cache, hw, failed>>

UnlockPlane(t) ==
  /\ pc[t] = "unlock"
  /\ guard' = NoThread
  /\ Goto(t, "idle")
  /\ UNCHANGED <<target, shown, cache, hw, failed>>

-----------------------------------------------------------------------------
Next ==
  \E t \in Thread :
    \/ \E show \in BOOLEAN : LockPlane(t, show)
    \/ Decide(t) \/ ChangeMute(t)
    \/ ConfigOk(t) \/ ConfigError(t) \/ SetMuteType(t)
    \/ SetPlaneShowStatus(t) \/ UnlockPlane(t)

Spec == Init /\ [][Next]_vars

-----------------------------------------------------------------------------
TypeOK ==
  /\ pc \in [Thread -> ThreadPc]
  /\ target \in [Thread -> MuteType]
  /\ guard \in Thread \cup {NoThread}
  /\ shown \in BOOLEAN
  /\ cache \in MuteType
  /\ hw \in MuteType
  /\ failed \in BOOLEAN

(* A request to hide the plane is in progress.                             *)
Hiding == guard \in Thread /\ target[guard] = "MuteColored"

(* As long as OMX_SetConfig does not fail: the plane the manager reports   *)
(* as shown is not muted, unless a request to hide it is in progress.      *)
(* Frames run concurrently and leave the cache wrong; ChangePlaneShow must *)
(* not depend on it.                                                       *)
ShownIsVisible == ~failed /\ shown /\ ~Hiding => hw = "MuteDisable"

(* The boot-time mute was applied.                                         *)
BootMuted == cache = "MuteBlack" /\ hw = "MuteBlack"

(* OMX_SetConfig may fail: after a boot that did mute the plane, the cache *)
(* never calls the plane unmuted while it is still black from the boot, so *)
(* a frame whose unmute failed is followed by one that tries again.        *)
BootMuteRetried == BootMuted => [](cache = "MuteDisable" => hw # "MuteBlack")

(* The last step of EmptyBuffer, marked "Mute OFf" in DisplayManager.cpp:  *)
(* a frame that arrives while nothing else is in progress and finds the    *)
(* cache unmuted, and so does nothing, leaves an unmuted plane behind.     *)
(* The code does not keep this promise: the update of the cache by an      *)
(* earlier frame may come after a hide.                                    *)
MuteOffAfterFrame ==
  (\A t \in Thread : pc[t] = "idle") /\ cache = "MuteDisable" => hw = "MuteDisable"

(* Two calls of ConfigCommonMute are between OMX_SetConfig and the update  *)
(* of the cache.                                                           *)
ConfigRace == \E t, u \in Thread : t # u /\ pc[t] = "cache" /\ pc[u] = "cache"

(* After a boot that left cache and component in agreement, and although   *)
(* OMX_SetConfig may fail: the promise of MuteOffAfterFrame is broken only *)
(* if two such updates overlap.                                            *)
MuteOffUnlessRaced == cache = hw /\ []~ConfigRace => []MuteOffAfterFrame
=============================================================================
