------------------------------ MODULE StartUp ------------------------------
(***************************************************************************)
(* How the two programs that own a DisplayManager start, and what they     *)
(* hold when a step of it fails.  The daemon initializes OpenMAX, creates  *)
(* its ports, publishes itself and serves.  display_init allocates one     *)
(* frame from ION, initializes the same way, shows that frame and exits.   *)
(* The results of most steps are ignored (DisplayManager::init even drops  *)
(* that of OmxDisplayManager::init), so a failure is met where a pointer   *)
(* it left behind is used.  Such a use is undefined; here it ends the      *)
(* program.                                                                *)
(*                                                                         *)
(* start()'s waiting for the component is the subject of DisplayService.   *)
(* Of EmptyBuffer there is the wait of its only caller here, with its      *)
(* time-outs; the rest of it is the subject of EmptyBuffer.                *)
(***************************************************************************)
EXTENDS Naturals

CONSTANTS
  Programs,  \* the programs considered
  Faulty,    \* the steps that may fail
  NoPort     \* a NULL BasePort pointer

ASSUME ConstantsAssumption ==
  /\ Programs \subseteq {"daemon", "display_init"}
  /\ NoPort \notin Nat

VARIABLES
  program, pc,
  failed,      \* history: the steps that have failed
  fault,       \* the handler or function that used a bad pointer, and the pointer
  refs,        \* display_init: what keeps the memory of its frame allocated
  hnd,         \* display_init: its buffer handle
  vdc, pHandle, VdcPort0,
  PortIndex, PortList,  \* of the component, the list as a set of indexes
  osd,         \* the port of OsdPortSet, by its index
  accepted,    \* ports whose definition the component has accepted
  crop,        \* BasePort::in_crop and out_crop of the OSD port
  applied,     \* the rectangles the component applies
  mute, plane, \* BasePort::mute, and the mute type the component applies
  published, initialized,
  frame,       \* the frame of display_init
  ev           \* BasePort::ev of the OSD port: the completion waited for

frameVars  == <<refs, hnd, frame, ev>>
portVars   == <<VdcPort0, PortIndex, PortList, osd, accepted>>
cropVars   == <<crop, applied>>
muteVars   == <<mute, plane>>
publicVars == <<published, initialized>>
initVars   == <<vdc, pHandle, portVars, cropVars, muteVars>>
vars == <<program, pc, failed, fault, frameVars, initVars, publicVars>>

Side    == {"in", "out"}
NoFault == <<"none", "none">>

(* A failed ION or mmap step leaves the handle NULL.                       *)
IonSteps == {"open", "alloc", "map", "mmap", "phys"}

(* new DisplayManager, new OmxDisplayManager: vdc and VdcPort0 have no     *)
(* initial value.                                                          *)
Init ==
  /\ program \in Programs
  /\ pc = IF program = "daemon" THEN "OMX_Init" ELSE "open"
  /\ failed = {} /\ fault = NoFault
  /\ refs = {} /\ hnd = "null" /\ frame = "none" /\ ev = "none"
  /\ vdc = "unset" /\ pHandle = "unset" /\ VdcPort0 = "unset"
  /\ PortIndex = 0 /\ PortList = {} /\ osd = NoPort /\ accepted = {}
  /\ crop = [s \in Side |-> "unset"] /\ applied = [s \in Side |-> "unset"]
  /\ mute = "unset" /\ plane = "unset"
  /\ published = FALSE /\ initialized = FALSE

Works       == UNCHANGED failed
Fails(step) == step \in Faulty /\ failed' = failed \cup {step}

(* The process ends, and with it all it holds of the frame's memory.       *)
Crash(where, pointer) ==
  /\ fault' = <<where, pointer>>
  /\ pc' = "crash"
  /\ refs' = {}

-----------------------------------------------------------------------------
(* get_physical_address: each step that works adds a reference to the      *)
(* memory, and the first one that fails goes to the clean-up.              *)
Acquire(step, next, gained) ==
  /\ pc = step
  /\ \/ Works /\ pc' = next /\ refs' = refs \cup gained
     \/ Fails(step) /\ pc' = "close_ion" /\ UNCHANGED refs
  /\ UNCHANGED <<program, fault, hnd, frame, ev, initVars, publicVars>>

(* The last step makes the handle, which keeps a duplicate of fd_ion.      *)
VirtToPhys ==
  /\ pc = "phys"
  /\ \/ Works /\ hnd' = "valid"
     \/ Fails("phys") /\ UNCHANGED hnd
  /\ pc' = "close_ion"
  /\ UNCHANGED <<program, fault, refs, frame, ev, initVars, publicVars>>

(* Mutant of CloseIon: the descriptor of ION_IOC_MAP is closed as well.    *)
CloseEverything ==
  /\ pc = "close_ion"
  /\ \E kept \in SUBSET (IF hnd = "valid" THEN {"handle"} ELSE {}) : refs' = kept
  /\ pc' = "OMX_Init"
  /\ UNCHANGED <<program, failed, fault, hnd, frame, ev, initVars, publicVars>>

(* The clean-up, which success runs through too: munmap, ION_IOC_FREE and  *)
(* close.  Closing the last descriptor of the ION client frees its handle; *)
(* with the duplicate alive it is ION_IOC_FREE that may do so (it is given *)
(* the allocation request, not a handle).  Nobody closes the descriptor of *)
(* ION_IOC_MAP.                                                            *)
CloseIon ==
  /\ pc = "close_ion"
  /\ \E kept \in SUBSET (IF hnd = "valid" THEN {"handle"} ELSE {}) :
       refs' = (refs \ {"handle", "map"}) \cup kept
  /\ pc' = "OMX_Init"
  /\ UNCHANGED <<program, failed, fault, hnd, frame, ev, initVars, publicVars>>

GetPhysicalAddress ==
  \/ Acquire("open", "alloc", {}) \/ Acquire("alloc", "map", {"handle"})
  \/ Acquire("map", "mmap", {"share"}) \/ Acquire("mmap", "phys", {"map"})
  \/ VirtToPhys \/ CloseIon

-----------------------------------------------------------------------------
(* OmxDisplayManager::init.  Whatever fails, DisplayManager::init goes on  *)
(* with AddOsdPort.                                                        *)
OmxInit ==
  /\ pc = "OMX_Init"
  /\ \/ Works /\ vdc' = "valid" /\ pHandle' = "null" /\ pc' = "OMX_GetHandle"
     \/ Fails("OMX_Init") /\ pc' = "AddOsdPort" /\ UNCHANGED <<vdc, pHandle>>
  /\ UNCHANGED <<program, fault, frameVars, portVars, cropVars, muteVars, publicVars>>

GetHandle ==
  /\ pc = "OMX_GetHandle"
  /\ \/ Works /\ pHandle' = "valid" /\ pc' = "AddPort"
     \/ Fails("OMX_GetHandle") /\ pc' = "AddOsdPort" /\ UNCHANGED pHandle
  /\ UNCHANGED <<program, fault, vdc, frameVars, portVars, cropVars, muteVars, publicVars>>

(* VdcComponent::AddPort, the output port: it takes an index whether its   *)
(* definition is accepted or not, and is not put into PortList.            *)
AddPort ==
  /\ pc = "AddPort"
  /\ PortIndex' = PortIndex + 1
  /\ \/ Works /\ VdcPort0' = "valid" /\ accepted' = accepted \cup {PortIndex}
     \/ Fails("AddPort") /\ VdcPort0' = "null" /\ UNCHANGED accepted
  /\ pc' = "AddOsdPort"
  /\ UNCHANGED <<program, fault, vdc, pHandle, PortList, osd,
                 frameVars, cropVars, muteVars, publicVars>>

-----------------------------------------------------------------------------
(* Mutant of AddOsdPort: the port is listed before the answer is looked at. *)
AddOsdPortListedFirst ==
  /\ pc = "AddOsdPort"
  /\ vdc = "valid" /\ pHandle = "valid"
  /\ PortIndex' = PortIndex + 3
  /\ LET index == PortIndex + 2 IN
       \/ Works /\ osd' = index /\ accepted' = accepted \cup {index}
       \/ Fails("AddOsdPort") /\ osd' = NoPort /\ UNCHANGED accepted
  /\ PortList' = PortList \cup {osd'}
  /\ pc' = "in"
  /\ UNCHANGED <<program, fault, vdc, pHandle, VdcPort0,
                 frameVars, cropVars, muteVars, publicVars>>

(* Mutant of AddOsdPort: the answer is not looked at.                      *)
AddOsdPortUnchecked ==
  /\ pc = "AddOsdPort"
  /\ vdc = "valid" /\ pHandle = "valid"
  /\ PortIndex' = PortIndex + 3
  /\ osd' = PortIndex + 2
  /\ PortList' = PortList \cup {PortIndex + 2}
  /\ \/ Works /\ accepted' = accepted \cup {PortIndex + 2}
     \/ Fails("AddOsdPort") /\ UNCHANGED accepted
  /\ pc' = "in"
  /\ UNCHANGED <<program, fault, vdc, pHandle, VdcPort0,
                 frameVars, cropVars, muteVars, publicVars>>

(* AddOsdPort skips two indexes and adds the OSD port.  Without a          *)
(* component there is nothing to count on, without its handle nobody to    *)
(* give the definition to.                                                 *)
AddOsdPort ==
  /\ pc = "AddOsdPort"
  /\ vdc = "valid" /\ pHandle = "valid"
  /\ PortIndex' = PortIndex + 3
  /\ LET index == PortIndex + 2 IN
       \/ /\ Works
          /\ osd' = index
          /\ PortList' = PortList \cup {index} /\ accepted' = accepted \cup {index}
       \/ Fails("AddOsdPort") /\ osd' = NoPort /\ UNCHANGED <<PortList, accepted>>
  /\ pc' = "in"
  /\ UNCHANGED <<program, fault, vdc, pHandle, VdcPort0,
                 frameVars, cropVars, muteVars, publicVars>>

AddOsdPortFaults ==
  /\ pc = "AddOsdPort"
  /\ \/ vdc # "valid" /\ Crash("AddOsdPort", "vdc")
     \/ vdc = "valid" /\ pHandle # "valid" /\ Crash("AddOsdPort", "pHandle")
  /\ UNCHANGED <<program, failed, hnd, frame, ev, initVars, publicVars>>

(* Mutant of UpdateCrop: the rectangle is cached whatever the component    *)
(* answers.                                                                *)
UpdateCropCachedFirst(side, next) ==
  /\ pc = side
  /\ osd \in PortList
  /\ crop' = [crop EXCEPT ![side] = "rect"]
  /\ \/ Works /\ applied' = [applied EXCEPT ![side] = "rect"] /\ pc' = next
     \/ Fails(side) /\ pc' = "blend" /\ UNCHANGED applied
  /\ UNCHANGED <<program, fault, vdc, pHandle, frameVars, portVars, muteVars, publicVars>>

(* UpdateCrop, one rectangle: the port has none cached yet, so it is       *)
(* applied and then cached; an error of the input rectangle skips the      *)
(* output one.                                                             *)
UpdateCrop(side, next) ==
  /\ pc = side
  /\ osd \in PortList
  /\ \/ /\ Works
        /\ applied' = [applied EXCEPT ![side] = "rect"]
        /\ crop' = [crop EXCEPT ![side] = "rect"]
        /\ pc' = next
     \/ Fails(side) /\ pc' = "blend" /\ UNCHANGED cropVars
  /\ UNCHANGED <<program, fault, vdc, pHandle, frameVars, portVars, muteVars, publicVars>>

(* SetRect sets no port index when there is no port, and no index finds a  *)
(* port in the empty PortList.                                             *)
UpdateCropFaults ==
  /\ pc = "in"
  /\ osd \notin PortList
  /\ Crash("UpdateCrop", "port")
  /\ UNCHANGED <<program, failed, hnd, frame, ev, initVars, publicVars>>

ConfigCommonPlaneBlend ==
  /\ pc = "blend"
  /\ Works \/ Fails("blend")
  /\ pc' = "mute"
  /\ UNCHANGED <<program, fault, frameVars, initVars, publicVars>>

(* ConfigCommonMute: the cache is set after the component.                 *)
ConfigCommonMute(step, type) ==
  \/ Works /\ plane' = type /\ mute' = type
  \/ Fails(step) /\ UNCHANGED muteVars

(* The plane starts black; then the daemon is published.                   *)
MuteBlack ==
  /\ pc = "mute"
  /\ ConfigCommonMute("mute", "MuteBlack")
  /\ pc' = IF program = "daemon" THEN "addService" ELSE "run"
  /\ UNCHANGED <<program, fault, vdc, pHandle, frameVars, portVars, cropVars, publicVars>>

AddService ==
  /\ pc = "addService"
  /\ published' = TRUE
  /\ pc' = "run"
  /\ UNCHANGED <<program, failed, fault, initialized, frameVars, initVars>>

(* run(): the daemon never comes back from it, display_init after one      *)
(* sleep.                                                                  *)
Run ==
  /\ pc = "run"
  /\ initialized' = TRUE
  /\ pc' = IF program = "daemon" THEN "serving" ELSE "submit"
  /\ UNCHANGED <<program, failed, fault, published, frameVars, initVars>>

-----------------------------------------------------------------------------
(* The frame of display_init: DisplayManager::EmptyBuffer reads the handle *)
(* and blocks in the component's EmptyBuffer ...                           *)
EmptyBufferFaults ==
  /\ pc = "submit"
  /\ hnd = "null"
  /\ Crash("EMPTY_BUFFER", "hnd")
  /\ UNCHANGED <<program, failed, hnd, frame, ev, initVars, publicVars>>

(* Mutant of Submit: the call does not block.                              *)
SubmitUnblocked ==
  /\ pc = "submit"
  /\ hnd = "valid"
  /\ \/ Works /\ frame' = "given"
     \/ Fails("submit") /\ UNCHANGED frame
  /\ pc' = "unmute"
  /\ UNCHANGED <<program, fault, refs, hnd, ev, initVars, publicVars>>

Submit ==
  /\ pc = "submit"
  /\ hnd = "valid"
  /\ \/ Works /\ frame' = "given" /\ pc' = "wait"
     \/ Fails("submit") /\ pc' = "unmute" /\ UNCHANGED frame
  /\ UNCHANGED <<program, fault, refs, hnd, ev, initVars, publicVars>>

(* Mutant of FrameDone: the callback signals the waiter and stores nothing. *)
FrameDoneSignalOnly ==
  /\ frame = "given"
  /\ frame' = "done"
  /\ UNCHANGED <<program, pc, failed, fault, refs, hnd, ev, initVars, publicVars>>

(* ... until the component is done with the frame and its callback has     *)
(* stored the completion ...                                               *)
FrameDone ==
  /\ frame = "given"
  /\ frame' = "done" /\ ev' = "done"
  /\ UNCHANGED <<program, pc, failed, fault, refs, hnd, initVars, publicVars>>

(* ... and the waiter has found it there.                                  *)
Return ==
  /\ pc = "wait"
  /\ ev = "done"
  /\ ev' = "none"
  /\ pc' = "unmute"
  /\ UNCHANGED <<program, failed, fault, refs, hnd, frame, initVars, publicVars>>

(* Each wait ends after a second without a completion.  The thread has     *)
(* left the wait then, but does not have BasePort::lock back ...           *)
TimeOut ==
  /\ pc = "wait"
  /\ ev = "none"
  /\ pc' = "timedout"
  /\ UNCHANGED <<program, failed, fault, frameVars, initVars, publicVars>>

(* ... and when it has, wait_event overwrites the event with the time-out  *)
(* whatever it was, clears it, and EmptyBuffer waits again.                *)
ResumeTimedOut ==
  /\ pc = "timedout"
  /\ ev' = "none"
  /\ pc' = "wait"
  /\ UNCHANGED <<program, failed, fault, refs, hnd, frame, initVars, publicVars>>

(* ChangeMute follows, whatever EmptyBuffer returned.  A cache that was    *)
(* never set may already say "unmuted".                                    *)
Unmute ==
  /\ pc = "unmute"
  /\ \/ mute = "unset" /\ UNCHANGED <<failed, muteVars>>
     \/ ConfigCommonMute("unmute", "MuteDisable")
  /\ pc' = "return"
  /\ UNCHANGED <<program, fault, vdc, pHandle, frameVars, portVars, cropVars, publicVars>>

(* delete hnd closes nothing; the end of the process closes everything.    *)
Exit ==
  /\ pc = "return"
  /\ pc' = "exit"
  /\ refs' = {}
  /\ UNCHANGED <<program, failed, fault, hnd, frame, ev, initVars, publicVars>>

-----------------------------------------------------------------------------
(* Mutant of Dereferenced: dump does not test its pointers.                *)
DereferencedUntested(code) ==
  CASE code \in {"EMPTY_BUFFER", "CHANGE_PLANE_SHOW"} -> {"port"}
    [] code \in {"SET_ACTIVE_CONFIG", "DUMP"} -> {"VdcPort0"}

(* The pointers a handler uses without a test: both dump functions and     *)
(* PortSet::dump test theirs.                                              *)
Dereferenced(code) ==
  CASE code \in {"EMPTY_BUFFER", "CHANGE_PLANE_SHOW"} -> {"port"}
    [] code = "SET_ACTIVE_CONFIG" -> {"VdcPort0"}
    [] code = "DUMP" -> {}

Null(pointer) == IF pointer = "port" THEN osd = NoPort ELSE VdcPort0 # "valid"

(* The calls that wait for "initialized".                                  *)
Gated == {"EMPTY_BUFFER", "SET_ACTIVE_CONFIG"}

(* A handler of the published daemon meets a NULL pointer.  What handlers  *)
(* do otherwise is the subject of the other modules.                       *)
HandlerFaults(code) ==
  /\ published /\ pc # "crash"
  /\ code \in Gated => initialized
  /\ \E p \in Dereferenced(code) : Null(p) /\ Crash(code, p)
  /\ UNCHANGED <<program, failed, hnd, frame, ev, initVars, publicVars>>

-----------------------------------------------------------------------------
OmxDisplayManagerInit == OmxInit \/ GetHandle \/ AddPort

AddOsd ==
  \/ AddOsdPort \/ AddOsdPortFaults
  \/ UpdateCrop("in", "out") \/ UpdateCrop("out", "blend") \/ UpdateCropFaults
  \/ ConfigCommonPlaneBlend \/ MuteBlack

BootFrame ==
  \/ EmptyBufferFaults \/ Submit \/ Return \/ TimeOut \/ ResumeTimedOut
  \/ Unmute \/ Exit

Main ==
  \/ GetPhysicalAddress \/ OmxDisplayManagerInit \/ AddOsd
  \/ AddService \/ Run \/ BootFrame

Handlers ==
  \E code \in {"EMPTY_BUFFER", "CHANGE_PLANE_SHOW", "SET_ACTIVE_CONFIG", "DUMP"} :
    HandlerFaults(code)

Next == Main \/ FrameDone \/ Handlers

Spec == Init /\ [][Next]_vars

(* The main thread keeps running, a wait with a deadline reaches it, and   *)
(* the component finishes the frame it accepted.  Nobody has to call.      *)
FairSpec == Spec /\ WF_vars(Main) /\ WF_vars(FrameDone)
-----------------------------------------------------------------------------
Pointer == {"unset", "null", "valid"}
MuteTypes == {"unset", "MuteBlack", "MuteDisable"}

(* Type correctness of everything start-up builds.                         *)
TypeOK ==
  /\ program \in Programs
  /\ failed \subseteq Faulty
  /\ refs \subseteq {"handle", "share", "map"}
  /\ hnd \in {"null", "valid"} /\ frame \in {"none", "given", "done"}
  /\ ev \in {"none", "done"}
  /\ vdc \in Pointer /\ pHandle \in Pointer /\ VdcPort0 \in Pointer
  /\ PortIndex \in Nat /\ PortList \subseteq Nat /\ accepted \subseteq Nat
  /\ osd \in Nat \cup {NoPort}
  /\ crop \in [Side -> {"unset", "rect"}] /\ applied \in [Side -> {"unset", "rect"}]
  /\ mute \in MuteTypes /\ plane \in MuteTypes
  /\ published \in BOOLEAN /\ initialized \in BOOLEAN

(* The index nCompositePattern composes the OSD plane from.                *)
OsdIndex == 3

(* Although init() reports nothing and AddOsdPort tests nothing, a service *)
(* that clients can find has a component and an OSD port that the          *)
(* component accepted, at the index the composition uses, even when the    *)
(* output port was refused before it.                                      *)
PublishedUsable ==
  published => /\ vdc = "valid" /\ pHandle = "valid"
               /\ osd = OsdIndex /\ osd \in PortList /\ osd \in accepted

(* The failed steps that can leave a pointer bad.                          *)
Causes(pointer) ==
  CASE pointer = "vdc" -> {"OMX_Init"}
    [] pointer = "pHandle" -> {"OMX_GetHandle"}
    [] pointer = "VdcPort0" -> {"AddPort"}
    [] pointer = "port" -> {"AddOsdPort"}
    [] pointer = "hnd" -> IonSteps

(* A bad pointer is used only after the step that should have set it       *)
(* failed; and once the service is published the only one left to meet is  *)
(* the refused output port, in setActiveConfig.                            *)
FaultsTraced ==
  fault # NoFault =>
    /\ Causes(fault[2]) \cap failed # {}
    /\ published => fault = <<"SET_ACTIVE_CONFIG", "VdcPort0">>

(* What the port caches as its rectangles is what the component applies,   *)
(* whichever of the two it refuses; and an output rectangle is never       *)
(* applied over an input rectangle that was refused.                       *)
CropTruthful ==
  /\ crop = applied
  /\ applied["out"] = "rect" => applied["in"] = "rect"

(* While the display reads the frame of display_init its memory is         *)
(* allocated, although get_physical_address has freed, unmapped and closed *)
(* what it knows of before the frame is submitted.                         *)
FrameBacked == frame = "given" => refs # {}

(* display_init unmutes the plane only over a frame the component is done  *)
(* with, unless the frame was refused; and it exits with the plane         *)
(* unmuted if nothing failed.                                              *)
BootFrameShown ==
  /\ plane = "MuteDisable" /\ "submit" \notin failed => frame = "done"
  /\ pc = "exit" /\ failed = {} => plane = "MuteDisable"

(* The completion of the boot frame is stored between a time-out and the   *)
(* moment the timed-out thread has BasePort::lock again.                   *)
TimeOutRace == pc = "timedout" /\ ev = "done"

(* While nothing fails the daemon gets to serve; and display_init, which   *)
(* waits for its frame, gets to exit, provided the completion does not     *)
(* fall into that window.                                                  *)
StartsUp ==
  /\ program = "daemon" /\ [](failed = {}) => <>(pc = "serving")
  /\ program = "display_init" /\ [](failed = {} /\ ~TimeOutRace) => <>(pc = "exit")
=============================================================================
