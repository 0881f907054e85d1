--------------------------- MODULE StartUpProofs ---------------------------
(***************************************************************************)
(* Proofs about StartUp, for every set of steps that may fail.  The        *)
(* invariant says, for each point of the two programs, what the steps      *)
(* before it leave behind when they work, and which of them has failed     *)
(* when it is not there.                                                   *)
(***************************************************************************)
EXTENDS StartUp, TLAPS

IonPc  == IonSteps \cup {"close_ion"}
InitPc == {"OMX_Init", "OMX_GetHandle", "AddPort", "AddOsdPort"}
OsdPc  == {"in", "out", "blend", "mute"}
Waits  == {"wait", "timedout"}
EndPc  == Waits \cup {"submit", "unmute", "return", "exit"}

(* Which program is where.                                                 *)
PlaceInv ==
  /\ pc \in IonPc \cup InitPc \cup OsdPc \cup EndPc
            \cup {"addService", "run", "serving", "crash"}
  /\ program = "daemon" => pc \notin IonPc \cup EndPc
  /\ program # "daemon" => ~published /\ pc \notin {"addService", "serving"}
  /\ published => pc \in {"run", "serving", "crash"}
  /\ fault # NoFault <=> pc = "crash"

(* display_init: the handle is valid or an ION step has failed, and the    *)
(* descriptor of ION_IOC_MAP lives as long as the handle.                  *)
BufferInv ==
  /\ hnd = "valid" /\ pc \notin {"exit", "crash"} => "share" \in refs
  /\ pc \in {"mmap", "phys"} => "share" \in refs
  /\ hnd = "null" /\ program # "daemon" /\ pc \notin IonSteps
       => failed \cap IonSteps # {}
  /\ pc \in Waits => hnd = "valid"
  /\ frame = "given" => pc \in Waits
  /\ pc \in Waits => frame # "none"
  /\ pc \in {"unmute", "return", "exit"} => frame = "done" \/ "submit" \in failed
  /\ frame = "done" => pc \in Waits \cup {"unmute", "return", "exit"}
  /\ ev = "done" => frame = "done"

MuteInv ==
  /\ plane = "MuteDisable" => pc \in {"return", "exit"}
  /\ pc \in Waits \cup {"addService", "run", "submit", "unmute"} =>
       mute = "MuteBlack" \/ "mute" \in failed
  /\ pc \in {"return", "exit"} => plane = "MuteDisable" \/ failed # {}

(* The component and its ports: there, or the step that makes them failed. *)
ComponentInv ==
  /\ pc \in IonPc \cup InitPc => PortList = {} /\ osd = NoPort
  /\ pc \in IonPc \cup {"OMX_Init", "OMX_GetHandle", "AddPort"} => PortIndex = 0
  /\ pc \in IonPc \cup {"OMX_Init"} => vdc = "unset"
  /\ pc = "OMX_GetHandle" => pHandle = "null"
  /\ pc \in {"OMX_GetHandle", "AddPort"} => vdc = "valid"
  /\ pc = "AddPort" => pHandle = "valid"
  /\ pc = "AddOsdPort" =>
       /\ vdc = "valid" \/ "OMX_Init" \in failed
       /\ pHandle = "valid" \/ vdc # "valid" \/ "OMX_GetHandle" \in failed
       /\ vdc = "valid" /\ pHandle = "valid" =>
            PortIndex = 1 /\ (VdcPort0 = "valid" \/ "AddPort" \in failed)
  /\ pc \notin IonPc \cup InitPc \cup {"crash"} =>
       /\ vdc = "valid" /\ pHandle = "valid"
       /\ VdcPort0 = "valid" \/ "AddPort" \in failed
       /\ \/ osd = OsdIndex /\ osd \in PortList /\ osd \in accepted
          \/ pc = "in" /\ osd = NoPort /\ PortList = {} /\ "AddOsdPort" \in failed

CropInv ==
  /\ pc \in IonPc \cup InitPc \cup {"in"} => crop["in"] = "unset" /\ crop["out"] = "unset"
  /\ pc = "out" => crop["in"] = "rect"

IInv == /\ TypeOK /\ PlaceInv /\ BufferInv /\ MuteInv /\ ComponentInv
        /\ PublishedUsable /\ FaultsTraced /\ CropInv /\ CropTruthful
-----------------------------------------------------------------------------
LEMMA InitInv == Init => IInv
<1> SUFFICES ASSUME Init PROVE IInv
  OBVIOUS
<1> USE DEF Init, NoFault, IonPc, IonSteps, InitPc
<1>1. TypeOK /\ CropInv /\ CropTruthful
  BY ConstantsAssumption DEF TypeOK, CropInv, CropTruthful, Side, Pointer, MuteTypes
<1>2. PlaceInv /\ BufferInv /\ MuteInv
  BY ConstantsAssumption DEF PlaceInv, BufferInv, MuteInv, EndPc, Waits
<1>3. ComponentInv /\ PublishedUsable /\ FaultsTraced
  BY ConstantsAssumption DEF ComponentInv, PublishedUsable, FaultsTraced
<1> QED
  BY <1>1, <1>2, <1>3 DEF IInv

LEMMA AcquireType ==
  ASSUME NEW step, NEW next, NEW gained \in SUBSET {"handle", "share", "map"},
         TypeOK, Acquire(step, next, gained)
  PROVE  TypeOK'
<1>1. failed' \subseteq Faulty
  BY DEF Acquire, TypeOK, Works, Fails
<1>2. refs' \subseteq {"handle", "share", "map"}
  BY DEF Acquire, TypeOK
<1>3. UNCHANGED <<program, fault, hnd, frame, ev, initVars, publicVars>>
  BY DEF Acquire
<1> QED
  BY <1>1, <1>2, <1>3
  DEF TypeOK, initVars, portVars, cropVars, muteVars, publicVars

(* Every step keeps every variable in its type.                            *)
LEMMA TypeStep ==
  ASSUME TypeOK, [Next]_vars
  PROVE  TypeOK'
<1> USE DEF TypeOK, Pointer, MuteTypes, Side,
      vars, frameVars, portVars, cropVars, muteVars, publicVars, initVars
<1>1. CASE Acquire("open", "alloc", {})
  BY <1>1, AcquireType
<1>2. CASE Acquire("alloc", "map", {"handle"})
  BY <1>2, AcquireType
<1>3. CASE Acquire("map", "mmap", {"share"})
  BY <1>3, AcquireType
<1>4. CASE Acquire("mmap", "phys", {"map"})
  BY <1>4, AcquireType
<1>5. CASE VirtToPhys
  BY <1>5 DEF VirtToPhys, Works, Fails
<1>6. CASE CloseIon
  <2>1. refs' \subseteq refs \cup {"handle"}
    BY <1>6 DEF CloseIon
  <2> QED
    BY <1>6, <2>1 DEF CloseIon
<1>7. CASE OmxInit
  BY <1>7 DEF OmxInit, Works, Fails
<1>8. CASE GetHandle
  BY <1>8 DEF GetHandle, Works, Fails
<1>9. CASE AddPort
  <2>1. PortIndex' \in Nat
    BY <1>9 DEF AddPort
  <2>2. accepted' \subseteq Nat
    BY <1>9 DEF AddPort
  <2>3. failed' \subseteq Faulty /\ VdcPort0' \in Pointer
    BY <1>9 DEF AddPort, Works, Fails
  <2> QED
    BY <1>9, <2>1, <2>2, <2>3 DEF AddPort
<1>10. CASE AddOsdPort
  <2>1. PortIndex' \in Nat /\ PortIndex + 2 \in Nat
    BY <1>10 DEF AddOsdPort
  <2>2. PortList' \subseteq Nat /\ accepted' \subseteq Nat /\ osd' \in Nat \cup {NoPort}
    BY <1>10, <2>1 DEF AddOsdPort
  <2>3. failed' \subseteq Faulty
    BY <1>10 DEF AddOsdPort, Works, Fails
  <2> QED
    BY <1>10, <2>1, <2>2, <2>3 DEF AddOsdPort
<1>11. CASE AddOsdPortFaults
  BY <1>11 DEF AddOsdPortFaults, Crash
<1>12. CASE UpdateCrop("in", "out")
  BY <1>12 DEF UpdateCrop, Works, Fails
<1>13. CASE UpdateCrop("out", "blend")
  BY <1>13 DEF UpdateCrop, Works, Fails
<1>14. CASE UpdateCropFaults
  BY <1>14 DEF UpdateCropFaults, Crash
<1>15. CASE ConfigCommonPlaneBlend
  BY <1>15 DEF ConfigCommonPlaneBlend, Works, Fails
<1>16. CASE MuteBlack
  BY <1>16 DEF MuteBlack, ConfigCommonMute, Works, Fails
<1>17. CASE AddService
  BY <1>17 DEF AddService
<1>18. CASE Run
  BY <1>18 DEF Run
<1>19. CASE EmptyBufferFaults
  BY <1>19 DEF EmptyBufferFaults, Crash
<1>20. CASE Submit
  BY <1>20 DEF Submit, Works, Fails
<1>21. CASE FrameDone
  BY <1>21 DEF FrameDone
<1>22. CASE Return \/ TimeOut \/ ResumeTimedOut
  <2>1. UNCHANGED <<program, failed, refs, hnd, frame, initVars, publicVars>>
    BY <1>22 DEF Return, TimeOut, ResumeTimedOut
  <2>2. ev' \in {"none", "done"}
    BY <1>22 DEF Return, TimeOut, ResumeTimedOut
  <2> QED
    BY <2>1, <2>2
<1>23. CASE Unmute
  BY <1>23 DEF Unmute, ConfigCommonMute, Works, Fails
<1>24. CASE Exit
  BY <1>24 DEF Exit
<1>25. CASE UNCHANGED vars
  BY <1>25
<1>26. CASE Handlers
  BY <1>26 DEF Handlers, HandlerFaults, Crash
<1> QED
  BY <1>1, <1>2, <1>3, <1>4, <1>5, <1>6, <1>7, <1>8, <1>9, <1>10, <1>11, <1>12, <1>13,
    <1>14, <1>15, <1>16, <1>17, <1>18, <1>19, <1>20, <1>21, <1>22, <1>23, <1>24, <1>25,
    <1>26
  DEF Next, Main, GetPhysicalAddress, OmxDisplayManagerInit, AddOsd, BootFrame

(* Every step leaves the program, its buffer, its frame and the plane as   *)
(* the place it goes to requires.                                          *)
LEMMA PlaceStep ==
  ASSUME TypeOK, PlaceInv, BufferInv, MuteInv, [Next]_vars
  PROVE  PlaceInv' /\ BufferInv' /\ MuteInv'
<1> USE DEF TypeOK, PlaceInv, BufferInv, MuteInv, IonPc, IonSteps, InitPc, OsdPc,
      EndPc, Waits, MuteTypes, NoFault,
      vars, frameVars, portVars, cropVars, muteVars, publicVars, initVars
<1>1. CASE Acquire("open", "alloc", {})
  BY <1>1 DEF Acquire, Works, Fails
<1>2. CASE Acquire("alloc", "map", {"handle"})
  BY <1>2 DEF Acquire, Works, Fails
<1>3. CASE Acquire("map", "mmap", {"share"})
  BY <1>3 DEF Acquire, Works, Fails
<1>4. CASE Acquire("mmap", "phys", {"map"})
  BY <1>4 DEF Acquire, Works, Fails
<1>5. CASE VirtToPhys
  BY <1>5 DEF VirtToPhys, Works, Fails
<1>6. CASE CloseIon
  <2>1. refs' \subseteq refs \cup {"handle"} /\ ("share" \in refs => "share" \in refs')
    BY <1>6 DEF CloseIon
  <2> QED
    BY <1>6, <2>1 DEF CloseIon
<1>7. CASE OmxInit
  BY <1>7 DEF OmxInit, Works, Fails
<1>8. CASE GetHandle
  BY <1>8 DEF GetHandle, Works, Fails
<1>9. CASE AddPort
  BY <1>9 DEF AddPort, Works, Fails
<1>10. CASE AddOsdPort
  BY <1>10 DEF AddOsdPort, Works, Fails
<1>11. CASE AddOsdPortFaults
  BY <1>11 DEF AddOsdPortFaults, Crash
<1>12. CASE UpdateCrop("in", "out")
  BY <1>12 DEF UpdateCrop, Works, Fails
<1>13. CASE UpdateCrop("out", "blend")
  BY <1>13 DEF UpdateCrop, Works, Fails
<1>14. CASE UpdateCropFaults
  BY <1>14 DEF UpdateCropFaults, Crash
<1>15. CASE ConfigCommonPlaneBlend
  BY <1>15 DEF ConfigCommonPlaneBlend, Works, Fails
<1>16. CASE MuteBlack
  BY <1>16 DEF MuteBlack, ConfigCommonMute, Works, Fails
<1>17. CASE AddService
  BY <1>17 DEF AddService
<1>18. CASE Run
  BY <1>18 DEF Run
<1>19. CASE EmptyBufferFaults
  BY <1>19 DEF EmptyBufferFaults, Crash
<1>20. CASE Submit
  BY <1>20 DEF Submit, Works, Fails
<1>21. CASE FrameDone
  BY <1>21 DEF FrameDone
<1>22. CASE Return \/ TimeOut \/ ResumeTimedOut
  BY <1>22 DEF Return, TimeOut, ResumeTimedOut
<1>23. CASE Unmute
  BY <1>23 DEF Unmute, ConfigCommonMute, Works, Fails
<1>24. CASE Exit
  BY <1>24 DEF Exit
<1>25. CASE UNCHANGED vars
  BY <1>25
<1>26. CASE Handlers
  BY <1>26 DEF Handlers, HandlerFaults, Crash
<1> QED
  BY <1>1, <1>2, <1>3, <1>4, <1>5, <1>6, <1>7, <1>8, <1>9, <1>10, <1>11, <1>12, <1>13,
    <1>14, <1>15, <1>16, <1>17, <1>18, <1>19, <1>20, <1>21, <1>22, <1>23, <1>24, <1>25,
    <1>26
  DEF Next, Main, GetPhysicalAddress, OmxDisplayManagerInit, AddOsd, BootFrame

(* Every step leaves the component and its ports as the place it goes to   *)
(* requires, and every crash has its cause.                                *)
LEMMA ComponentStep ==
  ASSUME TypeOK, PlaceInv, BufferInv, ComponentInv, PublishedUsable, FaultsTraced, [Next]_vars
  PROVE  ComponentInv' /\ PublishedUsable' /\ FaultsTraced'
<1> USE DEF TypeOK, PlaceInv, BufferInv, ComponentInv, PublishedUsable, FaultsTraced,
      OsdIndex, Causes, NoFault, IonPc, IonSteps, InitPc, OsdPc, EndPc, Waits,
      vars, frameVars, portVars, cropVars, muteVars, publicVars, initVars
<1>1. CASE Acquire("open", "alloc", {})
  BY <1>1 DEF Acquire, Works, Fails
<1>2. CASE Acquire("alloc", "map", {"handle"})
  BY <1>2 DEF Acquire, Works, Fails
<1>3. CASE Acquire("map", "mmap", {"share"})
  BY <1>3 DEF Acquire, Works, Fails
<1>4. CASE Acquire("mmap", "phys", {"map"})
  BY <1>4 DEF Acquire, Works, Fails
<1>5. CASE VirtToPhys
  BY <1>5 DEF VirtToPhys, Works, Fails
<1>6. CASE CloseIon
  BY <1>6 DEF CloseIon
<1>7. CASE OmxInit
  BY <1>7 DEF OmxInit, Works, Fails
<1>8. CASE GetHandle
  BY <1>8 DEF GetHandle, Works, Fails
<1>9. CASE AddPort
  BY <1>9 DEF AddPort, Works, Fails
<1>10. CASE AddOsdPort
  BY <1>10 DEF AddOsdPort, Works, Fails
<1>11. CASE AddOsdPortFaults
  BY <1>11 DEF AddOsdPortFaults, Crash
<1>12. CASE UpdateCrop("in", "out")
  BY <1>12 DEF UpdateCrop, Works, Fails
<1>13. CASE UpdateCrop("out", "blend")
  BY <1>13 DEF UpdateCrop, Works, Fails
<1>14. CASE UpdateCropFaults
  BY <1>14 DEF UpdateCropFaults, Crash
<1>15. CASE ConfigCommonPlaneBlend
  BY <1>15 DEF ConfigCommonPlaneBlend, Works, Fails
<1>16. CASE MuteBlack
  BY <1>16 DEF MuteBlack, ConfigCommonMute, Works, Fails
<1>17. CASE AddService
  BY <1>17 DEF AddService
<1>18. CASE Run
  BY <1>18 DEF Run
<1>19. CASE EmptyBufferFaults
  BY <1>19 DEF EmptyBufferFaults, Crash
<1>20. CASE Submit
  BY <1>20 DEF Submit, Works, Fails
<1>21. CASE FrameDone
  BY <1>21 DEF FrameDone
<1>22. CASE Return \/ TimeOut \/ ResumeTimedOut
  BY <1>22 DEF Return, TimeOut, ResumeTimedOut
<1>23. CASE Unmute
  BY <1>23 DEF Unmute, ConfigCommonMute, Works, Fails
<1>24. CASE Exit
  BY <1>24 DEF Exit
<1>25. CASE UNCHANGED vars
  BY <1>25
<1>26. CASE Handlers
  <2>1. PICK code \in {"EMPTY_BUFFER", "CHANGE_PLANE_SHOW", "SET_ACTIVE_CONFIG", "DUMP"} :
          HandlerFaults(code)
    BY <1>26 DEF Handlers
  <2>2. PICK p \in Dereferenced(code) : Null(p) /\ Crash(code, p)
    BY <2>1 DEF HandlerFaults
  <2>3. published /\ osd # NoPort
    BY <2>1, ConstantsAssumption DEF HandlerFaults
  <2>4. code = "SET_ACTIVE_CONFIG" /\ p = "VdcPort0" /\ VdcPort0 # "valid"
    BY <2>1, <2>2, <2>3 DEF Dereferenced, Null
  <2>5. fault' = <<"SET_ACTIVE_CONFIG", "VdcPort0">> /\ pc' = "crash"
    BY <2>2, <2>4 DEF Crash
  <2>6. "AddPort" \in failed
    BY <2>1, <2>3, <2>4 DEF HandlerFaults
  <2>7. Causes(fault'[2]) = {"AddPort"}
    BY <2>5
  <2> QED
    BY <2>1, <2>5, <2>6, <2>7 DEF HandlerFaults
<1> QED
  BY <1>1, <1>2, <1>3, <1>4, <1>5, <1>6, <1>7, <1>8, <1>9, <1>10, <1>11, <1>12, <1>13,
    <1>14, <1>15, <1>16, <1>17, <1>18, <1>19, <1>20, <1>21, <1>22, <1>23, <1>24, <1>25,
    <1>26
  DEF Next, Main, GetPhysicalAddress, OmxDisplayManagerInit, AddOsd, BootFrame

(* Every step keeps the cached rectangles those of the component.          *)
LEMMA CropStep ==
  ASSUME TypeOK, PlaceInv, CropInv, CropTruthful, [Next]_vars
  PROVE  CropInv' /\ CropTruthful'
<1> USE DEF TypeOK, PlaceInv, CropInv, CropTruthful, Side, IonPc, IonSteps, InitPc,
      OsdPc, EndPc, Waits,
      vars, frameVars, portVars, cropVars, muteVars, publicVars, initVars
<1>1. CASE Acquire("open", "alloc", {})
  BY <1>1 DEF Acquire, Works, Fails
<1>2. CASE Acquire("alloc", "map", {"handle"})
  BY <1>2 DEF Acquire, Works, Fails
<1>3. CASE Acquire("map", "mmap", {"share"})
  BY <1>3 DEF Acquire, Works, Fails
<1>4. CASE Acquire("mmap", "phys", {"map"})
  BY <1>4 DEF Acquire, Works, Fails
<1>5. CASE VirtToPhys
  BY <1>5 DEF VirtToPhys, Works, Fails
<1>6. CASE CloseIon
  BY <1>6 DEF CloseIon
<1>7. CASE OmxInit
  BY <1>7 DEF OmxInit, Works, Fails
<1>8. CASE GetHandle
  BY <1>8 DEF GetHandle, Works, Fails
<1>9. CASE AddPort
  BY <1>9 DEF AddPort, Works, Fails
<1>10. CASE AddOsdPort
  BY <1>10 DEF AddOsdPort, Works, Fails
<1>11. CASE AddOsdPortFaults
  BY <1>11 DEF AddOsdPortFaults, Crash
<1>12. CASE UpdateCrop("in", "out")
  BY <1>12 DEF UpdateCrop, Works, Fails
<1>13. CASE UpdateCrop("out", "blend")
  BY <1>13 DEF UpdateCrop, Works, Fails
<1>14. CASE UpdateCropFaults
  BY <1>14 DEF UpdateCropFaults, Crash
<1>15. CASE ConfigCommonPlaneBlend
  BY <1>15 DEF ConfigCommonPlaneBlend, Works, Fails
<1>16. CASE MuteBlack
  BY <1>16 DEF MuteBlack, ConfigCommonMute, Works, Fails
<1>17. CASE AddService
  BY <1>17 DEF AddService
<1>18. CASE Run
  BY <1>18 DEF Run
<1>19. CASE EmptyBufferFaults
  BY <1>19 DEF EmptyBufferFaults, Crash
<1>20. CASE Submit
  BY <1>20 DEF Submit, Works, Fails
<1>21. CASE FrameDone
  BY <1>21 DEF FrameDone
<1>22. CASE Return \/ TimeOut \/ ResumeTimedOut
  BY <1>22 DEF Return, TimeOut, ResumeTimedOut
<1>23. CASE Unmute
  BY <1>23 DEF Unmute, ConfigCommonMute, Works, Fails
<1>24. CASE Exit
  BY <1>24 DEF Exit
<1>25. CASE UNCHANGED vars
  BY <1>25
<1>26. CASE Handlers
  BY <1>26 DEF Handlers, HandlerFaults, Crash
<1> QED
  BY <1>1, <1>2, <1>3, <1>4, <1>5, <1>6, <1>7, <1>8, <1>9, <1>10, <1>11, <1>12, <1>13,
    <1>14, <1>15, <1>16, <1>17, <1>18, <1>19, <1>20, <1>21, <1>22, <1>23, <1>24, <1>25,
    <1>26
  DEF Next, Main, GetPhysicalAddress, OmxDisplayManagerInit, AddOsd, BootFrame

LEMMA Invariant == Spec => []IInv
<1>1. IInv /\ [Next]_vars => IInv'
  BY TypeStep, PlaceStep, ComponentStep, CropStep DEF IInv
<1> QED
  BY <1>1, InitInv, PTL DEF Spec

(* Type correctness, for every set of steps that may fail.                 *)
THEOREM TypeCorrect == Spec => []TypeOK
<1>1. IInv => TypeOK
  BY DEF IInv
<1> QED
  BY <1>1, Invariant, PTL

(* A published service has a component and an accepted OSD port at index   *)
(* 3, whatever failed before: DisplayManager::init, AddOsdPort.            *)
THEOREM ServiceUsable == Spec => []PublishedUsable
<1>1. IInv => PublishedUsable
  BY DEF IInv
<1> QED
  BY <1>1, Invariant, PTL

(* Every use of a bad pointer has its failed step, and after publication   *)
(* only setActiveConfig can meet one.                                      *)
THEOREM FaultsHaveCauses == Spec => []FaultsTraced
<1>1. IInv => FaultsTraced
  BY DEF IInv
<1> QED
  BY <1>1, Invariant, PTL

(* UpdateCrop: the cached rectangles are those the component applies.      *)
THEOREM CropIsApplied == Spec => []CropTruthful
<1>1. IInv => CropTruthful
  BY DEF IInv
<1> QED
  BY <1>1, Invariant, PTL

(* display_init: the memory of the frame is allocated while the display    *)
(* reads it, whichever ION steps fail and whatever ION_IOC_FREE frees.     *)
THEOREM FrameKept == Spec => []FrameBacked
<1>1. IInv => FrameBacked
  BY DEF IInv, BufferInv, Waits, FrameBacked
<1> QED
  BY <1>1, Invariant, PTL

(* display_init: the plane is unmuted over a finished frame only, and on   *)
(* exit if nothing failed.                                                 *)
THEOREM FrameShown == Spec => []BootFrameShown
<1>1. IInv => BootFrameShown
  BY DEF IInv, BufferInv, MuteInv, Waits, BootFrameShown
<1> QED
  BY <1>1, Invariant, PTL

(* The component still has the boot frame that is waited for, or its       *)
(* completion is stored.                                                   *)
BootFrameComing == pc \in Waits => frame = "given" \/ ev = "done"

(* The safety half of StartsUp: the wait of display_init loses its         *)
(* completion only if that is stored between a time-out and the moment the *)
(* timed-out thread has the lock again.                                    *)
THEOREM BootFrameNotForgotten == Spec => ([]~TimeOutRace => []BootFrameComing)
<1> USE DEF BootFrameComing, Waits
<1>1. Init => BootFrameComing
  BY ConstantsAssumption DEF Init
<1>2. BootFrameComing /\ ~TimeOutRace /\ [Next]_vars => BootFrameComing'
  <2> SUFFICES ASSUME BootFrameComing, ~TimeOutRace, [Next]_vars, pc' \in Waits
               PROVE  BootFrameComing'
    OBVIOUS
  <2>1. CASE GetPhysicalAddress
    BY <2>1 DEF GetPhysicalAddress, Acquire, VirtToPhys, CloseIon
  <2>2. CASE OmxDisplayManagerInit \/ AddService \/ Run
    BY <2>2 DEF OmxDisplayManagerInit, OmxInit, GetHandle, AddPort, AddService, Run
  <2>3. CASE AddOsd
    BY <2>3 DEF AddOsd, AddOsdPort, AddOsdPortFaults, UpdateCrop, UpdateCropFaults,
                ConfigCommonPlaneBlend, MuteBlack, Crash
  <2>4. CASE EmptyBufferFaults \/ Submit \/ Return \/ Unmute \/ Exit
    BY <2>4 DEF EmptyBufferFaults, Submit, Return, Unmute, Exit, Crash
  <2>5. CASE TimeOut \/ ResumeTimedOut
    BY <2>5 DEF TimeOut, ResumeTimedOut, TimeOutRace, frameVars
  <2>6. CASE FrameDone
    BY <2>6 DEF FrameDone
  <2>7. CASE Handlers
    BY <2>7 DEF Handlers, HandlerFaults, Crash
  <2>8. CASE UNCHANGED vars
    BY <2>8 DEF vars, frameVars
  <2> QED
    BY <2>1, <2>2, <2>3, <2>4, <2>5, <2>6, <2>7, <2>8 DEF Next, Main, BootFrame
<1> QED
  BY <1>1, <1>2, PTL DEF Spec
=============================================================================
