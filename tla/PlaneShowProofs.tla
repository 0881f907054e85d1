-------------------------- MODULE PlaneShowProofs --------------------------
(***************************************************************************)
(* Theorems about PlaneShow, for every set of threads.                     *)
(***************************************************************************)
EXTENDS PlaneShow, TLAPS

(* The thread that holds initialized_mutex is the one inside               *)
(* ChangePlaneShow; the others can only be unmuting after a frame.         *)
GuardInv ==
  \A t \in Thread :
    /\ pc[t] \in {"decide", "status", "unlock"} => guard = t
    /\ guard = t => pc[t] # "idle"
    /\ pc[t] \in {"config", "cache"} /\ guard # t => target[t] = "MuteDisable"

(* How far the holder has come: a show has unmuted the component before    *)
(* PlaneShowStatus says so, a hide has cleared PlaneShowStatus before it   *)
(* releases the mutex.                                                     *)
HolderInv ==
  ~failed => \A t \in Thread : guard = t =>
    /\ target[t] = "MuteDisable" /\ pc[t] \in {"cache", "status"} => hw = "MuteDisable"
    /\ target[t] = "MuteColored" /\ pc[t] = "unlock" => ~shown
    /\ target[t] # "MuteBlack"

ShowInv == GuardInv /\ HolderInv /\ ShownIsVisible

-----------------------------------------------------------------------------
(* Every variable always has a value of its type.                          *)
THEOREM TypeCorrect == Spec => []TypeOK
<1> USE ConstantsAssumption DEF TypeOK, ThreadPc, MuteType
<1>1. Init => TypeOK
  BY DEF Init
<1>2. TypeOK /\ [Next]_vars => TypeOK'
  <2> SUFFICES ASSUME TypeOK, [Next]_vars PROVE TypeOK'
    OBVIOUS
  <2> USE DEF Goto
  <2>1. ASSUME NEW t \in Thread, NEW show \in BOOLEAN, LockPlane(t, show)
        PROVE  TypeOK'
    BY <2>1 DEF LockPlane
  <2>2. ASSUME NEW t \in Thread, Decide(t)
        PROVE  TypeOK'
    BY <2>2 DEF Decide
  <2>3. ASSUME NEW t \in Thread, ChangeMute(t)
        PROVE  TypeOK'
    BY <2>3 DEF ChangeMute
  <2>4. ASSUME NEW t \in Thread, ConfigOk(t)
        PROVE  TypeOK'
    BY <2>4 DEF ConfigOk
  <2>5. ASSUME NEW t \in Thread, ConfigError(t)
        PROVE  TypeOK'
    BY <2>5 DEF ConfigError, AfterConfig
  <2>6. ASSUME NEW t \in Thread, SetMuteType(t)
        PROVE  TypeOK'
    BY <2>6 DEF SetMuteType, AfterConfig
  <2>7. ASSUME NEW t \in Thread, SetPlaneShowStatus(t)
        PROVE  TypeOK'
    BY <2>7 DEF SetPlaneShowStatus
  <2>8. ASSUME NEW t \in Thread, UnlockPlane(t)
        PROVE  TypeOK'
    BY <2>8 DEF UnlockPlane
  <2>9. CASE UNCHANGED vars
    BY <2>9 DEF vars
  <2> QED
    BY <2>1, <2>2, <2>3, <2>4, <2>5, <2>6, <2>7, <2>8, <2>9 DEF Next
<1> QED
  BY <1>1, <1>2, PTL DEF Spec

(* However many threads deliver frames and change the plane, and however   *)
(* wrong they leave the cache: as long as OMX_SetConfig does not fail, a   *)
(* plane reported as shown is unmuted unless it is just being hidden.      *)
THEOREM ShowVisible == Spec => []ShownIsVisible
<1> USE DEF ShowInv, GuardInv, HolderInv, ShownIsVisible, Hiding
<1>1. Init => ShowInv
  BY ConstantsAssumption DEF Init
<1>2. TypeOK /\ ShowInv /\ [Next]_vars => ShowInv'
  <2> SUFFICES ASSUME TypeOK, ShowInv, [Next]_vars PROVE ShowInv'
    OBVIOUS
  <2> USE ConstantsAssumption DEF TypeOK, ThreadPc, MuteType, Goto
  <2>1. ASSUME NEW t \in Thread, NEW show \in BOOLEAN, LockPlane(t, show)
        PROVE  ShowInv'
    BY <2>1 DEF LockPlane
  <2>2. ASSUME NEW t \in Thread, Decide(t)
        PROVE  ShowInv'
    BY <2>2 DEF Decide
  <2>3. ASSUME NEW t \in Thread, ChangeMute(t)
        PROVE  ShowInv'
    BY <2>3 DEF ChangeMute
  <2>4. ASSUME NEW t \in Thread, ConfigOk(t)
        PROVE  ShowInv'
    BY <2>4 DEF ConfigOk
  <2>5. ASSUME NEW t \in Thread, ConfigError(t)
        PROVE  ShowInv'
    BY <2>5 DEF ConfigError, AfterConfig
  <2>6. ASSUME NEW t \in Thread, SetMuteType(t)
        PROVE  ShowInv'
    BY <2>6 DEF SetMuteType, AfterConfig
  <2>7. ASSUME NEW t \in Thread, SetPlaneShowStatus(t)
        PROVE  ShowInv'
    BY <2>7 DEF SetPlaneShowStatus
  <2>8. ASSUME NEW t \in Thread, UnlockPlane(t)
        PROVE  ShowInv'
    BY <2>8 DEF UnlockPlane
  <2>9. CASE UNCHANGED vars
    BY <2>9 DEF vars
  <2> QED
    BY <2>1, <2>2, <2>3, <2>4, <2>5, <2>6, <2>7, <2>8, <2>9 DEF Next
<1>3. ShowInv => ShownIsVisible
  OBVIOUS
<1> QED
  BY <1>1, <1>2, <1>3, TypeCorrect, PTL DEF Spec

(* A black plane is not taken for an unmuted one: the cache follows the    *)
(* component, and nobody mutes the plane black after the boot.             *)
BlackInv ==
  /\ cache = "MuteDisable" => hw # "MuteBlack"
  /\ \A t \in Thread :
       /\ pc[t] # "idle" => target[t] # "MuteBlack"
       /\ pc[t] = "cache" => hw # "MuteBlack"

(* After a boot that muted the plane, a plane still black is never cached  *)
(* as unmuted, however many unmutes OMX_SetConfig refuses and however the  *)
(* frames and the show and hide requests interleave.                       *)
THEOREM BootMuteKept == Spec => BootMuteRetried
<1>1. Init /\ BootMuted => BlackInv
  BY DEF Init, BootMuted, BlackInv
<1>2. TypeOK /\ BlackInv /\ [Next]_vars => BlackInv'
  <2> SUFFICES ASSUME TypeOK, BlackInv, [Next]_vars PROVE BlackInv'
    OBVIOUS
  <2> USE DEF TypeOK, ThreadPc, MuteType, BlackInv, Goto
  <2>1. ASSUME NEW t \in Thread, NEW show \in BOOLEAN, LockPlane(t, show)
        PROVE  BlackInv'
    BY <2>1 DEF LockPlane
  <2>2. ASSUME NEW t \in Thread, Decide(t)
        PROVE  BlackInv'
    BY <2>2 DEF Decide
  <2>3. ASSUME NEW t \in Thread, ChangeMute(t)
        PROVE  BlackInv'
    BY <2>3 DEF ChangeMute
  <2>4. ASSUME NEW t \in Thread, ConfigOk(t)
        PROVE  BlackInv'
    BY <2>4 DEF ConfigOk
  <2>5. ASSUME NEW t \in Thread, ConfigError(t)
        PROVE  BlackInv'
    BY <2>5 DEF ConfigError, AfterConfig
  <2>6. ASSUME NEW t \in Thread, SetMuteType(t)
        PROVE  BlackInv'
    BY <2>6 DEF SetMuteType, AfterConfig
  <2>7. ASSUME NEW t \in Thread, SetPlaneShowStatus(t)
        PROVE  BlackInv'
    BY <2>7 DEF SetPlaneShowStatus
  <2>8. ASSUME NEW t \in Thread, UnlockPlane(t)
        PROVE  BlackInv'
    BY <2>8 DEF UnlockPlane
  <2>9. CASE UNCHANGED vars
    BY <2>9 DEF vars
  <2> QED
    BY <2>1, <2>2, <2>3, <2>4, <2>5, <2>6, <2>7, <2>8, <2>9 DEF Next
<1>3. BlackInv => (cache = "MuteDisable" => hw # "MuteBlack")
  BY DEF BlackInv
<1> QED
  BY <1>1, <1>2, <1>3, TypeCorrect, PTL DEF Spec, BootMuteRetried

-----------------------------------------------------------------------------
(* Without overlapping updates: what OMX_SetConfig last took is in the     *)
(* cache, or the thread that gave it is about to put it there.             *)
CacheInv ==
  /\ (\A t \in Thread : pc[t] # "cache") => cache = hw
  /\ \A t \in Thread : pc[t] = "cache" => hw = target[t]

LEMMA CacheStep ==
  ASSUME TypeOK, CacheInv, ~ConfigRace, ~ConfigRace', [Next]_vars
  PROVE  CacheInv'
<1> USE DEF TypeOK, ThreadPc, CacheInv, ConfigRace, Goto
<1>1. ASSUME NEW t \in Thread, NEW show \in BOOLEAN, LockPlane(t, show)
      PROVE  CacheInv'
  BY <1>1 DEF LockPlane
<1>2. ASSUME NEW t \in Thread, Decide(t)
      PROVE  CacheInv'
  BY <1>2 DEF Decide
<1>3. ASSUME NEW t \in Thread, ChangeMute(t)
      PROVE  CacheInv'
  BY <1>3 DEF ChangeMute
<1>4. ASSUME NEW t \in Thread, ConfigOk(t)
      PROVE  CacheInv'
  BY <1>4 DEF ConfigOk
<1>5. ASSUME NEW t \in Thread, ConfigError(t)
      PROVE  CacheInv'
  BY <1>5 DEF ConfigError, AfterConfig
<1>6. ASSUME NEW t \in Thread, SetMuteType(t)
      PROVE  CacheInv'
  BY <1>6 DEF SetMuteType, AfterConfig
<1>7. ASSUME NEW t \in Thread, SetPlaneShowStatus(t)
      PROVE  CacheInv'
  BY <1>7 DEF SetPlaneShowStatus
<1>8. ASSUME NEW t \in Thread, UnlockPlane(t)
      PROVE  CacheInv'
  BY <1>8 DEF UnlockPlane
<1>9. CASE UNCHANGED vars
  BY <1>9 DEF vars
<1> QED
  BY <1>1, <1>2, <1>3, <1>4, <1>5, <1>6, <1>7, <1>8, <1>9 DEF Next

(* A frame that leaves the unmuting to an earlier one finds the plane      *)
(* unmuted, unless two updates of the cache overlapped: the window of      *)
(* ConfigCommonMute is the only way in which a frame is left muted.        *)
THEOREM MuteOffKept == Spec => MuteOffUnlessRaced
<1>1. Init /\ cache = hw => CacheInv
  BY DEF Init, CacheInv
<1>2. TypeOK /\ CacheInv /\ ~ConfigRace /\ ~ConfigRace' /\ [Next]_vars => CacheInv'
  BY CacheStep
<1>3. CacheInv => MuteOffAfterFrame
  BY DEF CacheInv, MuteOffAfterFrame
<1>4. Spec /\ cache = hw /\ []~ConfigRace => []MuteOffAfterFrame
  BY <1>1, <1>2, <1>3, TypeCorrect, PTL DEF Spec
<1> QED
  BY <1>4, PTL DEF MuteOffUnlessRaced
=============================================================================
