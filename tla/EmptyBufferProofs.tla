------------------------- MODULE EmptyBufferProofs -------------------------
(***************************************************************************)
(* Theorems about EmptyBuffer, for every set of threads and headers.       *)
(***************************************************************************)
EXTENDS EmptyBuffer, TLAPS

(* The program counters and the lock agree.                                *)
LockInv == \A t \in Thread : pc[t] # "idle" <=> owner = t

(* A call that has not handed its header over is alone in using it.        *)
OwnHeaderInv ==
  \A t \in Thread : pc[t] \in Preparing \cup {"reject", "fail"} =>
    /\ hdr[t] \in live \ held
    /\ cbPc \in {"get", "delete"} => cbHdr # hdr[t]

(* The inductive invariant behind HeldHeadersAlive, for all modes.         *)
AliveInv == LockInv /\ OwnHeaderInv /\ HeldHeadersAlive

-----------------------------------------------------------------------------
(* When every call blocks.  Nothing is on its way through the component:   *)
(* it holds no header, the callback is past its last access, and no        *)
(* completion is stored.                                                   *)
Quiet == held = {} /\ cbPc \in {"idle", "trap"} /\ ev = EventNone

Freed == live = {} /\ private = {} /\ omxList = {}

(* Where the header of a waiting call can be: with the component, in the   *)
(* callback before the notification, or handed back.                       *)
Outstanding(t) ==
  \/ held = {hdr[t]} /\ cbPc \in {"idle", "trap"} /\ ev = EventNone
  \/ /\ held = {} /\ ev = EventNone
     /\ cbPc \in {"get", "delete", "flag", "notify"} /\ cbHdr = hdr[t]
     /\ private = {}
     /\ cbPc \in {"flag", "notify"} => Freed
  \/ held = {} /\ cbPc \in {"idle", "trap"} /\ Freed

CallInv(t) ==
  /\ mode[t] /\ pc[t] # "return"
  /\ live \subseteq {hdr[t]} /\ private \subseteq {hdr[t]} /\ omxList \subseteq {hdr[t]}
  /\ pc[t] \in {"reject", "list"} => omxList = {}
  /\ pc[t] \in Preparing \cup {"reject", "fail"} => Quiet
  /\ pc[t] \in Waiting \cup {"submit"} => blocked
  /\ pc[t] \in Waiting => Outstanding(t)
  /\ pc[t] = "unuse" => Quiet /\ Freed

BlockInv ==
  /\ LockInv
  /\ \A t \in Thread : pc[t] # "idle" => CallInv(t)
  /\ owner = NoThread => Quiet /\ Freed
  /\ ~torn
-----------------------------------------------------------------------------
(* TypeOK is not inductive: a call must have a header to add to the lists. *)
TypeInv == TypeOK /\ \A t \in Thread : pc[t] # "idle" => hdr[t] \in Header

(* TypeInv holds in every state, for every choice of the constants.        *)
LEMMA TypeInvariant == Spec => []TypeInv
<1> USE ConstantsAssumption DEF TypeInv, TypeOK, ThreadPc, Preparing, Waiting, CallbackPc,
        EventNone, EventDone
<1>1. Init => TypeInv
  BY DEF Init
<1>2. TypeInv /\ [Next]_vars => TypeInv'
  <2> SUFFICES ASSUME TypeInv, [Next]_vars PROVE TypeInv'
    OBVIOUS
  <2> USE DEF Goto, Return, threadVars, memoryVars, portVars, componentVars
  <2>1. ASSUME NEW t \in Thread, NEW b \in Modes, NEW option \in Options, Enter(t, b, option)
        PROVE  TypeInv'
    BY <2>1 DEF Enter
  <2>2. ASSUME NEW t \in Thread, Reject(t)
        PROVE  TypeInv'
    BY <2>2 DEF Reject
  <2>3. ASSUME NEW t \in Thread, AddToHeaderList(t)
        PROVE  TypeInv'
    BY <2>3 DEF AddToHeaderList
  <2>4. ASSUME NEW t \in Thread, AddToUsed(t)
        PROVE  TypeInv'
    BY <2>4 DEF AddToUsed
  <2>5. ASSUME NEW t \in Thread, SetBlockedFlag(t)
        PROVE  TypeInv'
    BY <2>5 DEF SetBlockedFlag
  <2>6. ASSUME NEW t \in Thread, SubmitOk(t)
        PROVE  TypeInv'
    BY <2>6 DEF SubmitOk
  <2>7. ASSUME NEW t \in Thread, SubmitError(t)
        PROVE  TypeInv'
    BY <2>7 DEF SubmitError
  <2>8. ASSUME NEW t \in Thread, Fail(t)
        PROVE  TypeInv'
    BY <2>8 DEF Fail
  <2>9. ASSUME NEW t \in Thread, ReturnUnblocked(t)
        PROVE  TypeInv'
    BY <2>9 DEF ReturnUnblocked
  <2>10. ASSUME NEW t \in Thread, WaitEvent(t)
        PROVE  TypeInv'
    BY <2>10 DEF WaitEvent, TestEvent
  <2>11. ASSUME NEW t \in Thread, ResumeWoken(t)
        PROVE  TypeInv'
    BY <2>11 DEF ResumeWoken, TestEvent
  <2>12. ASSUME NEW t \in Thread, ResumeTimedOut(t)
        PROVE  TypeInv'
    BY <2>12 DEF ResumeTimedOut
  <2>13. ASSUME NEW t \in Thread, DropFromUsed(t)
        PROVE  TypeInv'
    BY <2>13 DEF DropFromUsed
  <2>14. ASSUME NEW t \in Thread, TimeOut(t)
        PROVE  TypeInv'
    BY <2>14 DEF TimeOut
  <2>15. ASSUME NEW t \in Thread, SpuriousWakeup(t)
        PROVE  TypeInv'
    BY <2>15 DEF SpuriousWakeup
  <2>16. ASSUME NEW h \in held, HandBack(h)
        PROVE  TypeInv'
    BY <2>16 DEF HandBack
  <2>17. CASE GetHeader
    BY <2>17 DEF GetHeader
  <2>18. CASE DeleteHeader
    BY <2>18 DEF DeleteHeader
  <2>19. CASE ReadBlockedFlag
    BY <2>19 DEF ReadBlockedFlag
  <2>20. CASE NotifyEvent
    BY <2>20 DEF NotifyEvent
  <2>21. CASE CallbackUnuse
    BY <2>21 DEF CallbackUnuse
  <2>22. CASE CheckTrap
    BY <2>22 DEF CheckTrap
  <2>23. CASE UNCHANGED vars
    BY <2>23 DEF vars
  <2> QED
    BY <2>1, <2>2, <2>3, <2>4, <2>5, <2>6, <2>7, <2>8, <2>9, <2>10, <2>11, <2>12, <2>13, <2>14, <2>15, <2>16, <2>17, <2>18, <2>19, <2>20, <2>21, <2>22, <2>23 DEF Next, Advance, Callback
<1> QED
  BY <1>1, <1>2, PTL DEF Spec

(* Every variable always has a value of its type.                          *)
THEOREM TypeCorrect == Spec => []TypeOK
<1>1. TypeInv => TypeOK
  BY DEF TypeInv
<1> QED
  BY <1>1, TypeInvariant, PTL

(* Whatever the callers pass and the component answers, it never holds a   *)
(* freed header, and the callback works on headers that are still alive.   *)
THEOREM HeadersAlive == Spec => []HeldHeadersAlive
<1> USE DEF AliveInv, LockInv, OwnHeaderInv, HeldHeadersAlive, Preparing, Waiting
<1>1. Init => AliveInv
  BY ConstantsAssumption DEF Init
<1>2. TypeInv /\ AliveInv /\ [Next]_vars => AliveInv'
  <2> SUFFICES ASSUME TypeInv, AliveInv, [Next]_vars PROVE AliveInv'
    OBVIOUS
  <2> USE ConstantsAssumption DEF TypeInv, TypeOK, Goto, Return,
          threadVars, memoryVars, portVars, componentVars
  <2>1. ASSUME NEW t \in Thread, NEW b \in Modes, NEW option \in Options,
               Enter(t, b, option)
        PROVE  AliveInv'
    BY <2>1 DEF Enter
  <2>2. ASSUME NEW t \in Thread, Reject(t)
        PROVE  AliveInv'
    BY <2>2 DEF Reject
  <2>3. ASSUME NEW t \in Thread, AddToHeaderList(t)
        PROVE  AliveInv'
    BY <2>3 DEF AddToHeaderList
  <2>4. ASSUME NEW t \in Thread, AddToUsed(t)
        PROVE  AliveInv'
    BY <2>4 DEF AddToUsed
  <2>5. ASSUME NEW t \in Thread, SetBlockedFlag(t)
        PROVE  AliveInv'
    BY <2>5 DEF SetBlockedFlag
  <2>6. ASSUME NEW t \in Thread, SubmitOk(t)
        PROVE  AliveInv'
    BY <2>6 DEF SubmitOk
  <2>7. ASSUME NEW t \in Thread, SubmitError(t)
        PROVE  AliveInv'
    BY <2>7 DEF SubmitError
  <2>8. ASSUME NEW t \in Thread, Fail(t)
        PROVE  AliveInv'
    BY <2>8 DEF Fail
  <2>9. ASSUME NEW t \in Thread, ReturnUnblocked(t)
        PROVE  AliveInv'
    BY <2>9 DEF ReturnUnblocked
  <2>10. ASSUME NEW t \in Thread, WaitEvent(t)
        PROVE  AliveInv'
    BY <2>10 DEF WaitEvent, TestEvent
  <2>11. ASSUME NEW t \in Thread, ResumeWoken(t)
        PROVE  AliveInv'
    BY <2>11 DEF ResumeWoken, TestEvent
  <2>12. ASSUME NEW t \in Thread, ResumeTimedOut(t)
        PROVE  AliveInv'
    BY <2>12 DEF ResumeTimedOut
  <2>13. ASSUME NEW t \in Thread, DropFromUsed(t)
        PROVE  AliveInv'
    BY <2>13 DEF DropFromUsed
  <2>14. ASSUME NEW t \in Thread, TimeOut(t)
        PROVE  AliveInv'
    BY <2>14 DEF TimeOut
  <2>15. ASSUME NEW t \in Thread, SpuriousWakeup(t)
        PROVE  AliveInv'
    BY <2>15 DEF SpuriousWakeup
  <2>16. ASSUME NEW h \in held, HandBack(h)
        PROVE  AliveInv'
    BY <2>16 DEF HandBack
  <2>17. CASE GetHeader
    BY <2>17 DEF GetHeader
  <2>18. CASE DeleteHeader
    BY <2>18 DEF DeleteHeader
  <2>19. CASE ReadBlockedFlag
    BY <2>19 DEF ReadBlockedFlag
  <2>20. CASE NotifyEvent
    BY <2>20 DEF NotifyEvent
  <2>21. CASE CallbackUnuse
    BY <2>21 DEF CallbackUnuse
  <2>22. CASE CheckTrap
    BY <2>22 DEF CheckTrap
  <2>23. CASE UNCHANGED vars
    BY <2>23 DEF vars
  <2> QED
    BY <2>1, <2>2, <2>3, <2>4, <2>5, <2>6, <2>7, <2>8, <2>9, <2>10, <2>11,
      <2>12, <2>13, <2>14, <2>15, <2>16, <2>17, <2>18, <2>19, <2>20, <2>21,
      <2>22, <2>23 DEF Next, Advance, Callback
<1>3. AliveInv => HeldHeadersAlive
  OBVIOUS
<1> QED
  BY <1>1, <1>2, <1>3, TypeInvariant, PTL DEF Spec

-----------------------------------------------------------------------------
(* A step of EmptyBuffer keeps BlockInv when every caller blocks.          *)
LEMMA BlockedStep ==
  ASSUME Modes = {TRUE}, TypeInv, BlockInv, [Next]_vars
  PROVE  BlockInv'
<1> USE DEF BlockInv, LockInv, CallInv, Outstanding, Quiet, Freed, Preparing, Waiting,
            EventNone, EventDone
<1> USE ConstantsAssumption DEF TypeInv, TypeOK, Goto, Return,
        threadVars, memoryVars, portVars, componentVars
<1>1. ASSUME NEW t \in Thread, NEW b \in Modes, NEW option \in Options,
             Enter(t, b, option)
      PROVE  BlockInv'
  BY <1>1 DEF Enter
<1>2. ASSUME NEW t \in Thread, Reject(t)
      PROVE  BlockInv'
  BY <1>2 DEF Reject
<1>3. ASSUME NEW t \in Thread, AddToHeaderList(t)
      PROVE  BlockInv'
  BY <1>3 DEF AddToHeaderList
<1>4. ASSUME NEW t \in Thread, AddToUsed(t)
      PROVE  BlockInv'
  BY <1>4 DEF AddToUsed
<1>5. ASSUME NEW t \in Thread, SetBlockedFlag(t)
      PROVE  BlockInv'
  BY <1>5 DEF SetBlockedFlag
<1>6. ASSUME NEW t \in Thread, SubmitOk(t)
      PROVE  BlockInv'
  BY <1>6 DEF SubmitOk
<1>7. ASSUME NEW t \in Thread, SubmitError(t)
      PROVE  BlockInv'
  BY <1>7 DEF SubmitError
<1>8. ASSUME NEW t \in Thread, Fail(t)
      PROVE  BlockInv'
  BY <1>8 DEF Fail
<1>9. ASSUME NEW t \in Thread, ReturnUnblocked(t)
      PROVE  BlockInv'
  BY <1>9 DEF ReturnUnblocked
<1>10. ASSUME NEW t \in Thread, WaitEvent(t)
      PROVE  BlockInv'
  BY <1>10 DEF WaitEvent, TestEvent
<1>11. ASSUME NEW t \in Thread, ResumeWoken(t)
      PROVE  BlockInv'
  BY <1>11 DEF ResumeWoken, TestEvent
<1>12. ASSUME NEW t \in Thread, ResumeTimedOut(t)
      PROVE  BlockInv'
  BY <1>12 DEF ResumeTimedOut
<1>13. ASSUME NEW t \in Thread, DropFromUsed(t)
      PROVE  BlockInv'
  BY <1>13 DEF DropFromUsed
<1>14. ASSUME NEW t \in Thread, TimeOut(t)
      PROVE  BlockInv'
  BY <1>14 DEF TimeOut
<1>15. ASSUME NEW t \in Thread, SpuriousWakeup(t)
      PROVE  BlockInv'
  BY <1>15 DEF SpuriousWakeup
<1>16. ASSUME NEW h \in held, HandBack(h)
      PROVE  BlockInv'
  BY <1>16 DEF HandBack
<1>17. CASE GetHeader
  BY <1>17 DEF GetHeader
<1>18. CASE DeleteHeader
  BY <1>18 DEF DeleteHeader
<1>19. CASE ReadBlockedFlag
  BY <1>19 DEF ReadBlockedFlag
<1>20. CASE NotifyEvent
  BY <1>20 DEF NotifyEvent
<1>21. CASE CallbackUnuse
  BY <1>21 DEF CallbackUnuse
<1>22. CASE CheckTrap
  BY <1>22 DEF CheckTrap
<1>23. CASE UNCHANGED vars
  BY <1>23 DEF vars
<1> QED
  BY <1>1, <1>2, <1>3, <1>4, <1>5, <1>6, <1>7, <1>8, <1>9, <1>10, <1>11,
    <1>12, <1>13, <1>14, <1>15, <1>16, <1>17, <1>18, <1>19, <1>20, <1>21,
    <1>22, <1>23 DEF Next, Advance, Callback

LEMMA BlockedInit == Init => BlockInv
  BY ConstantsAssumption
     DEF Init, BlockInv, LockInv, CallInv, Quiet, Freed, EventNone

(* BlockInv is invariant when every caller blocks.                         *)
LEMMA BlockedInvariant ==
  ASSUME Modes = {TRUE}
  PROVE  Spec => []BlockInv
<1>1. TypeInv /\ BlockInv /\ [Next]_vars => BlockInv'
  BY BlockedStep
<1> QED
  BY <1>1, BlockedInit, TypeInvariant, PTL DEF Spec

(* When every call blocks, a call returns 0 only after its own header has  *)
(* been handed back and freed: the caller may reuse the frame's memory.    *)
THEOREM FrameReusable ==
  ASSUME Modes = {TRUE}
  PROVE  Spec => []ReturnsAfterHandBack
<1>1. TypeInv /\ BlockInv => ReturnsAfterHandBack
  BY DEF TypeInv, TypeOK, BlockInv, LockInv, CallInv, Quiet, Freed, ReturnsAfterHandBack
<1> QED
  BY <1>1, TypeInvariant, BlockedInvariant, PTL

(* When every call blocks, no thread changes the header list under the     *)
(* unlocked walk of Omx_BufferHeaderList::Get.                             *)
THEOREM WalkSafe ==
  ASSUME Modes = {TRUE}
  PROVE  Spec => []WalkUndisturbed
<1>1. TypeInv /\ BlockInv => WalkUndisturbed
  BY DEF TypeInv, TypeOK, BlockInv, LockInv, CallInv, Quiet, Freed, WalkUndisturbed, Preparing
<1> QED
  BY <1>1, TypeInvariant, BlockedInvariant, PTL

(* When every call blocks, nothing allocated for a call outlives it,       *)
(* however the call ended.                                                 *)
THEOREM NoLeak ==
  ASSUME Modes = {TRUE}
  PROVE  Spec => []NothingLeaks
<1>1. TypeInv /\ BlockInv => NothingLeaks
  BY DEF TypeInv, TypeOK, BlockInv, LockInv, CallInv, Quiet, Freed, NothingLeaks
<1> QED
  BY <1>1, TypeInvariant, BlockedInvariant, PTL

(* When every call blocks, a stored completion is never left for a later   *)
(* call.                                                                   *)
THEOREM CompletionOwned ==
  ASSUME Modes = {TRUE}
  PROVE  Spec => []NoStaleCompletion
<1>1. TypeInv /\ BlockInv => NoStaleCompletion
  <2> SUFFICES ASSUME TypeInv, BlockInv, ev = EventDone
               PROVE  \E t \in Thread :
                        pc[t] \in Waiting /\ hdr[t] \notin held /\ hdr[t] \notin live
    BY DEF NoStaleCompletion
  <2>1. ~Quiet
    BY DEF Quiet, EventNone, EventDone
  <2>2. owner \in Thread /\ pc[owner] # "idle"
    BY <2>1 DEF TypeInv, TypeOK, BlockInv, LockInv
  <2>3. pc[owner] \in Waiting /\ Outstanding(owner)
    BY <2>1, <2>2 DEF TypeInv, TypeOK, ThreadPc, BlockInv, CallInv, Preparing
  <2>4. hdr[owner] \notin held /\ hdr[owner] \notin live
    BY <2>3 DEF Outstanding, Freed, EventNone, EventDone
  <2> QED
    BY <2>2, <2>3, <2>4
<1> QED
  BY <1>1, TypeInvariant, BlockedInvariant, PTL

(* Used holds at most the header of the call in progress, between          *)
(* Used.Add and Used.del.                                                  *)
DrainInv ==
  \A h \in used :
    /\ owner \in Thread /\ h = hdr[owner]
    /\ pc[owner] \in {"flag", "submit", "unuse"} \cup Waiting

NoRejection == \A t \in Thread : pc[t] # "fail"

LEMMA DrainStep ==
  ASSUME TypeInv, BlockInv, DrainInv, NoRejection, NoRejection', [Next]_vars
  PROVE  DrainInv'
<1> USE ConstantsAssumption DEF TypeInv, TypeOK, BlockInv, LockInv, DrainInv, Waiting,
        threadVars, memoryVars, portVars, componentVars, Goto, Return
<1>1. ASSUME NEW t \in Thread, NEW b \in Modes, NEW option \in Options,
             Enter(t, b, option)
      PROVE  DrainInv'
  BY <1>1 DEF Enter
<1>2. ASSUME NEW t \in Thread, Reject(t)
      PROVE  DrainInv'
  BY <1>2 DEF Reject
<1>3. ASSUME NEW t \in Thread, AddToHeaderList(t)
      PROVE  DrainInv'
  BY <1>3 DEF AddToHeaderList
<1>4. ASSUME NEW t \in Thread, AddToUsed(t)
      PROVE  DrainInv'
  BY <1>4 DEF AddToUsed
<1>5. ASSUME NEW t \in Thread, SetBlockedFlag(t)
      PROVE  DrainInv'
  BY <1>5 DEF SetBlockedFlag
<1>6. ASSUME NEW t \in Thread, SubmitOk(t)
      PROVE  DrainInv'
  BY <1>6 DEF SubmitOk, CallInv
<1>7. ASSUME NEW t \in Thread, SubmitError(t) \/ Fail(t)
      PROVE  FALSE
  BY <1>7 DEF SubmitError, Fail, NoRejection
<1>8. ASSUME NEW t \in Thread, ReturnUnblocked(t)
      PROVE  DrainInv'
  BY <1>8 DEF ReturnUnblocked, CallInv
<1>9. ASSUME NEW t \in Thread,
             WaitEvent(t) \/ ResumeWoken(t) \/ ResumeTimedOut(t) \/ TimeOut(t)
               \/ SpuriousWakeup(t)
      PROVE  DrainInv'
  BY <1>9 DEF WaitEvent, ResumeWoken, ResumeTimedOut, TestEvent, TimeOut, SpuriousWakeup
<1>10. ASSUME NEW t \in Thread, DropFromUsed(t)
       PROVE  DrainInv'
  BY <1>10 DEF DropFromUsed
<1>11. ASSUME NEW h \in held, HandBack(h)
       PROVE  DrainInv'
  BY <1>11 DEF HandBack
<1>12. CASE NotifyEvent
  BY <1>12 DEF NotifyEvent
<1>13. CASE GetHeader \/ DeleteHeader \/ ReadBlockedFlag \/ CallbackUnuse \/ CheckTrap
  BY <1>13 DEF GetHeader, DeleteHeader, ReadBlockedFlag, CallbackUnuse, CheckTrap
<1>14. CASE UNCHANGED vars
  BY <1>14 DEF vars
<1> QED
  BY <1>1, <1>2, <1>3, <1>4, <1>5, <1>6, <1>7, <1>8, <1>9, <1>10, <1>11, <1>12, <1>13,
     <1>14 DEF Next, Advance, Callback

(* When every call blocks and the component rejects nothing, Used is empty *)
(* between calls: no path that a completed call takes forgets its entry.   *)
THEOREM Drained ==
  ASSUME Modes = {TRUE}
  PROVE  Spec => UsedDrained
<1>1. Init => DrainInv
  BY DEF Init, DrainInv
<1>2. TypeInv /\ BlockInv /\ DrainInv /\ NoRejection /\ NoRejection' /\ [Next]_vars
        => DrainInv'
  BY DrainStep
<1>3. DrainInv => (owner = NoThread => used = {})
  BY ConstantsAssumption DEF DrainInv
<1>4. Spec /\ []NoRejection => [](owner = NoThread => used = {})
  BY <1>1, <1>2, <1>3, TypeInvariant, BlockedInvariant, PTL DEF Spec
<1> QED
  BY <1>4, PTL DEF UsedDrained, NoRejection

-----------------------------------------------------------------------------
(* Only a completion that is stored in the window could be lost: every     *)
(* step of a waiting call, of the component and of the callback keeps it.  *)
LEMMA ComingStep ==
  ASSUME Modes = {TRUE}, TypeInv, BlockInv, CompletionsComing, ~TimeOutRace, [Next]_vars
  PROVE  CompletionsComing'
<1> USE ConstantsAssumption DEF TypeInv, TypeOK, BlockInv, LockInv, CompletionsComing,
        Waiting, EventNone, EventDone, threadVars, memoryVars, portVars,
        componentVars, Goto, Return
<1>1. ASSUME NEW t \in Thread, NEW b \in Modes, NEW option \in Options,
             Enter(t, b, option)
      PROVE  CompletionsComing'
  BY <1>1 DEF Enter
<1>2. ASSUME NEW t \in Thread,
             Reject(t) \/ AddToHeaderList(t) \/ AddToUsed(t) \/ SetBlockedFlag(t)
      PROVE  CompletionsComing'
  BY <1>2 DEF Reject, AddToHeaderList, AddToUsed, SetBlockedFlag
<1>3. ASSUME NEW t \in Thread, SubmitOk(t) \/ SubmitError(t)
      PROVE  CompletionsComing'
  BY <1>3 DEF SubmitOk, SubmitError
<1>4. ASSUME NEW t \in Thread, Fail(t) \/ ReturnUnblocked(t) \/ DropFromUsed(t)
      PROVE  CompletionsComing'
  BY <1>4 DEF Fail, ReturnUnblocked, DropFromUsed
<1>5. ASSUME NEW t \in Thread, WaitEvent(t) \/ ResumeWoken(t)
      PROVE  CompletionsComing'
  BY <1>5 DEF WaitEvent, ResumeWoken, TestEvent
<1>6. ASSUME NEW t \in Thread, ResumeTimedOut(t)
      PROVE  CompletionsComing'
  BY <1>6 DEF ResumeTimedOut, TimeOutRace
<1>7. ASSUME NEW t \in Thread, TimeOut(t) \/ SpuriousWakeup(t)
      PROVE  CompletionsComing'
  BY <1>7 DEF TimeOut, SpuriousWakeup
<1>8. ASSUME NEW h \in held, HandBack(h)
      PROVE  CompletionsComing'
  BY <1>8 DEF HandBack
<1>9. CASE GetHeader \/ DeleteHeader
  BY <1>9 DEF GetHeader, DeleteHeader
<1>10. CASE ReadBlockedFlag
  <2>1. \A t \in Thread : pc[t] \in Waiting => blocked
    BY DEF CallInv
  <2> QED
    BY <1>10, <2>1 DEF ReadBlockedFlag
<1>11. CASE NotifyEvent
  BY <1>11 DEF NotifyEvent
<1>12. CASE CallbackUnuse \/ CheckTrap
  BY <1>12 DEF CallbackUnuse, CheckTrap
<1>13. CASE UNCHANGED vars
  BY <1>13 DEF vars
<1> QED
  BY <1>1, <1>2, <1>3, <1>4, <1>5, <1>6, <1>7, <1>8, <1>9, <1>10, <1>11, <1>12, <1>13
     DEF Next, Advance, Callback

(* When every call blocks, a waiting call is forgotten only if its         *)
(* completion is stored between a time-out and the moment the timed-out    *)
(* thread has the lock again: the code has no other way to lose one.       *)
THEOREM CallNotForgotten ==
  ASSUME Modes = {TRUE}
  PROVE  Spec => NotForgotten
<1>1. Init => CompletionsComing
  BY DEF Init, CompletionsComing, Waiting
<1>2. TypeInv /\ BlockInv /\ CompletionsComing /\ ~TimeOutRace /\ [Next]_vars => CompletionsComing'
  BY ComingStep
<1>3. Spec /\ []~TimeOutRace => []CompletionsComing
  BY <1>1, <1>2, TypeInvariant, BlockedInvariant, PTL DEF Spec
<1> QED
  BY <1>3, PTL DEF NotForgotten

-----------------------------------------------------------------------------
(* A step of EmptyBuffer is a step of the hand-over when every call blocks. *)
LEMMA HandoverStep ==
  ASSUME Modes = {TRUE}, TypeInv, BlockInv, [Next]_vars
  PROVE  [Handover!Next]_(Handover!handoverVars)
<1> USE DEF Frame
<1> DEFINE Step == [Handover!Next]_(Handover!handoverVars)
<1> USE ConstantsAssumption DEF TypeInv, TypeOK, BlockInv, LockInv, CallInv, Outstanding,
        Quiet, Freed, Preparing, Waiting, ThreadPc, Goto, Return,
        threadVars, memoryVars, portVars, componentVars,
        Handover!Next, Handover!Begin, Handover!Give, Handover!Done, Handover!End,
        Handover!handoverVars
<1>1. ASSUME NEW t \in Thread, NEW b \in Modes, NEW option \in Options,
             Enter(t, b, option)
      PROVE  Step
  BY <1>1 DEF Enter
<1>2. ASSUME NEW t \in Thread, Reject(t)
      PROVE  Step
  BY <1>2 DEF Reject
<1>3. ASSUME NEW t \in Thread, AddToHeaderList(t)
      PROVE  Step
  BY <1>3 DEF AddToHeaderList
<1>4. ASSUME NEW t \in Thread, AddToUsed(t)
      PROVE  Step
  BY <1>4 DEF AddToUsed
<1>5. ASSUME NEW t \in Thread, SetBlockedFlag(t)
      PROVE  Step
  BY <1>5 DEF SetBlockedFlag
<1>6. ASSUME NEW t \in Thread, SubmitOk(t)
      PROVE  Step
  BY <1>6 DEF SubmitOk
<1>7. ASSUME NEW t \in Thread, SubmitError(t)
      PROVE  Step
  BY <1>7 DEF SubmitError
<1>8. ASSUME NEW t \in Thread, Fail(t)
      PROVE  Step
  BY <1>8 DEF Fail
<1>9. ASSUME NEW t \in Thread, ReturnUnblocked(t)
      PROVE  Step
  BY <1>9 DEF ReturnUnblocked
<1>10. ASSUME NEW t \in Thread, WaitEvent(t)
      PROVE  Step
  BY <1>10 DEF WaitEvent, TestEvent
<1>11. ASSUME NEW t \in Thread, ResumeWoken(t)
      PROVE  Step
  BY <1>11 DEF ResumeWoken, TestEvent
<1>12. ASSUME NEW t \in Thread, ResumeTimedOut(t)
      PROVE  Step
  BY <1>12 DEF ResumeTimedOut
<1>13. ASSUME NEW t \in Thread, DropFromUsed(t)
      PROVE  Step
  BY <1>13 DEF DropFromUsed
<1>14. ASSUME NEW t \in Thread, TimeOut(t)
      PROVE  Step
  BY <1>14 DEF TimeOut
<1>15. ASSUME NEW t \in Thread, SpuriousWakeup(t)
      PROVE  Step
  BY <1>15 DEF SpuriousWakeup
<1>16. ASSUME NEW h \in held, HandBack(h)
      PROVE  Step
  BY <1>16 DEF HandBack
<1>17. CASE GetHeader
  BY <1>17 DEF GetHeader
<1>18. CASE DeleteHeader
  BY <1>18 DEF DeleteHeader
<1>19. CASE ReadBlockedFlag
  BY <1>19 DEF ReadBlockedFlag
<1>20. CASE NotifyEvent
  BY <1>20 DEF NotifyEvent
<1>21. CASE CallbackUnuse
  BY <1>21 DEF CallbackUnuse
<1>22. CASE CheckTrap
  BY <1>22 DEF CheckTrap
<1>23. CASE UNCHANGED vars
  BY <1>23 DEF vars
<1> QED
  BY <1>1, <1>2, <1>3, <1>4, <1>5, <1>6, <1>7, <1>8, <1>9, <1>10, <1>11,
    <1>12, <1>13, <1>14, <1>15, <1>16, <1>17, <1>18, <1>19, <1>20, <1>21,
    <1>22, <1>23 DEF Next, Advance, Callback

(* When every call blocks, EmptyBuffer implements FrameHandover: callers   *)
(* take turns, the component has one frame at a time, and a turn ends only *)
(* when the component does not have the frame.                             *)
THEOREM Implements ==
  ASSUME Modes = {TRUE}
  PROVE  Spec => HandoverSpec
<1>1. Init => Handover!Init
  BY DEF Init, Handover!Init, Frame, Waiting
<1>2. TypeInv /\ BlockInv /\ [Next]_vars => [Handover!Next]_(Handover!handoverVars)
  BY HandoverStep
<1> QED
  BY <1>1, <1>2, TypeInvariant, BlockedInvariant, PTL DEF Spec, HandoverSpec, Handover!Spec
=============================================================================
