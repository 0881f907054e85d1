---------------------------- MODULE EmptyBuffer ----------------------------
(***************************************************************************)
(* BaseComponent::EmptyBuffer, the blocking hand-over of one frame to an   *)
(* OpenMAX component, together with the callback that takes the buffer     *)
(* header back (default_empty_buffer_done) and the event slot on which the *)
(* two meet (BasePort::wait_event and BasePort::notify_event).             *)
(*                                                                         *)
(* A thread works on one call at a time.  Critical sections that contain   *)
(* no blocking call (the two list locks, BasePort::lock) are one action    *)
(* each.  mEmptyBuffer_lock is held across the wait, so it is a variable.  *)
(* The component behind OMX_EmptyThisBuffer is not in the repository: it   *)
(* accepts or rejects a header, keeps an accepted one for a while, and     *)
(* hands headers back one at a time on a thread of its own.                *)
(***************************************************************************)
CONSTANTS
  Thread,    \* the threads that call EmptyBuffer (binder threads)
  Header,    \* the addresses malloc can return for an OMX_BUFFERHEADERTYPE
  Modes,     \* the values callers pass for the argument "blocked"
  Options,   \* what callers pass for the argument "option"
  Results,   \* what OMX_EmptyThisBuffer may return
  NoThread,  \* nobody holds mEmptyBuffer_lock
  NoHeader   \* no header

ASSUME ConstantsAssumption ==
  /\ NoThread \notin Thread
  /\ NoHeader \notin Header
  /\ Modes \subseteq BOOLEAN
  /\ Options \subseteq {"null", "frame", "noluma"}
  /\ Results \subseteq {"ok", "error"}

VARIABLES
  pc,       \* where each thread is inside EmptyBuffer
  mode,     \* its argument "blocked"
  hdr,      \* its local OMXBuff->omx_buffer
  owner,    \* mEmptyBuffer_lock
  live,     \* the headers allocated and not yet freed
  private,  \* the headers whose pOutputPortPrivate block is allocated
  omxList,  \* Omx_BufferHeaderList of the component
  used,     \* Used, the list of the port
  blocked,  \* BasePort::blocked
  ev,       \* BasePort::ev
  held,     \* the headers the component has accepted and not handed back
  cbPc,     \* where the callback thread is inside default_empty_buffer_done
  cbHdr,    \* its argument pBuffer
  torn      \* a node of omxList was freed while the callback walks the list

threadVars    == <<pc, mode, hdr, owner>>
memoryVars    == <<live, private>>
portVars      == <<used, blocked, ev>>
componentVars == <<held, cbPc, cbHdr, torn>>
vars == <<threadVars, memoryVars, omxList, portVars, componentVars>>

-----------------------------------------------------------------------------
EventNone == "HWC_OMX_EVENT_NONE"
EventDone == "HWC_OMX_EMPTY_BUFFER_DONE"

(* The points of EmptyBuffer at which another actor can interfere.  The    *)
(* value HWC_OMX_TIMEOUT is stored and cleared within one critical section *)
(* of wait_event, so ev never shows it between two actions.                *)
Preparing == {"list", "used", "flag", "submit"}
Waiting   == {"wait", "cond", "woken", "timedout"}
ThreadPc  == {"idle", "reject", "fail", "return", "unuse"} \cup Preparing \cup Waiting
CallbackPc == {"idle", "get", "delete", "flag", "notify", "unuse", "trap"}

Init ==
  /\ pc = [t \in Thread |-> "idle"]
  /\ mode = [t \in Thread |-> FALSE]
  /\ hdr = [t \in Thread |-> NoHeader]
  /\ owner = NoThread
  /\ live = {} /\ private = {}
  /\ omxList = {}
  /\ used = {} /\ blocked = FALSE /\ ev = EventNone
  /\ held = {} /\ cbPc = "idle" /\ cbHdr = NoHeader /\ torn = FALSE

Goto(t, label) == pc' = [pc EXCEPT ![t] = label]

(* Every return of EmptyBuffer releases mEmptyBuffer_lock (Autolock).      *)
Return(t) ==
  /\ Goto(t, "idle")
  /\ mode' = [mode EXCEPT ![t] = FALSE]
  /\ hdr' = [hdr EXCEPT ![t] = NoHeader]
  /\ owner' = NoThread

-----------------------------------------------------------------------------
(* Mutant of Enter: the header is not allocated.                           *)
EnterUnallocated(t, b, option) ==
  /\ pc[t] = "idle"
  /\ owner = NoThread
  /\ owner' = t
  /\ mode' = [mode EXCEPT ![t] = b]
  /\ Goto(t, IF option = "noluma" THEN "reject" ELSE "list")
  /\ UNCHANGED <<hdr, memoryVars, omxList, portVars, componentVars>>

(* Entry: take the lock, allocate the header and, when an option is given, *)
(* its private copy.                                                       *)
Enter(t, b, option) ==
  /\ pc[t] = "idle"
  /\ owner = NoThread
  /\ \E h \in Header \ live :
       /\ live' = live \cup {h}
       /\ private' = IF option = "null" THEN private ELSE private \cup {h}
       /\ hdr' = [hdr EXCEPT ![t] = h]
  /\ owner' = t
  /\ mode' = [mode EXCEPT ![t] = b]
  /\ Goto(t, IF option = "noluma" THEN "reject" ELSE "list")
  /\ UNCHANGED <<omxList, portVars, componentVars>>

(* Mutant of Reject: the early return forgets free(oPrivate).              *)
RejectKeepsPrivate(t) ==
  /\ pc[t] = "reject"
  /\ live' = live \ {hdr[t]}
  /\ Return(t)
  /\ UNCHANGED <<private, omxList, portVars, componentVars>>

(* An option without a luma address: free both blocks and return -1.       *)
Reject(t) ==
  /\ pc[t] = "reject"
  /\ live' = live \ {hdr[t]}
  /\ private' = private \ {hdr[t]}
  /\ Return(t)
  /\ UNCHANGED <<omxList, portVars, componentVars>>

AddToHeaderList(t) ==
  /\ pc[t] = "list"
  /\ omxList' = omxList \cup {hdr[t]}
  /\ Goto(t, "used")
  /\ UNCHANGED <<mode, hdr, owner, memoryVars, portVars, componentVars>>

AddToUsed(t) ==
  /\ pc[t] = "used"
  /\ used' = used \cup {hdr[t]}
  /\ Goto(t, "flag")
  /\ UNCHANGED <<mode, hdr, owner, memoryVars, omxList, blocked, ev, componentVars>>

SetBlockedFlag(t) ==
  /\ pc[t] = "flag"
  /\ blocked' = mode[t]
  /\ Goto(t, "submit")
  /\ UNCHANGED <<mode, hdr, owner, memoryVars, omxList, used, ev, componentVars>>

(* Mutant of SubmitOk: the argument "blocked" is ignored.                  *)
SubmitWithoutWaiting(t) ==
  /\ pc[t] = "submit"
  /\ "ok" \in Results
  /\ held' = held \cup {hdr[t]}
  /\ Goto(t, "return")
  /\ UNCHANGED <<mode, hdr, owner, memoryVars, omxList, portVars, cbPc, cbHdr, torn>>

(* OMX_EmptyThisBuffer accepts the header ...                              *)
SubmitOk(t) ==
  /\ pc[t] = "submit"
  /\ "ok" \in Results
  /\ held' = held \cup {hdr[t]}
  /\ Goto(t, IF mode[t] THEN "wait" ELSE "return")
  /\ UNCHANGED <<mode, hdr, owner, memoryVars, omxList, portVars, cbPc, cbHdr, torn>>

(* ... or rejects it.                                                      *)
SubmitError(t) ==
  /\ pc[t] = "submit"
  /\ "error" \in Results
  /\ Goto(t, "fail")
  /\ UNCHANGED <<mode, hdr, owner, memoryVars, omxList, portVars, componentVars>>

(* The error path frees the header and leaves its address in Used.  The    *)
(* list lock it takes does not stop a walk of the callback.                *)
Fail(t) ==
  /\ pc[t] = "fail"
  /\ torn' = (torn \/ cbPc = "get")
  /\ omxList' = omxList \ {hdr[t]}
  /\ private' = private \ {hdr[t]}
  /\ live' = live \ {hdr[t]}
  /\ Return(t)
  /\ UNCHANGED <<portVars, held, cbPc, cbHdr>>

(* Mutant of ReturnUnblocked: the caller frees what it allocated.          *)
ReturnAndFree(t) ==
  /\ pc[t] = "return"
  /\ live' = live \ {hdr[t]}
  /\ Return(t)
  /\ UNCHANGED <<private, omxList, portVars, componentVars>>

ReturnUnblocked(t) ==
  /\ pc[t] = "return"
  /\ Return(t)
  /\ UNCHANGED <<memoryVars, omxList, portVars, componentVars>>

-----------------------------------------------------------------------------
(* Mutant of TestEvent: the event is not cleared.                          *)
TestEventKept(t) ==
  /\ IF ev = EventDone THEN Goto(t, "unuse") ELSE Goto(t, "cond")
  /\ UNCHANGED <<mode, hdr, owner, memoryVars, omxList, portVars, componentVars>>

(* BasePort::wait_event(HWC_OMX_EMPTY_BUFFER_DONE).  The loop test:        *)
(* consume the event and leave with 0, or sleep on the condition variable. *)
TestEvent(t) ==
  /\ IF ev = EventDone
       THEN Goto(t, "unuse") /\ ev' = EventNone
       ELSE Goto(t, "cond") /\ UNCHANGED ev
  /\ UNCHANGED <<mode, hdr, owner, memoryVars, omxList, used, blocked, componentVars>>

WaitEvent(t) == pc[t] = "wait" /\ TestEvent(t)

(* pthread_cond_timedwait gives up: the thread is no longer a waiter, and  *)
(* still has to get BasePort::lock back.                                   *)
TimeOut(t) ==
  /\ pc[t] = "cond"
  /\ Goto(t, "timedout")
  /\ UNCHANGED <<mode, hdr, owner, memoryVars, omxList, portVars, componentVars>>

SpuriousWakeup(t) ==
  /\ pc[t] = "cond"
  /\ Goto(t, "woken")
  /\ UNCHANGED <<mode, hdr, owner, memoryVars, omxList, portVars, componentVars>>

(* The lock is back after a wake-up: test again.                           *)
ResumeWoken(t) == pc[t] = "woken" /\ TestEvent(t)

(* Mutant of ResumeTimedOut: EmptyBuffer does not wait again.              *)
GiveUp(t) ==
  /\ pc[t] = "timedout"
  /\ ev' = EventNone
  /\ Goto(t, "unuse")
  /\ UNCHANGED <<mode, hdr, owner, memoryVars, omxList, used, blocked, componentVars>>

(* The lock is back after a time-out: ev becomes HWC_OMX_TIMEOUT whatever  *)
(* it was, the loop ends, ev is cleared, and ETIMEDOUT makes EmptyBuffer   *)
(* call wait_event again.                                                  *)
ResumeTimedOut(t) ==
  /\ pc[t] = "timedout"
  /\ ev' = EventNone
  /\ Goto(t, "wait")
  /\ UNCHANGED <<mode, hdr, owner, memoryVars, omxList, used, blocked, componentVars>>

(* Mutant of DropFromUsed: the header stays in Used.                       *)
LeaveInUsed(t) ==
  /\ pc[t] = "unuse"
  /\ Return(t)
  /\ UNCHANGED <<memoryVars, omxList, portVars, componentVars>>

(* The wait is over: drop the header from Used and return 0.               *)
DropFromUsed(t) ==
  /\ pc[t] = "unuse"
  /\ used' = used \ {hdr[t]}
  /\ Return(t)
  /\ UNCHANGED <<memoryVars, omxList, blocked, ev, componentVars>>

-----------------------------------------------------------------------------
(* The component is done with a header and enters the callback, which      *)
(* frees the private block first.                                          *)
HandBack(h) ==
  /\ cbPc = "idle"
  /\ h \in held
  /\ held' = held \ {h}
  /\ private' = private \ {h}
  /\ cbPc' = "get" /\ cbHdr' = h
  /\ UNCHANGED <<threadVars, live, omxList, portVars, torn>>

(* Omx_BufferHeaderList::Get walks the list without its lock: the walk     *)
(* lasts from the state cbPc = "get" to this step, which ends it.  The     *)
(* header is in the list and the walk finds it, unless a node was freed    *)
(* under the walk: the node may have become the new tail meanwhile, and    *)
(* then Get answers NULL and nothing is deleted.                           *)
GetHeader ==
  /\ cbPc = "get"
  /\ \/ cbPc' = "delete"
     \/ torn /\ cbPc' = "flag"
  /\ torn' = FALSE
  /\ UNCHANGED <<threadVars, memoryVars, omxList, portVars, held, cbHdr>>

DeleteHeader ==
  /\ cbPc = "delete"
  /\ omxList' = omxList \ {cbHdr}
  /\ live' = live \ {cbHdr}
  /\ cbPc' = "flag"
  /\ UNCHANGED <<threadVars, private, portVars, held, cbHdr, torn>>

ReadBlockedFlag ==
  /\ cbPc = "flag"
  /\ cbPc' = IF blocked THEN "notify" ELSE "unuse"
  /\ UNCHANGED <<threadVars, memoryVars, omxList, portVars, held, cbHdr, torn>>

(* Mutant of NotifyEvent: the waiter is signalled, nothing is stored.      *)
SignalOnly ==
  /\ cbPc = "notify"
  /\ pc' = [t \in Thread |-> IF pc[t] = "cond" THEN "woken" ELSE pc[t]]
  /\ cbPc' = "trap"
  /\ UNCHANGED <<mode, hdr, owner, memoryVars, omxList, portVars, held, cbHdr, torn>>

(* BasePort::notify_event: store the event and signal the waiter, if any.  *)
NotifyEvent ==
  /\ cbPc = "notify"
  /\ ev' = EventDone
  /\ pc' = [t \in Thread |-> IF pc[t] = "cond" THEN "woken" ELSE pc[t]]
  /\ cbPc' = "trap"
  /\ UNCHANGED <<mode, hdr, owner, memoryVars, omxList, used, blocked, held, cbHdr, torn>>

CallbackUnuse ==
  /\ cbPc = "unuse"
  /\ used' = used \ {cbHdr}
  /\ cbPc' = "trap"
  /\ UNCHANGED <<threadVars, memoryVars, omxList, blocked, ev, held, cbHdr, torn>>

(* The error check trap reads the sizes of both lists, logs, and returns.  *)
CheckTrap ==
  /\ cbPc = "trap"
  /\ cbPc' = "idle" /\ cbHdr' = NoHeader
  /\ UNCHANGED <<threadVars, memoryVars, omxList, portVars, held, torn>>

-----------------------------------------------------------------------------
(* The steps a thread takes by itself once it is inside EmptyBuffer.       *)
Advance(t) ==
  \/ Reject(t) \/ AddToHeaderList(t) \/ AddToUsed(t) \/ SetBlockedFlag(t)
  \/ SubmitOk(t) \/ SubmitError(t) \/ Fail(t) \/ ReturnUnblocked(t)
  \/ WaitEvent(t) \/ ResumeWoken(t) \/ ResumeTimedOut(t) \/ DropFromUsed(t)

Callback ==
  \/ GetHeader \/ DeleteHeader \/ ReadBlockedFlag
  \/ NotifyEvent \/ CallbackUnuse \/ CheckTrap

Next ==
  \/ \E t \in Thread :
       \/ \E b \in Modes, option \in Options : Enter(t, b, option)
       \/ Advance(t) \/ TimeOut(t) \/ SpuriousWakeup(t)
  \/ \E h \in held : HandBack(h)
  \/ Callback

Spec == Init /\ [][Next]_vars

(* A thread inside EmptyBuffer keeps running, a wait with a deadline       *)
(* reaches it, and the component finishes what it accepted.  Nobody has to *)
(* call EmptyBuffer, and no waiter has to be woken spuriously.             *)
Fairness ==
  /\ \A t \in Thread : WF_vars(Advance(t)) /\ WF_vars(TimeOut(t))
  /\ WF_vars(\E h \in held : HandBack(h))
  /\ WF_vars(Callback)

FairSpec == Spec /\ Fairness

-----------------------------------------------------------------------------
TypeOK ==
  /\ pc \in [Thread -> ThreadPc]
  /\ mode \in [Thread -> BOOLEAN]
  /\ hdr \in [Thread -> Header \cup {NoHeader}]
  /\ owner \in Thread \cup {NoThread}
  /\ live \subseteq Header /\ private \subseteq Header
  /\ omxList \subseteq Header
  /\ used \subseteq Header /\ blocked \in BOOLEAN
  /\ ev \in {EventNone, EventDone}
  /\ held \subseteq Header
  /\ cbPc \in CallbackPc /\ cbHdr \in Header \cup {NoHeader}
  /\ torn \in BOOLEAN

(* The component never holds a header that EmptyBuffer or the callback has *)
(* freed, and the callback never works on one before it frees it itself:   *)
(* header addresses are reused, and free and accept run on two threads.    *)
HeldHeadersAlive ==
  /\ held \subseteq live
  /\ cbPc \in {"get", "delete"} => cbHdr \in live \ held

(* When every call blocks: whichever way the calls ended, once nothing is  *)
(* in progress every header and every private block is freed and the       *)
(* component's header list is empty.                                       *)
NothingLeaks ==
  owner = NoThread /\ held = {} /\ cbPc \in {"idle", "trap"}
    => live = {} /\ private = {} /\ omxList = {}

(* When every call blocks: a call that is about to return 0 has had its    *)
(* own header handed back, so the caller may reuse the frame's memory.     *)
ReturnsAfterHandBack ==
  \A t \in Thread : pc[t] = "unuse" => hdr[t] \notin held /\ hdr[t] \notin live

(* When every call blocks: no thread changes the component's header list   *)
(* while the callback walks it without the lock.                           *)
WalkUndisturbed ==
  cbPc = "get" => \A t \in Thread : pc[t] \notin {"list", "fail"}

(* When every call blocks: as long as the component rejects nothing, the   *)
(* port's Used list is empty between calls.                                *)
UsedDrained ==
  [](\A t \in Thread : pc[t] # "fail") => [](owner = NoThread => used = {})

(* When every call blocks: a stored HWC_OMX_EMPTY_BUFFER_DONE belongs to    *)
(* the call now waiting.  None is left behind for the next call, whose     *)
(* first test would take it for its own completion.                        *)
NoStaleCompletion ==
  ev = EventDone =>
    \E t \in Thread : pc[t] \in Waiting /\ hdr[t] \notin held /\ hdr[t] \notin live

(* The completion is stored between a time-out of pthread_cond_timedwait   *)
(* and the moment the timed-out thread has BasePort::lock again.           *)
TimeOutRace == \E t \in Thread : pc[t] = "timedout" /\ ev = EventDone

(* The component or the callback still has the header of each waiting      *)
(* call, or its completion is stored and the thread is not asleep.         *)
CompletionsComing ==
  \A t \in Thread : pc[t] \in Waiting =>
    \/ hdr[t] \in held
    \/ cbHdr = hdr[t] /\ cbPc \in {"get", "delete", "flag", "notify"}
    \/ ev = EventDone /\ pc[t] # "cond"

(* When every call blocks, and provided no completion falls into that      *)
(* window: no waiting call is forgotten.  Neither a time-out, nor a        *)
(* spurious wake-up, nor another caller makes its completion disappear.    *)
NotForgotten == []~TimeOutRace => []CompletionsComing

(* Every call that got in returns, provided no completion falls into that  *)
(* window.                                                                 *)
ReturnsUnlessRaced ==
  []~TimeOutRace => \A t \in Thread : pc[t] # "idle" ~> pc[t] = "idle"

(* Without the proviso: a call that waits for its buffer eventually        *)
(* returns.  The code does not keep this promise.                          *)
WaitEnds == \A t \in Thread : pc[t] = "wait" ~> pc[t] = "idle"

-----------------------------------------------------------------------------
(* When every call blocks, EmptyBuffer is a one-frame hand-over.           *)
Frame ==
  IF held # {} THEN "given"
  ELSE IF \E t \in Thread : pc[t] \in Waiting \cup {"unuse"} THEN "done"
  ELSE "none"

Handover == INSTANCE FrameHandover WITH turn <- owner, frame <- Frame

HandoverSpec == Handover!Spec
=============================================================================
