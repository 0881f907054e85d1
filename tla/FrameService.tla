---------------------------- MODULE FrameService ----------------------------
(***************************************************************************)
(* The daemon with its real EmptyBuffer: the dispatcher of DisplayService, *)
(* where a binder thread that serves EMPTY_BUFFER runs the code of         *)
(* EmptyBuffer, its time-outs and the callback of the component, instead   *)
(* of the promise FrameHandover.  The two share the binder threads; a      *)
(* thread enters EmptyBuffer from its handler, and the handler replies     *)
(* when EmptyBuffer returns.                                               *)
(***************************************************************************)
CONSTANTS
  Worker, Client, Calls, CommandResults, NoWorker, NoClient,  \* as in DisplayService
  Header, Results, NoHeader                                   \* as in EmptyBuffer

VARIABLES
  mainPc, target, status, event, initialized, published, failed,
  commands, state, completing,
  pc, job, guard, call, done, result,
  inside,  \* EmptyBuffer's pc: where each binder thread is inside it
  mode, hdr, owner, live, private, omxList, used, blocked, ev,
  held, cbPc, cbHdr, torn

serviceVars == <<mainPc, target, status, event, initialized, published, failed,
                 commands, state, completing, pc, job, guard, call, done, result>>
bufferVars == <<inside, mode, hdr, owner, live, private, omxList, used, blocked, ev,
                held, cbPc, cbHdr, torn>>
vars == <<serviceVars, bufferVars>>

(* DisplayManager::EmptyBuffer always blocks and gives no option.          *)
Blocking == {TRUE}
NoOption == {"null"}

Buffers == INSTANCE EmptyBuffer WITH
  Thread <- Worker, NoThread <- NoWorker, pc <- inside,
  Modes <- Blocking, Options <- NoOption

(* The dispatcher sees of EmptyBuffer whose turn it is and where the frame *)
(* is.                                                                     *)
Service == INSTANCE DisplayService WITH turn <- owner, frame <- Buffers!Frame

ASSUME ConstantsAssumption == Buffers!ConstantsAssumption /\ Service!ConstantsAssumption

Init == Buffers!Init /\ Service!Init

-----------------------------------------------------------------------------
(* The start-up, the component's state changes, and the handlers of calls  *)
(* outside EmptyBuffer.                                                    *)
StartUp   == UNCHANGED bufferVars /\ Service!MainNext
Component == UNCHANGED bufferVars /\ Service!ComponentNext

SendCall(c, code) == UNCHANGED bufferVars /\ Service!SendCall(c, code)
Receive(w, c)     == UNCHANGED bufferVars /\ Service!Receive(w, c)

Handle(w) ==
  /\ UNCHANGED bufferVars
  /\ \/ Service!NotInitialized(w) \/ Service!ServeConfigs(w)
     \/ Service!LockInitialized(w) \/ Service!ServeLocked(w) \/ Service!ServeDump(w)
     \/ Service!RefuseFrame(w) \/ Service!StartFrame(w)

-----------------------------------------------------------------------------
(* A handler with a frame calls EmptyBuffer and waits there for the lock.  *)
Enter(w) ==
  /\ pc[w] = "frame"
  /\ \E b \in Blocking, option \in NoOption : Buffers!Enter(w, b, option)
  /\ UNCHANGED serviceVars

Inside(w) ==
  /\ \/ Buffers!AddToHeaderList(w) \/ Buffers!AddToUsed(w) \/ Buffers!SetBlockedFlag(w)
     \/ Buffers!SubmitOk(w) \/ Buffers!SubmitError(w)
     \/ Buffers!WaitEvent(w) \/ Buffers!ResumeWoken(w) \/ Buffers!ResumeTimedOut(w)
  /\ UNCHANGED serviceVars

TimeOut(w) == Buffers!TimeOut(w) /\ UNCHANGED serviceVars

SpuriousWakeup(w) == Buffers!SpuriousWakeup(w) /\ UNCHANGED serviceVars

(* The handler replies with what EmptyBuffer returns: -1 ...               *)
ReplyRejected(w) ==
  /\ Buffers!Fail(w)
  /\ Service!Reply(w, "failed", FALSE)
  /\ UNCHANGED <<mainPc, target, status, event, initialized, published, failed,
                 commands, state, completing, guard>>

(* ... or 0, after the plane was unmuted.                                  *)
ReplyDone(w) ==
  /\ Buffers!DropFromUsed(w)
  /\ Service!Reply(w, "ok", TRUE)
  /\ UNCHANGED <<mainPc, target, status, event, initialized, published, failed,
                 commands, state, completing, guard>>

Finish == \E h \in held : Buffers!HandBack(h) /\ UNCHANGED serviceVars

Callback == Buffers!Callback /\ UNCHANGED serviceVars

-----------------------------------------------------------------------------
(* The steps a handler takes by itself.                                    *)
Serve(w) == Handle(w) \/ Enter(w) \/ Inside(w) \/ ReplyRejected(w) \/ ReplyDone(w)

Next ==
  \/ StartUp \/ Component \/ Finish \/ Callback
  \/ \E c \in Client, code \in Service!Code : SendCall(c, code)
  \/ \E w \in Worker :
       \/ \E c \in Client : Receive(w, c)
       \/ Serve(w) \/ TimeOut(w) \/ SpuriousWakeup(w)

Spec == Init /\ [][Next]_vars

(* DisplayService's fairness for the dispatcher and EmptyBuffer's for what *)
(* goes on inside: threads run, a mutex and a binder thread are got in the *)
(* end, a deadline is reached, and the component finishes what it took.    *)
Fairness ==
  /\ SF_vars(StartUp) /\ WF_vars(Component)
  /\ WF_vars(Finish) /\ WF_vars(Callback)
  /\ \A w \in Worker : SF_vars(Serve(w)) /\ WF_vars(TimeOut(w))
  /\ \A c \in Client : SF_vars(\E w \in Worker : Receive(w, c))

FairSpec == Spec /\ Fairness

-----------------------------------------------------------------------------
TypeOK == Service!TypeOK /\ Buffers!TypeOK

(* The daemon with the real EmptyBuffer is the daemon with the promised    *)
(* hand-over: the dispatcher's properties hold of it.                      *)
ServiceSpec == Service!Spec

(* As long as no state command has failed: the component has a frame only  *)
(* while it is Executing, however early clients submit.                    *)
HeldWhenExecuting == ~failed /\ held # {} => state = "Executing"

(* While the component has a frame, the client it came from is blocked in  *)
(* its EMPTY_BUFFER: no answer, success or failure, lets a client reuse    *)
(* the memory under the display.                                           *)
CallerWaits ==
  held # {} =>
    \E w \in Worker, c \in Client :
      /\ owner = w /\ held = {hdr[w]} /\ job[w] = c
      /\ call[c] = Service!Frame /\ result[c] = "none"

(* The process has two locks that a handler holds across other steps,      *)
(* initialized_mutex and mEmptyBuffer_lock.  Whoever holds one neither     *)
(* holds nor waits for the other, so a call that shows or hides the plane  *)
(* does not wait behind a frame, and no two handlers wait for each other.  *)
NoCircularWait ==
  \A w \in Worker :
    /\ guard = w => pc[w] = "locked" /\ owner # w /\ inside[w] = "idle"
    /\ owner = w => pc[w] = "frame" /\ inside[w] # "idle"

(* Every call of every client is answered, whatever the component refuses, *)
(* provided no completion falls into the window of a time-out.             *)
AnsweredUnlessRaced ==
  []~Buffers!TimeOutRace => \A c \in Client : call[c] # Service!NoCall ~> call[c] = Service!NoCall
=============================================================================
