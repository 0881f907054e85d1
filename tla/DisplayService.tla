--------------------------- MODULE DisplayService ---------------------------
(***************************************************************************)
(* The life of the display manager process and the calls of its clients.   *)
(* The main thread initializes OpenMAX, publishes the service, takes the   *)
(* component to Executing in two blocking state changes, and only then     *)
(* sets "initialized".  Calls arrive from the moment of publication, on a  *)
(* limited pool of binder threads, and BnDisplayManager::onTransact serves *)
(* each under the lock, or behind the test of "initialized", of its code.  *)
(*                                                                         *)
(* A frame is submitted through FrameHandover, the promise that a blocking *)
(* EmptyBuffer keeps.  What the handlers do to the display is the subject  *)
(* of PlaneShow and ActiveConfig.                                          *)
(***************************************************************************)
EXTENDS Naturals, Sequences, FiniteSets

CONSTANTS
  Worker,         \* the binder threads of the process
  Client,         \* the client processes, each with one call at a time
  Calls,          \* the transaction codes each client uses
  CommandResults, \* what OMX_SendCommand may return
  NoWorker,       \* nobody
  NoClient        \* no call being served

Frame   == "EMPTY_BUFFER"
Locked  == {"CHANGE_PLANE_SHOW", "SET_POWER_MODE", "default"}
Configs == {"GET_DISPLAY_CONFIGS", "SET_ACTIVE_CONFIG"}
Code    == {Frame, "DUMP"} \cup Locked \cup Configs

ASSUME ConstantsAssumption ==
  /\ NoWorker \notin Worker
  /\ NoClient \notin Client
  /\ Calls \in [Client -> SUBSET Code]
  /\ CommandResults \subseteq {"ok", "error"}

VARIABLES
  mainPc,      \* where the main thread is
  target,      \* its argument "state" of SetState
  status,      \* BaseComponent::status
  event,       \* BaseComponent::ev
  initialized, \* BnDisplayManager::initialized
  published,   \* the service manager knows the service
  failed,      \* history: OMX_SendCommand has failed
  commands,    \* the state changes the component has queued
  state,       \* the component's own state
  completing,  \* the component is about to report a completed change
  pc,          \* where each binder thread is in onTransact
  job,         \* the client it serves
  guard,       \* initialized_mutex
  call,        \* the code of each client's call
  done,        \* the manager did what the call asks for
  result,      \* what each client's last call returned
  turn, frame  \* the frame hand-over

mainVars      == <<mainPc, target, status, initialized, published, failed>>
componentVars == <<commands, state, completing>>
workerVars    == <<pc, job, guard>>
clientVars    == <<call, done, result>>
frameVars     == <<turn, frame>>
vars == <<mainVars, event, componentVars, workerVars, clientVars, frameVars>>

Frames == INSTANCE FrameHandover WITH Thread <- Worker, NoThread <- NoWorker

-----------------------------------------------------------------------------
EventNone == "HWC_OMX_EVENT_NONE"
StateChanged == "HWC_OMX_CHANGE_STATE"
NoCall == "none"

OmxState == {"Invalid", "Loaded", "Idle", "Executing"}

Init ==
  /\ mainPc = "init" /\ target = "Idle" /\ status = "Invalid"
  /\ event = EventNone /\ initialized = FALSE /\ published = FALSE /\ failed = FALSE
  /\ commands = <<>> /\ state = "Invalid" /\ completing = FALSE
  /\ pc = [w \in Worker |-> "idle"] /\ job = [w \in Worker |-> NoClient]
  /\ guard = NoWorker
  /\ call = [c \in Client |-> NoCall] /\ done = [c \in Client |-> FALSE]
  /\ result = [c \in Client |-> "none"]
  /\ Frames!Init

-----------------------------------------------------------------------------
(* DM->init(): the handle of the component exists from here on.            *)
InitOmx ==
  /\ mainPc = "init"
  /\ state' = "Loaded" /\ status' = "Loaded"
  /\ mainPc' = "publish"
  /\ UNCHANGED <<target, event, initialized, published, failed, commands, completing,
                 workerVars, clientVars, frameVars>>

(* addService, then run(), which calls start().                            *)
Publish ==
  /\ mainPc = "publish"
  /\ published' = TRUE
  /\ mainPc' = "send"
  /\ UNCHANGED <<target, status, event, initialized, failed, componentVars, workerVars,
                 clientVars, frameVars>>

(* start() goes to Idle, then to Executing, whatever SetState returns.     *)
AfterSetState ==
  IF target = "Idle" THEN mainPc' = "send" /\ target' = "Executing"
                     ELSE mainPc' = "set" /\ UNCHANGED target

(* Mutant of SendStateOk: SetState is called with its default, blocked =   *)
(* false.                                                                  *)
SendStateUnblocked ==
  /\ mainPc = "send"
  /\ "ok" \in CommandResults
  /\ commands' = Append(commands, target)
  /\ status' = target
  /\ AfterSetState
  /\ UNCHANGED <<event, initialized, published, failed, state, completing, workerVars,
                 clientVars, frameVars>>

(* SetState(target, true): OMX_SendCommand queues the change ...           *)
SendStateOk ==
  /\ mainPc = "send"
  /\ "ok" \in CommandResults
  /\ commands' = Append(commands, target)
  /\ mainPc' = "wait"
  /\ UNCHANGED <<target, status, event, initialized, published, failed, state,
                 completing, workerVars, clientVars, frameVars>>

(* Mutant of SendStateError: status is updated on the error path too.      *)
SendStateErrorIgnored ==
  /\ mainPc = "send"
  /\ "error" \in CommandResults
  /\ failed' = TRUE
  /\ status' = target
  /\ AfterSetState
  /\ UNCHANGED <<event, initialized, published, componentVars, workerVars,
                 clientVars, frameVars>>

(* ... or fails.                                                           *)
SendStateError ==
  /\ mainPc = "send"
  /\ "error" \in CommandResults
  /\ failed' = TRUE
  /\ AfterSetState
  /\ UNCHANGED <<status, event, initialized, published, componentVars, workerVars,
                 clientVars, frameVars>>

(* Mutant of WaitEvent: SetState stores the event for the state.           *)
StatusFromEvent ==
  /\ mainPc = "wait"
  /\ event = StateChanged
  /\ event' = EventNone
  /\ status' = event
  /\ AfterSetState
  /\ UNCHANGED <<initialized, published, failed, componentVars, workerVars,
                 clientVars, frameVars>>

(* BaseComponent::wait_event waits for the event without a deadline and    *)
(* consumes it.                                                            *)
WaitEvent ==
  /\ mainPc = "wait"
  /\ event = StateChanged
  /\ event' = EventNone
  /\ status' = target
  /\ AfterSetState
  /\ UNCHANGED <<initialized, published, failed, componentVars, workerVars,
                 clientVars, frameVars>>

(* run() takes initialized_mutex for this assignment alone, and then       *)
(* sleeps for ever.                                                        *)
SetInitialized ==
  /\ mainPc = "set"
  /\ guard = NoWorker
  /\ initialized' = TRUE
  /\ mainPc' = "running"
  /\ UNCHANGED <<target, status, event, published, failed, componentVars, workerVars,
                 clientVars, frameVars>>

MainNext ==
  \/ InitOmx \/ Publish \/ SendStateOk \/ SendStateError \/ WaitEvent \/ SetInitialized

-----------------------------------------------------------------------------
Legal(from, to) == <<from, to>> \in {<<"Loaded", "Idle">>, <<"Idle", "Executing">>}

(* The component changes its state and completes the command, or reports   *)
(* an error, which default_event_handler ignores.                          *)
ChangeState ==
  /\ commands # <<>> /\ ~completing
  /\ IF Legal(state, Head(commands))
       THEN state' = Head(commands) /\ completing' = TRUE
       ELSE UNCHANGED <<state, completing>>
  /\ commands' = Tail(commands)
  /\ UNCHANGED <<mainVars, event, workerVars, clientVars, frameVars>>

(* Mutant of NotifyEvent: default_event_handler ignores OMX_EventCmdComplete. *)
NotifyNothing ==
  /\ completing
  /\ completing' = FALSE
  /\ UNCHANGED <<mainVars, event, commands, state, workerVars, clientVars, frameVars>>

(* default_event_handler and BaseComponent::notify_event.                  *)
NotifyEvent ==
  /\ completing
  /\ event' = StateChanged
  /\ completing' = FALSE
  /\ UNCHANGED <<mainVars, commands, state, workerVars, clientVars, frameVars>>

ComponentNext == ChangeState \/ NotifyEvent

-----------------------------------------------------------------------------
(* A client's proxy sends a transaction and blocks.                        *)
SendCall(c, code) ==
  /\ published
  /\ call[c] = NoCall
  /\ code \in Calls[c]
  /\ call' = [call EXCEPT ![c] = code]
  /\ done' = [done EXCEPT ![c] = FALSE]
  /\ result' = [result EXCEPT ![c] = "none"]
  /\ UNCHANGED <<mainVars, event, componentVars, workerVars, frameVars>>

(* A free binder thread takes it.                                          *)
Receive(w, c) ==
  /\ pc[w] = "idle"
  /\ call[c] # NoCall /\ result[c] = "none"
  /\ \A v \in Worker : job[v] # c
  /\ job' = [job EXCEPT ![w] = c]
  /\ pc' = [pc EXCEPT ![w] = "start"]
  /\ UNCHANGED <<mainVars, event, componentVars, guard, clientVars, frameVars>>

CodeOf(w) == call[job[w]]
Goto(w, label) == pc' = [pc EXCEPT ![w] = label] /\ UNCHANGED job

(* onTransact returns: the proxy hands res to its caller, who may call     *)
(* again.  served tells whether the manager did what was asked for.        *)
Reply(w, res, served) ==
  /\ pc' = [pc EXCEPT ![w] = "idle"]
  /\ job' = [job EXCEPT ![w] = NoClient]
  /\ result' = [result EXCEPT ![job[w]] = res]
  /\ done' = [done EXCEPT ![job[w]] = served]
  /\ call' = [call EXCEPT ![job[w]] = NoCall]

(* What a proxy returns when the manager was not initialized: EmptyBuffer  *)
(* an uninitialized variable, setActiveConfig the 0 that Parcel::readInt32 *)
(* makes of an empty reply, GetDisplayConfigs INVALID_OPERATION.           *)
Unready(code) ==
  CASE code = Frame -> {"ok", "failed"}
    [] code = "SET_ACTIVE_CONFIG" -> {"ok"}
    [] OTHER -> {"failed"}

NotInitialized(w) ==
  /\ pc[w] = "start"
  /\ CodeOf(w) \in Configs \cup {Frame}
  /\ ~initialized
  /\ \E res \in Unready(CodeOf(w)) : Reply(w, res, FALSE)
  /\ UNCHANGED <<mainVars, event, componentVars, guard, frameVars>>

(* Codes served behind the test of "initialized", without a lock.          *)
ServeConfigs(w) ==
  /\ pc[w] = "start"
  /\ CodeOf(w) \in Configs
  /\ initialized
  /\ \E res \in {"ok", "failed"} : Reply(w, res, res = "ok")
  /\ UNCHANGED <<mainVars, event, componentVars, guard, frameVars>>

(* Mutant of LockInitialized: these codes take the lock of EmptyBuffer too. *)
LockFrames(w) ==
  /\ pc[w] = "start"
  /\ CodeOf(w) \in Locked
  /\ guard = NoWorker /\ turn = NoWorker
  /\ guard' = w
  /\ Goto(w, "locked")
  /\ UNCHANGED <<mainVars, event, componentVars, clientVars, frameVars>>

(* Codes served under initialized_mutex, initialized or not.  "default" is *)
(* a code that onTransact passes on to BBinder, such as that of dumpsys.   *)
LockInitialized(w) ==
  /\ pc[w] = "start"
  /\ CodeOf(w) \in Locked
  /\ guard = NoWorker
  /\ guard' = w
  /\ Goto(w, "locked")
  /\ UNCHANGED <<mainVars, event, componentVars, clientVars, frameVars>>

ServeLocked(w) ==
  /\ pc[w] = "locked"
  /\ guard' = NoWorker
  /\ Reply(w, "ok", TRUE)
  /\ UNCHANGED <<mainVars, event, componentVars, frameVars>>

(* Mutant of ServeDump: the walk over the ports does not advance.          *)
DumpForEver(w) ==
  /\ pc[w] = "start"
  /\ CodeOf(w) = "DUMP"
  /\ UNCHANGED vars

ServeDump(w) ==
  /\ pc[w] = "start"
  /\ CodeOf(w) = "DUMP"
  /\ Reply(w, "ok", TRUE)
  /\ UNCHANGED <<mainVars, event, componentVars, guard, frameVars>>

-----------------------------------------------------------------------------
(* EMPTY_BUFFER without a native handle is not replied to, and with an     *)
(* unknown buffer type it is answered with -1: no frame in either case.    *)
RefuseFrame(w) ==
  /\ pc[w] = "start"
  /\ CodeOf(w) = Frame
  /\ initialized
  /\ \E res \in Unready(Frame) : Reply(w, res, FALSE)
  /\ UNCHANGED <<mainVars, event, componentVars, guard, frameVars>>

(* Mutant of StartFrame: the frame is served under initialized_mutex too.  *)
StartFrameLocked(w) ==
  /\ pc[w] = "start"
  /\ CodeOf(w) = Frame
  /\ initialized
  /\ guard = NoWorker
  /\ guard' = w
  /\ Goto(w, "frame")
  /\ UNCHANGED <<mainVars, event, componentVars, clientVars, frameVars>>

(* Another one: EMPTY_BUFFER is one-way, its client goes on at once.       *)
StartFrameOneWay(w) ==
  /\ pc[w] = "start"
  /\ CodeOf(w) = Frame
  /\ initialized
  /\ pc' = [pc EXCEPT ![w] = "frame"]
  /\ job' = [job EXCEPT ![w] = NoClient]
  /\ call' = [call EXCEPT ![job[w]] = NoCall]
  /\ UNCHANGED <<mainVars, event, componentVars, guard, done, result, frameVars>>

(* change_port_setting is never set, so its loop is passed through and the *)
(* handler reaches EmptyBuffer's lock.  It stays at "frame" until          *)
(* EmptyBuffer returns; how far the frame is, turn and frame tell.         *)
StartFrame(w) ==
  /\ pc[w] = "start"
  /\ CodeOf(w) = Frame
  /\ initialized
  /\ Goto(w, "frame")
  /\ UNCHANGED <<mainVars, event, componentVars, guard, clientVars, frameVars>>

BeginFrame(w) ==
  /\ pc[w] = "frame"
  /\ Frames!Begin /\ turn' = w
  /\ UNCHANGED <<mainVars, event, componentVars, workerVars, clientVars>>

GiveFrame(w) ==
  /\ turn = w
  /\ Frames!Give
  /\ UNCHANGED <<mainVars, event, componentVars, workerVars, clientVars>>

FrameRejected(w) ==
  /\ turn = w /\ frame = "none"
  /\ Frames!End
  /\ Reply(w, "failed", FALSE)
  /\ UNCHANGED <<mainVars, event, componentVars, guard>>

(* EmptyBuffer returns 0, and the plane is unmuted.                        *)
EndFrame(w) ==
  /\ turn = w /\ frame = "done"
  /\ Frames!End
  /\ Reply(w, "ok", TRUE)
  /\ UNCHANGED <<mainVars, event, componentVars, guard>>

FrameDone ==
  /\ Frames!Done
  /\ UNCHANGED <<mainVars, event, componentVars, workerVars, clientVars>>

(* The steps of a handler, but for the return from a submitted frame.      *)
Serve(w) ==
  \/ NotInitialized(w) \/ ServeConfigs(w) \/ LockInitialized(w) \/ ServeLocked(w)
  \/ ServeDump(w) \/ RefuseFrame(w) \/ StartFrame(w)
  \/ BeginFrame(w) \/ GiveFrame(w) \/ FrameRejected(w)

Next ==
  \/ MainNext \/ ComponentNext \/ FrameDone
  \/ \E c \in Client, code \in Code : SendCall(c, code)
  \/ \E w \in Worker : (\E c \in Client : Receive(w, c)) \/ Serve(w) \/ EndFrame(w)

Spec == Init /\ [][Next]_vars

(* The threads that can run do, a thread that waits for a mutex gets it in *)
(* the end, and so does a call that waits for a binder thread.  Nothing is *)
(* asked of a submitted frame: EmptyBuffer can miss its completion.        *)
Fairness ==
  /\ SF_vars(MainNext) /\ WF_vars(ComponentNext)
  /\ \A w \in Worker : SF_vars(Serve(w))
  /\ \A c \in Client : SF_vars(\E w \in Worker : Receive(w, c))

FairSpec == Spec /\ Fairness

-----------------------------------------------------------------------------
TypeOK ==
  /\ mainPc \in {"init", "publish", "send", "wait", "set", "running"}
  /\ target \in {"Idle", "Executing"} /\ status \in OmxState
  /\ event \in {EventNone, StateChanged}
  /\ initialized \in BOOLEAN /\ published \in BOOLEAN /\ failed \in BOOLEAN
  /\ commands \in Seq(OmxState) /\ state \in OmxState /\ completing \in BOOLEAN
  /\ pc \in [Worker -> {"idle", "start", "locked", "frame"}]
  /\ job \in [Worker -> Client \cup {NoClient}]
  /\ guard \in Worker \cup {NoWorker}
  /\ call \in [Client -> Code \cup {NoCall}] /\ done \in [Client -> BOOLEAN]
  /\ result \in [Client -> {"none", "ok", "failed"}]
  /\ turn \in Worker \cup {NoWorker} /\ frame \in {"none", "given", "done"}

(* As long as OMX_SendCommand has not failed: a frame is submitted only to *)
(* a component that has reached Executing.  The handlers never look at the *)
(* component's state; "initialized" and the two waits of start() have to   *)
(* stand for it.                                                           *)
FramesWhenExecuting == ~failed /\ turn # NoWorker => state = "Executing"

(* Also when OMX_SendCommand fails: outside SetState, BaseComponent's      *)
(* status is the state the component is in.                                *)
StatusTruthful == mainPc \notin {"init", "wait"} => status = state

(* As long as OMX_SendCommand has not failed: start(), which waits without *)
(* a deadline, never waits for nothing.  The component still has to make   *)
(* the change, and can, or its completion is on the way or stored; no      *)
(* completion was consumed by the wait before this one.                    *)
WaitAnswered ==
  ~failed /\ mainPc = "wait" =>
    \/ commands = <<target>> /\ Legal(state, target)
    \/ state = target /\ (completing \/ event = StateChanged)

(* A frame occupies its binder thread until the component hands it back.   *)
(* Even when every submitted frame stays out, a pool with more threads     *)
(* than there are clients of EMPTY_BUFFER has a thread for other calls:    *)
(* a client never occupies two.                                            *)
FrameClients == {c \in Client : Frame \in Calls[c]}

ThreadFree ==
  Cardinality(Worker) > Cardinality(FrameClients) => \E w \in Worker : pc[w] # "frame"

(* If OMX_SendCommand never fails, a start-up ends with the service        *)
(* initialized.                                                            *)
Starts == []~failed => <>initialized

(* If every submitted frame comes back, every call of every client         *)
(* returns, whatever became of the start-up.                               *)
FramesReturn == []<>(frame = "none")

Answered == FramesReturn => \A c \in Client : call[c] # NoCall ~> call[c] = NoCall

(* Even when frames stay out: the calls of clients that submit no frames   *)
(* return, as long as frames leave a binder thread free.                   *)
OthersAnswered ==
  \A c \in Client : Frame \notin Calls[c] => (call[c] # NoCall ~> call[c] = NoCall)

(* displaymanager_main: "initialize before clients can connect".  A call   *)
(* that reports success was carried out.  Broken between the publication   *)
(* of the service and the end of start().                                  *)
SuccessIsDone == \A c \in Client : result[c] = "ok" => done[c]
=============================================================================
