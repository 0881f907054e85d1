------------------------ MODULE DisplayServiceProofs ------------------------
(***************************************************************************)
(* Theorems about DisplayService, for every set of clients and binder      *)
(* threads, whatever the clients call.                                     *)
(***************************************************************************)
EXTENDS DisplayService, SequenceTheorems, FiniteSetTheorems, TLAPS

-----------------------------------------------------------------------------
(* The steps that can disturb the start-up; every other step leaves its    *)
(* variables alone.                                                        *)
startVars == <<mainVars, event, componentVars>>

(* The shape of mainVars and componentVars alone.                          *)
StartTyped ==
  /\ mainPc \in {"init", "publish", "send", "wait", "set", "running"}
  /\ target \in {"Idle", "Executing"} /\ status \in OmxState
  /\ event \in {EventNone, StateChanged}
  /\ commands \in Seq(OmxState) /\ state \in OmxState /\ completing \in BOOLEAN

(* The shape of what the calls of clients change.                          *)
CallsTyped ==
  /\ initialized \in BOOLEAN /\ published \in BOOLEAN /\ failed \in BOOLEAN
  /\ pc \in [Worker -> {"idle", "start", "locked", "frame"}]
  /\ job \in [Worker -> Client \cup {NoClient}]
  /\ guard \in Worker \cup {NoWorker}
  /\ call \in [Client -> Code \cup {NoCall}] /\ done \in [Client -> BOOLEAN]
  /\ result \in [Client -> {"none", "ok", "failed"}]
  /\ turn \in Worker \cup {NoWorker} /\ frame \in {"none", "given", "done"}

(* At most one command, completion or event is under way, and only while   *)
(* the main thread waits for it; a stored event stands for a change the    *)
(* component has made.                                                     *)
NothingUnderWay == commands = <<>> /\ ~completing /\ event = EventNone

OneUnderWay ==
  \/ NothingUnderWay
  \/ commands = <<target>> /\ ~completing /\ event = EventNone
  \/ commands = <<>> /\ state = target /\ completing /\ event = EventNone
  \/ commands = <<>> /\ state = target /\ ~completing /\ event = StateChanged

Handshake ==
  /\ mainPc = "wait" => OneUnderWay
  /\ mainPc # "wait" => NothingUnderWay
  /\ StatusTruthful

(* As long as no command has failed: how far the component is at each      *)
(* point of start().                                                       *)
Reached ==
  /\ mainPc = "init" => state = "Invalid" /\ target = "Idle"
  /\ mainPc = "publish" => state = "Loaded" /\ target = "Idle"
  /\ mainPc = "send" => Legal(state, target)
  /\ mainPc = "wait" /\ commands # <<>> => Legal(state, target)
  /\ mainPc = "wait" /\ commands = <<>> => state = target
  /\ mainPc = "wait" => ~NothingUnderWay
  /\ mainPc \in {"set", "running"} => state = "Executing"

(* Frames wait for "initialized", which run() sets last.                   *)
Initialized ==
  /\ initialized => mainPc = "running"
  /\ \A w \in Worker : pc[w] = "frame" => initialized
  /\ turn # NoWorker => initialized

StartInv == Handshake /\ (failed \/ Reached) /\ Initialized

-----------------------------------------------------------------------------
(* The calls of clients take no step of the start-up and the component.    *)
LEMMA CallsLeaveStartUp ==
  ASSUME \/ FrameDone
         \/ \E c \in Client, code \in Code : SendCall(c, code)
         \/ \E w \in Worker : (\E c \in Client : Receive(w, c)) \/ Serve(w) \/ EndFrame(w)
  PROVE  UNCHANGED startVars
<1> USE DEF startVars
<1>1. CASE FrameDone
  BY <1>1 DEF FrameDone
<1>2. CASE \E c \in Client, code \in Code : SendCall(c, code)
  BY <1>2 DEF SendCall
<1>3. ASSUME NEW w \in Worker, (\E c \in Client : Receive(w, c)) \/ EndFrame(w)
      PROVE  UNCHANGED startVars
  BY <1>3 DEF Receive, EndFrame
<1>4. ASSUME NEW w \in Worker, Serve(w)
      PROVE  UNCHANGED startVars
  BY <1>4 DEF Serve, NotInitialized, ServeConfigs, LockInitialized, ServeLocked,
              ServeDump, RefuseFrame, StartFrame, BeginFrame, GiveFrame, FrameRejected
<1> QED
  BY <1>1, <1>2, <1>3, <1>4

LEMMA StartUpTyped == Spec => []StartTyped
<1> DEFINE S == OmxState
<1>0. /\ {"Idle", "Executing"} \subseteq S /\ "Invalid" \in S /\ "Loaded" \in S
      /\ {EventNone, StateChanged} = {"HWC_OMX_EVENT_NONE", "HWC_OMX_CHANGE_STATE"}
  BY DEF OmxState, EventNone, StateChanged
<1> HIDE DEF S
<1> DEFINE Typed ==
      /\ mainPc \in {"init", "publish", "send", "wait", "set", "running"}
      /\ target \in {"Idle", "Executing"} /\ status \in S
      /\ event \in {EventNone, StateChanged}
      /\ commands \in Seq(S) /\ state \in S /\ completing \in BOOLEAN
<1>1. Init => Typed
  <2>1. <<>> \in Seq(S)
    BY EmptySeq
  <2> QED
    BY <1>0, <2>1 DEF Init
<1>2. Typed /\ [Next]_vars => Typed'
  <2> SUFFICES ASSUME Typed, [Next]_vars PROVE Typed'
    OBVIOUS
  <2>1. CASE InitOmx \/ Publish \/ SetInitialized \/ SendStateError
    BY <2>1, <1>0 DEF InitOmx, Publish, SetInitialized, SendStateError,
                      AfterSetState, componentVars
  <2>2. CASE SendStateOk
    BY <2>2, <1>0 DEF SendStateOk
  <2>3. CASE WaitEvent
    BY <2>3, <1>0 DEF WaitEvent, AfterSetState, componentVars
  <2>4. CASE ChangeState
    <3>1. Head(commands) \in S /\ Tail(commands) \in Seq(S)
      BY <2>4, HeadTailProperties DEF ChangeState
    <3> QED
      BY <2>4, <3>1 DEF ChangeState, mainVars
  <2>5. CASE NotifyEvent
    BY <2>5 DEF NotifyEvent, mainVars
  <2>6. CASE UNCHANGED startVars
    BY <2>6 DEF startVars, mainVars, componentVars
  <2>7. CASE UNCHANGED vars
    BY <2>7 DEF vars, mainVars, componentVars
  <2> QED
    BY <2>1, <2>2, <2>3, <2>4, <2>5, <2>6, <2>7, CallsLeaveStartUp
       DEF Next, MainNext, ComponentNext
<1>3. Typed <=> StartTyped
  BY DEF S, StartTyped
<1> QED
  BY <1>1, <1>2, <1>3, PTL DEF Spec

LEMMA CallTyped == Spec => []CallsTyped
<1> USE DEF CallsTyped
<1>1. Init => CallsTyped
  BY DEF Init, Frames!Init
<1>2. CallsTyped /\ [Next]_vars => CallsTyped'
  <2> SUFFICES ASSUME CallsTyped, [Next]_vars PROVE CallsTyped'
    OBVIOUS
  <2> USE DEF mainVars, workerVars, clientVars, frameVars
  <2>1. CASE MainNext
    BY <2>1 DEF MainNext, InitOmx, Publish, SendStateOk, SendStateError, WaitEvent,
                SetInitialized
  <2>2. CASE ComponentNext
    BY <2>2 DEF ComponentNext, ChangeState, NotifyEvent
  <2>3. CASE FrameDone
    BY <2>3 DEF FrameDone, Frames!Done
  <2>4. ASSUME NEW c \in Client, NEW code \in Code, SendCall(c, code)
        PROVE  CallsTyped'
    BY <2>4 DEF SendCall
  <2>5. ASSUME NEW w \in Worker, NEW c \in Client, Receive(w, c)
        PROVE  CallsTyped'
    BY <2>5 DEF Receive
  <2>6. ASSUME NEW w \in Worker, NEW res \in {"ok", "failed"}, NEW served \in BOOLEAN,
               Reply(w, res, served), UNCHANGED mainVars,
               guard' \in {guard, NoWorker},
               UNCHANGED frameVars \/ Frames!End
        PROVE  CallsTyped'
    BY <2>6 DEF Reply, NoCall, Frames!End
  <2>7. ASSUME NEW w \in Worker, Serve(w) \/ EndFrame(w)
        PROVE  CallsTyped'
    <3>1. CASE StartFrame(w)
      BY <3>1 DEF StartFrame, Goto
    <3>2. CASE BeginFrame(w)
      BY <3>2 DEF BeginFrame, Frames!Begin
    <3>3. CASE GiveFrame(w)
      BY <3>3 DEF GiveFrame, Frames!Give
    <3>4. CASE LockInitialized(w)
      BY <3>4 DEF LockInitialized, Goto
    <3>5. CASE NotInitialized(w)
      <4>1. PICK res \in {"ok", "failed"} : Reply(w, res, FALSE)
        BY <3>5 DEF NotInitialized, Unready
      <4> QED
        BY <2>6, <3>5, <4>1 DEF NotInitialized
    <3>6. CASE ServeConfigs(w)
      <4>1. PICK res \in {"ok", "failed"} : Reply(w, res, res = "ok")
        BY <3>6 DEF ServeConfigs
      <4> QED
        BY <2>6, <3>6, <4>1 DEF ServeConfigs
    <3>7. CASE ServeLocked(w)
      BY <2>6, <3>7 DEF ServeLocked
    <3>8. CASE ServeDump(w)
      BY <2>6, <3>8 DEF ServeDump
    <3>9. CASE FrameRejected(w) \/ EndFrame(w)
      BY <2>6, <3>9 DEF FrameRejected, EndFrame
    <3>10. CASE RefuseFrame(w)
      <4>1. PICK res \in {"ok", "failed"} : Reply(w, res, FALSE)
        BY <3>10 DEF RefuseFrame, Unready
      <4> QED
        BY <2>6, <3>10, <4>1 DEF RefuseFrame
    <3> QED
      BY <2>7, <3>1, <3>2, <3>3, <3>4, <3>5, <3>6, <3>7, <3>8, <3>9, <3>10 DEF Serve
  <2>8. CASE UNCHANGED vars
    BY <2>8 DEF vars
  <2> QED
    BY <2>1, <2>2, <2>3, <2>4, <2>5, <2>7, <2>8 DEF Next
<1> QED
  BY <1>1, <1>2, PTL DEF Spec

(* Every variable always has a value of its type.                          *)
THEOREM TypeCorrect == Spec => []TypeOK
<1>1. StartTyped /\ CallsTyped => TypeOK
  BY DEF StartTyped, CallsTyped, TypeOK
<1> QED
  BY <1>1, StartUpTyped, CallTyped, PTL

-----------------------------------------------------------------------------
(* Whether OMX_SendCommand fails or not, and even when the component       *)
(* refuses a change and SetState waits for ever: outside SetState the      *)
(* state BaseComponent reports is the state the component is in.           *)
THEOREM StatusIsState == Spec => []StatusTruthful
<1> USE DEF Handshake, OneUnderWay, NothingUnderWay, StatusTruthful
<1>1. Init => Handshake
  BY DEF Init
<1>2. StartTyped /\ Handshake /\ [Next]_vars => Handshake'
  <2> SUFFICES ASSUME StartTyped, Handshake, [Next]_vars PROVE Handshake'
    OBVIOUS
  <2> USE DEF StartTyped, OmxState, EventNone, StateChanged
  <2>1. CASE InitOmx \/ Publish \/ SetInitialized
    BY <2>1 DEF InitOmx, Publish, SetInitialized, componentVars
  <2>2. CASE SendStateOk
    BY <2>2 DEF SendStateOk
  <2>3. CASE SendStateError \/ WaitEvent
    BY <2>3 DEF SendStateError, WaitEvent, AfterSetState, componentVars
  <2>4. CASE ChangeState
    <3>1. mainPc = "wait" /\ commands = <<target>>
      BY <2>4 DEF ChangeState
    <3> QED
      BY <2>4, <3>1 DEF ChangeState, mainVars
  <2>5. CASE NotifyEvent
    BY <2>5 DEF NotifyEvent, mainVars
  <2>6. CASE UNCHANGED startVars
    BY <2>6 DEF startVars, mainVars, componentVars
  <2>7. CASE UNCHANGED vars
    BY <2>7 DEF vars, mainVars, componentVars
  <2> QED
    BY <2>1, <2>2, <2>3, <2>4, <2>5, <2>6, <2>7, CallsLeaveStartUp
       DEF Next, MainNext, ComponentNext
<1>3. Handshake => StatusTruthful
  OBVIOUS
<1> QED
  BY <1>1, <1>2, <1>3, StartUpTyped, PTL DEF Spec

-----------------------------------------------------------------------------
(* The start-up, the hand-shake with the component and the test of         *)
(* "initialized" keep together, whatever clients call meanwhile.           *)
LEMMA StartInvariant == Spec => []StartInv
<1>1. Init => StartInv
  BY DEF Init, StartInv, Handshake, NothingUnderWay, StatusTruthful, Reached, Initialized,
         Frames!Init
<1>2. TypeOK /\ StartInv /\ [Next]_vars => StartInv'
  <2> SUFFICES ASSUME TypeOK, StartInv, [Next]_vars PROVE StartInv'
    OBVIOUS
  <2> USE DEF TypeOK, EventNone, StateChanged, Legal, StartInv, Handshake, OneUnderWay,
              NothingUnderWay, StatusTruthful, Reached, Initialized
  <2>1. CASE InitOmx \/ Publish \/ SetInitialized
    BY <2>1 DEF InitOmx, Publish, SetInitialized, componentVars, workerVars, frameVars
  <2>2. CASE SendStateOk
    BY <2>2 DEF SendStateOk, workerVars, frameVars
  <2>3. CASE SendStateError
    BY <2>3 DEF SendStateError, AfterSetState, componentVars, workerVars, frameVars
  <2>4. CASE WaitEvent
    BY <2>4 DEF WaitEvent, AfterSetState, componentVars, workerVars, frameVars
  <2>5. CASE ChangeState
    <3>1. mainPc = "wait" /\ commands = <<target>>
      BY <2>5 DEF ChangeState
    <3> QED
      BY <2>5, <3>1 DEF ChangeState, mainVars, workerVars, frameVars
  <2>6. CASE NotifyEvent
    BY <2>6 DEF NotifyEvent, mainVars, workerVars, frameVars
  <2>7. CASE FrameDone \/ \E c \in Client, code \in Code : SendCall(c, code)
    BY <2>7 DEF FrameDone, SendCall, mainVars, componentVars, workerVars, frameVars,
                Frames!Done
  <2>8. ASSUME NEW w \in Worker, (\E c \in Client : Receive(w, c)) \/ EndFrame(w)
        PROVE  StartInv'
    BY <2>8 DEF Receive, EndFrame, Reply, mainVars, componentVars, frameVars, Frames!End
  <2>9. ASSUME NEW w \in Worker, Serve(w)
        PROVE  StartInv'
    <3> USE DEF Goto, Reply, mainVars, componentVars, frameVars
    <3>1. CASE StartFrame(w)
      BY <3>1 DEF StartFrame
    <3>2. CASE BeginFrame(w) \/ GiveFrame(w)
      BY <3>2 DEF BeginFrame, GiveFrame, workerVars, Frames!Begin, Frames!Give
    <3>3. CASE LockInitialized(w)
      BY <3>3 DEF LockInitialized
    <3>4. CASE NotInitialized(w) \/ ServeConfigs(w) \/ ServeLocked(w) \/ ServeDump(w)
               \/ RefuseFrame(w) \/ FrameRejected(w)
      BY <3>4 DEF NotInitialized, ServeConfigs, ServeLocked, ServeDump, RefuseFrame,
                  FrameRejected, Frames!End
    <3> QED
      BY <2>9, <3>1, <3>2, <3>3, <3>4 DEF Serve
  <2>10. CASE UNCHANGED vars
    BY <2>10 DEF vars, mainVars, componentVars, workerVars, frameVars
  <2> QED
    BY <2>1, <2>2, <2>3, <2>4, <2>5, <2>6, <2>7, <2>8, <2>9, <2>10
       DEF Next, MainNext, ComponentNext
<1> QED
  BY <1>1, <1>2, TypeCorrect, PTL DEF Spec

(* As long as OMX_SendCommand has not failed: whatever clients call, and   *)
(* however early, a frame is submitted only to a component that is         *)
(* Executing.                                                              *)
THEOREM FramesExecute == Spec => []FramesWhenExecuting
<1>1. StartInv => FramesWhenExecuting
  BY DEF FramesWhenExecuting, StartInv, Reached, Initialized
<1> QED
  BY <1>1, StartInvariant, PTL

(* As long as OMX_SendCommand has not failed: start() never waits for a    *)
(* change that the component cannot make or whose completion is gone.      *)
THEOREM StartNotForgotten == Spec => []WaitAnswered
<1>1. StartTyped /\ StartInv => WaitAnswered
  BY DEF WaitAnswered, StartTyped, StartInv, Handshake, OneUnderWay, NothingUnderWay, Reached
<1> QED
  BY <1>1, StartInvariant, StartUpTyped, PTL

-----------------------------------------------------------------------------
(* initialized_mutex is held by the handler in its critical section, and   *)
(* by nobody else between two steps; a turn belongs to a handler with a    *)
(* frame.                                                                  *)
LocksInv ==
  \A w \in Worker :
    /\ pc[w] = "locked" <=> guard = w
    /\ turn = w => pc[w] = "frame"

LEMMA LocksHeld == Spec => []LocksInv
<1> USE ConstantsAssumption DEF LocksInv
<1>1. Init => LocksInv
  BY DEF Init, Frames!Init
<1>2. TypeOK /\ LocksInv /\ [Next]_vars => LocksInv'
  <2> SUFFICES ASSUME TypeOK, LocksInv, [Next]_vars PROVE LocksInv'
    OBVIOUS
  <2> USE DEF TypeOK, Goto, Reply, workerVars, frameVars
  <2>1. CASE MainNext \/ ComponentNext \/ FrameDone
    BY <2>1 DEF MainNext, InitOmx, Publish, SendStateOk, SendStateError, WaitEvent,
                SetInitialized, ComponentNext, ChangeState, NotifyEvent, FrameDone,
                Frames!Done
  <2>2. ASSUME NEW c \in Client, NEW code \in Code, SendCall(c, code)
        PROVE  LocksInv'
    BY <2>2 DEF SendCall
  <2>3. ASSUME NEW w \in Worker, (\E c \in Client : Receive(w, c)) \/ EndFrame(w)
        PROVE  LocksInv'
    <3>1. CASE EndFrame(w)
      <4>1. pc' = [pc EXCEPT ![w] = "idle"] /\ turn' = NoWorker /\ UNCHANGED guard
        BY <3>1 DEF EndFrame, Frames!End
      <4> QED
        BY <3>1, <4>1 DEF EndFrame
    <3>2. CASE \E c \in Client : Receive(w, c)
      BY <3>2 DEF Receive
    <3> QED
      BY <2>3, <3>1, <3>2
  <2>4. ASSUME NEW w \in Worker, Serve(w)
        PROVE  LocksInv'
    <3>1. CASE LockInitialized(w)
      BY <3>1 DEF LockInitialized
    <3>2. CASE ServeLocked(w)
      BY <3>2 DEF ServeLocked
    <3>3. CASE NotInitialized(w) \/ ServeConfigs(w) \/ ServeDump(w) \/ RefuseFrame(w)
               \/ StartFrame(w)
      BY <3>3 DEF NotInitialized, ServeConfigs, ServeDump, RefuseFrame, StartFrame
    <3>4. CASE BeginFrame(w) \/ GiveFrame(w)
      BY <3>4 DEF BeginFrame, GiveFrame, Frames!Begin, Frames!Give
    <3>5. CASE FrameRejected(w)
      BY <3>5 DEF FrameRejected, Frames!End
    <3> QED
      BY <2>4, <3>1, <3>2, <3>3, <3>4, <3>5 DEF Serve
  <2>5. CASE UNCHANGED vars
    BY <2>5 DEF vars
  <2> QED
    BY <2>1, <2>2, <2>3, <2>4, <2>5 DEF Next
<1> QED
  BY <1>1, <1>2, TypeCorrect, PTL DEF Spec

-----------------------------------------------------------------------------
(* A busy binder thread serves one client's unanswered call, and no two    *)
(* serve the same one.                                                     *)
Serving(w) ==
  /\ job[w] \in Client
  /\ call[job[w]] # NoCall /\ result[job[w]] = "none"
  /\ \A v \in Worker : job[v] = job[w] => v = w

JobInv ==
  \A w \in Worker :
    /\ pc[w] = "idle" => job[w] = NoClient
    /\ pc[w] # "idle" => Serving(w)
    /\ pc[w] = "frame" => call[job[w]] = Frame

(* A client makes only the calls it may make.                              *)
CallsAllowed == \A c \in Client : call[c] # NoCall => call[c] \in Calls[c]

LEMMA JobsOwned == Spec => [](JobInv /\ CallsAllowed)
<1> USE ConstantsAssumption DEF JobInv, Serving, CallsAllowed
<1>1. Init => JobInv /\ CallsAllowed
  BY DEF Init
<1>2. TypeOK /\ LocksInv /\ JobInv /\ CallsAllowed /\ [Next]_vars
        => JobInv' /\ CallsAllowed'
  <2> SUFFICES ASSUME TypeOK, LocksInv, JobInv, CallsAllowed, [Next]_vars
               PROVE  JobInv' /\ CallsAllowed'
    OBVIOUS
  <2> USE DEF TypeOK, Goto, workerVars, clientVars
  <2>1. CASE MainNext \/ ComponentNext \/ FrameDone
    BY <2>1 DEF MainNext, InitOmx, Publish, SendStateOk, SendStateError, WaitEvent,
                SetInitialized, ComponentNext, ChangeState, NotifyEvent, FrameDone
  <2>2. ASSUME NEW c \in Client, NEW code \in Code, SendCall(c, code)
        PROVE  JobInv' /\ CallsAllowed'
    BY <2>2 DEF SendCall
  <2>3. ASSUME NEW w \in Worker, NEW c \in Client, Receive(w, c)
        PROVE  JobInv' /\ CallsAllowed'
    BY <2>3 DEF Receive
  <2>4. ASSUME NEW w \in Worker, NEW res \in {"ok", "failed"}, NEW served \in BOOLEAN,
               Reply(w, res, served), pc[w] # "idle"
        PROVE  JobInv' /\ CallsAllowed'
    BY <2>4 DEF Reply
  <2>5. ASSUME NEW w \in Worker, Serve(w) \/ EndFrame(w)
        PROVE  JobInv' /\ CallsAllowed'
    <3> HIDE DEF JobInv, CallsAllowed
    <3>1. CASE LockInitialized(w) \/ StartFrame(w)
      BY <3>1 DEF LockInitialized, StartFrame, CodeOf, JobInv, CallsAllowed
    <3>2. CASE BeginFrame(w) \/ GiveFrame(w)
      BY <3>2 DEF BeginFrame, GiveFrame, JobInv, CallsAllowed
    <3>3. CASE NotInitialized(w) \/ RefuseFrame(w)
      <4>1. PICK res \in {"ok", "failed"} : Reply(w, res, FALSE)
        BY <3>3 DEF NotInitialized, RefuseFrame, Unready
      <4> QED
        BY <2>4, <3>3, <4>1 DEF NotInitialized, RefuseFrame
    <3>4. CASE ServeConfigs(w)
      <4>1. PICK res \in {"ok", "failed"} : Reply(w, res, res = "ok")
        BY <3>4 DEF ServeConfigs
      <4> QED
        BY <2>4, <3>4, <4>1 DEF ServeConfigs
    <3>5. CASE ServeLocked(w) \/ ServeDump(w)
      BY <2>4, <3>5 DEF ServeLocked, ServeDump
    <3>6. CASE FrameRejected(w) \/ EndFrame(w)
      <4>1. pc[w] # "idle"
        BY <3>6 DEF FrameRejected, EndFrame, LocksInv
      <4> QED
        BY <2>4, <3>6, <4>1 DEF FrameRejected, EndFrame
    <3> QED
      BY <2>5, <3>1, <3>2, <3>3, <3>4, <3>5, <3>6 DEF Serve
  <2>6. CASE UNCHANGED vars
    BY <2>6 DEF vars
  <2> QED
    BY <2>1, <2>2, <2>3, <2>5, <2>6 DEF Next
<1> QED
  BY <1>1, <1>2, TypeCorrect, LocksHeld, PTL DEF Spec

(* For every pool of threads and every finite set of clients: frames alone *)
(* never occupy the whole pool when it has more threads than there are     *)
(* clients of EMPTY_BUFFER.                                                *)
THEOREM PoolNotExhausted ==
  ASSUME IsFiniteSet(Client)
  PROVE  Spec => []ThreadFree
<1>1. JobInv /\ CallsAllowed => ThreadFree
  <2> SUFFICES ASSUME JobInv, CallsAllowed, \A w \in Worker : pc[w] = "frame"
               PROVE  ~(Cardinality(Worker) > Cardinality(FrameClients))
    BY DEF ThreadFree
  <2> DEFINE Caller == [w \in Worker |-> job[w]]
  <2>1. IsFiniteSet(FrameClients)
    BY FS_Subset DEF FrameClients
  <2>2. \A w \in Worker : job[w] \in FrameClients
    BY DEF JobInv, Serving, CallsAllowed, FrameClients
  <2>3. Caller \in Injection(Worker, FrameClients)
    BY <2>2 DEF Injection, IsInjective, JobInv, Serving
  <2>4. IsFiniteSet(Worker) /\ Cardinality(Worker) <= Cardinality(FrameClients)
    BY <2>1, <2>3, FS_Injection
  <2>5. Cardinality(Worker) \in Nat /\ Cardinality(FrameClients) \in Nat
    BY <2>1, <2>4, FS_CardinalityType
  <2> QED
    BY <2>4, <2>5
<1> QED
  BY <1>1, JobsOwned, PTL
=============================================================================
