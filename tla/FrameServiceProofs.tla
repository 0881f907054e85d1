------------------------- MODULE FrameServiceProofs -------------------------
(***************************************************************************)
(* Theorems about FrameService, for every set of clients, binder threads   *)
(* and headers, whatever the clients call and the component refuses.  What *)
(* is proved of EmptyBuffer and of DisplayService is carried over: a step  *)
(* of FrameService is a step of both.                                      *)
(***************************************************************************)
EXTENDS FrameService, FiniteSets, TLAPS

(* The theorems about EmptyBuffer, of the one inside FrameService ...      *)
EP == INSTANCE EmptyBufferProofs WITH
  Thread <- Worker, NoThread <- NoWorker, pc <- inside,
  Modes <- Blocking, Options <- NoOption

(* ... and those about DisplayService.                                     *)
DP == INSTANCE DisplayServiceProofs WITH turn <- owner, frame <- Buffers!Frame

LEMMA InstanceAssumptions == EP!ConstantsAssumption /\ DP!ConstantsAssumption
  BY ConstantsAssumption
     DEF Buffers!ConstantsAssumption, EP!ConstantsAssumption, Service!ConstantsAssumption,
         DP!ConstantsAssumption, Service!Code, DP!Code, Service!Frame, DP!Frame,
         Service!Locked, DP!Locked, Service!Configs, DP!Configs

-----------------------------------------------------------------------------
(* The actions of EmptyBuffer have the same meaning under both names.      *)
LEMMA SameActions ==
  ASSUME NEW w \in Worker
  PROVE  /\ \A b \in Blocking, option \in NoOption :
              Buffers!Enter(w, b, option) => EP!Enter(w, b, option)
         /\ Buffers!AddToHeaderList(w) => EP!AddToHeaderList(w)
         /\ Buffers!AddToUsed(w) => EP!AddToUsed(w)
         /\ Buffers!SetBlockedFlag(w) => EP!SetBlockedFlag(w)
         /\ Buffers!SubmitOk(w) => EP!SubmitOk(w)
         /\ Buffers!SubmitError(w) => EP!SubmitError(w)
         /\ Buffers!WaitEvent(w) => EP!WaitEvent(w)
         /\ Buffers!ResumeWoken(w) => EP!ResumeWoken(w)
         /\ Buffers!ResumeTimedOut(w) => EP!ResumeTimedOut(w)
         /\ Buffers!TimeOut(w) => EP!TimeOut(w)
         /\ Buffers!SpuriousWakeup(w) => EP!SpuriousWakeup(w)
         /\ Buffers!Fail(w) => EP!Fail(w)
         /\ Buffers!DropFromUsed(w) => EP!DropFromUsed(w)
<1> USE DEF Buffers!Goto, EP!Goto, Buffers!Return, EP!Return, Buffers!EventNone,
            EP!EventNone, Buffers!EventDone, EP!EventDone, Buffers!threadVars,
            EP!threadVars, Buffers!memoryVars, EP!memoryVars, Buffers!portVars,
            EP!portVars, Buffers!componentVars, EP!componentVars
<1>1. \A b \in Blocking, option \in NoOption :
        Buffers!Enter(w, b, option) => EP!Enter(w, b, option)
  BY DEF Buffers!Enter, EP!Enter
<1>2. Buffers!AddToHeaderList(w) => EP!AddToHeaderList(w)
  BY DEF Buffers!AddToHeaderList, EP!AddToHeaderList
<1>3. Buffers!AddToUsed(w) => EP!AddToUsed(w)
  BY DEF Buffers!AddToUsed, EP!AddToUsed
<1>4. Buffers!SetBlockedFlag(w) => EP!SetBlockedFlag(w)
  BY DEF Buffers!SetBlockedFlag, EP!SetBlockedFlag
<1>5. Buffers!SubmitOk(w) => EP!SubmitOk(w)
  BY DEF Buffers!SubmitOk, EP!SubmitOk
<1>6. Buffers!SubmitError(w) => EP!SubmitError(w)
  BY DEF Buffers!SubmitError, EP!SubmitError
<1>7. Buffers!WaitEvent(w) => EP!WaitEvent(w)
  BY DEF Buffers!WaitEvent, EP!WaitEvent, Buffers!TestEvent, EP!TestEvent
<1>8. Buffers!ResumeWoken(w) => EP!ResumeWoken(w)
  BY DEF Buffers!ResumeWoken, EP!ResumeWoken, Buffers!TestEvent, EP!TestEvent
<1>9. Buffers!ResumeTimedOut(w) => EP!ResumeTimedOut(w)
  BY DEF Buffers!ResumeTimedOut, EP!ResumeTimedOut
<1>10. Buffers!TimeOut(w) => EP!TimeOut(w)
  BY DEF Buffers!TimeOut, EP!TimeOut
<1>11. Buffers!SpuriousWakeup(w) => EP!SpuriousWakeup(w)
  BY DEF Buffers!SpuriousWakeup, EP!SpuriousWakeup
<1>12. Buffers!Fail(w) => EP!Fail(w)
  BY DEF Buffers!Fail, EP!Fail
<1>13. Buffers!DropFromUsed(w) => EP!DropFromUsed(w)
  BY DEF Buffers!DropFromUsed, EP!DropFromUsed
<1> QED
  BY <1>1, <1>2, <1>3, <1>4, <1>5, <1>6, <1>7, <1>8, <1>9, <1>10, <1>11, <1>12, <1>13

LEMMA SameHandBack == \A h \in held : Buffers!HandBack(h) => EP!HandBack(h)
  BY DEF Buffers!HandBack, EP!HandBack, Buffers!threadVars, EP!threadVars,
         Buffers!portVars, EP!portVars

LEMMA SameCallback == Buffers!Callback => EP!Callback
<1> USE DEF Buffers!EventDone, EP!EventDone, Buffers!threadVars, EP!threadVars,
            Buffers!memoryVars, EP!memoryVars, Buffers!portVars, EP!portVars
<1>1. Buffers!GetHeader => EP!GetHeader
  BY DEF Buffers!GetHeader, EP!GetHeader
<1>2. Buffers!DeleteHeader => EP!DeleteHeader
  BY DEF Buffers!DeleteHeader, EP!DeleteHeader
<1>3. Buffers!ReadBlockedFlag => EP!ReadBlockedFlag
  BY DEF Buffers!ReadBlockedFlag, EP!ReadBlockedFlag
<1>4. Buffers!NotifyEvent => EP!NotifyEvent
  BY DEF Buffers!NotifyEvent, EP!NotifyEvent
<1>5. Buffers!CallbackUnuse => EP!CallbackUnuse
  BY DEF Buffers!CallbackUnuse, EP!CallbackUnuse
<1>6. Buffers!CheckTrap => EP!CheckTrap
  BY DEF Buffers!CheckTrap, EP!CheckTrap
<1> QED
  BY <1>1, <1>2, <1>3, <1>4, <1>5, <1>6 DEF Buffers!Callback, EP!Callback

LEMMA BufferInit == Init => EP!Init
  BY DEF Init, Buffers!Init, EP!Init, Buffers!EventNone, EP!EventNone

(* EmptyBuffer inside FrameService is EmptyBuffer with callers that block. *)
LEMMA BufferStep == [Next]_vars => [EP!Next]_EP!vars
<1> SUFFICES ASSUME [Next]_vars PROVE [EP!Next]_EP!vars
  OBVIOUS
<1>1. UNCHANGED bufferVars => UNCHANGED EP!vars
  BY DEF bufferVars, EP!vars, EP!threadVars, EP!memoryVars, EP!portVars, EP!componentVars
<1>2. CASE StartUp \/ Component \/ UNCHANGED vars
  BY <1>1, <1>2 DEF StartUp, Component, vars
<1>3. CASE Callback
  BY <1>3, SameCallback DEF Callback, EP!Next
<1>4. CASE Finish
  BY <1>4, SameHandBack DEF Finish, EP!Next
<1>5. ASSUME NEW c \in Client, NEW code \in Service!Code, SendCall(c, code)
      PROVE  UNCHANGED EP!vars
  BY <1>1, <1>5 DEF SendCall
<1>6. ASSUME NEW w \in Worker, NEW c \in Client, Receive(w, c)
      PROVE  UNCHANGED EP!vars
  BY <1>1, <1>6 DEF Receive
<1>7. ASSUME NEW w \in Worker, Serve(w) \/ TimeOut(w) \/ SpuriousWakeup(w)
      PROVE  EP!Next \/ UNCHANGED EP!vars
  <2>1. CASE Handle(w)
    BY <1>1, <2>1 DEF Handle
  <2>2. CASE Enter(w)
    BY <2>2, SameActions DEF Enter, EP!Next
  <2>3. CASE Inside(w) \/ ReplyRejected(w) \/ ReplyDone(w)
    BY <2>3, SameActions DEF Inside, ReplyRejected, ReplyDone, EP!Next, EP!Advance
  <2>4. CASE TimeOut(w) \/ SpuriousWakeup(w)
    BY <2>4, SameActions DEF TimeOut, SpuriousWakeup, EP!Next
  <2> QED
    BY <1>7, <2>1, <2>2, <2>3, <2>4 DEF Serve
<1> QED
  BY <1>2, <1>3, <1>4, <1>5, <1>6, <1>7 DEF Next

LEMMA BufferInvariants == Spec => [](EP!TypeInv /\ EP!BlockInv)
<1>1. Spec => EP!Spec
  BY BufferInit, BufferStep, PTL DEF Spec, EP!Spec
<1>2. EP!TypeInv /\ EP!BlockInv /\ [Next]_vars => EP!BlockInv'
  BY BufferStep, EP!BlockedStep, InstanceAssumptions DEF Blocking
<1>3. Init => EP!BlockInv
  BY BufferInit, EP!BlockedInit, InstanceAssumptions
<1> QED
  BY <1>1, <1>2, <1>3, EP!TypeInvariant, InstanceAssumptions, PTL DEF Spec

-----------------------------------------------------------------------------
(* A step of EmptyBuffer is a step of the hand-over that the dispatcher    *)
(* sees.                                                                   *)
LEMMA Handover ==
  ASSUME EP!TypeInv, EP!BlockInv, [EP!Next]_EP!vars
  PROVE  Service!Frames!Next \/ UNCHANGED Service!frameVars
<1>1. [EP!Handover!Next]_(EP!Handover!handoverVars)
  BY EP!HandoverStep, InstanceAssumptions DEF Blocking
<1>2. EP!Frame = Buffers!Frame
  BY DEF EP!Frame, Buffers!Frame, EP!Waiting, Buffers!Waiting
<1>3. (EP!Frame)' = (Buffers!Frame)'
  BY DEF EP!Frame, Buffers!Frame, EP!Waiting, Buffers!Waiting
<1> QED
  BY <1>1, <1>2, <1>3
     DEF EP!Handover!Next, EP!Handover!handoverVars, EP!Handover!Begin, EP!Handover!Give,
         EP!Handover!Done, EP!Handover!End, Service!Frames!Next, Service!Frames!Begin,
         Service!Frames!Give, Service!Frames!Done, Service!Frames!End, Service!frameVars

LEMMA ServiceInit == Init => Service!Init
  BY DEF Init

(* When no lock changes hands, the step gives the frame, ends it, or is    *)
(* none of the dispatcher's.                                               *)
LEMMA QuietStep ==
  ASSUME EP!TypeInv, EP!BlockInv, [EP!Next]_EP!vars, UNCHANGED <<serviceVars, owner>>
  PROVE  [Service!Next]_(Service!vars)
<1> USE DEF serviceVars, Service!vars, Service!mainVars, Service!componentVars,
            Service!workerVars, Service!clientVars, Service!frameVars
<1>1. owner \in Worker \cup {NoWorker} /\ NoWorker \notin Worker
  BY ConstantsAssumption DEF EP!TypeInv, EP!TypeOK, Buffers!ConstantsAssumption
<1>2. CASE UNCHANGED Service!frameVars
  BY <1>2
<1>3. CASE Service!Frames!Give
  <2>1. Service!GiveFrame(owner) /\ owner \in Worker
    BY <1>1, <1>3 DEF Service!GiveFrame, Service!Frames!Give
  <2> QED
    BY <2>1 DEF Service!Next, Service!Serve
<1>4. CASE Service!Frames!Done
  BY <1>4 DEF Service!FrameDone, Service!Next
<1>5. CASE Service!Frames!Begin \/ Service!Frames!End
  BY <1>1, <1>5 DEF Service!Frames!Begin, Service!Frames!End
<1> QED
  BY <1>2, <1>3, <1>4, <1>5, Handover DEF Service!Frames!Next

(* The daemon with the real EmptyBuffer is the daemon with the promised    *)
(* one: every step is a step of DisplayService, or none.                   *)
THEOREM ServiceImplemented == Spec => ServiceSpec
<1>1. EP!TypeInv /\ EP!BlockInv /\ [Next]_vars => [Service!Next]_(Service!vars)
  <2> SUFFICES ASSUME EP!TypeInv, EP!BlockInv, [Next]_vars
               PROVE  [Service!Next]_(Service!vars)
    OBVIOUS
  <2>1. [EP!Next]_EP!vars
    BY BufferStep
  <2>2. ASSUME UNCHANGED <<serviceVars, owner>>
        PROVE  [Service!Next]_(Service!vars)
    BY <2>1, <2>2, QuietStep
  <2>3. CASE StartUp \/ Component
    BY <2>3 DEF StartUp, Component, Service!Next
  <2>4. CASE Callback
    BY <2>2, <2>4 DEF Callback, Buffers!Callback, Buffers!GetHeader, Buffers!DeleteHeader,
          Buffers!ReadBlockedFlag, Buffers!NotifyEvent, Buffers!CallbackUnuse,
          Buffers!CheckTrap, Buffers!threadVars
  <2>5. CASE Finish
    BY <2>2, <2>5 DEF Finish, Buffers!HandBack, Buffers!threadVars
  <2>6. ASSUME NEW c \in Client, NEW code \in Service!Code, SendCall(c, code)
        PROVE  Service!Next
    BY <2>6 DEF SendCall, Service!Next
  <2>7. ASSUME NEW w \in Worker, NEW c \in Client, Receive(w, c)
        PROVE  Service!Next
    BY <2>7 DEF Receive, Service!Next
  <2>8. ASSUME NEW w \in Worker, Handle(w)
        PROVE  Service!Next
    BY <2>8 DEF Handle, Service!Next, Service!Serve
  <2>9. ASSUME NEW w \in Worker, Inside(w) \/ TimeOut(w) \/ SpuriousWakeup(w)
        PROVE  [Service!Next]_(Service!vars)
    BY <2>2, <2>9 DEF Inside, TimeOut, SpuriousWakeup, Buffers!AddToHeaderList,
          Buffers!AddToUsed, Buffers!SetBlockedFlag, Buffers!SubmitOk, Buffers!SubmitError,
          Buffers!WaitEvent, Buffers!ResumeWoken, Buffers!ResumeTimedOut,
          Buffers!TestEvent, Buffers!TimeOut, Buffers!SpuriousWakeup
  <2>10. ASSUME NEW w \in Worker, Enter(w)
         PROVE  Service!Next
    <3>1. pc[w] = "frame" /\ owner = NoWorker /\ owner' = w /\ UNCHANGED serviceVars
      BY <2>10 DEF Enter, Buffers!Enter
    <3>2. Service!Frames!Begin
      BY <2>1, <3>1, Handover, ConstantsAssumption
         DEF Buffers!ConstantsAssumption, Service!Frames!Next, Service!Frames!Give,
             Service!Frames!Done, Service!Frames!End, Service!frameVars
    <3>3. Service!BeginFrame(w)
      BY <3>1, <3>2 DEF Service!BeginFrame, serviceVars, Service!mainVars,
            Service!componentVars, Service!workerVars, Service!clientVars
    <3> QED
      BY <3>3 DEF Service!Next, Service!Serve
  <2>11. ASSUME NEW w \in Worker, ReplyRejected(w) \/ ReplyDone(w)
         PROVE  Service!Next
    <3> USE DEF Service!mainVars, Service!componentVars
    <3>1. inside[w] \in {"fail", "unuse"} /\ owner' = NoWorker
      BY <2>11 DEF ReplyRejected, ReplyDone, Buffers!Fail, Buffers!DropFromUsed,
            Buffers!Return
    <3>2. owner = w /\ held = {}
      BY <3>1 DEF EP!BlockInv, EP!LockInv, EP!CallInv, EP!Quiet, EP!Preparing
    <3>3. \A v \in Worker : inside[v] # "idle" => v = w
      BY <3>2 DEF EP!BlockInv, EP!LockInv
    <3>4. Service!Frames!End
      BY <2>1, <3>1, <3>2, Handover, ConstantsAssumption
         DEF Buffers!ConstantsAssumption, Service!Frames!Next, Service!Frames!Begin,
             Service!Frames!Give, Service!Frames!Done, Service!frameVars
    <3>5. CASE ReplyRejected(w)
      <4>1. inside[w] = "fail"
        BY <3>5 DEF ReplyRejected, Buffers!Fail
      <4>2. Buffers!Frame = "none"
        BY <3>2, <3>3, <4>1 DEF Buffers!Frame, Buffers!Waiting
      <4>3. Service!FrameRejected(w)
        BY <3>2, <3>4, <3>5, <4>2 DEF ReplyRejected, Service!FrameRejected
      <4> QED
        BY <4>3 DEF Service!Next, Service!Serve
    <3>6. CASE ReplyDone(w)
      <4>1. inside[w] = "unuse"
        BY <3>6 DEF ReplyDone, Buffers!DropFromUsed
      <4>2. Buffers!Frame = "done"
        BY <3>2, <4>1 DEF Buffers!Frame
      <4>3. Service!EndFrame(w)
        BY <3>2, <3>4, <3>6, <4>2 DEF ReplyDone, Service!EndFrame
      <4> QED
        BY <4>3 DEF Service!Next
    <3> QED
      BY <2>11, <3>5, <3>6
  <2>12. CASE UNCHANGED vars
    <3>1. UNCHANGED <<serviceVars, owner>>
      BY <2>12 DEF vars, bufferVars
    <3> QED
      BY <2>2, <3>1
  <2> QED
    BY <2>3, <2>4, <2>5, <2>6, <2>7, <2>8, <2>9, <2>10, <2>11, <2>12 DEF Next, Serve
<1> QED
  BY <1>1, ServiceInit, BufferInvariants, PTL DEF Spec, ServiceSpec, Service!Spec

-----------------------------------------------------------------------------
(* What is proved of DisplayService holds of FrameService.                 *)
LEMMA SameService == ServiceSpec => DP!Spec
<1> USE DEF Service!mainVars, Service!componentVars, Service!workerVars,
            Service!clientVars, Service!frameVars, Service!vars, Service!EventNone,
            Service!StateChanged, Service!NoCall, Service!Frame, Service!Locked,
            Service!Configs, Service!Code, Service!CodeOf, Service!Goto, Service!Reply,
            Service!Unready, Service!AfterSetState, Service!Legal, Service!Frames!Init,
            Service!Frames!Begin, Service!Frames!Give, Service!Frames!Done,
            Service!Frames!End,
            DP!mainVars, DP!componentVars, DP!workerVars,
            DP!clientVars, DP!frameVars, DP!vars, DP!EventNone,
            DP!StateChanged, DP!NoCall, DP!Frame, DP!Locked,
            DP!Configs, DP!Code, DP!CodeOf, DP!Goto, DP!Reply,
            DP!Unready, DP!AfterSetState, DP!Legal, DP!Frames!Init,
            DP!Frames!Begin, DP!Frames!Give, DP!Frames!Done, DP!Frames!End
<1>1. Service!Init => DP!Init
  BY DEF Service!Init, DP!Init
<1>2. Service!MainNext => DP!MainNext
  BY DEF Service!MainNext, DP!MainNext, Service!InitOmx, DP!InitOmx, Service!Publish,
         DP!Publish, Service!SendStateOk, DP!SendStateOk, Service!SendStateError,
         DP!SendStateError, Service!WaitEvent, DP!WaitEvent, Service!SetInitialized,
         DP!SetInitialized
<1>3. Service!ComponentNext => DP!ComponentNext
  BY DEF Service!ComponentNext, DP!ComponentNext, Service!ChangeState, DP!ChangeState,
         Service!NotifyEvent, DP!NotifyEvent
<1>4. Service!FrameDone => DP!FrameDone
  BY DEF Service!FrameDone, DP!FrameDone
<1>5. ASSUME NEW c \in Client, NEW code \in Service!Code
      PROVE  Service!SendCall(c, code) => DP!SendCall(c, code)
  BY DEF Service!SendCall, DP!SendCall
<1>6. ASSUME NEW w \in Worker, NEW c \in Client
      PROVE  Service!Receive(w, c) => DP!Receive(w, c)
  BY DEF Service!Receive, DP!Receive
<1>7. ASSUME NEW w \in Worker
      PROVE  Service!EndFrame(w) => DP!EndFrame(w)
  BY DEF Service!EndFrame, DP!EndFrame
<1>8. ASSUME NEW w \in Worker
      PROVE  Service!Serve(w) => DP!Serve(w)
  <2>1. Service!NotInitialized(w) => DP!NotInitialized(w)
    BY DEF Service!NotInitialized, DP!NotInitialized
  <2>2. Service!ServeConfigs(w) => DP!ServeConfigs(w)
    BY DEF Service!ServeConfigs, DP!ServeConfigs
  <2>3. Service!LockInitialized(w) => DP!LockInitialized(w)
    BY DEF Service!LockInitialized, DP!LockInitialized
  <2>4. Service!ServeLocked(w) => DP!ServeLocked(w)
    BY DEF Service!ServeLocked, DP!ServeLocked
  <2>5. Service!ServeDump(w) => DP!ServeDump(w)
    BY DEF Service!ServeDump, DP!ServeDump
  <2>6. Service!RefuseFrame(w) => DP!RefuseFrame(w)
    BY DEF Service!RefuseFrame, DP!RefuseFrame
  <2>7. Service!StartFrame(w) => DP!StartFrame(w)
    BY DEF Service!StartFrame, DP!StartFrame
  <2>8. Service!BeginFrame(w) => DP!BeginFrame(w)
    BY DEF Service!BeginFrame, DP!BeginFrame
  <2>9. Service!GiveFrame(w) => DP!GiveFrame(w)
    BY DEF Service!GiveFrame, DP!GiveFrame
  <2>10. Service!FrameRejected(w) => DP!FrameRejected(w)
    BY DEF Service!FrameRejected, DP!FrameRejected
  <2> HIDE DEF Service!Frame
  <2> QED
    BY <2>1, <2>2, <2>3, <2>4, <2>5, <2>6, <2>7, <2>8, <2>9, <2>10
       DEF Service!Serve, DP!Serve
<1>9. Service!Code = DP!Code /\ (UNCHANGED Service!vars => UNCHANGED DP!vars)
  OBVIOUS
<1>10. [Service!Next]_(Service!vars) => [DP!Next]_(DP!vars)
  <2> HIDE DEF Service!vars, DP!vars, Service!Code, DP!Code
  <2> QED
    BY <1>2, <1>3, <1>4, <1>5, <1>6, <1>7, <1>8, <1>9 DEF Service!Next, DP!Next
<1> QED
  BY <1>1, <1>10, PTL DEF ServiceSpec, Service!Spec, DP!Spec

(* Every variable always has a value of its type.                          *)
THEOREM TypeCorrect == Spec => []TypeOK
<1>1. EP!TypeInv => Buffers!TypeOK
  BY DEF EP!TypeInv, EP!TypeOK, Buffers!TypeOK, EP!ThreadPc, Buffers!ThreadPc,
         EP!Preparing, Buffers!Preparing, EP!Waiting, Buffers!Waiting, EP!CallbackPc,
         Buffers!CallbackPc, EP!EventNone, Buffers!EventNone, EP!EventDone,
         Buffers!EventDone
<1>2. DP!TypeOK => Service!TypeOK
  BY DEF DP!TypeOK, Service!TypeOK, DP!OmxState, Service!OmxState, DP!EventNone,
         Service!EventNone, DP!StateChanged, Service!StateChanged, DP!Code, Service!Code,
         DP!Frame, Service!Frame, DP!Locked, Service!Locked, DP!Configs, Service!Configs,
         DP!NoCall, Service!NoCall
<1>3. Buffers!TypeOK /\ Service!TypeOK => TypeOK
  BY DEF TypeOK
<1> QED
  BY <1>1, <1>2, <1>3, BufferInvariants, ServiceImplemented, SameService, DP!TypeCorrect,
     InstanceAssumptions, PTL

(* As long as no state command has failed, and whatever the schedule of    *)
(* time-outs and callbacks: the component has a frame only while it is     *)
(* Executing.                                                              *)
THEOREM HeldExecuting == Spec => []HeldWhenExecuting
<1>1. EP!BlockInv /\ DP!FramesWhenExecuting => HeldWhenExecuting
  BY DEF EP!BlockInv, EP!Quiet, DP!FramesWhenExecuting, HeldWhenExecuting
<1> QED
  BY <1>1, BufferInvariants, ServiceImplemented, SameService, DP!FramesExecute,
     InstanceAssumptions, PTL

-----------------------------------------------------------------------------
(* Only a handler with a frame is inside EmptyBuffer, and it serves one    *)
(* client's unanswered call.                                               *)
InsideInv ==
  \A w \in Worker : inside[w] # "idle" =>
    /\ pc[w] = "frame" /\ guard # w
    /\ job[w] \in Client /\ call[job[w]] = Service!Frame /\ result[job[w]] = "none"

LEMMA InsideServes == Spec => []InsideInv
<1>1. EP!BlockInv /\ DP!LocksInv /\ DP!JobInv => InsideInv
  BY DEF EP!BlockInv, EP!LockInv, DP!LocksInv, DP!JobInv, DP!Serving, InsideInv,
         DP!Frame, Service!Frame
<1> QED
  BY <1>1, BufferInvariants, ServiceImplemented, SameService, DP!LocksHeld, DP!JobsOwned,
     InstanceAssumptions, PTL

(* While the component has a frame, the client it came from is blocked in  *)
(* its call.                                                               *)
THEOREM CallerBlocked == Spec => []CallerWaits
<1>1. EP!TypeInv /\ EP!BlockInv /\ InsideInv => CallerWaits
  <2> SUFFICES ASSUME EP!TypeInv, EP!BlockInv, InsideInv, held # {}
               PROVE  \E w \in Worker, c \in Client :
                        /\ owner = w /\ held = {hdr[w]} /\ job[w] = c
                        /\ call[c] = Service!Frame /\ result[c] = "none"
    BY DEF CallerWaits
  <2>1. owner \in Worker /\ inside[owner] # "idle"
    BY DEF EP!TypeInv, EP!TypeOK, EP!BlockInv, EP!LockInv, EP!Quiet
  <2>2. held = {hdr[owner]}
    BY <2>1 DEF EP!TypeInv, EP!TypeOK, EP!BlockInv, EP!CallInv, EP!Quiet, EP!Outstanding,
                EP!ThreadPc, EP!Preparing
  <2> QED
    BY <2>1, <2>2 DEF InsideInv
<1> QED
  BY <1>1, BufferInvariants, InsideServes, PTL

-----------------------------------------------------------------------------
(* Whoever holds initialized_mutex or mEmptyBuffer_lock neither holds nor  *)
(* waits for the other one, whatever the clients call: the two cannot      *)
(* lock handlers out for ever.                                             *)
THEOREM LocksApart == Spec => []NoCircularWait
<1>1. EP!BlockInv /\ InsideInv /\ DP!LocksInv => NoCircularWait
  BY DEF EP!BlockInv, EP!LockInv, InsideInv, DP!LocksInv, NoCircularWait
<1> QED
  BY <1>1, BufferInvariants, InsideServes, ServiceImplemented, SameService, DP!LocksHeld,
     InstanceAssumptions, PTL

-----------------------------------------------------------------------------
(* What EmptyBuffer promises to callers that all block, it keeps inside    *)
(* the daemon, where its callers are the binder threads: the memory of a   *)
(* frame is reusable, the walk of the header list undisturbed, no          *)
(* completion is left for another call, and nothing leaks.                 *)
BuffersSafe ==
  /\ Buffers!HeldHeadersAlive /\ Buffers!ReturnsAfterHandBack /\ Buffers!WalkUndisturbed
  /\ Buffers!NoStaleCompletion /\ Buffers!NothingLeaks

LEMMA SameBuffers ==
  /\ EP!HeldHeadersAlive => Buffers!HeldHeadersAlive
  /\ EP!ReturnsAfterHandBack => Buffers!ReturnsAfterHandBack
  /\ EP!WalkUndisturbed => Buffers!WalkUndisturbed
  /\ EP!NoStaleCompletion => Buffers!NoStaleCompletion
  /\ EP!NothingLeaks => Buffers!NothingLeaks
  BY DEF EP!HeldHeadersAlive, Buffers!HeldHeadersAlive, EP!ReturnsAfterHandBack,
         Buffers!ReturnsAfterHandBack, EP!WalkUndisturbed, Buffers!WalkUndisturbed,
         EP!NoStaleCompletion, Buffers!NoStaleCompletion, EP!EventDone, Buffers!EventDone,
         EP!Waiting, Buffers!Waiting, EP!NothingLeaks, Buffers!NothingLeaks

(* The frame buffers keep their promises inside the daemon: BuffersSafe    *)
(* holds of EmptyBuffer with the daemon's arguments and threads.           *)
THEOREM BuffersKept == Spec => []BuffersSafe
<1>1. Spec => EP!Spec
  BY BufferInit, BufferStep, PTL DEF Spec, EP!Spec
<1>2. Blocking = {TRUE}
  BY DEF Blocking
<1>3. EP!Spec => []EP!HeldHeadersAlive
  BY EP!HeadersAlive, InstanceAssumptions
<1>4. EP!Spec => []EP!ReturnsAfterHandBack
  BY <1>2, EP!FrameReusable, InstanceAssumptions
<1>5. EP!Spec => []EP!WalkUndisturbed
  BY <1>2, EP!WalkSafe, InstanceAssumptions
<1>6. EP!Spec => []EP!NoStaleCompletion
  BY <1>2, EP!CompletionOwned, InstanceAssumptions
<1>7. EP!Spec => []EP!NothingLeaks
  BY <1>2, EP!NoLeak, InstanceAssumptions
<1> QED
  BY <1>1, <1>3, <1>4, <1>5, <1>6, <1>7, SameBuffers, PTL DEF BuffersSafe

(* No waiting frame is forgotten by the daemon, provided no completion     *)
(* falls into the window of a time-out; and as long as the component       *)
(* rejects nothing, Used is empty between frames.                          *)
THEOREM FramesNotForgotten == Spec => Buffers!NotForgotten /\ Buffers!UsedDrained
<1>1. Spec => EP!Spec
  BY BufferInit, BufferStep, PTL DEF Spec, EP!Spec
<1>2. Blocking = {TRUE}
  BY DEF Blocking
<1>3. EP!Spec => EP!NotForgotten
  BY <1>2, EP!CallNotForgotten, InstanceAssumptions
<1>4. EP!Spec => EP!UsedDrained
  BY <1>2, EP!Drained, InstanceAssumptions
<1>5. /\ EP!TimeOutRace <=> Buffers!TimeOutRace
      /\ EP!CompletionsComing <=> Buffers!CompletionsComing
  BY DEF EP!TimeOutRace, Buffers!TimeOutRace, EP!CompletionsComing,
         Buffers!CompletionsComing, EP!EventDone, Buffers!EventDone, EP!Waiting,
         Buffers!Waiting
<1>6. EP!NotForgotten <=> Buffers!NotForgotten
  BY <1>5, PTL DEF EP!NotForgotten, Buffers!NotForgotten
<1>7. EP!UsedDrained <=> Buffers!UsedDrained
  BY DEF EP!UsedDrained, Buffers!UsedDrained
<1> QED
  BY <1>1, <1>3, <1>4, <1>6, <1>7

(* What DisplayService promises of the start-up holds of the daemon with   *)
(* the real EmptyBuffer: the reported state is the component's, start()    *)
(* never waits for nothing, and frames wait for Executing.                 *)
ServiceSafe ==
  /\ Service!StatusTruthful /\ Service!WaitAnswered /\ Service!FramesWhenExecuting

(* The dispatcher keeps its promises about start() and about frames also   *)
(* when frames go through the real EmptyBuffer.                            *)
THEOREM ServiceKept == Spec => []ServiceSafe
<1>1. DP!StatusTruthful /\ DP!WaitAnswered /\ DP!FramesWhenExecuting => ServiceSafe
  BY DEF ServiceSafe, DP!StatusTruthful, Service!StatusTruthful, DP!WaitAnswered,
         Service!WaitAnswered, DP!Legal, Service!Legal, DP!StateChanged,
         Service!StateChanged, DP!FramesWhenExecuting, Service!FramesWhenExecuting
<1> QED
  BY <1>1, ServiceImplemented, SameService, DP!StatusIsState, DP!StartNotForgotten,
     DP!FramesExecute, InstanceAssumptions, PTL

(* Frames that never come back leave the daemon a binder thread, when it   *)
(* has more of them than there are clients of EMPTY_BUFFER.                *)
THEOREM ThreadKept ==
  ASSUME IsFiniteSet(Client)
  PROVE  Spec => []Service!ThreadFree
<1>1. DP!ThreadFree => Service!ThreadFree
  BY DEF DP!ThreadFree, Service!ThreadFree, DP!FrameClients, Service!FrameClients,
         DP!Frame, Service!Frame, DP!Cardinality, Service!Cardinality
<1>2. Spec => []DP!ThreadFree
  <2>1. DP!Spec => []DP!ThreadFree
    <3>1. DP!IsFiniteSet(Client)
      BY DEF IsFiniteSet, DP!IsFiniteSet
    <3> QED
      BY <3>1, DP!PoolNotExhausted, InstanceAssumptions
  <2> QED
    BY <2>1, ServiceImplemented, SameService, PTL
<1> QED
  BY <1>1, <1>2, PTL
=============================================================================
