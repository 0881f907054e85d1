------------------------ MODULE ActiveConfigProofs -------------------------
(***************************************************************************)
(* Theorems about ActiveConfig, for every set of clients, every set of     *)
(* requests and every bound on the queued commands.                        *)
(***************************************************************************)
EXTENDS ActiveConfig, SequenceTheorems, TLAPS

(* The state the port will be in once the component has caught up.         *)
FinallyEnabled ==
  IF commands = <<>> THEN enabled ELSE commands[Len(commands)] = "enable"

(* The strengthening of EnabledAtRest: whoever sent the last "disable"     *)
(* still has its "enable" to send.                                         *)
EnableOwed ==
  \/ failed
  \/ FinallyEnabled
  \/ \E t \in Thread : pc[t] \in {"copy", "update", "info", "param", "enable"}

(* The strengthening of ActiveIsOutput: what a request alone in the        *)
(* handler has prepared at each of its steps.                              *)
Alone == \A t, u \in Thread : pc[t] # "idle" /\ pc[u] # "idle" => t = u

Prepared(t) ==
  /\ pc[t] = "total" => devtype.adjusted = Adjusted(RequestedRate(t))
  /\ pc[t] \in {"disable", "copy"} => devtype = Timing(RequestedRate(t))
  /\ pc[t] = "update" => copy[t] = Timing(RequestedRate(t))
  /\ pc[t] \in {"info", "param"} => native = Timing(RequestedRate(t))
  /\ pc[t] = "param" => framerate = RequestedRate(t)

Applied(t) == pc[t] \in {"enable", "commit"}

OneByOne ==
  /\ Alone
  /\ \A t \in Thread : Prepared(t) /\ (Applied(t) => output = Definition(index[t]))
  /\ (\A t \in Thread : ~Applied(t)) => output = Definition(current)

Sequential == overlapped \/ OneByOne

-----------------------------------------------------------------------------
LEMMA ConfigTable ==
  /\ DOMAIN gConfig = 0..3
  /\ \A i \in DOMAIN gConfig : gConfig[i] \in Rate
<1>1. DOMAIN gConfig = 0..3
  BY DEF gConfig
<1>2. ASSUME NEW i \in 0..3 PROVE gConfig[i] \in Rate
  <2>1. i = 0 \/ i = 1 \/ i = 2 \/ i = 3
    OBVIOUS
  <2> QED
    BY <2>1 DEF gConfig, Rate
<1> QED
  BY <1>1, <1>2

LEMMA TimingTyped == \A rate : Timing(rate) \in TimingType
  BY DEF Timing, TimingType, Adjusted, HorizontalTotal

(* Every variable always has a value of its type.                          *)
THEOREM TypeCorrect == Spec => []TypeOK
<1> USE DEF TypeOK, ThreadPc
<1>0. /\ 0 \in DOMAIN gConfig /\ Timing("60Hz") \in TimingType
      /\ \A i \in DOMAIN gConfig : gConfig[i] \in Rate
  BY ConfigTable, TimingTyped
<1>1. Init => TypeOK
  <2> SUFFICES ASSUME Init PROVE TypeOK
    OBVIOUS
  <2>1. output = [rate |-> gConfig[0], timing |-> Timing(gConfig[0])]
    BY DEF Init, Definition
  <2>2. output \in [rate : Rate, timing : TimingType]
    <3>1. gConfig[0] \in Rate /\ Timing(gConfig[0]) \in TimingType
      BY <1>0, TimingTyped
    <3> QED
      BY <2>1, <3>1
  <2>3. commands \in Seq({"enable", "disable"})
    BY EmptySeq DEF Init
  <2>4. "60Hz" \in Rate
    BY DEF Rate
  <2> QED
    BY <1>0, <2>2, <2>3, <2>4 DEF Init
<1>2. TypeOK /\ [Next]_vars => TypeOK'
  <2> SUFFICES ASSUME TypeOK, [Next]_vars PROVE TypeOK'
    OBVIOUS
  <2> USE DEF Goto, Return, EndCopy, RequestedRate, threadVars, portVars, componentVars,
              history
  <2>0. ASSUME NEW command \in {"enable", "disable"}, SendCommand(command)
        PROVE  commands' \in Seq({"enable", "disable"}) /\ failed' \in BOOLEAN
    <3>1. Append(commands, command) \in Seq({"enable", "disable"})
      BY AppendProperties
    <3> QED
      BY <2>0, <3>1 DEF SendCommand
  <2>1. ASSUME NEW t \in Thread, NEW i \in Requests, Request(t, i)
        PROVE  TypeOK'
    BY <2>1 DEF Request
  <2>2. ASSUME NEW t \in Thread, SetAdjusted(t)
        PROVE  TypeOK'
    <3>1. Adjusted(RequestedRate(t)) \in BOOLEAN
      BY DEF Adjusted
    <3>2. devtype' \in TimingType
      BY <2>2, <3>1 DEF SetAdjusted, TimingType
    <3> QED
      BY <2>2, <3>2 DEF SetAdjusted
  <2>3. ASSUME NEW t \in Thread, SetTotal(t)
        PROVE  TypeOK'
    BY <2>3 DEF SetTotal, TimingType, HorizontalTotal
  <2>4. ASSUME NEW t \in Thread, Disable(t)
        PROVE  TypeOK'
    BY <2>0, <2>4 DEF Disable
  <2>5. ASSUME NEW t \in Thread, CopyDevtype(t)
        PROVE  TypeOK'
    BY <2>5 DEF CopyDevtype
  <2>6. ASSUME NEW t \in Thread, UpdateDeviceType(t)
        PROVE  TypeOK'
    BY <1>0, <2>6 DEF UpdateDeviceType
  <2>7. ASSUME NEW t \in Thread, UpdateInfo(t)
        PROVE  TypeOK'
    BY <1>0, <2>7 DEF UpdateInfo
  <2>8. ASSUME NEW t \in Thread, SetParamOk(t)
        PROVE  TypeOK'
    BY <2>8 DEF SetParamOk
  <2>9. ASSUME NEW t \in Thread, SetParamError(t)
        PROVE  TypeOK'
    BY <1>0, <2>9 DEF SetParamError
  <2>10. ASSUME NEW t \in Thread, Enable(t)
        PROVE  TypeOK'
    BY <2>0, <2>10 DEF Enable
  <2>11. ASSUME NEW t \in Thread, SetCurrentIndex(t)
        PROVE  TypeOK'
    BY <1>0, <2>11 DEF SetCurrentIndex
  <2>12. CASE ProcessCommand
    BY <2>12 DEF ProcessCommand
  <2>13. CASE UNCHANGED vars
    BY <2>13 DEF vars
  <2> QED
    BY <2>1, <2>2, <2>3, <2>4, <2>5, <2>6, <2>7, <2>8, <2>9, <2>10, <2>11, <2>12, <2>13
      DEF Next, Advance
<1> QED
  BY <1>1, <1>2, PTL DEF Spec

(* As long as the component refuses nothing: whatever the order in which   *)
(* the clients' steps and the component's are taken, the port is enabled   *)
(* once all requests and commands are done.                                *)
THEOREM PortEnabled == Spec => []EnabledAtRest
<1> USE DEF EnableOwed, FinallyEnabled
<1>1. Init => EnableOwed
  BY DEF Init
<1>2. TypeOK /\ EnableOwed /\ [Next]_vars => EnableOwed'
  <2> SUFFICES ASSUME TypeOK, EnableOwed, [Next]_vars PROVE EnableOwed'
    OBVIOUS
  <2> USE DEF TypeOK, Goto, Return, threadVars, portVars, componentVars, history
  <2>1. ASSUME NEW t \in Thread, NEW i \in Requests, Request(t, i)
        PROVE  EnableOwed'
    BY <2>1 DEF Request
  <2>2. ASSUME NEW t \in Thread, SetAdjusted(t)
        PROVE  EnableOwed'
    BY <2>2 DEF SetAdjusted
  <2>3. ASSUME NEW t \in Thread, SetTotal(t)
        PROVE  EnableOwed'
    BY <2>3 DEF SetTotal
  <2>4. ASSUME NEW t \in Thread, Disable(t)
        PROVE  EnableOwed'
    BY <2>4 DEF Disable, SendCommand
  <2>5. ASSUME NEW t \in Thread, CopyDevtype(t)
        PROVE  EnableOwed'
    BY <2>5 DEF CopyDevtype
  <2>6. ASSUME NEW t \in Thread, UpdateDeviceType(t)
        PROVE  EnableOwed'
    BY <2>6 DEF UpdateDeviceType
  <2>7. ASSUME NEW t \in Thread, UpdateInfo(t)
        PROVE  EnableOwed'
    BY <2>7 DEF UpdateInfo
  <2>8. ASSUME NEW t \in Thread, SetParamOk(t)
        PROVE  EnableOwed'
    BY <2>8 DEF SetParamOk
  <2>9. ASSUME NEW t \in Thread, SetParamError(t)
        PROVE  EnableOwed'
    BY <2>9 DEF SetParamError
  <2>10. ASSUME NEW t \in Thread, Enable(t)
        PROVE  EnableOwed'
    BY <2>10 DEF Enable, SendCommand
  <2>11. ASSUME NEW t \in Thread, SetCurrentIndex(t)
        PROVE  EnableOwed'
    BY <2>11 DEF SetCurrentIndex
  <2>12. CASE ProcessCommand
    <3>1. UNCHANGED pc /\ commands # <<>> /\ commands \in Seq({"enable", "disable"})
          /\ commands' = Tail(commands) /\ enabled' = (Head(commands) = "enable")
          /\ UNCHANGED failed
      BY <2>12 DEF ProcessCommand
    <3> DEFINE Command == {"enable", "disable"}
    <3>2. Len(commands) \in Nat \ {0} /\ Head(commands) = commands[1]
      BY <3>1, EmptySeq, LenProperties
    <3>3. /\ commands' \in Seq(Command) /\ Len(commands') = Len(commands) - 1
          /\ \A i \in 1..Len(commands') : commands'[i] = commands[i + 1]
      <4> HIDE DEF Command
      <4>1. commands \in Seq(Command)
        BY <3>1 DEF Command
      <4>2. /\ Tail(commands) \in Seq(Command) /\ Len(Tail(commands)) = Len(commands) - 1
            /\ \A i \in 1..Len(Tail(commands)) : Tail(commands)[i] = commands[i + 1]
        BY <3>1, <4>1, HeadTailProperties
      <4> QED
        BY <3>1, <4>2
    <3>4. CASE Len(commands) = 1
      <4>1. commands' = <<>>
        BY <3>3, <3>4, EmptySeq
      <4> QED
        BY <3>1, <3>2, <3>4, <4>1
    <3>5. CASE Len(commands) > 1
      <4>1. commands' # <<>> /\ Len(commands') \in 1..Len(commands')
        BY <3>2, <3>3, <3>5, EmptySeq
      <4>2. commands'[Len(commands')] = commands[Len(commands)]
        BY <3>2, <3>3, <4>1
      <4> QED
        BY <3>1, <4>1, <4>2
    <3>6. Len(commands) = 1 \/ Len(commands) > 1
      <4>1. \A n \in Nat \ {0} : n = 1 \/ n > 1
        OBVIOUS
      <4> QED
        BY ONLY <3>2, <4>1
    <3> QED
      BY ONLY <3>4, <3>5, <3>6
  <2>13. CASE UNCHANGED vars
    BY <2>13 DEF vars
  <2> QED
    BY <2>1, <2>2, <2>3, <2>4, <2>5, <2>6, <2>7, <2>8, <2>9, <2>10, <2>11, <2>12, <2>13
      DEF Next, Advance
<1>3. EnableOwed => EnabledAtRest
  BY DEF EnabledAtRest, AtRest, NoRequest
<1> QED
  BY <1>1, <1>2, <1>3, TypeCorrect, PTL DEF Spec

(* As long as requests come one at a time, the one in progress has         *)
(* prepared, step by step, the definition of the mode it asks for.         *)
LEMMA SequentialInvariant == Spec => []Sequential
<1> USE DEF Sequential, OneByOne, Alone, Prepared, Applied
<1>1. Init => Sequential
  BY DEF Init
<1>2. TypeOK /\ Sequential /\ [Next]_vars => Sequential'
  <2> SUFFICES ASSUME TypeOK, OneByOne, ~overlapped', [Next]_vars PROVE OneByOne'
    <3>1. [Next]_vars /\ overlapped /\ TypeOK => overlapped'
      BY DEF TypeOK, Next, vars, history, Advance, Request, SetAdjusted, SetTotal, Disable,
             CopyDevtype, UpdateDeviceType, UpdateInfo, SetParamOk, SetParamError,
             Enable, SetCurrentIndex, ProcessCommand
    <3> QED
      BY <3>1
  <2> USE DEF TypeOK, ThreadPc, Goto, RequestedRate, threadVars, portVars, componentVars,
              history
  <2>1. ASSUME NEW t \in Thread, NEW i \in Requests, Request(t, i)
        PROVE  OneByOne'
    BY <2>1 DEF Request, NoRequest
  <2>2. ASSUME NEW t \in Thread, SetAdjusted(t)
        PROVE  OneByOne'
    BY <2>2 DEF SetAdjusted, TimingType
  <2>3. ASSUME NEW t \in Thread, SetTotal(t)
        PROVE  OneByOne'
    BY <2>3 DEF SetTotal, TimingType, Timing
  <2>4. ASSUME NEW t \in Thread, Disable(t)
        PROVE  OneByOne'
    BY <2>4 DEF Disable
  <2>5. ASSUME NEW t \in Thread, CopyDevtype(t)
        PROVE  OneByOne'
    BY <2>5 DEF CopyDevtype
  <2>6. ASSUME NEW t \in Thread, UpdateDeviceType(t)
        PROVE  OneByOne'
    BY <2>6 DEF UpdateDeviceType, EndCopy
  <2>7. ASSUME NEW t \in Thread, UpdateInfo(t)
        PROVE  OneByOne'
    BY <2>7 DEF UpdateInfo
  <2>8. ASSUME NEW t \in Thread, SetParamOk(t)
        PROVE  OneByOne'
    BY <2>8 DEF SetParamOk, Definition
  <2>9. ASSUME NEW t \in Thread, SetParamError(t)
        PROVE  OneByOne'
    BY <2>9 DEF SetParamError, Return
  <2>10. ASSUME NEW t \in Thread, Enable(t)
        PROVE  OneByOne'
    BY <2>10 DEF Enable
  <2>11. ASSUME NEW t \in Thread, SetCurrentIndex(t)
        PROVE  OneByOne'
    BY <2>11 DEF SetCurrentIndex, Return
  <2>12. CASE ProcessCommand
    BY <2>12 DEF ProcessCommand
  <2>13. CASE UNCHANGED vars
    BY <2>13 DEF vars
  <2> QED
    BY <2>1, <2>2, <2>3, <2>4, <2>5, <2>6, <2>7, <2>8, <2>9, <2>10, <2>11, <2>12, <2>13
      DEF Next, Advance
<1> QED
  BY <1>1, <1>2, TypeCorrect, PTL DEF Spec

(* As long as requests come one at a time: between requests the component  *)
(* applies the mode that current_index names, even when it has refused     *)
(* definitions and commands.                                               *)
THEOREM OutputIsCurrent == Spec => []ActiveIsOutput
<1>1. Sequential => ActiveIsOutput
  BY DEF Sequential, OneByOne, Applied, ActiveIsOutput, NoRequest
<1> QED
  BY <1>1, SequentialInvariant, PTL

(* Two requests at once are the only cause of a torn definition: as long   *)
(* as requests come one at a time, every definition the component applies  *)
(* has the timing of its own frame rate, also inside a request.            *)
THEOREM TornOnlyIfOverlapped == Spec => [](~overlapped => KnownDefinition)
<1>1. TypeOK /\ Sequential /\ ~overlapped => KnownDefinition
  <2> SUFFICES ASSUME TypeOK, OneByOne PROVE KnownDefinition
    BY DEF Sequential
  <2>1. PICK i \in DOMAIN gConfig : output = Definition(i)
    <3>1. CASE \A t \in Thread : ~Applied(t)
      <4>1. current \in DOMAIN gConfig
        BY DEF TypeOK
      <4>2. output = Definition(current)
        BY <3>1 DEF OneByOne
      <4> QED
        BY <4>1, <4>2
    <3>2. CASE \E t \in Thread : Applied(t)
      <4>1. PICK t \in Thread : Applied(t)
        BY <3>2
      <4>2. index[t] \in DOMAIN gConfig
        BY DEF TypeOK
      <4>3. output = Definition(index[t])
        BY <4>1 DEF OneByOne
      <4> QED
        BY <4>2, <4>3
    <3> QED
      BY <3>1, <3>2
  <2> QED
    BY <2>1 DEF KnownDefinition
<1> QED
  BY <1>1, TypeCorrect, SequentialInvariant, PTL

(* A refusal and an overlap are the only causes of a wrong "no need to     *)
(* change": without them, once all is done the current mode is the one     *)
(* applied, on an enabled port.                                            *)
THEOREM CurrentUnlessDisturbed == Spec => [](~failed /\ ~overlapped => NoNeedToChange)
<1>1. EnabledAtRest /\ ActiveIsOutput /\ ~failed /\ ~overlapped => NoNeedToChange
  BY DEF EnabledAtRest, ActiveIsOutput, NoNeedToChange, AtRest
<1> QED
  BY <1>1, PortEnabled, OutputIsCurrent, PTL

-----------------------------------------------------------------------------
(* The refinement mapping when requests come one at a time: the request    *)
(* that ModeSwitch sees is the one of the thread in the handler.           *)
Mapped ==
  /\ NoRequest /\ ~overlapped => Phase = "rest" /\ Asked = current
  /\ \A t \in Thread :
       Alone /\ pc[t] # "idle" =>
         /\ ~NoRequest /\ Asked = index[t]
         /\ ~overlapped => Phase = IF Applied(t) THEN "applied" ELSE "asked"
  /\ overlapped => Phase = "void"

LEMMA MappingHolds == Mapped
<1>0. /\ NoRequest /\ ~overlapped => Phase = "rest" /\ Asked = current
      /\ overlapped => Phase = "void"
  BY DEF Phase, Asked
<1> SUFFICES ASSUME NEW t \in Thread, Alone, pc[t] # "idle"
             PROVE  /\ ~NoRequest /\ Asked = index[t]
                    /\ ~overlapped => Phase = IF Applied(t) THEN "applied" ELSE "asked"
  BY <1>0 DEF Mapped
<1>1. ~NoRequest
  BY DEF NoRequest
<1>2. (CHOOSE u \in Thread : pc[u] # "idle") = t
  <2>1. \A u \in Thread : pc[u] # "idle" <=> u = t
    BY DEF Alone
  <2> QED
    BY <2>1
<1>3. (\E u \in Thread : pc[u] \in {"enable", "commit"}) <=> Applied(t)
  BY DEF Alone, Applied
<1> QED
  BY <1>1, <1>2, <1>3 DEF Asked, Phase

(* A step of setActiveConfig or of the component is a step of ModeSwitch,  *)
(* or changes nothing that it sees.                                        *)
LEMMA SwitchStep ==
  ASSUME TypeOK, Sequential, Sequential', Mapped, Mapped', [Next]_vars
  PROVE  [Switch!Next]_(Switch!switchVars)
<1> DEFINE Step == [Switch!Next]_(Switch!switchVars)
<1> USE DEF threadVars, portVars, componentVars, history
<1>1. CASE overlapped
  <2>1. overlapped'
    BY <1>1 DEF TypeOK, Next, vars, Advance, Request, SetAdjusted, SetTotal, Disable,
           CopyDevtype, UpdateDeviceType, UpdateInfo, SetParamOk, SetParamError, Enable,
           SetCurrentIndex, ProcessCommand
  <2> QED
    BY <1>1, <2>1 DEF Mapped, Switch!Next, Switch!Overlap
<1>2. CASE ~overlapped /\ overlapped'
  <2>1. ~NoRequest
    BY <1>2 DEF TypeOK, Next, vars, Advance, Request, SetAdjusted, SetTotal, Disable,
           CopyDevtype, UpdateDeviceType, UpdateInfo, SetParamOk, SetParamError, Enable,
           SetCurrentIndex, ProcessCommand
  <2>2. Phase # "rest"
    BY <1>2, <2>1 DEF NoRequest, Mapped, Sequential, OneByOne
  <2> QED
    BY <1>2, <2>2 DEF Mapped, Switch!Next, Switch!Overlap
<1>3. CASE ~overlapped /\ ~overlapped'
  <2> USE <1>3 DEF Goto, Return
  <2>0. OneByOne /\ OneByOne' /\ Alone /\ Alone'
    BY DEF Sequential, OneByOne
  <2>1. ASSUME NEW t \in Thread, NEW i \in Requests, Request(t, i)
        PROVE  Switch!Ask
    <3>1. NoRequest /\ i \in DOMAIN gConfig \ {current} /\ UNCHANGED <<current, output>>
      BY <2>1 DEF Request
    <3>2. pc'[t] = "adjusted" /\ index'[t] = i
      BY <2>1 DEF Request, TypeOK
    <3>3. Phase = "rest" /\ Asked = current
      BY <3>1 DEF Mapped
    <3>4. Phase' = "asked" /\ Asked' = i
      BY <2>0, <3>2 DEF Mapped, Applied
    <3> QED
      BY <3>1, <3>3, <3>4 DEF Switch!Ask
  <2>2. ASSUME NEW t \in Thread, pc[t] # "idle", pc'[t] # "idle",
               pc[t] \in {"enable", "commit"} <=> pc'[t] \in {"enable", "commit"},
               UNCHANGED <<index, current, output>>
        PROVE  UNCHANGED Switch!switchVars
    <3>1. Asked = index[t] /\ Asked' = index'[t]
      BY <2>0, <2>2 DEF Mapped
    <3>2. Phase = Phase'
      BY <2>0, <2>2 DEF Mapped, Applied
    <3> QED
      BY <2>2, <3>1, <3>2 DEF Switch!switchVars
  <2>3. ASSUME NEW t \in Thread,
               \/ SetAdjusted(t) \/ SetTotal(t) \/ Disable(t) \/ CopyDevtype(t)
               \/ UpdateDeviceType(t) \/ UpdateInfo(t) \/ Enable(t)
        PROVE  UNCHANGED Switch!switchVars
    <3>1. /\ pc[t] # "idle" /\ pc'[t] # "idle"
          /\ pc[t] \in {"enable", "commit"} <=> pc'[t] \in {"enable", "commit"}
      BY <2>3 DEF SetAdjusted, SetTotal, Disable, CopyDevtype, UpdateDeviceType,
             UpdateInfo, Enable, TypeOK
    <3>2. UNCHANGED <<index, current, output>>
      BY <2>3 DEF SetAdjusted, SetTotal, Disable, CopyDevtype, UpdateDeviceType,
             UpdateInfo, Enable
    <3> QED
      BY <2>2, <3>1, <3>2
  <2>4. ASSUME NEW t \in Thread, SetParamOk(t)
        PROVE  Switch!Apply
    <3>1. pc[t] = "param" /\ pc'[t] = "enable" /\ UNCHANGED <<index, current>>
      BY <2>4 DEF SetParamOk, TypeOK
    <3>2. Phase = "asked" /\ Phase' = "applied" /\ Asked = index[t] /\ Asked' = index[t]
      BY <2>0, <3>1 DEF Mapped, Applied
    <3>3. output' = Definition(index[t])
      BY <2>0, <3>1 DEF OneByOne, Applied
    <3>4. index[t] \in DOMAIN gConfig
      BY DEF TypeOK
    <3> QED
      BY <3>1, <3>2, <3>3, <3>4 DEF Switch!Apply
  <2>5. ASSUME NEW t \in Thread, pc[t] # "idle", pc' = [pc EXCEPT ![t] = "idle"]
        PROVE  NoRequest' /\ Phase' = "rest" /\ Asked' = current'
    <3>1. NoRequest'
      BY <2>0, <2>5 DEF Alone, NoRequest, TypeOK
    <3> QED
      BY <3>1 DEF Mapped
  <2>6. ASSUME NEW t \in Thread, SetParamError(t)
        PROVE  Switch!Refuse
    <3>1. /\ pc[t] = "param" /\ pc' = [pc EXCEPT ![t] = "idle"]
          /\ UNCHANGED <<current, output>>
      BY <2>6 DEF SetParamError
    <3>2. Phase = "asked"
      BY <2>0, <3>1 DEF Mapped, Applied
    <3> QED
      BY <2>5, <3>1, <3>2 DEF Switch!Refuse
  <2>7. ASSUME NEW t \in Thread, SetCurrentIndex(t)
        PROVE  Switch!Commit
    <3>1. /\ pc[t] = "commit" /\ pc' = [pc EXCEPT ![t] = "idle"]
          /\ current' = index[t] /\ UNCHANGED output
      BY <2>7 DEF SetCurrentIndex
    <3>2. Phase = "applied" /\ Asked = index[t]
      BY <2>0, <3>1 DEF Mapped, Applied
    <3> QED
      BY <2>5, <3>1, <3>2 DEF Switch!Commit
  <2>8. ASSUME UNCHANGED <<pc, index, current, output>>
        PROVE  UNCHANGED Switch!switchVars
    <3>1. CASE NoRequest
      <4>1. NoRequest'
        BY <2>8, <3>1 DEF NoRequest
      <4> QED
        BY <2>8, <3>1, <4>1 DEF Mapped, Switch!switchVars
    <3>2. CASE ~NoRequest
      <4>1. PICK t \in Thread : pc[t] # "idle"
        BY <3>2 DEF NoRequest
      <4> QED
        BY <2>2, <2>8, <4>1
    <3> QED
      BY <3>1, <3>2
  <2>9. CASE ProcessCommand \/ UNCHANGED vars
    BY <2>8, <2>9 DEF ProcessCommand, vars
  <2> QED
    BY <2>1, <2>3, <2>4, <2>6, <2>7, <2>9 DEF Next, Advance, Switch!Next
<1> QED
  BY <1>1, <1>2, <1>3 DEF TypeOK

(* As long as requests come one at a time, setActiveConfig implements      *)
(* ModeSwitch, whatever the component refuses and however late it carries  *)
(* out the port commands.                                                  *)
THEOREM Switches == Spec => SwitchSpec
<1>1. Init => Switch!Init
  <2> SUFFICES ASSUME Init PROVE Switch!Init
    OBVIOUS
  <2>1. Phase = "rest" /\ Asked = current
    BY MappingHolds DEF Init, Mapped, NoRequest
  <2>2. current \in DOMAIN gConfig /\ output = Definition(current)
    BY ConfigTable DEF Init
  <2> QED
    BY <2>1, <2>2 DEF Switch!Init
<1>2. TypeOK /\ Sequential /\ Sequential' /\ Mapped /\ Mapped' /\ [Next]_vars
        => [Switch!Next]_(Switch!switchVars)
  BY SwitchStep
<1> QED
  BY <1>1, <1>2, TypeCorrect, SequentialInvariant, MappingHolds, PTL
     DEF Spec, SwitchSpec, Switch!Spec
=============================================================================
