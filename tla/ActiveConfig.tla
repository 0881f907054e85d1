---------------------------- MODULE ActiveConfig ----------------------------
(***************************************************************************)
(* setActiveConfig: the client-selected display mode.  The handler of      *)
(* SET_ACTIVE_CONFIG takes no lock, so its steps on the members that all   *)
(* callers share interleave: OmxDisplayManager::devtype, the device type   *)
(* and the definition of VdcPort0, and DisplayManager::current_index.      *)
(* Port commands are asynchronous: OMX_SendCommand queues them and the     *)
(* component carries them out on a thread of its own.  OMX_SetParameter    *)
(* takes effect at once.                                                   *)
(***************************************************************************)
EXTENDS Integers, Sequences

CONSTANTS
  Thread,          \* binder threads
  Requests,        \* the indexes clients ask for
  SetParamResults, \* what OMX_SetParameter may return
  CommandResults,  \* what OMX_SendCommand may return
  MaxCommands      \* bound: no new request while more commands are queued

ASSUME ConstantsAssumption ==
  /\ Requests \subseteq Int
  /\ SetParamResults \subseteq {"ok", "error"}
  /\ CommandResults \subseteq {"ok", "error"}
  /\ MaxCommands \in Nat

VARIABLES
  pc,        \* where each thread is inside setActiveConfig
  index,     \* its argument
  copy,      \* its argument dt of VdcPort::UpdateDeviceType
  devtype,   \* OmxDisplayManager::devtype
  native,    \* VdcPort::devicetype, to which the definition points
  framerate, \* VdcPort0: def.format.video.xFramerate
  current,   \* current_index
  commands,  \* the port commands the component has queued
  enabled,   \* the component's view of the port
  output,    \* the definition the component applies
  failed,    \* history: the component has refused something
  overlapped \* history: a request began while another was in progress

threadVars    == <<pc, index, copy>>
portVars      == <<native, framerate>>
componentVars == <<commands, enabled, output>>
history       == <<failed, overlapped>>
vars == <<threadVars, devtype, portVars, current, componentVars, history>>

-----------------------------------------------------------------------------
Rate == {"60Hz", "59.94Hz", "50Hz"}

(* gConfig after init: the boot attribute runs at 60 Hz.  All entries have *)
(* the same size.                                                          *)
gConfig == [i \in 0..3 |-> <<"60Hz", "60Hz", "59.94Hz", "50Hz">>[i + 1]]

(* The two members of the output signal that depend on the frame rate.     *)
Adjusted(rate) == rate = "59.94Hz"
HorizontalTotal(rate) == IF rate = "50Hz" THEN 5280 ELSE 4400

Timing(rate) == [adjusted |-> Adjusted(rate), total |-> HorizontalTotal(rate)]

Definition(i) == [rate |-> gConfig[i], timing |-> Timing(gConfig[i])]

TimingType == [adjusted : BOOLEAN, total : {4400, 5280}]

(* Mutant of Init: the constructor of the port drops its argument fr.      *)
InitRateZero ==
  /\ pc = [t \in Thread |-> "idle"]
  /\ index = [t \in Thread |-> 0]
  /\ copy = [t \in Thread |-> Timing("60Hz")]
  /\ devtype = Timing("60Hz") /\ native = Timing("60Hz") /\ framerate = "0Hz"
  /\ current = 0
  /\ commands = <<>> /\ enabled = TRUE /\ output = Definition(0)
  /\ failed = FALSE /\ overlapped = FALSE

(* After a successful init and start: mode 0 is set up, its port enabled.  *)
Init ==
  /\ pc = [t \in Thread |-> "idle"]
  /\ index = [t \in Thread |-> 0]
  /\ copy = [t \in Thread |-> Timing("60Hz")]
  /\ devtype = Timing("60Hz") /\ native = Timing("60Hz") /\ framerate = "60Hz"
  /\ current = 0
  /\ commands = <<>> /\ enabled = TRUE /\ output = Definition(0)
  /\ failed = FALSE /\ overlapped = FALSE

Goto(t, label) == pc' = [pc EXCEPT ![t] = label]

(* Locals that are no longer needed go back to their first value.          *)
Return(t) == Goto(t, "idle") /\ index' = [index EXCEPT ![t] = 0]
EndCopy(t) == copy' = [copy EXCEPT ![t] = Timing("60Hz")]

RequestedRate(t) == gConfig[index[t]]

NoRequest == \A t \in Thread : pc[t] = "idle"

-----------------------------------------------------------------------------
(* Mutant of Request: current_index is set before the change is made.      *)
RequestCommitted(t, i) ==
  /\ pc[t] = "idle"
  /\ Len(commands) <= MaxCommands
  /\ i # current /\ i \in DOMAIN gConfig
  /\ overlapped' = (overlapped \/ ~NoRequest)
  /\ index' = [index EXCEPT ![t] = i]
  /\ current' = i
  /\ Goto(t, "adjusted")
  /\ UNCHANGED <<copy, devtype, portVars, componentVars, failed>>

(* A request for the current index or one out of range changes nothing.    *)
Request(t, i) ==
  /\ pc[t] = "idle"
  /\ Len(commands) <= MaxCommands
  /\ i # current /\ i \in DOMAIN gConfig
  /\ overlapped' = (overlapped \/ ~NoRequest)
  /\ index' = [index EXCEPT ![t] = i]
  /\ Goto(t, "adjusted")
  /\ UNCHANGED <<copy, devtype, portVars, current, componentVars, failed>>

(* setFrameParameter on the shared devtype, one member after the other.    *)
SetAdjusted(t) ==
  /\ pc[t] = "adjusted"
  /\ devtype' = [devtype EXCEPT !.adjusted = Adjusted(RequestedRate(t))]
  /\ Goto(t, "total")
  /\ UNCHANGED <<index, copy, portVars, current, componentVars, history>>

SetTotal(t) ==
  /\ pc[t] = "total"
  /\ devtype' = [devtype EXCEPT !.total = HorizontalTotal(RequestedRate(t))]
  /\ Goto(t, "disable")
  /\ UNCHANGED <<index, copy, portVars, current, componentVars, history>>

(* OMX_SendCommand queues the command or fails; the caller ignores errors  *)
(* and does not wait for the completion event.                             *)
SendCommand(command) ==
  \/ "ok" \in CommandResults /\ commands' = Append(commands, command) /\ UNCHANGED failed
  \/ "error" \in CommandResults /\ failed' = TRUE /\ UNCHANGED commands

Disable(t) ==
  /\ pc[t] = "disable"
  /\ SendCommand("disable")
  /\ Goto(t, "copy")
  /\ UNCHANGED <<index, copy, devtype, portVars, current, enabled, output, overlapped>>

(* UpdateDeviceType(devtype): the argument is a copy ...                   *)
CopyDevtype(t) ==
  /\ pc[t] = "copy"
  /\ copy' = [copy EXCEPT ![t] = devtype]
  /\ Goto(t, "update")
  /\ UNCHANGED <<index, devtype, portVars, current, componentVars, history>>

(* ... assigned to the member of the port.                                 *)
UpdateDeviceType(t) ==
  /\ pc[t] = "update"
  /\ native' = copy[t]
  /\ EndCopy(t)
  /\ Goto(t, "info")
  /\ UNCHANGED <<index, devtype, framerate, current, componentVars, history>>

UpdateInfo(t) ==
  /\ pc[t] = "info"
  /\ framerate' = RequestedRate(t)
  /\ Goto(t, "param")
  /\ UNCHANGED <<index, copy, devtype, native, current, componentVars, history>>

(* SetParamPortDefinition: the component takes the definition over, with   *)
(* the device type it points to ...                                        *)
SetParamOk(t) ==
  /\ pc[t] = "param"
  /\ "ok" \in SetParamResults
  /\ output' = [rate |-> framerate, timing |-> native]
  /\ Goto(t, "enable")
  /\ UNCHANGED <<index, copy, devtype, portVars, current, commands, enabled, history>>

(* Mutant of SetParamError: the result is not looked at.                   *)
SetParamErrorIgnored(t) ==
  /\ pc[t] = "param"
  /\ "error" \in SetParamResults
  /\ failed' = TRUE
  /\ Goto(t, "enable")
  /\ UNCHANGED <<index, copy, devtype, portVars, current, componentVars, overlapped>>

(* ... or refuses it, and setActiveConfig returns -1 at once.              *)
SetParamError(t) ==
  /\ pc[t] = "param"
  /\ "error" \in SetParamResults
  /\ failed' = TRUE
  /\ Return(t)
  /\ UNCHANGED <<copy, devtype, portVars, current, componentVars, overlapped>>

(* Mutant of Enable: the command is sent only to a port seen disabled.     *)
EnableIfDisabled(t) ==
  /\ pc[t] = "enable"
  /\ IF enabled THEN UNCHANGED <<commands, failed>> ELSE SendCommand("enable")
  /\ Goto(t, "commit")
  /\ UNCHANGED <<index, copy, devtype, portVars, current, enabled, output, overlapped>>

Enable(t) ==
  /\ pc[t] = "enable"
  /\ SendCommand("enable")
  /\ Goto(t, "commit")
  /\ UNCHANGED <<index, copy, devtype, portVars, current, enabled, output, overlapped>>

SetCurrentIndex(t) ==
  /\ pc[t] = "commit"
  /\ current' = index[t]
  /\ Return(t)
  /\ UNCHANGED <<copy, devtype, portVars, componentVars, history>>

(* The component carries out the oldest command.                           *)
ProcessCommand ==
  /\ commands # <<>>
  /\ enabled' = (Head(commands) = "enable")
  /\ commands' = Tail(commands)
  /\ UNCHANGED <<threadVars, devtype, portVars, current, output, history>>

-----------------------------------------------------------------------------
Advance(t) ==
  \/ SetAdjusted(t) \/ SetTotal(t) \/ Disable(t) \/ CopyDevtype(t)
  \/ UpdateDeviceType(t) \/ UpdateInfo(t) \/ SetParamOk(t) \/ SetParamError(t)
  \/ Enable(t) \/ SetCurrentIndex(t)

Next ==
  \/ \E t \in Thread : (\E i \in Requests : Request(t, i)) \/ Advance(t)
  \/ ProcessCommand

Spec == Init /\ [][Next]_vars

(* A thread inside the handler keeps running, and the component carries    *)
(* out what it has queued.                                                 *)
FairSpec ==
  Spec /\ WF_vars(ProcessCommand) /\ \A t \in Thread : WF_vars(Advance(t))

-----------------------------------------------------------------------------
ThreadPc == {"idle", "adjusted", "total", "disable", "copy", "update", "info",
             "param", "enable", "commit"}

TypeOK ==
  /\ pc \in [Thread -> ThreadPc]
  /\ index \in [Thread -> DOMAIN gConfig]
  /\ copy \in [Thread -> TimingType]
  /\ devtype \in TimingType /\ native \in TimingType /\ framerate \in Rate
  /\ current \in DOMAIN gConfig
  /\ commands \in Seq({"enable", "disable"})
  /\ enabled \in BOOLEAN
  /\ output \in [rate : Rate, timing : TimingType]
  /\ failed \in BOOLEAN /\ overlapped \in BOOLEAN

AtRest == NoRequest /\ commands = <<>>

(* As long as requests come one at a time, even when the component refuses *)
(* a definition or a command: between requests the component applies the   *)
(* mode that current_index names.                                          *)
ActiveIsOutput == ~overlapped /\ NoRequest => output = Definition(current)

(* As long as the component refuses nothing, with any number of clients:   *)
(* once all requests and commands are done, the port is enabled.           *)
EnabledAtRest == ~failed /\ AtRest => enabled

(* The same as progress: if nothing is ever refused, a disabled port is    *)
(* enabled again, although requests may keep coming.                       *)
Reenabled == []~failed => (~enabled ~> enabled)

(* "no need to change", says setActiveConfig of a request for the current  *)
(* index, and does nothing: between requests the current mode is the       *)
(* one applied, on an enabled port.  Broken when OMX_SetParameter failed.  *)
NoNeedToChange == AtRest => output = Definition(current) /\ enabled

(* setFrameParameter pairs every frame rate with its timing: the component *)
(* is never given another combination.  Broken by two concurrent requests. *)
KnownDefinition == output \in {Definition(i) : i \in DOMAIN gConfig}

-----------------------------------------------------------------------------
(* How far the only request is, and what it asks for.                      *)
Phase ==
  IF overlapped THEN "void"
  ELSE IF NoRequest THEN "rest"
  ELSE IF \E t \in Thread : pc[t] \in {"enable", "commit"} THEN "applied"
  ELSE "asked"

Asked == IF NoRequest THEN current ELSE index[CHOOSE t \in Thread : pc[t] # "idle"]

Switch == INSTANCE ModeSwitch WITH
  Mode <- DOMAIN gConfig, Shown <- [i \in DOMAIN gConfig |-> Definition(i)],
  phase <- Phase, asked <- Asked, active <- current

(* As long as requests come one at a time, and whatever the component      *)
(* refuses: setActiveConfig switches modes as ModeSwitch says.  The steps  *)
(* on devtype, the port and its commands show the display nothing but one  *)
(* change to the mode asked for, ahead of current_index.                   *)
SwitchSpec == Switch!Spec
=============================================================================
