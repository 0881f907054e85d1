# Display manager: TLA+ models, checks and proofs

The display manager is the Android daemon that owns the OpenMAX video display
component ("VDC") of the board. Clients send it frames, show or hide the OSD
plane and select display modes over binder. This directory holds TLA+ models of
its concurrent core and of its start-up, the TLC configurations that check them,
and proofs that TLAPS checks. `PROJECT.json` lists the components, the runs, one mutant for each
property, the source lines of every definition, the findings, the hazards and
the theorems.

Source names below are relative to `src/`; BC is
`libOmxDisplayController/BaseComponent.cpp`, OM is
`libOmxDisplayManager/OmxDisplayManager_novcc.cpp`, DM is `DisplayManager.cpp`.

## 1. The system

| component | state | operations |
|---|---|---|
| frame hand-over: `BaseComponent::EmptyBuffer` with its callback | `mEmptyBuffer_lock`, `Omx_BufferHeaderList`, the port's `Used`, `blocked` and `ev` | `EmptyBuffer`, `default_empty_buffer_done`, `BasePort::wait_event`, `BasePort::notify_event` |
| plane visibility | `PlaneShowStatus`, the port's cached `mute` | `CHANGE_PLANE_SHOW`, `ChangeMute` at the end of a frame, `ConfigCommonMute` |
| display modes | `current_index`, `devtype`, the definition and device type of `VdcPort0` | `SET_ACTIVE_CONFIG`: `setActiveConfig`, `setFrameParameter`, `Disable`, `UpdateInfo`, `Enable` |
| component states | `status`, the component's own `ev` | `SetState`, `BaseComponent::wait_event`, `default_event_handler` |
| daemon and dispatcher | `initialized`, `initialized_mutex`, `change_port_setting` | `main`, `init`, `run`, `onTransact` |
| client proxies | none | one method per transaction code |
| ports | `PortList`, port index, definition, `in_crop`, `out_crop` | `AddPort`, `SetParamPortDefinition`, `UpdateCrop` |
| `PortSet` | a list of (component, in, out) | `start`, `stop`, `enable`, `disable`, `GetPort` |
| `display_init` | an ION buffer | allocate, submit one frame, exit |
| `dm_cmd` | none | one call and its printout |

How they interact. A binder thread runs `onTransact`. For a frame it calls
`EmptyBuffer`, which submits a header to the OpenMAX component and waits on the
port's event slot; a thread of the component calls `default_empty_buffer_done`,
which frees the header and stores the event. The last step of the frame unmutes
the plane by `ConfigCommonMute`, which `CHANGE_PLANE_SHOW` uses as well. The mode
handler shares `VdcPort0` and `devtype` among all callers. The main thread
publishes the service and only then takes the component to Executing by two
blocking `SetState` calls, which wait on the event slot of the component. `display_init`
is a second program over the same classes: at boot it shows one picture, without
publishing anything, and exits when the component is done with it.

What is hard in it: a time-out that races a completion; an event slot that
holds one event for whoever comes next; a list walked without its lock; one
"blocked" flag for many buffers; a cache updated after the thing it caches, by
handlers of which one holds a mutex and the other does not; asynchronous port
commands around a synchronous parameter change; clients that call during
start-up; a small pool of threads that frames occupy; initialization whose results
nobody looks at, so that a failure is met where a pointer it left behind is used.
`PROJECT.json` gives each hazard at its line, with the properties that cover it.

What makes each part correct: a frame's memory is not reused before the display
is done with it, headers are freed once and only after they came back, and every
call returns (hand-over); a plane that is reported as shown can be seen
(visibility); the mode named is the mode applied, on an enabled port (modes);
frames reach only an Executing component, and a call that reports success was
carried out (dispatcher); what is published can serve, what was cached was applied,
and a frame's memory outlives the display's use of it (start-up, `display_init`).

## 2. Modules

| module | what it is |
|---|---|
| `FrameHandover` | abstract: callers take turns, the component has at most one frame, a turn does not end while the component has it |
| `EmptyBuffer` | the hand-over of a frame, step by step; implements `FrameHandover` when all calls block |
| `PlaneShow` | the mute state of the plane under both handlers |
| `ModeSwitch` | abstract: one request at a time leaves the active mode only for the mode asked for, or is refused and changes nothing |
| `ActiveConfig` | mode changes by any number of clients; implements `ModeSwitch` as long as requests do not overlap |
| `DisplayService` | start-up, the binder pool and the dispatch of calls; uses `FrameHandover` for frames |
| `FrameService` | the daemon with its real `EmptyBuffer`: `DisplayService` and `EmptyBuffer` over the same binder threads; implements `DisplayService` |
| `StartUp` | the daemon and `display_init` from their first step, any of which may fail, to serving or exit |
| `MC...` | instances for TLC |
| `...Proofs` | theorems for every value of the constants |

Mutants of a definition stand just before it in its module; no specification
uses them.

### EmptyBuffer

Each thread has a program counter, its argument `blocked` and its header. The
actions follow `EmptyBuffer` line by line: lock and allocate (`Enter`), the early
return without a luma address (`Reject`), the two list insertions, the flag, the
submission (`SubmitOk`, `SubmitError`), the error path (`Fail`), the wait loop and
the removal from `Used` (`DropFromUsed`). `mEmptyBuffer_lock` is held across the
wait, so it is a variable (`owner`); the short critical sections of the list locks
and of `BasePort::lock` are one action each. `TimeOut` and `ResumeTimedOut` are
two actions because `pthread_cond_timedwait` must take the lock again after it
gave up, and the callback may hold it meanwhile.

The callback is one thread: `HandBack` (component returns a header, private block
freed), the unlocked walk of the list (it lasts while `cbPc = "get"`; `torn` says
that a node was freed under it), deletion, the test of the flag, notification or
removal from `Used`, the error check trap. `Header` stands for the addresses
`malloc` can return, so reuse of an address is part of the model.

Left out: the contents of a header, `EmptyBufferCounter`, the colour format (only
its effect, the early return, is kept), the order of list entries, and what
reading a freed list node may do to the process beyond missing an entry.

### PlaneShow

`CHANGE_PLANE_SHOW` is `LockPlane`, `Decide`, `ConfigOk` or `ConfigError`,
`SetMuteType`, `SetPlaneShowStatus`, `UnlockPlane`. A frame's last step is
`ChangeMute` followed by the same steps of `ConfigCommonMute`, without the mutex.
`hw` is what the component was last told. `BasePort::mute` has no initial value,
so a failed mute in `AddOsdPort` leaves any cache. That a frame was submitted
before it unmutes is left out: the unmute happens whatever `EmptyBuffer` returns.

### ActiveConfig

`setFrameParameter` is two actions, for the two members that depend on the rate;
the others are equal for all modes. The port commands go through a queue that the
component works off on its own; `OMX_SetParameter` is immediate and may be
refused. `UpdateDeviceType` takes its argument by value, hence `CopyDevtype` and
`UpdateDeviceType`; each copy of the structure is one step. Requests that change
nothing (current index, index out of range) are no steps. The error returns for an
unknown rate or size cannot be reached with `gConfig`.

`Phase` and `Asked` map these steps to `ModeSwitch`: from `Request` to the applied
definition the request is "asked", from then to `SetCurrentIndex` "applied". Only three
steps are seen there: `Request`, `SetParamOk` (its `Apply`) and `SetCurrentIndex` (its
`Commit`), or `SetParamError` (its `Refuse`). A second request in the handler makes the
phase "void", and `ModeSwitch` promises nothing from then on.

### DisplayService

The main thread is `InitOmx`, `Publish`, twice `SendStateOk` or `SendStateError`
with `WaitEvent`, and `SetInitialized`. A client has one call at a time; a free
binder thread takes it (`Receive`) and serves it by its code: behind
`initialized` (`NotInitialized`, `ServeConfigs`, `RefuseFrame`, `StartFrame`), under
`initialized_mutex` (`LockInitialized`, `ServeLocked`; the code "default" stands for
all that `onTransact` passes on to `BBinder`), or neither (`ServeDump`). Frames go
through `FrameHandover`, whose `turn` and `frame` say how far the frame of the handler
at "frame" is. `RefuseFrame` is the handler that meets a NULL native handle, which is
not replied to, or an unknown type, which is answered with -1. What the proxies make
of an empty reply is `Unready`. `change_port_setting` is 0 for ever and `empty_buffer`
is never read, so their mutex and condition are left out. An initialization that fails
is in `StartUp`. Spurious wake-ups of `BaseComponent::wait_event` change nothing and are
left out.

### FrameService

Two instances over one set of binder threads: `Service` is `DisplayService`, `Buffers`
is `EmptyBuffer` with the arguments the daemon gives it (`Blocking`, `NoOption`).
`inside` is `EmptyBuffer`'s program counter. A handler at "frame" enters `EmptyBuffer`
(`Enter`), runs its steps (`Inside`, `TimeOut`, `SpuriousWakeup`) while the component and
its callback run theirs (`Finish`, `Callback`), and replies in the step that leaves it:
`ReplyRejected` when the submission failed, `ReplyDone` after the wait. No step is
written twice: each action is one of the two modules', or their conjunction, and the
dispatcher's `turn` and `frame` are `EmptyBuffer`'s owner and the place of its header.

### StartUp

Both programs in one module, because they share everything from
`OmxDisplayManager::init` on; `program` says which one runs. Any step in `Faulty` may
fail, once it is reached and in any combination. `failed` records which did. A failure
is not handled where it happens: `OmxInit` and `GetHandle` continue with `AddOsdPort`
because `DisplayManager::init` drops the result (DM:73). The first use of a pointer that
was never set, is NULL or belongs to nothing is undefined; in the model it ends the
program, and `fault` says where it was and which pointer (`AddOsdPortFaults`,
`UpdateCropFaults`, `EmptyBufferFaults`, `HandlerFaults`). Any other outcome of such a use
is beyond what the model says.

`AddPort` and `AddOsdPort` keep the indexes: the output port takes index 0, two are
skipped, the OSD port takes 3, which is the one `nCompositePattern` names. `UpdateCrop` is
one action for each rectangle, with the cache written after the component accepted it;
the caches start at -1 (BC:503, BC:530), so the first rectangle is always applied.
`display_init` starts with `get_physical_address`: `refs` holds what keeps the memory
allocated, an ION handle, the descriptor of `ION_IOC_MAP` and a mapping. The clean-up runs
on success too. `ION_IOC_FREE` gets the allocation request instead of a handle, so it may
free or not; while the handle's duplicate of the ION descriptor is open, both outcomes are
possible. Its frame is submitted (`Submit`), finished by the component, whose callback
stores the completion in `ev` (`FrameDone`), and unmuted whatever came of it (`Unmute`). The
wait in between is `EmptyBuffer`'s: `Return` finds the completion, `TimeOut` and
`ResumeTimedOut` are as there, so display_init can lose its completion too, with no step
failing, and then never exits. `FrameDone` covers the callback in one step; its own steps
are in `EmptyBuffer`.

Left out: the members of port definitions and of the panel description, which are
constants of the code; `setFrameParameter` failing, which it cannot with these constants;
the waiting in `start()`, which is the subject of `DisplayService`, and of `EmptyBuffer` all
but the wait; the one second `display_init` sleeps; `SetPowerMode`, which only logs.

## 3. Runs

| run | instance | shows |
|---|---|---|
| `EmptyBufferBlocked` | 3 threads, 2 addresses, all calls block, rejections, fair | `ReturnsAfterHandBack`, `WalkUndisturbed`, `NoStaleCompletion`, `NothingLeaks`, `UsedDrained`, `NotForgotten`, `ReturnsUnlessRaced`; implements `FrameHandover` |
| `EmptyBufferMixed` | 2 threads, 3 addresses, both modes, rejections | `HeldHeadersAlive` |
| `PlaneShowFrames` | 3 threads, `OMX_SetConfig` may fail | `ShownIsVisible`, `BootMuteRetried`, `MuteOffUnlessRaced` |
| `ActiveConfigClients` | 2 clients, one mode of each rate, everything may be refused, fair | `ActiveIsOutput`, `EnabledAtRest`, `Reenabled`; implements `ModeSwitch` |
| `DisplayServiceCalls` | 3 binder threads, 3 clients of which 2 submit frames, commands may fail, fair | `FramesWhenExecuting`, `StatusTruthful`, `WaitAnswered`, `ThreadFree`, `Starts`, `Answered`, `OthersAnswered` |
| `FrameServiceFrames` | 2 clients that submit frames, one of which also uses other calls, 2 binder threads, 2 addresses; commands and submissions may fail, fair | `HeldWhenExecuting`, `CallerWaits`, `NoCircularWait`, `AnsweredUnlessRaced`; implements `DisplayService` |
| `StartUpFailures` | both programs, every step may fail, fair | `PublishedUsable`, `FaultsTraced`, `CropTruthful`, `FrameBacked`, `BootFrameShown`, `StartsUp` |

Two statements say less than one might read into them. `ShownIsVisible` has one direction: a
frame unmutes the plane whatever `PlaneShowStatus` says, so a plane reported as hidden may be
visible. `CropTruthful` is about the one `UpdateCrop` of start-up, with either rectangle
refused; no caller repeats it.

Several statements hold only while something has not happened: a refusal, a
failed call, two requests at once. The history variables `failed` and `overlapped`
record that, so that one run has both the good and the bad cases, and no premise
is built into its constants. `UsedDrained`, `NotForgotten`, `MuteOffUnlessRaced`, `Reenabled`,
`Starts`, `Answered`, `AnsweredUnlessRaced` and `StartsUp` are conditional on the behaviour
(`[]~failed => ...`, `[]~TimeOutRace => ...`; `StartsUp` on both for display_init); the good
behaviours exist in each run, and the mutants show that they can break.

Runs that end in a counterexample, each a disagreement between the code and what
it says of itself:

| run | statement | what happens |
|---|---|---|
| `EmptyBufferLost` | `WaitEnds`: the bounded, retried wait ends | the waiter times out; the callback stores the completion before the waiter has the lock again; the waiter overwrites it with the time-out and waits for ever, holding `mEmptyBuffer_lock` (BC:752); display_init waits the same way and would not exit |
| `PlaneShowStale` | `MuteOffAfterFrame`: a frame leaves the plane unmuted (`DisplayManager.cpp:165`) | a hide falls between a frame's `OMX_SetConfig` and its update of the cache; later frames believe the cache |
| `ActiveConfigRefused` | `NoNeedToChange`: nothing to do for the current index (`DisplayManager.cpp:232`) | a refused definition left the port disabled (OM:392) |
| `ActiveConfigTorn` | `KnownDefinition`: rate and timing belong together (OM:72-83) | two requests interleave on the shared structures |
| `DisplayServiceEarly` | `SuccessIsDone`: "initialize before clients can connect" (`displaymanager_main.cpp:43`) | a request during start-up is dropped and reported as done |

Some more things were seen while modelling. A refused output port leaves `VdcPort0`
NULL and start-up goes on: the daemon shows frames, and the first change of mode uses
the NULL pointer (OM:384). `FaultsTraced` says that this is the only bad pointer a
published service has left to meet. A boot frame that is refused still unmutes the plane
(DM:166), so `BootFrameShown` excepts it. `dump` tests its pointers and `setActiveConfig`
does not. Two more are not stated as properties. A rejected
submission leaves its address in `Used` (BC:448): `UsedDrained` excludes
rejections, and the error check trap of the callback (`CheckTrap`) logs once eleven
such addresses are there. And nobody waits for `OMX_CommandPortDisable`: the
definition may change on a port the component has not disabled yet (OM:384).

Bounds. Two threads are enough for every race between two calls; a third is added
where the state space allows, so that one more can wait for the lock. Two header
addresses allow reuse while a stale address is still in `Used`; the mixed run has
three, for several headers held at once. `MaxCommands` stops new requests while
that many port commands are queued, which keeps the queue finite: each request adds
two. With `MaxCommands = 0` a request waits for an empty queue, but two requests that
have both begun still mix their commands; the violation runs have `MaxCommands = 2`.
`ActiveConfigClients` has one mode for each rate; `ActiveConfigRefused` and
`ActiveConfigTorn` have every index and one out of range on each side. The daemon has
four pool threads, `DisplayServiceCalls` three: two can be held by frames and one is
left for everybody else, which is what `ThreadFree` says of any pool; with four or more
clients that submit frames, the daemon's pool of four can be occupied by them. `EmptyBufferMixed` does not check for deadlock: addresses
run out there, since a header whose node was missed is never freed (the leak is the
effect of the freed node, and bounded memory ends the run). `FrameServiceFrames` has
two binder threads: a second frame can wait for the lock, and other calls for a thread;
the pool of four adds waiting threads and no new step. `StartUpFailures` needs no bound,
each program takes finitely many steps; it does not check for deadlock because both
programs stop, by exit, by crash, or in the daemon's sleep.

Symmetry sets are used in safety runs only; no property singles out a thread.

Fairness. A thread inside a handler runs on (weak fairness of its steps), a wait
with a deadline reaches it, and the component works off what it accepted: these
stand for the scheduler and for the component. In `DisplayService` the steps of a
handler and of the main thread are strongly fair, because some of them wait for a
mutex, and so is `Receive`: a mutex reaches each waiter in the end, and a transaction
a binder thread. Without this nothing could be said about any call, and the kernel's
queues provide it. No client is assumed to call, nothing to fail, no wait to wake up
spuriously. `ReturnsUnlessRaced` excludes the race that `EmptyBufferLost` exhibits. `FrameService`
takes the dispatcher's fairness for the dispatcher and `EmptyBuffer`'s for time-outs, the
component and its callback; a handler inside `EmptyBuffer` waits for locks too, so its steps
are strongly fair like those of any handler. `AnsweredUnlessRaced` then needs no premise
about frames coming back, only the absence of that race. `StartUp` asks that the main
thread runs on, through its time-outs too, and that the component finishes a frame it took,
both weakly; that display_init comes back from its wait follows only without the race. In
`DisplayServiceCalls` a submitted frame is not assumed to come back, since that race
can keep it out for ever: `Answered` has this as its premise, `OthersAnswered` does
without.

## 4. Proofs

All theorems hold for arbitrary sets of threads, addresses, clients and requests.
Assumptions on constants are the named `ConstantsAssumption` of each module; further
assumptions are part of the theorem.

* `EmptyBufferProofs`. `TypeCorrect`, and `HeadersAlive` for all modes: the
  invariant lists, for each place a header can be (thread, component, callback),
  that it is allocated and in no other place. For blocking calls,
  `BlockedInvariant` adds that the thread that holds the lock is the only one inside,
  that the component and the callback together have at most that thread's header,
  and that a stored completion belongs to it. From it follow `FrameReusable`,
  `WalkSafe`, `NoLeak`, `CompletionOwned`, and `Implements`: initial states and steps
  map to those of `FrameHandover`. The strengthening is needed because
  `ReturnsAfterHandBack` speaks of the moment of return, and what makes it true is
  the history of `ev` since the submission.
  `Drained`: `Used` holds at most the header of the call in progress (`DrainInv`), as
  long as nothing is rejected.
  `CallNotForgotten` is the safety half of `ReturnsUnlessRaced`: a waiting call always has
  its header with the component or the callback, or its completion stored and itself not
  asleep. Every step keeps this (`ComingStep`), except the one in which a timed-out
  thread overwrites the event: the window that `EmptyBufferLost` exhibits is the only one.
* `PlaneShowProofs`. `TypeCorrect`; `ShowVisible`, while nothing has failed, by
  `GuardInv` (who is inside ChangePlaneShow) and `HolderInv` (how far its holder
  is): frames can only set `MuteDisable`, so only the holder of the mutex can mute.
  `BootMuteKept`: nobody mutes the plane black after the boot, and the cache follows the
  component (`BlackInv`). `MuteOffKept`: the cache differs from the component only while
  one call is between `OMX_SetConfig` and `SetMuteType`, and that call is about to store
  the difference (`CacheInv`). So the overlap of two such calls, which `PlaneShowStale`
  needs, is the only cause of a stale cache; a failing `OMX_SetConfig` is none.
* `ActiveConfigProofs`. `TypeCorrect`; `PortEnabled`: whenever a disable command is
  queued or carried out, an enable is queued behind it or a thread still owes one, as
  long as nothing was refused. `OutputIsCurrent`, as long as no two requests overlapped:
  the request that is alone in the handler has prepared the right device type, copy,
  rate and output at each of its steps, whatever the component refuses (`Sequential`).
  `Switches`, the refinement of `ModeSwitch`, rests on the same invariant: `MappingHolds`
  says what `Phase` and `Asked` are in terms of the thread in the handler, and `SwitchStep`
  maps each step to one of the abstract ones or to a stutter. Two theorems bound the
  findings of this module: `TornOnlyIfOverlapped` (`KnownDefinition` fails only after an
  overlap, whatever is refused) and `CurrentUnlessDisturbed` (`NoNeedToChange` fails only
  after a refusal or an overlap).
* `DisplayServiceProofs`. `TypeCorrect`; `StatusIsState` by the handshake: at most
  one command, completion or event is under way, and only while the main thread
  waits; `FramesExecute` and `StartNotForgotten` add how far the component is at each point
  of `start()`, as long as no command failed (`StartInv`). `StartNotForgotten` is the safety
  half of `Starts`: the wait without a deadline always has its change pending, under way or stored.
  `PoolNotExhausted` needs who holds `initialized_mutex` (`LocksHeld`) and that a busy thread serves
  one client whose call is open and unanswered, no two threads the same one
  (`JobsOwned`): if every thread were at "frame", the clients they serve would be at least
  as many as they are. It and
  `ThreadKept`, which carries it over, are the theorems that assume a set to be finite (`Client`).
* `FrameServiceProofs`. Steps of `FrameService` are, for the variables of
  `EmptyBuffer`, steps of `EmptyBuffer` or stutters (`BufferStep`), so the invariants proved
  there hold of the binder threads (`BufferInvariants`). With them each step maps to a
  step of `DisplayService` (`ServiceImplemented`): for example, that `DropFromUsed` ends the turn
  of a frame that is done needs that the header is not with the component.
  Because both modules are implemented, their theorems carry over instead of being
  proved again: `BuffersKept` and `FramesNotForgotten` for the frames, `ServiceKept`,
  `ThreadKept` and `HeldExecuting` for the dispatcher. `CallerBlocked` combines the two: whoever is inside
  `EmptyBuffer` is at "frame" in the dispatcher (`InsideServes`) and so serves an open,
  unanswered call. `LocksApart` relates the locks of both modules: the holder of
  `initialized_mutex` is never inside `EmptyBuffer`.
* `StartUpProofs`. The invariant says for each point of the programs what the steps
  before it leave when they work, and which of them failed when it is not there:
  `PlaceInv` (which program is where), `BufferInv` (handle, memory and frame), `MuteInv`,
  `ComponentInv` (component and ports) and `CropInv`. `ServiceUsable`, `FaultsHaveCauses`,
  `CropIsApplied`, `FrameKept` and `FrameShown` follow, for every set of steps that may fail.
  `BootFrameNotForgotten`: a waiting display_init has its frame with the component or its
  completion stored, unless the completion falls into the window of a time-out.

Model-checked only: liveness (`ReturnsUnlessRaced`, `Reenabled`, `Starts`, `Answered`,
`OthersAnswered`, `AnsweredUnlessRaced`, `StartsUp`), which needs fairness and ENABLED and is
out of the prover's reach. Of `ReturnsUnlessRaced`, `Starts`, `AnsweredUnlessRaced` and
`StartsUp` the safety half is proved (`CallNotForgotten`, `StartNotForgotten`,
`FramesNotForgotten`, `BootFrameNotForgotten`): what is waited for is on its way.
The violation runs are counterexamples and have nothing to prove.

## 5. Not modelled

* Code without a caller in this build: `DisplayManager::deinit` and what only it reaches
  (`OmxDisplayManager::stop` and `deinit`, `BaseComponent::deinit`), `SetupTunnelConnect`,
  `OmxDisplayManager::UpdateCrop`, the base-class `AddPort` with a frame rate, the buffer list
  of a port other than `Used`, FILL_BUFFER_DONE, and `PortSet::start`, `stop`, `enable` and
  `disable`. No state of the program is one they run in, so a model would have to invent
  their initial states and their callers. (`PortSet::stop` walks downwards from `begin()`;
  whoever gives it a caller should look at that first.)
* `dm_cmd` beyond being a client, dump text, build files.
* The OpenMAX component, binder and ION are not in the repository: the models let them
  accept, refuse, and complete in any order and at any time that their interfaces allow.
* What a use of a bad pointer does other than end the program (`StartUp`), and what
  reading a freed list node does other than miss an entry (`EmptyBuffer`).

## 6. What is left

The properties of mixed blocking and non-blocking callers beyond `HeldHeadersAlive`, should a
second caller of `BaseComponent::EmptyBuffer` appear: what becomes of `Used`, and of a call
that waits while another one sets `blocked` to false.
