# OpenWSFZ in TLA+

OpenWSFZ is a C# daemon that runs an amateur radio station on FT8: it records
audio, decodes every 15 s slot, answers or calls other stations by itself, keys
the transmitter and logs the contacts.  This directory holds a TLA+ development
of that program: modules translated from the source, configurations that
model-check them with TLC, and theorems about them that TLAPS checks.

Paths below are relative to the repository; the daemon is `src/OpenWSFZ.Daemon`,
the web API `src/OpenWSFZ.Web`, the endurance tooling `qa/endurance`.

## 1. Inventory of the system

| Component | State it keeps | Operations | What is hard | What makes it correct |
|---|---|---|---|---|
| Answerer `QsoAnswererService` | session state, partner, retry count, skip guard, last message, held reply, cycle guards, armed targets, TX token | one loop reading batches; HTTP and UDP requests; watchdog | HTTP threads read and write between the loop's awaits; the token is swapped several times per session; batches of one cycle arrive in parts and late | nothing is sent in the partner's slot or after an abort; held replies and retries say the right thing; a contact is logged once, after it closed; every session ends |
| Caller `QsoCallerService` | the same, with a pending responder, graceful stop, abort TCS | call CQ, wait for responders, work one | three signals consumed in different waits | the same, and a graceful stop is honoured |
| Router `QsoControllerRouter` | active role | switch, revert, engage | two loops change owner of one transmitter without a lock | one active service, and requests reach it |
| PTT `PttWatchdog`, `CatPttController`, `SerialRtsDtrPttController` | timer, TX lock, flag, key line | key down, key up, forced release | timer callback against key-up; two key-ups for one keying; failing commands | a keyed rig is always going to be released, a taken lock given back, and no caller's release ends another's transmission |
| Audio capture `CaptureManager`, `PipelineController`, `CaptureAutoStartCoordinator`, `AudioWatchdog`, `CaptureRecoveryState` | running task, device, back-off, silent windows | start, stop, reconcile, recover | a stop that times out; attempts, saves and the watchdog race | one capture at a time on the configured device; a dead one is retried; the status tells the truth |
| Endurance supervisor `endurance_supervisor.py` | state.json, the daemon's pid, restart counters | pre-check, window loop, restart, teardown, resume | it may die between any two steps and be resumed; the daemon too | one daemon, none left behind, no early giving up |
| Late batches `LateBatch`, `Ft8TimeHelper` | a trimmed queue; timing arithmetic | write, read; alignment of a late start | 2.36 s and 11.25 s boundaries | batches in order; no start past the limit |
| Decode pump `DecodePump`, early decode | cycle in progress, early rows | publish batch 1, later batches, early rows | one failing step loses the cycle | every consumer sees the same batches in the same order |
| Configuration `JsonConfigStore` | current record, file | save, load | read-modify-write by many callers | no update is lost |
| CAT `CatPollingService`, rig connections | connection, dial, PTT | poll, tune, retry | a poll that overlaps a tune | a tune is not undone by an older poll |
| Framer `CycleFramer` | sample counter, window | frame, resynchronise | clock drift | each window is a slot |
| Reporting, PSK Reporter, archive, logs | sockets, queues, files | send, batch, append | full queues, retries | drops are counted |
| Decoder, DSP, native library | none between cycles | decode | numerical | out of scope |
| Web API, WebSocket hub, UI, start-up | none that a session depends on | endpoints, fan-out | requests race the loops | covered through the components they call |
| Studies and build scripts (Python) | files only | one-shot analyses, copies | nothing concurrent | out of scope |

How they interact: the framer hands a window to the decode pump after its slot ends; the
pump decodes it (possibly in several batches) and writes each batch to the queues of
the answerer, the caller and the reporters.  The active service reads, decides and
keys through the PTT controller, awaiting it for the length of the clip.  Operator
requests come on HTTP threads through the router, UDP replies through the reporting
service; both arm targets or cancel the session's token.  All of them read and write
the configuration store.  The supervisor sees the daemon from outside, as a process
with a status endpoint and a directory of recordings.

## 2. The modules

| Module | Models | Refines / used by |
|---|---|---|
| `Contact` | the promise of a session, with no clock and no threads | refined by both services |
| `Answerer`, `Caller` | the two services with their HTTP threads, watchdog and decode pump | `INSTANCE Contact WITH ...` in each |
| `Router` | both services, reduced to where a session stands, behind the router | its phases are those of the two services |
| `PttControl` | the PTT controller and all who call it | - |
| `Capture` | capture task, pipeline gate, attempts, silence watchdog, operator | - |
| `Supervisor` | the supervisor, the daemons it runs and `state.json` | - |

`MC*` modules give instances for TLC (`Router` needs none), and `*_proofs` modules hold
the theorems.  Each of the modules is parameterised by its limits; the bounds TLC needs
are constants called `Max...`, named as bounds where they are declared.

### 2.1 Contact, Answerer, Caller

`Contact` is: engage, advance, log, release.  A station is logged at most once per
session and only after it closed; a cancelled session can only be released.

Time is a sequence of 15 s slots with three positions: *early* (a whole signal still
fits: at most 2.36 s in), *mid* (a start is aligned, its head skipped) and *tail* (from
11.25 s on: no start).  Cycle `c` is slot `c` as received; its batch 1 exists once the
slot is over.  These positions are all the code distinguishes
(`LateBatch.CanStartWhole`, `Ft8TimeHelper.IsPastLastStart`).

A service is one loop, so a handler is atomic between its awaits.  `pc` names the await
the loop is in: `read`; `saving` (SaveAsync of the TX offset; in the caller also
`holding`, before a report that is held); `keyed` (KeyDownAsync); `sent`; `complete` (the
record is written); `aborting` (KeyUpAsync and SaveAsync inside SafeAbortToIdleAsync); in
the caller, `ending` before it, between the reset of the stop flag and the new token.  An
HTTP endpoint that awaits, or whose steps the loop can come between, has one action per
step; `http` holds what is left to do.

| TLA+ | Code |
|---|---|
| `Tick`, `PublishFirst`, `PublishSecond` | the clock and `DecodePump` as a service sees it; a cycle may be lost |
| Answerer: `HandleIdle`, `HandleWait`, `SendHeld`, `RetryOrAbort`, `LateIdle`, `LateWait` | `HandleIdleAsync`, `HandleWaitReportAsync`, `HandleWaitRr73Async`, `SendDeferredIfDueAsync`, `RetryOrAbortAsync`, `ProcessLateBatchAsync` |
| Caller: `HandleIdle`, `HandleWaitAnswer`, `AnswerPick`, `HearRoger`, `SendHeld`, `LateWaitAnswer`, `LateRoger` | `HandleIdleAsync`, `HandleWaitAnswerAsync`, `HandleWaitRr73Async`, the deferred report and closing, the late handlers |
| `ReadDecode`, `ReadWakeup`, `ReadCancelled` | `ReadNextBatchAsync`, `ProcessBatchAsync` |
| `SaveDone` ... `AbortDone` | the rest of the handlers after each await, and `ExecuteAsync`'s catch clauses |
| `WatchdogFire` | `CancelAfter` of the session watchdog |
| Answerer `AnswerCqRequest` ... `HttpEnable`; Caller `CallCq` ... `HttpAway` | the endpoints of `WebApp`, the router, `TryEngageExternal` |

The caller differs in its signals.  Its loop waits for the decode channel, the wakeup
channel and `_abortTcs`, never for `_txCts`: an abort wakes it, a watchdog is noticed
when something else does.  `stop` is the flag of `GracefulStopAsync`, whose look at the
state (`GracefulStop`), write of the flag and write of the wakeup (`HttpStop`, twice) are
three steps; on the other side `SafeAbort` lowers the flag and `Renew` drains the wakeups.
A stop that comes between those two keeps its flag and loses its wakeup.

`Refines` in both is the refinement mapping: the phase is read off the loop position and
the last message, and a session is doomed when its token is cancelled while it waits or
transmits.  In the caller a session begins when a responder is taken, not with the CQ.

### 2.2 Router

A service is `idle`, `deciding` (the answerer saves the TX offset; `State` is still
Idle), `busy`, `releasing` or `clearing` (in `SafeAbortToIdleAsync`, from a session or
from Idle).  `CallCq` is `SwitchToCallerAsync`, `Released` contains `OnBecameIdle`,
`HttpEngage` is the role exchange of `EngageAtAsync`; requests come in any number, and
the state space is finite without a bound.

### 2.3 PttControl

Services, Test requests, the operator's abort, the watchdog's callback and the disposal
are threads.  Each takes `KeyDownAsync`, `KeyUpAsync`, `ForceReleaseAsync` and
`DisposeAsync` a step at a time: each access to the lock, to `_txLockHeld`, to
`_pttAsserted` and to the timer is a step of its own wherever another thread can come
between.  `call` says from which place a `KeyUpAsync` was called, hence what follows it; a
session that ends in a wait calls it too, whoever is keyed (`SafeAbort`).  Calls overlap as
the code lets them: the lock is a semaphore that `Acquire` waits for and nothing else.  The
serial controller has the same steps around another key line.

### 2.4 Capture

One capture task (`session`: `open`, `up`, `hung`, `dead`), cancelled tasks that outlived
the 10 s of `StopAsync` (`ghosts`), the pipeline gate with the device it will start,
automatic attempts with their delay, enumeration, adoption and reconcile, `AudioWatchdog`'s
count of silent windows, saves of the operator and the reconciles they queue, and the
shutdown.  A device that rotates its identifier is one that leaves while another comes.

### 2.5 Supervisor

`Precheck` to `OpenWindow`, the window loop (`PollDead`, `PollAlive`, `Stop`, `WindowOver`),
the launch of a daemon in three steps (`Launch`, `Record`, `Restarted`/`Recorded`),
teardown to `Finished`.  `DaemonDies` and `Crash` happen at any step; `Resume` starts from
`state.json`, and `FindDaemon` looks for the recorded pid.  `CrashCut` hits inside a save
or between `Popen` and the save of the pid.

## 3. What TLC checks

| Run | Instance | States | Shows |
|---|---|---|---|
| `auto` | answerer: 2 stations of both parities, 7 slots, 2 late batches per cycle, enable/disable/abort, prompt machine | 601,401 | `TypeOK`, `OwnParity`, `HeldReplySentAtFirstChance`, `SupervisedSessions`, `HeldReplyBelongs`, `RetryRepeatsTheRightMessage`, `Refines` |
| `operator` | answerer: 1 station, 3 slots, all requests, two at a time, any interleaving, saves may fail | 527,000 | `Watched`, `Refines`, `SessionsEnd` |
| `caller` | 1 station, 6 slots, both selection modes, 3 requests of any kind, saves may fail | 768,906 | `TypeOK`, `HeldReplyBelongs`, `OwnParity`, `StopWakes`, `Refines`, `StopHonoured` |
| `ptt` | a service, a tester, 2 keyings, the watchdog, and one event: an abort, a session that ends in a wait, a shutdown, or a failing command | 222,539 | `TypeOK`, `Attended`, `LockAttended`, `Released`, `LockFreed` |
| `roles` | any number of requests | 2,496 | `TypeOK`, `RoleMatchesActive`, `CallerInCharge`, `RoleReverts` |
| `supervisor` | 1 resume, limits of 2, cut saves and failing queries | 110,076 | `TypeOK`, `Accounted`, `CleanWhenTracked`, `AbortLeavesNothing`, `NoEarlyGivingUp`, `Recovers` |
| `capture` | 2 devices, 2 attempts at once, 2 faults, 1 save, all fault kinds, shutdown | 752,473 | `TypeOK`, `FollowsTheLastSave`, `OnePipeline`, `DeadIsRetried`, `ReportIsTrue`, `StaysDown`, `KeptUp` |

* `OwnParity`: skip guard, retry, parity of a held reply and refusal in the tail together
  never key us in the slot our partner transmits in.  In the caller, external replies are
  left out (their phase is the last complete window's, not that of the window they came
  in) and so are retries to a clicked partner (see `own_window`).
* `HeldReplySentAtFirstChance`: a held reply is not still held after the next batch 1 of
  its parity.
* `SupervisedSessions`: each session spends a request that asked for one (switched
  auto-answer on, armed a target, or switched roles); aborts and disables ask for none.
* `HeldReplyBelongs`, `RetryRepeatsTheRightMessage`: a held reply is held for the wait,
  the partner and the message in force; a retry repeats what the wait is the answer to.
* `Refines`: at most one log entry per session, after the closing; no progress of a
  cancelled session.
* `SessionsEnd`: each answerer session ends, though the partner may never answer, the
  clock may stop and no batch need ever come.
* `Watched`, what `SessionsEnd` rests on: no session transmits or waits on a token without
  the watchdog's timeout, whichever return to Idle, wakeup or abort replaced the token.
* `StopHonoured`: a graceful stop ends the caller's session, though no batch comes.
  `StopWakes`, what it rests on: in a session that is not yet being ended, the flag of a
  stop is never up without the wakeup that makes the loop look at it, queued or about to be.
* `Attended`, `LockAttended`: whenever the rig is keyed somebody is still going to release
  it, and whenever the TX lock is taken somebody is still going to give it back.
  `Released` and `LockFreed` are their liveness twins.  `Attended` and `Released` name the
  three events after which they claim nothing (section 3.1); overlaps are not excluded.
* `RoleMatchesActive`, `CallerInCharge`, `RoleReverts`: the role requests are delegated to
  is the service that may start; a caller in a session holds it and gives it back.
* `Accounted`: however often daemon and supervisor die, no daemon runs that a resumed
  supervisor would not find.  `CleanWhenTracked`: "orphan check: clean" is true.
  `AbortLeavesNothing`, `NoEarlyGivingUp`, `Recovers`: a failed pre-check leaves no
  daemon, a night is given up only on repeated failures, a dead daemon is replaced.
* `FollowsTheLastSave`, `OnePipeline`, `StaysDown`: with nothing under way the pipeline
  runs on the device of the last configuration; record, framer and task go together;
  nothing starts it after the shutdown.  `DeadIsRetried`, `ReportIsTrue`, `KeptUp`: a
  dead capture has an attempt under way, the status says Capturing only while a task
  lives, and once the faults stop capture comes up and stays up.

Five runs are expected to fail; each is a statement of the source that the code does not
keep (the findings of `PROJECT.json`):

* `hard_stop`: "Abort must be an unconditional hard stop".  A clicked target that the
  loop has taken but whose TX offset is still being saved is Idle for `AbortAsync`, which
  returns; PTT is keyed afterwards.
* `own_window`: "next cycle is our own TX window; do not count as missed response".  A
  transmission started by a wakeup before batch 1 of the previous cycle has been read
  spends the guard on that batch; the own window is counted and the retry goes out in the
  partner's slot.  For this reason the answerer's `OwnParity` is checked with auto-answer
  only, where sessions are started by batches.
* `test_unkeys`: the comment on `_txLock` says that without the lock a Test's "own short
  KeyUpAsync could de-assert PTT mid-transmission", and that with it "a second caller's
  KeyDownAsync cannot begin asserting PTT until the first caller's KeyUpAsync has fully
  completed".  But of two releases of one keying the first frees the lock while the second,
  past its look at the flag, has its tail time and command still to come: here the watchdog
  trips as a test's clip ends, the service that waited for the lock keys, and the test's
  own key-up unkeys it.
* `stuck_ptt`: "PTT is guaranteed released on any exception during KeyDownAsync".  When the
  rig obeys the key command and the acknowledgement is lost or cancelled, the flag is not
  set and no watchdog runs; nobody releases PTT (`GuaranteedRelease`, which has only the
  exemption of a release command that fails).
* `stall`: "The watchdog SHALL trigger a pipeline restart".  The watchdog fires only while
  capture is active, and the attempt it awaits returns at once because capture is active.

Three more disagreements with a comment are states the modules reach, without a run or a
finding of their own:

* the race note of the answerer's `SafeAbortToIdleAsync` (`QsoAnswererService.cs`
  1817-1824) says of a token cancelled between its two assignments that the loop
  self-heals.  The Idle branch of `ReadNextBatchAsync` (602-617) never looks at the token;
  the next session begins with a cancelled one and is aborted;
* "must not leave a stale request that fires on a future session"
  (`QsoCallerService.cs` 1462-1463): a graceful stop between that reset and the drain of the
  wakeups leaves its flag up at Idle, where it ends the next CQ;
* "PTT is guaranteed released" (`CatPttController.cs` 23-25): the overlap of `test_unkeys`,
  with an abort's key-up and the service's own, lets line 201 clear the flag of the keying
  that followed.  That keying's key-up and its watchdog then return at once and the rig
  stays keyed: `astray`, which `Attended` and `Released` exempt by name.

Met on the way and stated in no document: a daemon *configured* as a caller can end with a
role that is not the active service (`Configured = "caller"` violates `RoleMatchesActive`;
the documentation of `EngageAtAsync` calls that case untested); call-cq during the
answerer's offset save lets both services have a session, serialised by the PTT lock; a
save that switches decoding off and on during a back-off leaves a dead capture; a target
armed while the loop saves the offset of another session is cleared unseen by that
session's end; a capture task that outlived its stop lowers the Capturing flag of its
successor when it ends, so the status may deny a capture that runs (`ReportIsTrue` is only
about the opposite).

### 3.1 Assumptions

* A station keeps its slot parity and sends one message per cycle.  A supplementary batch
  tells only of stations no earlier batch of its cycle told of.
* `Timely = TRUE` is a prompt machine: no cycle is lost, batch 1 of a cycle is delivered
  before the next slot ends its first part, whatever can be read is read before the clock
  moves, and a person's request comes after it.  `Timely = FALSE` allows every
  interleaving, lost cycles and arbitrarily slow steps.  Timing properties are claimed for
  the prompt machine only; the other properties hold without it, and `operator` and the
  theorems show them without it.
* A watchdog may fire at any moment while it is armed (in the code after 1 to 60 minutes).
* A configuration save is atomic for the fields a module has, and may fail.  The queues
  of 8 or 10 batches do not fill up within the bounds; an overflow is a lost publication.
* `Configured = "answerer"`, the default of `TxConfig`.
* `Attended` and `Released` (`ptt`) claim nothing after one of three events: `lost`, a
  release command failed (no code can release a rig that does not answer); `unacked`, a key
  command failed after the rig obeyed it (`stuck_ptt`); `astray`, a key-up cleared the flag
  of a keying that had overtaken it.  `LockAttended` and `LockFreed` exempt only `lost`.
* `faults` (`supervisor`): after a crash inside a save or between `Popen` and the save of
  the pid, or a process query that failed, nothing is claimed about daemons; the code has
  no defence and TLC then finds a second daemon.  `AbortLeavesNothing` is about the pre-check that fails; an
  exception out of it ends the supervisor like a crash.  taskkill works, and a pid that
  `state.json` names is not given to another process.
* `slips` (`capture`): `DeadIsRetried` and `KeptUp` are not claimed once a save overtook a
  queued reconcile, or the save of an adopted device failed.  All devices carry the
  configured friendly name; device and name are cleared together; the framer ends when it
  is cancelled; delays are finite.

### 3.2 Bounds

`auto`: a held reply needs four slots from CQ to second transmission, a retry after it
two more; seven slots hold a session, its held reply and the beginning of the next.  Two
stations suffice for "another station" to matter, one retry for the limit to be reached,
two late batches for one to follow another.  `operator` and `caller`: two requests
suffice for a request to race an abort, three for a third signal to be consumed by the
wrong wait; six slots hold CQ, answer, report, roger and closing.  `TargetLife` and
`PickLife` (60 s in the code) are scaled to one or two slots, so that a target expires
within the bound.  At the last slot's tail these models may stop (`Done`); deadlock is
checked everywhere else.

`ptt`: the second keying is the one a late release of the first could hit; the watchdog
comes in any number, and `MaxEvents` bounds aborts, sessions that end in a wait, shutdowns
and failing commands together at one, enough for a third release to come between the two
keyings.  The three invariants were also checked with two events (1,166,008 states) and with
three keyings (868,157).  `capture`: two devices for a
rotation, two attempts for one to overtake another, two faults for a failure during a
recovery, a threshold of two for a count that is neither zero nor full; the devices are
alike, so the run starts with `A` chosen or none.  The invariants were also checked with
two saves.  `supervisor`: each limit is 2, the least at which "again" and "first" differ.
`ptt`, `supervisor` and `capture` allow deadlock because the real threads end: calls used
up, run done, pipeline shut down.

### 3.3 Fairness

Every fairness condition says that a thread which can go on does.

* `Answerer`, `Caller`: the steps of the loop after an await and the return of a cancelled
  wait; the answerer's armed timer; the caller's end of a clip, clock, reads of wakeups,
  `Renew` and HTTP steps.  No batch is assumed, and the caller assumes nothing of its watchdog.
* `PttControl`: a thread inside a call goes on, an armed timer fires, its callback runs.
  The end of a clip is not assumed, nor that a waiting thread ever gets the lock.
* `Router`: a session ends and a release is completed - what `SessionsEnd` shows of the
  answerer and what the caller does whenever a batch arrives.
* `Supervisor`: it takes its steps while it runs (queries, status requests and the
  gatherer have timeouts); a `state.json` without a window end makes the loop raise.  The
  window need never close.
* `Capture`: an attempt, a stop and a start go on; the gate is fair to those who wait for
  it (strong fairness, since others use it in between); an open device delivers, one that
  is gone fails, and the silence ticker ticks.

## 4. What is proved

For every value of the constants that satisfies the named assumptions and the hypotheses
given here: any stations, slots, retries, sets of requests; any threads and keyings; any
devices and limits.  Every safety property of a passing run is stated by a theorem.

| Module | Theorems | Hypotheses |
|---|---|---|
| `Answerer_proofs`, `Caller_proofs` | `Inductive` (`Spec => []IInv`), `TypeCorrect`, `HeldReply`, for the answerer `RetryRepeats`; `AnswererRefinesContact`, `CallerRefinesContact`: both services implement `Contact` | none: prompt or not |
| `AnswererTiming_proofs` | `SessionsWatched` | none |
| | `SessionsAreSupervised` | no clicks on a CQ, saves succeed |
| | `TransmitsOnOwnParity`, `HeldReplySentInTime` | prompt machine, no clicks, external replies or engagements |
| `CallerTiming_proofs` | `StopAlwaysWakes` | none |
| | `TransmitsOnOwnParity` | prompt machine, all requests |
| `PttControl_proofs` | `TypeCorrect`, `LockIsAttended`, `PttAttended` | none: any overlap |
| `Router_proofs` | `TypeCorrect` | none: either configured role |
| | `Inductive`, `RolesAgree`, `CallerReachable` | `Configured = "answerer"` |
| `Supervisor_proofs` | `Inductive`, `TypeCorrect`, `DaemonAccounted`, `CleanIsTrue`, and the action properties `AbortsClean`, `GivesUpLate` | none |
| `Capture_proofs` | `Inductive`, `TypeCorrect`, `LastSaveFollowed`, `OnePipelineHolds`, `DeadRetried`, `ReportTrue`, `ShutdownLasts` | none |

All follow one argument: an inductive invariant, checked by TLC first, then one step per
action.

* Services: that a held report meets the right state and message depends on what the loop
  does between the late batch and the next read.  `IInv` adds `SessionInv` (a partner
  exactly during a session; each loop position finds the state and message it was left
  with) and that an armed target or a pick names a station.  Each way a handler can end -
  begin a session, abort, send, hold, leave alone - has one lemma; handlers are split into
  those and actions into handlers.  The refinement has the same shape: begin maps to
  `Engage`, abort to `Release`, sending something new to `Advance`, a record to `Log`, a
  cancellation to `Cancel`, the rest are stutters.
* The retry count's limit is part of the types: outside an abort `retry <= RetryCount`.
* `Watched` and `StopWakes` are inductive beside `IInv`: each handler that replaces the
  token or drains the wakeups does both halves, or neither; `StopWakes` starts anew with
  each session, since a stop that missed the last one has no wakeup.
* `SupervisedSessions` counts: `unspent` rises with a request that asks for a session and
  falls with each session begun.  `PromiseInv` makes it inductive: each armed target, an
  auto-answer that is on while Idle, and each HTTP request still to switch it on has an
  unspent request to itself (`Promises <= unspent`).  A click arms a target and switches
  auto-answer on, so one request may become two sessions, and a disarm whose save fails
  leaves auto-answer on after its session: hence the hypotheses.
* Slots, answerer: `SlotInv` relates the clock, the queue and the session.  `PumpInv`: the
  pump is at most a cycle behind the clock and no wakeup is queued.  `QueueInv`: the queue
  is the rest of two cycles in their order, and what it tells was sent on its sender's
  parity.  `HeldInv`: a held reply is of the newest cycle read or the one before.
  `TurnInv`: a session transmits in the slot after the newest cycle read, and while it
  waits the skip guard is up exactly while the next cycle is its own.  The hypotheses are
  those of the `auto` run; what arms a target is left out because a session begun by its
  wakeup spends the guard on the wrong batch, as `own_window` shows.
* Slots, caller: the same parts, but a wakeup of a click counts as a batch 1 for
  `lastBatch1`, so the newest cycle read (`NewestRead`) is told from the queue.  `WakeInv`:
  a wakeup that is no stop's is that of a pick armed in this slot.  `PhaseInv`: a click's
  pick is fired in the slots its station listens in.  Whether `by` is a batch or a click
  says how much `TurnInv` knows of the guard.
* `PttControl`: the write that clears the flag comes after the release command, so what
  `Attended` needs is to know of each thread that is about to clear it (`ClearInv`): the rig
  it released is still released, or keyed again by a keying that has not set the flag yet, or
  that keying has overtaken it and the write will be counted as `astray`.  `LockAttended`
  needs only that `_txLockHeld` tells whether the lock is taken (`HeldIsTaken`), so whoever
  looks at the flag before a release finds it right.
* `Supervisor`: `TrackInv` says that while no fault lost track of a daemon, `state.json`
  names the one there can be, and none runs where one is about to be launched.
* `Capture`: `GateInv` ties record, framer and task to who is inside the gate, `NextInv`
  says which device is about to start, `RetryInv` who will restart a dead capture.

Only model-checked are the liveness properties `SessionsEnd`, `StopHonoured`, `Released`,
`LockFreed`, `RoleReverts`, `Recovers` and `KeptUp`, since liveness under fairness and
ENABLED are beyond the prover.  Of the first four, what must be true at each moment for
the last step to come - a token with a timeout, a wakeup behind a stop, somebody about to
release - is proved.  The five violations stay with TLC, whose traces are their evidence.

## 5. Not modelled

Message text, reports, frequencies, AP constraints, log wording, notifications to the
browser, the decode filter and target validation (a modelled CQ is one that passes them),
and `tx.qsoConfirmation`.

* **Configuration store**: the read-modify-write of the whole record.  Every module takes a
  save as an atomic update of its own fields; two savers of different fields may lose one
  in the code, and no document promises otherwise.
* **Cycle framer, decoder, DSP**: real-valued drift and numerical processing, which TLC
  cannot enumerate.  Their output is the nondeterministic content and timing of batches.
* **CAT polling**: beyond the outcome of a PTT command (done, failed, failed after the rig
  obeyed).
* **Reporting, PSK Reporter, archive, logs, look-up stores, WebSocket hub, browser UI,
  early rows**: formatting, appends and fan-out that change no session; the log of
  `Contact` stands for the ADIF record.
* **Host and start-up**: process management and wiring; the capture part of `Program.cs`
  is in `Capture`.
* **Python scripts**: most Python of the repository runs a recording through a decoder
  once and computes statistics, sequentially and in floating point, with no state beside
  its files.  There is no behaviour for a state machine to describe, so of the Python code
  only the supervisor, which has crashes, restarts and a persisted state, is modelled.  The
  bulk of what is modelled is C#.
