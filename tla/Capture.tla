------------------------------ MODULE Capture ------------------------------
(***************************************************************************)
(* How the daemon keeps audio capture running: CaptureManager runs one     *)
(* capture task, PipelineController alone starts and stops it under a      *)
(* semaphore, CaptureAutoStartCoordinator makes the automatic attempts,    *)
(* AudioWatchdog watches for silence, and the operator saves the device    *)
(* and the decoding switch.                                                *)
(*                                                                         *)
(* All devices carry the configured friendly name: a device that rotates   *)
(* its identifier is one that leaves while another comes.  A device is     *)
(* chosen or cleared together with its name, as the settings page does.    *)
(* The framer ends when it is cancelled.  Delays are finite, not counted.  *)
(***************************************************************************)
EXTENDS Naturals

CONSTANTS Devices,      \* device identifiers
          NoDevice,     \* no device
          MaxAttempts,  \* bound: automatic attempts under way at once
          Threshold,    \* silent windows before the watchdog restarts
          MaxFaults,    \* bound: faults of devices, drivers and enumerations
          MaxSaves,     \* bound: saves of the operator
          Stalls,       \* TRUE: a session may stop delivering without an error
          Overruns,     \* TRUE: a cancelled task may outlive the 10 s of StopAsync
          DiskFaults,   \* TRUE: saving an adopted device may fail
          MayClose      \* TRUE: the daemon may be shut down

ASSUME DeviceAssumption == NoDevice \notin Devices
ASSUME LimitAssumption  ==
  /\ Threshold \in Nat \ {0}
  /\ MaxAttempts \in Nat \ {0} /\ {MaxFaults, MaxSaves} \subseteq Nat
ASSUME SwitchAssumption == {Stalls, Overruns, DiskFaults, MayClose} \subseteq BOOLEAN

VARIABLES
  config,      \* AudioDeviceId and DecodingEnabled
  present,     \* devices that can be opened
  session,     \* the task of _captureTask
  ghosts,      \* cancelled tasks StopAsync gave up on
  capturing,   \* _isCapturing
  framer,      \* the framer slot is filled
  running,     \* _runningDevice
  gate,        \* who is inside _gate, and the device it will start
  attempt,     \* CaptureAutoStartCoordinator.RunAsync calls under way
  asks,        \* ReconcileAsync("config") calls that wait for the gate
  silent,      \* AudioWatchdog._silentWindows
  failing,     \* _consecutiveCaptureFailures is not 0
  down,        \* _shutDown
  faults, saves, \* faults and saves so far
  slips        \* history: a save overtook a reconcile; an adoption was not saved

boundVars  == <<faults, saves>>
configVars == <<config, asks, slips>>
vars == <<configVars, present, session, ghosts, capturing, framer, running, gate, attempt,
          silent, failing, down, boundVars>>

Attempts  == 1..MaxAttempts
OptDevice == Devices \cup {NoDevice}
Config    == [device : OptDevice, enabled : BOOLEAN]

(* Places of an attempt: its delay, the enumeration, the save of an adopted
   device, the wait for the gate, inside the gate.  watch: the ticker awaits it. *)
Places  == {"none", "delay", "resolve", "adopt", "retry", "inside"}
Attempt == [pc : Places, id : OptDevice, enabled : BOOLEAN, watch : BOOLEAN]
NoAttempt == [pc |-> "none", id |-> NoDevice, enabled |-> FALSE, watch |-> FALSE]

Free  == [pc |-> "free", next |-> NoDevice]
Alive == {"open", "up", "hung"}

TypeOK ==
  /\ config \in Config /\ present \subseteq Devices
  /\ session \in Alive \cup {"none", "dead"} /\ ghosts \in 0..MaxFaults
  /\ capturing \in BOOLEAN /\ framer \in BOOLEAN /\ running \in OptDevice
  /\ gate \in [pc : {"free", "stopping", "starting", "closing"}, next : OptDevice]
  /\ attempt \in [Attempts -> Attempt] /\ asks \in Nat
  /\ silent \in 0..(Threshold - 1)
  /\ failing \in BOOLEAN /\ down \in BOOLEAN
  /\ faults \in 0..MaxFaults /\ saves \in 0..MaxSaves
  /\ slips \subseteq {"rushed", "unsaved"}

-----------------------------------------------------------------------------
(* What the configuration read now asks for. *)
Desired == IF config.enabled THEN config.device ELSE NoDevice

(* The status captureState of CaptureRecoveryState; Recovering stands for
   DeviceUnavailable too. *)
Reported == IF Desired = NoDevice THEN "Idle"
            ELSE IF capturing /\ ~failing THEN "Capturing" ELSE "Recovering"

Fault == faults < MaxFaults /\ faults' = faults + 1

Spawn(watched) ==
  \E a \in Attempts :
     /\ attempt[a].pc = "none" /\ \A b \in 1..(a - 1) : attempt[b].pc # "none"
     /\ attempt' = [attempt EXCEPT ![a] = [NoAttempt EXCEPT !.pc = "delay", !.watch = watched]]

Drop(a) == attempt' = [attempt EXCEPT ![a] = NoAttempt]

RecordFailedAttempt == failing' = TRUE

(* RecordChunkReceived *)
RecordChunk == failing' = FALSE

(* Faulty: reported, not retried. *)
CaptureFailedUnretried ==
  UNCHANGED attempt /\ IF config.device = NoDevice THEN UNCHANGED failing ELSE RecordFailedAttempt

(* The CaptureFailed handler: one more attempt, unless no device is chosen. *)
CaptureFailed ==
  IF config.device = NoDevice THEN UNCHANGED <<attempt, failing>>
  ELSE RecordFailedAttempt /\ Spawn(FALSE)

(* SaveAsync and, under its lock, OnSaved: a changed device or switch asks for
   a reconcile. *)
Save(c) ==
  /\ config' = c
  /\ IF c = config THEN UNCHANGED <<asks, slips>>
     ELSE /\ asks' = asks + 1
          /\ slips' = IF asks > 0 THEN slips \cup {"rushed"} ELSE slips

-----------------------------------------------------------------------------
(* Devices and the capture task *)

DevicesChange ==
  /\ Fault
  /\ \E d \in Devices : present' = (present \ {d}) \cup ({d} \ present)
  /\ UNCHANGED <<configVars, session, ghosts, capturing, framer, running, gate, attempt,
                 silent, failing, down, saves>>

Chunk ==
  /\ session \in {"open", "up"} /\ running \in present
  /\ session' = "up" /\ RecordChunk
  /\ UNCHANGED <<configVars, present, ghosts, capturing, framer, running, gate, attempt,
                 silent, down, boundVars>>

(* Faulty: no finally clause. *)
EndTaskKeepingFlag == session' = "dead" /\ capturing' = capturing

(* The finally clause of the task. *)
EndTask == session' = "dead" /\ capturing' = FALSE

(* The task ends by itself: an exception, or the source is exhausted.  The
   finally clause clears the flag after the handler has run. *)
SessionFails ==
  /\ session \in Alive
  /\ \/ running \notin present /\ faults' = faults
     \/ Fault
  /\ EndTask /\ CaptureFailed
  /\ UNCHANGED <<configVars, present, ghosts, framer, running, gate, silent, down, saves>>

Hang ==
  /\ Stalls /\ Fault
  /\ session \in {"open", "up"} /\ session' = "hung"
  /\ UNCHANGED <<configVars, present, ghosts, capturing, framer, running, gate, attempt,
                 silent, failing, down, saves>>

(* A task StopAsync gave up on may still deliver, and clears the flag of the
   session that replaced it when it ends. *)
GhostChunk ==
  /\ ghosts > 0 /\ RecordChunk
  /\ UNCHANGED <<configVars, present, session, ghosts, capturing, framer, running, gate,
                 attempt, silent, down, boundVars>>

GhostEnds ==
  /\ ghosts > 0 /\ ghosts' = ghosts - 1 /\ capturing' = FALSE
  /\ \/ UNCHANGED <<attempt, failing>>
     \/ CaptureFailed
  /\ UNCHANGED <<configVars, present, session, framer, running, gate, silent, down,
                 boundVars>>

-----------------------------------------------------------------------------
(* CaptureHealthMonitor, AudioWatchdog and the restart action.  The ticker
   awaits the attempt it starts. *)

(* Faulty: one window too late. *)
StalledLate == silent >= Threshold

Stalled == silent + 1 >= Threshold

Tick ==
  /\ ~down /\ \A a \in Attempts : ~attempt[a].watch
  /\ \E flowing \in BOOLEAN :
       /\ session = "up" => flowing
       /\ flowing => session = "up" \/ ghosts > 0
       /\ \/ /\ flowing \/ ~capturing
             /\ silent' = 0 /\ UNCHANGED <<attempt, failing>>
          \/ /\ ~flowing /\ capturing /\ ~Stalled
             /\ silent' = silent + 1 /\ UNCHANGED <<attempt, failing>>
          \/ /\ ~flowing /\ capturing /\ Stalled
             /\ silent' = 0 /\ RecordFailedAttempt /\ Spawn(TRUE)
  /\ UNCHANGED <<configVars, present, session, ghosts, capturing, framer, running, gate,
                 down, boundVars>>

-----------------------------------------------------------------------------
(* CaptureAutoStartCoordinator.RunAsync *)

(* After the delay: the guards. *)
Attempted(a) ==
  /\ attempt[a].pc = "delay"
  /\ IF Desired = NoDevice \/ capturing THEN Drop(a)
     ELSE attempt' = [attempt EXCEPT ![a].pc = "resolve", ![a].id = config.device]
  /\ UNCHANGED <<configVars, present, session, ghosts, capturing, framer, running, gate,
                 silent, failing, down, boundVars>>

(* UseConfigured, or CannotResolve: nothing enumerated. *)
UseConfigured(a) ==
  /\ \/ (attempt[a].id \in present \/ present = {}) /\ faults' = faults
     \/ Fault
  /\ attempt' = [attempt EXCEPT ![a].pc = "retry", ![a].id = NoDevice]
  /\ UNCHANGED failing

(* The other fields of the saved record are those of the current one. *)
AdoptDevice(a) ==
  /\ attempt[a].id \notin present
  /\ \E d \in Devices :
       /\ present = {d}
       /\ attempt' = [attempt EXCEPT ![a].pc = "adopt", ![a].id = d, ![a].enabled = config.enabled]
  /\ UNCHANGED <<failing, faults>>

(* Faulty: no next attempt. *)
NotFoundGivesUp(a) ==
  /\ attempt[a].id \notin present /\ \A d \in Devices : present # {d}
  /\ RecordFailedAttempt /\ Drop(a) /\ faults' = faults

(* NotFound, Ambiguous: a failed attempt schedules the next one. *)
NotFound(a) ==
  /\ attempt[a].id \notin present /\ \A d \in Devices : present # {d}
  /\ RecordFailedAttempt
  /\ attempt' = [attempt EXCEPT ![a] = [NoAttempt EXCEPT !.pc = "delay"]]
  /\ faults' = faults

Resolve(a) ==
  /\ attempt[a].pc = "resolve"
  /\ UseConfigured(a) \/ AdoptDevice(a) \/ NotFound(a)
  /\ UNCHANGED <<configVars, present, session, ghosts, capturing, framer, running, gate,
                 silent, down, saves>>

(* Only the save: OnSaved starts the adopted device. *)
Adopted(a) ==
  /\ attempt[a].pc = "adopt"
  /\ \/ Save([device |-> attempt[a].id, enabled |-> attempt[a].enabled])
     \/ DiskFaults /\ slips' = slips \cup {"unsaved"} /\ UNCHANGED <<config, asks>>
  /\ Drop(a)
  /\ UNCHANGED <<present, session, ghosts, capturing, framer, running, gate, silent,
                 failing, down, boundVars>>

-----------------------------------------------------------------------------
(* The operator: POST /api/v1/config, decode/start, decode/stop *)

OperatorSaves ==
  /\ saves < MaxSaves /\ saves' = saves + 1
  /\ \E c \in Config : c # config /\ Save(c)
  /\ UNCHANGED <<present, session, ghosts, capturing, framer, running, gate, attempt, silent,
                 failing, down, faults>>

-----------------------------------------------------------------------------
(* PipelineController *)

(* Faulty: a running pipeline is left alone whatever its device. *)
ConvergedAnywhere(forced) ==
  \/ down
  \/ Desired = NoDevice /\ running = NoDevice
  \/ Desired # NoDevice /\ running # NoDevice /\ ~forced

(* Faulty: the shutdown is not looked at. *)
ConvergedThoughDown(forced) == Desired = running /\ (forced => Desired = NoDevice)

(* ReconcileAsync has nothing to do. *)
Converged(forced) ==
  \/ down
  \/ Desired = running /\ (forced => Desired = NoDevice)

(* ReconcileAsync after it got the gate: stop, then start, or only one of
   them.  Stopping ends the framer and cancels the task. *)
Reconcile ==
  IF running = NoDevice
  THEN gate' = [pc |-> "starting", next |-> Desired] /\ framer' = framer
  ELSE gate' = [pc |-> "stopping", next |-> Desired] /\ framer' = FALSE

ConfigReconcile ==
  /\ gate.pc = "free" /\ asks > 0 /\ asks' = asks - 1
  /\ IF Converged(FALSE) THEN UNCHANGED <<gate, framer>> ELSE Reconcile
  /\ UNCHANGED <<config, slips, present, session, ghosts, capturing, running, attempt,
                 silent, failing, down, boundVars>>

RetryReconcile(a) ==
  /\ gate.pc = "free" /\ attempt[a].pc = "retry"
  /\ IF Converged(TRUE) THEN Drop(a) /\ UNCHANGED <<gate, framer>>
     ELSE attempt' = [attempt EXCEPT ![a].pc = "inside"] /\ Reconcile
  /\ UNCHANGED <<configVars, present, session, ghosts, capturing, running, silent,
                 failing, down, boundVars>>

(* The gate is released; the attempt that was inside returns. *)
Release ==
  /\ gate' = Free
  /\ attempt' = [a \in Attempts |-> IF attempt[a].pc = "inside" THEN NoAttempt ELSE attempt[a]]

(* The cancelled task ends. *)
CaptureStops ==
  /\ gate.pc \in {"stopping", "closing"} /\ session \in Alive
  /\ EndTask
  /\ UNCHANGED <<configVars, present, ghosts, framer, running, gate, attempt, silent,
                 failing, down, boundVars>>

(* Faulty: the record survives the stop. *)
StoppedOnRecord == session' = "none" /\ capturing' = FALSE /\ running' = running

Stopped == session' = "none" /\ capturing' = FALSE /\ running' = NoDevice

(* StopAsync returns: the task has ended, or 10 s have passed. *)
StopDone ==
  /\ gate.pc \in {"stopping", "closing"}
  /\ \/ session \in {"none", "dead"} /\ UNCHANGED <<ghosts, faults>>
     \/ session \in Alive /\ Overruns /\ Fault /\ ghosts' = ghosts + 1
  /\ Stopped
  /\ IF gate.next = NoDevice THEN Release
     ELSE gate' = [gate EXCEPT !.pc = "starting"] /\ UNCHANGED attempt
  /\ UNCHANGED <<configVars, present, framer, silent, failing, down, saves>>

(* StartCoreAsync, StartAsync *)
Start ==
  /\ gate.pc = "starting"
  /\ session' = "open" /\ capturing' = TRUE /\ framer' = TRUE /\ running' = gate.next
  /\ Release
  /\ UNCHANGED <<configVars, present, ghosts, silent, failing, down, boundVars>>

(* ShutdownAsync: the ticker, the framer, then the capture. *)
Shutdown ==
  /\ MayClose /\ ~down /\ gate.pc = "free"
  /\ down' = TRUE /\ framer' = FALSE /\ gate' = [pc |-> "closing", next |-> NoDevice]
  /\ UNCHANGED <<configVars, present, session, ghosts, capturing, running, attempt, silent,
                 failing, boundVars>>

-----------------------------------------------------------------------------
(* At start-up one attempt is made at once, if there is something to start. *)
Init ==
  /\ config \in Config /\ present \in SUBSET Devices
  /\ session = "none" /\ ghosts = 0 /\ capturing = FALSE /\ framer = FALSE
  /\ running = NoDevice /\ gate = Free
  /\ attempt = [a \in Attempts |-> IF a = 1 /\ Desired # NoDevice
                                    THEN [NoAttempt EXCEPT !.pc = "delay"] ELSE NoAttempt]
  /\ asks = 0 /\ silent = 0 /\ failing = FALSE /\ down = FALSE
  /\ faults = 0 /\ saves = 0 /\ slips = {}

Device    == DevicesChange \/ Chunk \/ SessionFails \/ Hang \/ GhostChunk \/ GhostEnds
Automatic == \E a \in Attempts : Attempted(a) \/ Resolve(a) \/ Adopted(a) \/ RetryReconcile(a)
Pipeline  == ConfigReconcile \/ CaptureStops \/ StopDone \/ Start \/ Shutdown
Next == Device \/ Tick \/ Automatic \/ OperatorSaves \/ Pipeline

Spec == Init /\ [][Next]_vars

(* Delays end, calls return, a device that is there delivers and one that is
   gone cannot be opened, and nobody who waits for the semaphore starves. *)
Fairness ==
  /\ \A a \in Attempts :
       /\ WF_vars(Attempted(a) \/ Resolve(a) \/ Adopted(a))
       /\ SF_vars(RetryReconcile(a))
  /\ SF_vars(ConfigReconcile) /\ WF_vars(CaptureStops \/ StopDone \/ Start)
  /\ WF_vars(Chunk) /\ WF_vars(session = "open" /\ SessionFails) /\ WF_vars(Tick)

FairSpec == Spec /\ Fairness

-----------------------------------------------------------------------------
(* Safety *)

(* ReconcileAsync is level-triggered: when no reconcile is under way or waits,
   the pipeline runs on the device the last configuration describes, whatever
   the order of the saves, the adoptions and the retries, or has not been
   started. *)
FollowsTheLastSave ==
  gate.pc = "free" /\ asks = 0 /\ ~down => running \in {Desired, NoDevice}

(* The record, the framer slot and the capture task go together: a framer has a
   capture to read from, whether it is dead or not, and the other way round. *)
OnePipeline == gate.pc = "free" => /\ framer = (running # NoDevice)
                                   /\ (session = "none") = (running = NoDevice)

(* "a capture that has since died still counts as running (the capture-recovery
   coordinator retries it)": a dead capture that should run has an attempt under
   way, though guards, adoptions and config reconciles leave it alone.  Not so
   when a save overtook the reconcile of an earlier one (off and on again), or
   when an adoption could not be saved. *)
DeadIsRetried ==
  slips = {} /\ session = "dead" /\ gate.pc = "free" /\ asks = 0 /\ ~down /\ Desired # NoDevice
    => \E a \in Attempts : attempt[a].pc # "none"

(* The status says Capturing only while a capture task is alive.  (Not the other
   way round: a task that was given up on clears the flag of its successor, and
   the status then denies a capture that runs.) *)
ReportIsTrue == Reported = "Capturing" => session \in Alive

(* Later reconciles do nothing: after the shutdown no attempt and no save in
   flight starts capture again. *)
StaysDown == down /\ gate.pc = "free" => session = "none" /\ ~framer

(* The inductive invariant.  GateInv: what each place inside the gate has done
   so far.  NextInv: with no reconcile waiting, the device to be started is the
   one desired, though it was read before the stop.  RetryInv: an attempt that
   will restart a dead capture is under way, or the reconcile that waits will. *)
GateInv ==
  /\ gate.pc \in {"free", "closing"} => gate.next = NoDevice
  /\ gate.pc = "starting" => gate.next # NoDevice /\ running = NoDevice
  /\ gate.pc = "closing" => down
  /\ down => gate.pc = "closing" \/ (gate.pc = "free" /\ running = NoDevice)
  /\ (session = "none") = (running = NoDevice)
  /\ framer = (gate.pc = "free" /\ running # NoDevice)
  /\ capturing => session \in Alive
  /\ ghosts <= faults

NextInv ==
  asks = 0 /\ ~down =>
    /\ gate.pc = "free" => running \in {Desired, NoDevice}
    /\ gate.pc \in {"stopping", "starting"} => gate.next = Desired

Restarts(a) == \/ attempt[a].pc \in {"delay", "retry"}
               \/ attempt[a].pc = "resolve" /\ attempt[a].id = config.device
               \/ attempt[a].pc = "adopt" /\ attempt[a].id # config.device

RetryInv ==
  slips = {} =>
    /\ asks <= 1
    /\ session = "dead" /\ gate.pc = "free" /\ ~down /\ Desired # NoDevice
         => \/ \E a \in Attempts : Restarts(a)
            \/ asks = 1 /\ Desired # running

IInv == TypeOK /\ GateInv /\ NextInv /\ RetryInv

(* Liveness *)

(* The device can be opened, or one device with its name can be adopted. *)
CanRun == /\ Desired # NoDevice /\ ~down /\ slips = {}
          /\ config.device \in present \/ \E d \in Devices : present = {d}

(* Audio capture must always be running: once the faults stop, capture comes up
   and stays up, over losses and rotations of the device, failed attempts and
   forced restarts, unless it cannot.  (A session that delivers nothing counts as
   up here, since the code takes it for one; StallRestarted is about it.) *)
KeptUp == <>[](CanRun => session \in {"up", "hung"})

(* The watchdog restarts a session that stopped delivering without an error. *)
StallRestarted == (session = "hung" /\ capturing) ~> (session # "hung" \/ ~capturing)
=============================================================================
