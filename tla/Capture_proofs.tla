--------------------------- MODULE Capture_proofs ---------------------------
(***************************************************************************)
(* Proofs about Capture, for any devices, bounds and faults: types, the    *)
(* pipeline that follows the last save, the dead capture that is retried,  *)
(* and a shutdown that lasts.                                              *)
(***************************************************************************)
EXTENDS Capture, TLAPS

(* The bounds are numbers. *)
LEMMA Bounds == /\ Threshold \in Nat /\ Threshold > 0
                /\ MaxAttempts \in Nat /\ MaxAttempts > 0
                /\ MaxFaults \in Nat /\ MaxSaves \in Nat
BY LimitAssumption

(* An idle attempt is an attempt. *)
LEMMA IdleType == NoAttempt \in Attempt
BY DEF NoAttempt, Attempt, Places, OptDevice

(* What is desired is a device or none. *)
LEMMA DesiredType == ASSUME TypeOK PROVE Desired \in OptDevice
BY DEF TypeOK, Desired, Config, OptDevice

(* IInv holds initially. *)
LEMMA InitIInv == Init => IInv
<1> SUFFICES ASSUME Init PROVE IInv
  OBVIOUS
<1>a. [NoAttempt EXCEPT !.pc = "delay"] \in Attempt
  BY DEF NoAttempt, Attempt, Places, OptDevice
<1>1. attempt \in [Attempts -> Attempt]
  BY <1>a, IdleType DEF Init
<1>b. 0 \in 0..MaxFaults /\ 0 \in 0..MaxSaves /\ 0 \in 0..(Threshold - 1) /\ 0 \in Nat
  BY Bounds
<1>c. gate \in [pc : {"free", "stopping", "starting", "closing"}, next : OptDevice]
  BY DEF Init, Free, OptDevice
<1>d. NoDevice \in OptDevice BY DEF OptDevice
<1>2. TypeOK
  BY <1>1, <1>b, <1>c, <1>d DEF Init, TypeOK
<1>3. GateInv
  <2>1. gate.pc = "free" /\ gate.next = NoDevice BY DEF Init, Free
  <2>2. ghosts <= faults BY DEF Init
  <2>3. framer = (gate.pc = "free" /\ running # NoDevice) BY DEF Init
  <2> QED BY <2>1, <2>2, <2>3 DEF Init, GateInv
<1>4. NextInv BY DEF Init, NextInv, Free
<1>5. RetryInv BY DEF Init, RetryInv, Free
<1> QED BY <1>2, <1>3, <1>4, <1>5 DEF IInv

-----------------------------------------------------------------------------
(* What the parts of the steps do to the attempts *)

(* A new attempt restarts a dead capture, and the others are left alone. *)
LEMMA SpawnKeeps ==
  ASSUME TypeOK, NEW w \in BOOLEAN, Spawn(w), config' = config
  PROVE  /\ attempt' \in [Attempts -> Attempt]
         /\ \E a \in Attempts : Restarts(a)'
<1>1. PICK a \in Attempts :
        attempt' = [attempt EXCEPT ![a] = [NoAttempt EXCEPT !.pc = "delay", !.watch = w]]
  BY DEF Spawn
<1>2. [NoAttempt EXCEPT !.pc = "delay", !.watch = w] \in Attempt
  BY DEF NoAttempt, Attempt, Places, OptDevice
<1>3. attempt'[a].pc = "delay"
  BY <1>1 DEF TypeOK, NoAttempt
<1>4. attempt' \in [Attempts -> Attempt] BY <1>1, <1>2 DEF TypeOK
<1>5. Restarts(a)' BY <1>3 DEF Restarts
<1> QED BY <1>4, <1>5

(* The attempts and the configuration alone decide who restarts. *)
LEMMA RestartsSame ==
  ASSUME UNCHANGED <<attempt, config>>, NEW a \in Attempts
  PROVE  Restarts(a)' = Restarts(a)
BY DEF Restarts

(* The handler of a failed capture: types, and one more attempt if there is
   something to run. *)
LEMMA FailedKeeps ==
  ASSUME TypeOK, CaptureFailed, config' = config
  PROVE  /\ attempt' \in [Attempts -> Attempt] /\ failing' \in BOOLEAN
         /\ Desired' # NoDevice => \E a \in Attempts : Restarts(a)'
<1>1. CASE config.device = NoDevice
  BY <1>1 DEF CaptureFailed, TypeOK, Desired
<1>2. CASE config.device # NoDevice
  BY <1>2, SpawnKeeps DEF CaptureFailed, RecordFailedAttempt
<1> QED BY <1>1, <1>2

(* A save that happens outside of the gate: with an earlier reconcile waiting
   it is a slip; otherwise the pipeline ran what was desired, and a changed
   device or switch makes the next reconcile restart it. *)
LEMMA SaveKeeps ==
  ASSUME IInv, NEW c \in Config, Save(c), c # config,
         UNCHANGED <<session, gate, running, down>>
  PROVE  config' \in Config /\ asks' \in Nat /\ slips' \subseteq {"rushed", "unsaved"}
         /\ NextInv' /\ RetryInv'
<1> USE DEF IInv
<1>1. config' = c /\ asks' = asks + 1 /\ asks \in Nat
  BY DEF Save, TypeOK
<1>2. slips' \subseteq {"rushed", "unsaved"} BY DEF Save, TypeOK
<1>3. NextInv' BY <1>1 DEF NextInv
<1>4. RetryInv'
  <2> SUFFICES ASSUME slips' = {}
               PROVE  /\ asks' <= 1
                      /\ session' = "dead" /\ gate'.pc = "free" /\ ~down' /\ Desired' # NoDevice
                           => asks' = 1 /\ Desired' # running'
    BY DEF RetryInv
  <2>1. asks = 0 BY <1>1 DEF Save
  <2> SUFFICES ASSUME session = "dead", gate.pc = "free", ~down, Desired' # NoDevice
               PROVE  Desired' # running
    BY <1>1, <2>1
  <2>2. running # NoDevice BY DEF GateInv
  <2>3. running = Desired BY <2>1, <2>2 DEF NextInv
  <2>4. config.enabled = TRUE /\ running = config.device
    BY <2>2, <2>3 DEF Desired, TypeOK, Config
  <2>5. c.enabled = TRUE /\ Desired' = c.device
    BY <1>1 DEF Desired, Config
  <2>6. c.device # config.device
    BY <2>4, <2>5 DEF TypeOK, Config
  <2> QED BY <2>4, <2>5, <2>6
<1> QED BY <1>1, <1>2, <1>3, <1>4

-----------------------------------------------------------------------------
(* Steps of the devices and of the capture task *)

LEMMA DeviceSteps ==
  ASSUME IInv, Device
  PROVE  IInv'
<1> USE DEF IInv, configVars, boundVars
<1>f. faults \in 0..MaxFaults /\ ghosts \in 0..MaxFaults /\ MaxFaults \in Nat
  BY Bounds DEF TypeOK
<1>1. CASE DevicesChange
  <2>1. present' \subseteq Devices
    BY <1>1 DEF DevicesChange, TypeOK
  <2>2. faults' \in 0..MaxFaults /\ faults < faults'
    BY <1>1, <1>f DEF DevicesChange, Fault
  <2>3. TypeOK' BY <1>1, <2>1, <2>2 DEF DevicesChange, TypeOK
  <2>4. GateInv' BY <1>1, <1>f, <2>2 DEF DevicesChange, GateInv
  <2>5. NextInv' BY <1>1 DEF DevicesChange, NextInv, Desired
  <2>6. RetryInv' BY <1>1 DEF DevicesChange, RetryInv, Desired, Restarts
  <2> QED BY <2>3, <2>4, <2>5, <2>6
<1>2. CASE Chunk
  <2>1. TypeOK' BY <1>2 DEF Chunk, TypeOK, RecordChunk, Alive
  <2>2. GateInv' BY <1>2 DEF Chunk, GateInv, Alive
  <2>3. NextInv' BY <1>2 DEF Chunk, NextInv, Desired
  <2>4. RetryInv' BY <1>2 DEF Chunk, RetryInv
  <2> QED BY <2>1, <2>2, <2>3, <2>4
<1>3. CASE SessionFails
  <2>1. faults' \in 0..MaxFaults /\ faults <= faults'
    BY <1>3, <1>f DEF SessionFails, Fault
  <2>2. /\ attempt' \in [Attempts -> Attempt] /\ failing' \in BOOLEAN
        /\ Desired' # NoDevice => \E a \in Attempts : Restarts(a)'
    BY <1>3, FailedKeeps DEF SessionFails
  <2>3. TypeOK' BY <1>3, <2>1, <2>2 DEF SessionFails, TypeOK, EndTask
  <2>4. GateInv' BY <1>3, <1>f, <2>1 DEF SessionFails, GateInv, EndTask, Alive
  <2>5. NextInv' BY <1>3 DEF SessionFails, NextInv, Desired
  <2>6. RetryInv' BY <1>3, <2>2 DEF SessionFails, RetryInv
  <2> QED BY <2>3, <2>4, <2>5, <2>6
<1>4. CASE Hang
  <2>1. faults' \in 0..MaxFaults /\ faults < faults'
    BY <1>4, <1>f DEF Hang, Fault
  <2>2. TypeOK' BY <1>4, <2>1 DEF Hang, TypeOK, Alive
  <2>3. GateInv' BY <1>4, <1>f, <2>1 DEF Hang, GateInv, Alive
  <2>4. NextInv' BY <1>4 DEF Hang, NextInv, Desired
  <2>5. RetryInv' BY <1>4 DEF Hang, RetryInv
  <2> QED BY <2>2, <2>3, <2>4, <2>5
<1>5. CASE GhostChunk
  <2>1. TypeOK' BY <1>5 DEF GhostChunk, TypeOK, RecordChunk
  <2>2. GateInv' BY <1>5 DEF GhostChunk, GateInv
  <2>3. NextInv' BY <1>5 DEF GhostChunk, NextInv, Desired
  <2>4. RetryInv' BY <1>5 DEF GhostChunk, RetryInv, Desired, Restarts
  <2> QED BY <2>1, <2>2, <2>3, <2>4
<1>6. CASE GhostEnds
  <2>1. ghosts' \in 0..MaxFaults /\ ghosts' <= faults /\ faults' = faults
    BY <1>6, <1>f DEF GhostEnds, GateInv
  <2>2. attempt' \in [Attempts -> Attempt] /\ failing' \in BOOLEAN
    BY <1>6, FailedKeeps DEF GhostEnds, TypeOK
  <2>3. TypeOK' BY <1>6, <2>1, <2>2 DEF GhostEnds, TypeOK
  <2>4. GateInv' BY <1>6, <2>1 DEF GhostEnds, GateInv
  <2>5. NextInv' BY <1>6 DEF GhostEnds, NextInv, Desired
  <2>6. \/ UNCHANGED attempt
        \/ Desired' # NoDevice => \E a \in Attempts : Restarts(a)'
    <3>1. config' = config BY <1>6 DEF GhostEnds
    <3>2. UNCHANGED attempt \/ CaptureFailed BY <1>6 DEF GhostEnds
    <3> QED BY <3>1, <3>2, FailedKeeps
  <2>7. RetryInv'
    <3>1. CASE UNCHANGED attempt
      BY <1>6, <3>1 DEF GhostEnds, RetryInv, Desired, Restarts
    <3>2. CASE Desired' # NoDevice => \E a \in Attempts : Restarts(a)'
      BY <1>6, <3>2 DEF GhostEnds, RetryInv
    <3> QED BY <2>6, <3>1, <3>2
  <2> QED BY <2>3, <2>4, <2>5, <2>7
<1> QED BY <1>1, <1>2, <1>3, <1>4, <1>5, <1>6 DEF Device

(* A tick of the health monitor. *)
LEMMA TickSteps ==
  ASSUME IInv, Tick
  PROVE  IInv'
<1> USE DEF IInv, configVars, boundVars
<1>a. silent \in 0..(Threshold - 1) BY DEF TypeOK
<1>b. silent' = 0 \/ (~(silent + 1 >= Threshold) /\ silent' = silent + 1)
  BY DEF Tick, Stalled
<1>1. silent' \in 0..(Threshold - 1)
  BY <1>a, <1>b, Bounds
<1>2. \/ UNCHANGED <<attempt, failing>>
      \/ Spawn(TRUE) /\ failing' = TRUE
  BY DEF Tick, RecordFailedAttempt
<1>3. config' = config BY DEF Tick
<1>4. attempt' \in [Attempts -> Attempt] /\ failing' \in BOOLEAN
  BY <1>2, <1>3, SpawnKeeps DEF TypeOK
<1>5. TypeOK' BY <1>1, <1>4 DEF Tick, TypeOK
<1>6. GateInv' BY DEF Tick, GateInv
<1>7. NextInv' BY DEF Tick, NextInv, Desired
<1>8. UNCHANGED attempt \/ \E a \in Attempts : Restarts(a)'
  BY <1>2, <1>3, SpawnKeeps
<1>9. RetryInv' BY <1>8 DEF Tick, RetryInv, Desired, Restarts
<1> QED BY <1>5, <1>6, <1>7, <1>9

-----------------------------------------------------------------------------
(* Steps of the automatic attempts *)

(* A dropped attempt, and an attempt that moves, stay attempts. *)
LEMMA DropType == ASSUME TypeOK, NEW a \in Attempts, Drop(a)
                  PROVE  attempt' \in [Attempts -> Attempt]
BY IdleType DEF Drop, TypeOK

(* Other attempts than the one that is dropped still restart. *)
LEMMA OthersRestart ==
  ASSUME TypeOK, NEW a \in Attempts, NEW b \in Attempts, a # b, Drop(a), config' = config,
         Restarts(b)
  PROVE  Restarts(b)'
BY DEF Drop, TypeOK, Restarts

(* An attempt that moves on to a place, with a device. *)
LEMMA MoveType ==
  ASSUME TypeOK, NEW a \in Attempts, NEW p \in Places, NEW d \in OptDevice,
         NEW e \in BOOLEAN,
         \/ attempt' = [attempt EXCEPT ![a].pc = p, ![a].id = d]
         \/ attempt' = [attempt EXCEPT ![a].pc = p, ![a].id = d, ![a].enabled = e]
  PROVE  /\ attempt' \in [Attempts -> Attempt]
         /\ attempt'[a].pc = p /\ attempt'[a].id = d
<1>1. attempt[a] \in Attempt /\ DOMAIN attempt = Attempts BY DEF TypeOK
<1>2. CASE attempt' = [attempt EXCEPT ![a].pc = p, ![a].id = d]
  <2> DEFINE r == [attempt[a] EXCEPT !.pc = p, !.id = d]
  <2>1. r \in Attempt /\ r.pc = p /\ r.id = d BY <1>1 DEF Attempt
  <2>2. attempt' = [attempt EXCEPT ![a] = r] BY <1>1, <1>2 DEF Attempt
  <2> HIDE DEF r
  <2> QED BY <2>1, <2>2 DEF TypeOK
<1>3. CASE attempt' = [attempt EXCEPT ![a].pc = p, ![a].id = d, ![a].enabled = e]
  <2> DEFINE r == [attempt[a] EXCEPT !.pc = p, !.id = d, !.enabled = e]
  <2>1. r \in Attempt /\ r.pc = p /\ r.id = d BY <1>1 DEF Attempt
  <2>2. attempt' = [attempt EXCEPT ![a] = r] BY <1>1, <1>3 DEF Attempt
  <2> HIDE DEF r
  <2> QED BY <2>1, <2>2 DEF TypeOK
<1> QED BY <1>2, <1>3

(* The guards drop an attempt only when nothing is to run or the capture is
   alive; otherwise it goes on with the device of now. *)
LEMMA AttemptedStep ==
  ASSUME IInv, NEW a \in Attempts, Attempted(a)
  PROVE  IInv'
<1> USE DEF IInv, configVars, boundVars
<1>1. CASE Desired = NoDevice \/ capturing
  <2>1. Drop(a) BY <1>1 DEF Attempted
  <2>2. TypeOK' BY <2>1, DropType DEF Attempted, TypeOK
  <2>3. GateInv' BY DEF Attempted, GateInv
  <2>4. NextInv' BY DEF Attempted, NextInv, Desired
  <2>5. Desired = NoDevice \/ session # "dead" BY <1>1 DEF GateInv, Alive
  <2>6. RetryInv' BY <2>5 DEF Attempted, RetryInv, Desired
  <2> QED BY <2>2, <2>3, <2>4, <2>6
<1>2. CASE ~(Desired = NoDevice \/ capturing)
  <2>1. attempt' = [attempt EXCEPT ![a].pc = "resolve", ![a].id = config.device]
    BY <1>2 DEF Attempted
  <2>a. "resolve" \in Places /\ config.device \in OptDevice
    BY DEF Places, TypeOK, Config
  <2>2. /\ attempt' \in [Attempts -> Attempt]
        /\ attempt'[a].pc = "resolve" /\ attempt'[a].id = config.device
    BY <2>1, <2>a, MoveType
  <2>3. Restarts(a)'
    BY <2>2 DEF Attempted, Restarts
  <2>4. TypeOK' BY <2>2 DEF Attempted, TypeOK
  <2>5. GateInv' BY DEF Attempted, GateInv
  <2>6. NextInv' BY DEF Attempted, NextInv, Desired
  <2>7. RetryInv' BY <2>3 DEF Attempted, RetryInv
  <2> QED BY <2>4, <2>5, <2>6, <2>7
<1> QED BY <1>1, <1>2

(* Whatever the enumeration says, an attempt that restarts still does. *)
LEMMA ResolveStep ==
  ASSUME IInv, NEW a \in Attempts, Resolve(a)
  PROVE  IInv'
<1> USE DEF IInv, configVars, boundVars
<1>f. faults \in 0..MaxFaults /\ ghosts \in 0..MaxFaults /\ MaxFaults \in Nat
  BY Bounds DEF TypeOK
<1>1. /\ faults' \in 0..MaxFaults /\ faults <= faults'
      /\ failing' \in BOOLEAN
  <2>1. faults' = faults \/ (faults < MaxFaults /\ faults' = faults + 1)
    BY DEF Resolve, UseConfigured, AdoptDevice, NotFound, Fault
  <2>2. failing' \in BOOLEAN
    BY DEF Resolve, UseConfigured, AdoptDevice, NotFound, RecordFailedAttempt, TypeOK
  <2> QED BY <1>f, <2>1, <2>2
<1>2. \/ attempt' = [attempt EXCEPT ![a].pc = "retry", ![a].id = NoDevice]
      \/ attempt[a].id \notin present /\ \E d \in Devices : present = {d} /\
           attempt' = [attempt EXCEPT ![a].pc = "adopt", ![a].id = d, ![a].enabled = config.enabled]
      \/ attempt' = [attempt EXCEPT ![a] = [NoAttempt EXCEPT !.pc = "delay"]]
  BY DEF Resolve, UseConfigured, AdoptDevice, NotFound
<1>3. config' = config /\ attempt[a].pc = "resolve" BY DEF Resolve
<1>4. /\ attempt' \in [Attempts -> Attempt]
      /\ Restarts(a) => Restarts(a)'
  <2>1. CASE attempt' = [attempt EXCEPT ![a].pc = "retry", ![a].id = NoDevice]
    <3>1. "retry" \in Places /\ NoDevice \in OptDevice BY DEF Places, OptDevice
    <3>2. attempt' \in [Attempts -> Attempt] /\ attempt'[a].pc = "retry"
      BY <2>1, <3>1, MoveType
    <3> QED BY <3>2 DEF Restarts
  <2>2. CASE attempt[a].id \notin present /\ \E d \in Devices : present = {d} /\
           attempt' = [attempt EXCEPT ![a].pc = "adopt", ![a].id = d, ![a].enabled = config.enabled]
    <3>1. PICK d \in Devices : present = {d} /\
           attempt' = [attempt EXCEPT ![a].pc = "adopt", ![a].id = d, ![a].enabled = config.enabled]
      BY <2>2
    <3>2. "adopt" \in Places /\ d \in OptDevice /\ config.enabled \in BOOLEAN
      BY DEF Places, OptDevice, TypeOK, Config
    <3>3. attempt' \in [Attempts -> Attempt] /\ attempt'[a].pc = "adopt" /\ attempt'[a].id = d
      BY <3>1, <3>2, MoveType
    <3>4. attempt[a].id # d BY <2>2, <3>1
    <3> QED BY <1>3, <3>3, <3>4 DEF Restarts
  <2>3. CASE attempt' = [attempt EXCEPT ![a] = [NoAttempt EXCEPT !.pc = "delay"]]
    BY <2>3 DEF TypeOK, Attempt, Places, OptDevice, Restarts, NoAttempt
  <2> QED BY <1>2, <2>1, <2>2, <2>3
<1>5. \A b \in Attempts : b # a => attempt'[b] = attempt[b]
  BY <1>2 DEF TypeOK
<1>6. \A b \in Attempts : Restarts(b) => Restarts(b)'
  BY <1>3, <1>4, <1>5 DEF Restarts
<1>7. TypeOK' BY <1>1, <1>4 DEF Resolve, TypeOK
<1>8. GateInv' BY <1>1, <1>f DEF Resolve, GateInv
<1>9. NextInv' BY DEF Resolve, NextInv, Desired
<1>10. RetryInv' BY <1>6 DEF Resolve, RetryInv, Desired
<1> QED BY <1>7, <1>8, <1>9, <1>10

(* An adoption either changes the device, and the reconcile it asks for
   restarts the capture, or was of no use to it. *)
LEMMA AdoptedStep ==
  ASSUME IInv, NEW a \in Attempts, Adopted(a)
  PROVE  IInv'
<1> USE DEF IInv, configVars, boundVars
<1> DEFINE c == [device |-> attempt[a].id, enabled |-> attempt[a].enabled]
<1>1. attempt' \in [Attempts -> Attempt] /\ Drop(a) /\ attempt[a].pc = "adopt"
  BY DropType DEF Adopted
<1>2. c \in Config BY DEF TypeOK, Attempt, Config
<1>3. GateInv' BY DEF Adopted, GateInv
<1>4. CASE Save(c) /\ c # config
  <2>1. config' \in Config /\ asks' \in Nat /\ slips' \subseteq {"rushed", "unsaved"}
        /\ NextInv' /\ RetryInv'
    BY <1>2, <1>4, SaveKeeps DEF Adopted
  <2>2. TypeOK' BY <1>1, <2>1 DEF Adopted, TypeOK
  <2> QED BY <1>3, <2>1, <2>2
<1>5. CASE Save(c) /\ c = config
  <2>1. UNCHANGED <<config, asks, slips>> BY <1>5 DEF Save
  <2>2. ~Restarts(a) BY <1>1, <1>5 DEF Restarts
  <2>3. \A b \in Attempts : Restarts(b) => Restarts(b)'
    BY <1>1, <2>1, <2>2, OthersRestart
  <2>4. TypeOK' BY <1>1, <2>1 DEF Adopted, TypeOK
  <2>5. NextInv' BY <2>1 DEF Adopted, NextInv, Desired
  <2>6. RetryInv' BY <2>1, <2>3 DEF Adopted, RetryInv, Desired
  <2> QED BY <1>3, <2>4, <2>5, <2>6
<1>6. CASE slips' = slips \cup {"unsaved"} /\ UNCHANGED <<config, asks>>
  <2>1. TypeOK' BY <1>1, <1>6 DEF Adopted, TypeOK
  <2>2. NextInv' BY <1>6 DEF Adopted, NextInv, Desired
  <2>3. RetryInv' BY <1>6 DEF RetryInv
  <2> QED BY <1>3, <2>1, <2>2, <2>3
<1> QED BY <1>4, <1>5, <1>6 DEF Adopted

-----------------------------------------------------------------------------
(* Steps inside the gate *)

(* ReconcileAsync inside the gate stops what runs or starts what is desired,
   and never starts nothing. *)
LEMMA ReconcileKeeps ==
  ASSUME IInv, gate.pc = "free", ~down, Desired # running \/ Desired # NoDevice, Reconcile,
         UNCHANGED <<config, session, ghosts, capturing, running, down, faults>>,
         asks' \in Nat, slips' = slips, slips = {} => asks' <= 1
  PROVE  /\ gate' \in [pc : {"free", "stopping", "starting", "closing"}, next : OptDevice]
         /\ framer' \in BOOLEAN /\ GateInv' /\ NextInv' /\ RetryInv'
<1> USE DEF IInv
<1>1. Desired' = Desired /\ Desired \in OptDevice
  BY DesiredType DEF Desired
<1>2. CASE running = NoDevice
  <2>1. /\ gate' = [pc |-> "starting", next |-> Desired] /\ framer' = framer
        /\ Desired # NoDevice /\ framer = FALSE
    BY <1>2 DEF Reconcile, GateInv, TypeOK
  <2>2. gate'.pc = "starting" /\ gate'.next = Desired BY <2>1
  <2>3. gate' \in [pc : {"free", "stopping", "starting", "closing"}, next : OptDevice]
    BY <1>1, <2>1
  <2>4. GateInv' BY <1>2, <2>1, <2>2 DEF GateInv
  <2>5. NextInv' BY <1>1, <2>2 DEF NextInv
  <2>6. RetryInv' BY <2>2 DEF RetryInv
  <2> QED BY <2>1, <2>3, <2>4, <2>5, <2>6
<1>3. CASE running # NoDevice
  <2>1. gate' = [pc |-> "stopping", next |-> Desired] /\ framer' = FALSE
    BY <1>3 DEF Reconcile
  <2>2. gate'.pc = "stopping" /\ gate'.next = Desired BY <2>1
  <2>3. gate' \in [pc : {"free", "stopping", "starting", "closing"}, next : OptDevice]
    BY <1>1, <2>1
  <2>4. GateInv' BY <1>3, <2>1, <2>2 DEF GateInv
  <2>5. NextInv' BY <1>1, <2>2 DEF NextInv
  <2>6. RetryInv' BY <2>2 DEF RetryInv
  <2> QED BY <2>1, <2>3, <2>4, <2>5, <2>6
<1> QED BY <1>2, <1>3

(* A retry that finds nothing to run is dropped; any other goes inside. *)
LEMMA RetryReconcileStep ==
  ASSUME IInv, NEW a \in Attempts, RetryReconcile(a)
  PROVE  IInv'
<1> USE DEF IInv, configVars, boundVars
<1>1. CASE Converged(TRUE)
  <2>1. Drop(a) /\ UNCHANGED <<gate, framer>> BY <1>1 DEF RetryReconcile
  <2>2. TypeOK' BY <2>1, DropType DEF RetryReconcile, TypeOK
  <2>3. GateInv' BY <2>1 DEF RetryReconcile, GateInv
  <2>4. NextInv' BY <2>1 DEF RetryReconcile, NextInv, Desired
  <2>5. down \/ Desired = NoDevice BY <1>1 DEF Converged
  <2>6. RetryInv' BY <2>5 DEF RetryReconcile, RetryInv, Desired
  <2> QED BY <2>2, <2>3, <2>4, <2>6
<1>2. CASE ~Converged(TRUE)
  <2>1. /\ attempt' = [attempt EXCEPT ![a].pc = "inside"] /\ Reconcile
        /\ ~down /\ (Desired # running \/ Desired # NoDevice)
    BY <1>2 DEF RetryReconcile, Converged
  <2>2. asks' \in Nat /\ slips' = slips /\ (slips = {} => asks' <= 1)
    BY DEF RetryReconcile, TypeOK, RetryInv
  <2>3. /\ gate' \in [pc : {"free", "stopping", "starting", "closing"}, next : OptDevice]
        /\ framer' \in BOOLEAN /\ GateInv' /\ NextInv' /\ RetryInv'
    BY <2>1, <2>2, ReconcileKeeps DEF RetryReconcile
  <2>4. attempt' \in [Attempts -> Attempt]
    BY <2>1 DEF TypeOK, Attempt, Places
  <2>5. TypeOK' BY <2>3, <2>4 DEF RetryReconcile, TypeOK
  <2> QED BY <2>3, <2>5
<1> QED BY <1>1, <1>2

(* A config reconcile, the only one waiting if nothing slipped. *)
LEMMA ConfigReconcileStep ==
  ASSUME IInv, ConfigReconcile
  PROVE  IInv'
<1> USE DEF IInv, configVars, boundVars
<1>1. /\ asks' \in Nat /\ slips' = slips
      /\ slips = {} => asks' = 0 /\ asks = 1
  BY DEF ConfigReconcile, TypeOK, RetryInv
<1>2. CASE Converged(FALSE)
  <2>1. UNCHANGED <<gate, framer>> /\ (down \/ Desired = running)
    BY <1>2 DEF ConfigReconcile, Converged
  <2>2. TypeOK' BY <1>1, <2>1 DEF ConfigReconcile, TypeOK
  <2>3. GateInv' BY <2>1 DEF ConfigReconcile, GateInv
  <2>4. NextInv' BY <2>1 DEF ConfigReconcile, NextInv, Desired
  <2>5. RetryInv'
    BY <1>1, <2>1 DEF ConfigReconcile, RetryInv, Desired, Restarts
  <2> QED BY <2>2, <2>3, <2>4, <2>5
<1>3. CASE ~Converged(FALSE)
  <2>1. Reconcile /\ ~down /\ Desired # running
    BY <1>3 DEF ConfigReconcile, Converged
  <2>2. slips = {} => asks' <= 1 BY <1>1
  <2>3. /\ gate' \in [pc : {"free", "stopping", "starting", "closing"}, next : OptDevice]
        /\ framer' \in BOOLEAN /\ GateInv' /\ NextInv' /\ RetryInv'
    BY <1>1, <2>1, <2>2, ReconcileKeeps DEF ConfigReconcile
  <2>4. TypeOK' BY <1>1, <2>3 DEF ConfigReconcile, TypeOK
  <2> QED BY <2>3, <2>4
<1> QED BY <1>2, <1>3

(* Attempts inside the gate return when it is released. *)
LEMMA ReleaseType == ASSUME TypeOK, Release
                     PROVE  attempt' \in [Attempts -> Attempt] /\ gate' = Free
BY IdleType DEF Release, TypeOK

(* The stop of the capture, which may be given up on. *)
LEMMA StopSteps ==
  ASSUME IInv, CaptureStops \/ StopDone
  PROVE  IInv'
<1> USE DEF IInv, configVars, boundVars
<1>f. faults \in 0..MaxFaults /\ ghosts \in 0..MaxFaults /\ MaxFaults \in Nat
  BY Bounds DEF TypeOK
<1>n. NoDevice \in OptDevice BY DEF OptDevice
<1>1. CASE CaptureStops
  <2>1. TypeOK' BY <1>1 DEF CaptureStops, EndTask, TypeOK
  <2>2. GateInv' BY <1>1 DEF CaptureStops, EndTask, GateInv, Alive
  <2>3. NextInv' BY <1>1 DEF CaptureStops, NextInv, Desired
  <2>4. RetryInv' BY <1>1 DEF CaptureStops, RetryInv
  <2> QED BY <2>1, <2>2, <2>3, <2>4
<1>2. CASE StopDone
  <2>1. /\ session' = "none" /\ capturing' = FALSE /\ running' = NoDevice
        /\ UNCHANGED <<configVars, present, framer, silent, failing, down, saves>>
        /\ gate.pc \in {"stopping", "closing"} /\ framer = FALSE
    BY <1>2 DEF StopDone, Stopped, GateInv, TypeOK
  <2>2. \/ UNCHANGED <<ghosts, faults>>
        \/ faults < MaxFaults /\ faults' = faults + 1 /\ ghosts' = ghosts + 1
    BY <1>2 DEF StopDone, Fault
  <2>3. ghosts' \in 0..MaxFaults /\ faults' \in 0..MaxFaults /\ ghosts' <= faults'
    BY <1>f, <2>2 DEF GateInv
  <2>4. CASE gate.next = NoDevice
    <3>1. gate' = Free /\ attempt' \in [Attempts -> Attempt]
      BY <1>2, <2>4, ReleaseType DEF StopDone
    <3>2. gate'.pc = "free" /\ gate'.next = NoDevice BY <3>1 DEF Free
    <3>3. gate' \in [pc : {"free", "stopping", "starting", "closing"}, next : OptDevice]
      BY <1>n, <3>1 DEF Free
    <3>4. TypeOK' BY <1>n, <2>1, <2>3, <3>1, <3>3 DEF TypeOK
    <3>5. GateInv' BY <2>1, <2>3, <3>2 DEF GateInv
    <3>6. NextInv' BY <2>1, <3>2 DEF NextInv
    <3>7. RetryInv' BY <2>1 DEF RetryInv
    <3> QED BY <3>4, <3>5, <3>6, <3>7
  <2>5. CASE gate.next # NoDevice
    <3>1. gate' = [gate EXCEPT !.pc = "starting"] /\ attempt' = attempt
      BY <1>2, <2>5 DEF StopDone
    <3>2. gate'.pc = "starting" /\ gate'.next = gate.next /\ gate.pc = "stopping" /\ ~down
      BY <2>1, <2>5, <3>1 DEF TypeOK, GateInv
    <3>3. gate' \in [pc : {"free", "stopping", "starting", "closing"}, next : OptDevice]
      BY <3>1 DEF TypeOK
    <3>4. TypeOK' BY <1>n, <2>1, <2>3, <3>1, <3>3 DEF TypeOK
    <3>5. GateInv' BY <2>1, <2>3, <2>5, <3>2 DEF GateInv
    <3>6. NextInv' BY <2>1, <3>2 DEF NextInv, Desired
    <3>7. RetryInv' BY <2>1 DEF RetryInv
    <3> QED BY <3>4, <3>5, <3>6, <3>7
  <2> QED BY <2>4, <2>5
<1> QED BY <1>1, <1>2

(* The start of the next session, and the shutdown. *)
LEMMA StartSteps ==
  ASSUME IInv, Start \/ Shutdown
  PROVE  IInv'
<1> USE DEF IInv, configVars, boundVars
<1>n. NoDevice \in OptDevice BY DEF OptDevice
<1>1. CASE Start
  <2>1. gate' = Free /\ attempt' \in [Attempts -> Attempt]
    BY <1>1, ReleaseType DEF Start
  <2>2. gate'.pc = "free" /\ gate'.next = NoDevice BY <2>1 DEF Free
  <2>3. gate' \in [pc : {"free", "stopping", "starting", "closing"}, next : OptDevice]
    BY <1>n, <2>1 DEF Free
  <2>4. running' = gate.next /\ gate.next \in OptDevice /\ gate.next # NoDevice /\ ~down
    BY <1>1 DEF Start, TypeOK, GateInv
  <2>5. TypeOK' BY <1>1, <2>1, <2>3, <2>4 DEF Start, TypeOK, Alive
  <2>6. GateInv' BY <1>1, <2>2, <2>4 DEF Start, GateInv, Alive
  <2>7. NextInv' BY <1>1, <2>2 DEF Start, NextInv, Desired
  <2>8. RetryInv' BY <1>1 DEF Start, RetryInv
  <2> QED BY <2>5, <2>6, <2>7, <2>8
<1>2. CASE Shutdown
  <2>1. gate' = [pc |-> "closing", next |-> NoDevice] BY <1>2 DEF Shutdown
  <2>2. gate'.pc = "closing" /\ gate'.next = NoDevice BY <2>1
  <2>a. gate' \in [pc : {"free", "stopping", "starting", "closing"}, next : OptDevice]
    BY <1>n, <2>1
  <2>3. TypeOK' BY <1>2, <2>a DEF Shutdown, TypeOK
  <2>4. GateInv' BY <1>2, <2>2 DEF Shutdown, GateInv
  <2>5. NextInv' BY <1>2 DEF Shutdown, NextInv
  <2>6. RetryInv' BY <1>2 DEF Shutdown, RetryInv
  <2> QED BY <2>3, <2>4, <2>5, <2>6
<1> QED BY <1>1, <1>2

(* A save of the operator. *)
LEMMA OperatorStep ==
  ASSUME IInv, OperatorSaves
  PROVE  IInv'
<1> USE DEF IInv, configVars, boundVars
<1>1. PICK c \in Config : c # config /\ Save(c) BY DEF OperatorSaves
<1>2. config' \in Config /\ asks' \in Nat /\ slips' \subseteq {"rushed", "unsaved"}
      /\ NextInv' /\ RetryInv'
  BY <1>1, SaveKeeps DEF OperatorSaves
<1>3. saves \in 0..MaxSaves BY DEF TypeOK
<1>4. saves' \in 0..MaxSaves BY <1>3, Bounds DEF OperatorSaves
<1>5. TypeOK' BY <1>2, <1>4 DEF OperatorSaves, TypeOK
<1>6. GateInv' BY DEF OperatorSaves, GateInv
<1> QED BY <1>2, <1>5, <1>6

-----------------------------------------------------------------------------
(* Theorems *)

(* IInv is an invariant of the pipeline, for any devices, bounds and faults. *)
THEOREM Inductive == Spec => []IInv
<1>1. Init => IInv BY InitIInv
<1>2. IInv /\ [Next]_vars => IInv'
  <2> SUFFICES ASSUME IInv, [Next]_vars PROVE IInv'
    OBVIOUS
  <2>1. CASE Device BY <2>1, DeviceSteps
  <2>2. CASE Tick BY <2>2, TickSteps
  <2>3. CASE Automatic
    BY <2>3, AttemptedStep, ResolveStep, AdoptedStep, RetryReconcileStep DEF Automatic
  <2>4. CASE OperatorSaves BY <2>4, OperatorStep
  <2>5. CASE Pipeline
    BY <2>5, ConfigReconcileStep, StopSteps, StartSteps DEF Pipeline
  <2>6. CASE UNCHANGED vars
    BY <2>6 DEF vars, configVars, boundVars, IInv, TypeOK, GateInv, NextInv, RetryInv,
                Restarts, Desired
  <2> QED BY <2>1, <2>2, <2>3, <2>4, <2>5, <2>6 DEF Next
<1> QED BY <1>1, <1>2, PTL DEF Spec

(* Type correctness: the bounds are kept and the silent windows stay below the
   threshold. *)
THEOREM TypeCorrect == Spec => []TypeOK
<1>1. IInv => TypeOK BY DEF IInv
<1> QED BY <1>1, Inductive, PTL

(* With no reconcile under way or waiting, the pipeline runs what the last
   saved configuration asks for, or nothing. *)
THEOREM LastSaveFollowed == Spec => []FollowsTheLastSave
<1>1. IInv => FollowsTheLastSave BY DEF IInv, NextInv, FollowsTheLastSave
<1> QED BY <1>1, Inductive, PTL

(* The record, the framer and the capture task start and stop together. *)
THEOREM OnePipelineHolds == Spec => []OnePipeline
<1>1. IInv => OnePipeline BY DEF IInv, GateInv, OnePipeline
<1> QED BY <1>1, Inductive, PTL

(* A dead capture that should run has an attempt under way. *)
THEOREM DeadRetried == Spec => []DeadIsRetried
<1>1. IInv => DeadIsRetried BY DEF IInv, RetryInv, DeadIsRetried, Restarts
<1> QED BY <1>1, Inductive, PTL

(* Capturing is reported only of a live capture task. *)
THEOREM ReportTrue == Spec => []ReportIsTrue
<1>1. IInv => ReportIsTrue BY DEF IInv, GateInv, ReportIsTrue, Reported
<1> QED BY <1>1, Inductive, PTL

(* Nothing starts capture again after the shutdown. *)
THEOREM ShutdownLasts == Spec => []StaysDown
<1>1. IInv => StaysDown BY DEF IInv, GateInv, StaysDown
<1> QED BY <1>1, Inductive, PTL
=============================================================================
