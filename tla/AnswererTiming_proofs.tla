------------------------ MODULE AnswererTiming_proofs ------------------------
(***************************************************************************)
(* Proofs about Answerer that relate it to its requests and to the clock.  *)
(*                                                                         *)
(* Supervision: PromiseInv is inductive where no click is among the        *)
(* requests and a disarm cannot fail.  A request that asks for a session   *)
(* promises one, a session redeems a promise, and the end of one disarms.  *)
(*                                                                         *)
(* The watchdog: Watched is inductive by itself, given IInv.                *)
(*                                                                         *)
(* Slots: SlotInv is inductive on a prompt machine without armed targets.  *)
(* The pump keeps the queue in order, so the batch read next is one cycle  *)
(* newer than the last batch 1, and the parities follow.                   *)
(***************************************************************************)
EXTENDS Answerer_proofs

-----------------------------------------------------------------------------
(* Supervision *)

Supervised == "answer" \notin Requests /\ ~DiskFaults

(* No session begins and nothing new is promised. *)
LEMMA PromiseKept ==
  ASSUME PromiseInv, unspent \in Int, AimsKept,
         UNCHANGED <<unspent, http>>,
         autoAnswer' /\ pc' = "read" /\ state' = "Idle"
           => autoAnswer /\ pc = "read" /\ state = "Idle"
  PROVE  PromiseInv'
BY DEF PromiseInv, Promises, Bit, AimsKept, NoTarget

(* A session begins: it redeems an armed target or auto-answer. *)
LEMMA PromiseRedeemed ==
  ASSUME PromiseInv, unspent \in Int, AimsKept,
         pc = "read", state = "Idle", pc' = "saving", unspent' = unspent - 1,
         UNCHANGED http,
         \/ autoAnswer
         \/ jump # NoTarget /\ jump' = NoTarget
         \/ pending # NoTarget /\ pending' = NoTarget
  PROVE  PromiseInv'
BY DEF PromiseInv, Promises, Bit, AimsKept, NoTarget

(* A batch is handled: a session is begun only from Idle, for a target that is
   spent or with auto-answer on. *)
LEMMA ProcessBatchPromise ==
  ASSUME IInv, PromiseInv, pc = "read", NEW b \in Batch, ProcessBatch(b),
         UNCHANGED <<http, autoAnswer>>
  PROVE  PromiseInv'
<1>0. unspent \in Int BY DEF IInv, TypeOK, AskType, HistType
<1>1. ASSUME state = "Idle", NEW s, NEW msg, Begin(b, s, msg), AimsKept,
             \/ autoAnswer
             \/ jump # NoTarget /\ jump' = NoTarget
             \/ pending # NoTarget /\ pending' = NoTarget
      PROVE  PromiseInv'
  <2>1. pc' = "saving" /\ unspent' = unspent - 1 BY <1>1 DEF Begin
  <2> QED BY <1>0, <1>1, <2>1, PromiseRedeemed
<1>2. ASSUME UNCHANGED unspent, AimsKept,
             state' = state \/ pc' # "read" \/ state' # "Idle"
      PROVE  PromiseInv'
  BY <1>0, <1>2, PromiseKept
<1>3. ASSUME NEW d, Hold(d) PROVE PromiseInv'
  BY <1>2, <1>3 DEF Hold, talkVars, histVars, aimVars, AimsKept
<1>4. ASSUME NEW st, SafeAbort(st), UNCHANGED unspent PROVE PromiseInv'
  BY <1>2, <1>4 DEF SafeAbort, AimsKept
<1>5. ASSUME NEW st, Transmit(st), UNCHANGED <<aimVars, unspent>> PROVE PromiseInv'
  BY <1>2, <1>5 DEF Transmit, AimsKept, aimVars
<1>6. ASSUME NEW st, NEW msg, Send(msg, st) PROVE PromiseInv'
  BY <1>5, <1>6 DEF Send
<1>7. CASE ~b.late /\ state = "Idle" /\ HandleIdle(b)
  <2>1. ASSUME NEW t, AimAt(t, b), AimsKept,
               \/ jump # NoTarget /\ jump' = NoTarget
               \/ pending # NoTarget /\ pending' = NoTarget
        PROVE  PromiseInv'
    BY <1>1, <1>2, <1>7, <2>1 DEF AimAt, talkVars, histVars
  <2>2. CASE AnswerTarget(b)
    BY <1>3, <2>1, <2>2 DEF AnswerTarget, Waits, AimsKept
  <2>3. CASE autoAnswer /\ AnswerCq(b)
    BY <1>1, <1>3, <1>7, <2>3 DEF AnswerCq, AimsKept, aimVars
  <2> QED BY <1>3, <1>7, <2>2, <2>3 DEF HandleIdle
<1>8. CASE ~b.late /\ state \in WaitStates /\ HandleWait(b)
  <2>1. CASE HearRoger(b) \/ HearReport(b)
    BY <1>6, <2>1 DEF HearRoger, HearReport
  <2>2. CASE HearElsewhere(b) BY <1>4, <2>2 DEF HearElsewhere, histVars
  <2>3. CASE SendHeld(b) BY <1>3, <1>6, <2>3 DEF SendHeld
  <2>4. CASE SkipOwnCycle
    BY <1>2, <2>4 DEF SkipOwnCycle, aimVars, histVars, AimsKept
  <2>5. CASE RetryOrAbort BY <1>4, <1>5, <2>5 DEF RetryOrAbort
  <2> QED BY <1>8, <2>1, <2>2, <2>3, <2>4, <2>5 DEF HandleWait
<1>9. CASE b.late /\ state = "Idle" /\ LateIdle(b)
  <2>1. ASSUME UNCHANGED <<talkVars, aimVars, histVars>> PROVE PromiseInv'
    BY <1>2, <2>1 DEF talkVars, aimVars, histVars, AimsKept
  <2> QED BY <1>1, <1>3, <1>9, <2>1 DEF LateIdle, AimsKept, aimVars
<1>10. CASE b.late /\ state \in WaitStates /\ LateWait(b)
  <2>1. CASE LateRoger(b)
    BY <1>2, <1>6, <2>1 DEF LateRoger, aimVars, histVars, AimsKept
  <2>2. CASE LateReport(b)
    <3>1. CASE Send("report", "TxReport") BY <1>6, <3>1
    <3>2. CASE state' = "WaitRr73" /\ UNCHANGED <<aimVars, histVars>>
      BY <1>2, <3>2 DEF aimVars, histVars, AimsKept
    <3> QED BY <2>2, <3>1, <3>2 DEF LateReport
  <2>3. CASE HearElsewhere(b) BY <1>4, <2>3 DEF HearElsewhere, histVars
  <2> QED BY <1>3, <1>10, <2>1, <2>2, <2>3 DEF LateWait
<1> QED BY <1>7, <1>8, <1>9, <1>10 DEF ProcessBatch

(* The loop's own steps begin nothing after the batch, and the end of a session
   disarms. *)
LEMMA ServicePromise ==
  ASSUME Supervised, IInv, PromiseInv, Service
  PROVE  PromiseInv'
<1>0. unspent \in Int BY DEF IInv, TypeOK, AskType, HistType
<1>1. CASE ReadDecode
  <2>1. Head(dq) \in Batch
    BY <1>1, HeadTailProperties DEF ReadDecode, IInv, TypeOK, FeedType
  <2> QED BY <1>1, <2>1, ProcessBatchPromise DEF ReadDecode, askVars
<1>2. CASE ReadWakeup
  <2>1. Head(wk) \in Nat
    BY <1>2, HeadTailProperties DEF ReadWakeup, IInv, TypeOK, FeedType
  <2> QED BY <1>2, <2>1, SilentBatch, ProcessBatchPromise DEF ReadWakeup, askVars
<1>3. ASSUME AimsKept, UNCHANGED <<unspent, http>>,
             pc' # "read" \/ state' # "Idle" \/ autoAnswer' = FALSE
      PROVE  PromiseInv'
  BY <1>0, <1>3, PromiseKept
<1>4. ASSUME NEW st, SafeAbort(st), UNCHANGED <<unspent, http>>
      PROVE  PromiseInv'
  BY <1>3, <1>4 DEF SafeAbort, AimsKept
<1>5. CASE ReadCancelled \/ SaveFails \/ TxCancelled \/ PttFault \/ Finish
  BY <1>4, <1>5 DEF ReadCancelled, SaveFails, TxCancelled, PttFault, TxFailed, Finish,
                    askVars, histVars
<1>6. CASE SaveDone
  BY <1>3, <1>4, <1>6 DEF SaveDone, Transmit, AimsKept, aimVars, askVars
<1>7. CASE TxEnd \/ Settle \/ Complete
  BY <1>3, <1>7 DEF TxEnd, Settle, WaitState, Complete, AimsKept, aimVars, askVars, histVars
<1>8. CASE AbortDone
  BY <1>3, <1>8 DEF Supervised, AbortDone, AimsKept, aimVars, histVars
<1> QED BY <1>1, <1>2, <1>5, <1>6, <1>7, <1>8 DEF Service

(* A request promises at most one session: it arms one target, or turns
   auto-answer on, or leaves a step that will. *)
LEMMA OperatorPromise ==
  ASSUME Supervised, IInv, PromiseInv, Operator
  PROVE  PromiseInv'
<1>0. unspent \in Int BY DEF IInv, TypeOK, AskType, HistType
<1> USE <1>0 DEF PromiseInv, Promises, Bit, Request
<1>1. CASE AnswerCqRequest BY <1>1 DEF AnswerCqRequest, Supervised
<1>2. CASE ExternalRequest
  BY <1>2 DEF ExternalRequest, ArmPendingTarget, talkVars, histVars
<1>3. CASE EngageRequest BY <1>3 DEF EngageRequest, talkVars, histVars
<1>4. CASE EnableRequest \/ DisableRequest \/ RevertToAnswerer
  BY <1>4 DEF EnableRequest, DisableRequest, RevertToAnswerer, talkVars, aimVars, histVars
<1>5. CASE AbortRequest \/ EngageAbort
  BY <1>5 DEF AbortRequest, EngageAbort, AbortAsync, talkVars, histVars, NoTarget
<1>6. CASE SwitchToCaller
  BY <1>6 DEF SwitchToCaller, AbortAsync, talkVars, aimVars, histVars, NoTarget
<1> QED BY <1>1, <1>2, <1>3, <1>4, <1>5, <1>6 DEF Operator

(* The later steps of a request pass its promise on. *)
LEMMA HttpPromise ==
  ASSUME IInv, PromiseInv, Http
  PROVE  PromiseInv'
<1>0. unspent \in Int BY DEF IInv, TypeOK, AskType, HistType
<1> USE <1>0 DEF PromiseInv, Promises, Bit, talkVars, aimVars, histVars
<1>1. CASE HttpCancel BY <1>1 DEF HttpCancel
<1>2. CASE HttpDisarm BY <1>2 DEF HttpDisarm
<1>3. CASE HttpAway BY <1>3 DEF HttpAway
<1>4. CASE HttpEnable BY <1>4 DEF HttpEnable
<1> QED BY <1>1, <1>2, <1>3, <1>4 DEF Http

LEMMA NextPromise ==
  ASSUME Supervised, IInv, PromiseInv, [Next]_vars
  PROVE  PromiseInv'
<1>0. unspent \in Int BY DEF IInv, TypeOK, AskType, HistType
<1>1. ASSUME UNCHANGED <<talkVars, aimVars, askVars, histVars>> PROVE PromiseInv'
  <2>1. AimsKept /\ UNCHANGED <<unspent, http, autoAnswer, pc, state>>
    BY <1>1 DEF talkVars, aimVars, askVars, histVars, AimsKept
  <2> QED BY <1>0, <2>1, PromiseKept
<1>2. CASE Tick \/ PublishFirst \/ PublishSecond \/ WatchdogFire \/ Done \/ UNCHANGED vars
  BY <1>1, <1>2 DEF Tick, PublishFirst, PublishSecond, WatchdogFire, Done, vars
<1> QED BY <1>2, ServicePromise, OperatorPromise, HttpPromise DEF Next

(* D-TX-UI-001/003: when no click is among the requests and no disarm fails, every
   session the answerer begins spends a request that asked for one, whatever the
   requests, the aborts, the role switches, the faults and their order: auto-answer
   never begins a second session on its own. *)
THEOREM SessionsAreSupervised ==
  ASSUME Supervised
  PROVE  Spec => []SupervisedSessions
<1>1. Init => PromiseInv
  BY DEF Init, PromiseInv, Promises, Bit
<1>2. IInv /\ PromiseInv /\ [Next]_vars => PromiseInv'
  BY NextPromise
<1>3. IInv /\ PromiseInv => SupervisedSessions
  <2>1. IInv => unspent \in Int
    BY DEF IInv, TypeOK, HistType
  <2> QED BY <2>1 DEF PromiseInv, Promises, Bit, SupervisedSessions
<1> QED BY <1>1, <1>2, <1>3, Inductive, PTL DEF Spec

-----------------------------------------------------------------------------
(* The watchdog *)

(* A step of a session, or one that leaves it, on the token it has. *)
LEMMA WatchKept ==
  ASSUME IInv, Watched, wd' = wd,
         pc' \in {"keyed", "sent"} \/ (pc' = "read" /\ state' \in WaitStates)
           => pc \in {"keyed", "sent"} \/ (pc = "read" /\ state \in WaitStates)
  PROVE  Watched'
BY DEF Watched

(* A session that is not transmitting nor waiting needs none. *)
LEMMA WatchNotDue ==
  ASSUME pc' \notin {"keyed", "sent"}, pc' = "read" => state' \notin WaitStates
  PROVE  Watched'
BY DEF Watched

LEMMA BatchWatched ==
  ASSUME IInv, Watched, pc = "read", NEW b, ProcessBatch(b)
  PROVE  Watched'
<1>1. ASSUME NEW st, SafeAbort(st) PROVE Watched'
  BY <1>1, WatchNotDue DEF SafeAbort
<1>2. ASSUME NEW d, Hold(d) PROVE Watched'
  BY <1>2, WatchKept DEF Hold, talkVars, ctsVars
<1>3. ASSUME NEW s, NEW msg, Begin(b, s, msg) PROVE Watched'
  BY <1>3, WatchNotDue DEF Begin
<1>4. ASSUME state \in WaitStates, wd' = wd PROVE Watched'
  BY <1>4, WatchKept
<1>5. CASE ~b.late /\ state = "Idle" /\ HandleIdle(b)
  <2>1. ASSUME NEW t, AimAt(t, b) PROVE Watched'
    BY <1>3, <1>5, <2>1, WatchNotDue DEF AimAt, talkVars, WaitStates
  <2>2. CASE AnswerTarget(b) BY <1>2, <2>1, <2>2 DEF AnswerTarget, Waits
  <2> QED BY <1>2, <1>3, <1>5, <2>2 DEF HandleIdle, AnswerCq
<1>6. CASE ~b.late /\ state \in WaitStates /\ HandleWait(b)
  BY <1>1, <1>4, <1>6
     DEF HandleWait, HearRoger, HearReport, HearElsewhere, SendHeld, Send, Hold, SkipOwnCycle,
         RetryOrAbort, ctsVars
<1>7. CASE b.late /\ state = "Idle" /\ LateIdle(b)
  <2>1. ASSUME UNCHANGED talkVars PROVE Watched'
    BY <1>7, <2>1, WatchNotDue DEF talkVars, WaitStates
  <2> QED BY <1>2, <1>3, <1>7, <2>1 DEF LateIdle
<1>8. CASE b.late /\ state \in WaitStates /\ LateWait(b)
  BY <1>1, <1>4, <1>8 DEF LateWait, LateRoger, LateReport, HearElsewhere, Send, Hold, ctsVars
<1> QED BY <1>5, <1>6, <1>7, <1>8 DEF ProcessBatch

LEMMA NextWatched ==
  ASSUME IInv, Watched, [Next]_vars
  PROVE  Watched'
<1>1. ASSUME UNCHANGED <<talkVars, wd>> PROVE Watched'
  BY <1>1, WatchKept DEF talkVars
<1>2. CASE Tick \/ PublishFirst \/ PublishSecond \/ WatchdogFire \/ Done \/ UNCHANGED vars
  BY <1>1, <1>2 DEF Tick, PublishFirst, PublishSecond, WatchdogFire, Done, vars, ctsVars
<1>3. CASE Operator
  BY <1>1, <1>3
     DEF Operator, AnswerCqRequest, ExternalRequest, ArmPendingTarget, EngageRequest,
         EnableRequest, DisableRequest, AbortRequest, EngageAbort, SwitchToCaller,
         RevertToAnswerer, AbortAsync, ctsVars
<1>4. CASE Http
  BY <1>1, <1>4 DEF Http, HttpCancel, HttpDisarm, HttpAway, HttpEnable, ctsVars
<1>5. CASE Service
  <2>1. ASSUME NEW st, SafeAbort(st) PROVE Watched'
    BY <2>1, WatchNotDue DEF SafeAbort
  <2>2. CASE ReadDecode \/ ReadWakeup
    BY <2>2, BatchWatched DEF ReadDecode, ReadWakeup
  <2>3. CASE ReadCancelled \/ SaveFails \/ TxCancelled \/ PttFault \/ Finish
    BY <2>1, <2>3 DEF ReadCancelled, SaveFails, TxCancelled, PttFault, TxFailed, Finish
  <2>4. CASE SaveDone BY <2>1, <2>4 DEF SaveDone, Watched
  <2>5. CASE TxEnd BY <2>5, WatchKept DEF TxEnd, ctsVars
  <2>6. CASE Settle BY <2>6, WatchKept DEF Settle, ResetWatchdog, Watched, ctsVars
  <2>7. CASE Complete \/ AbortDone
    BY <2>7, WatchNotDue DEF Complete, AbortDone, WaitStates
  <2> QED BY <1>5, <2>2, <2>3, <2>4, <2>5, <2>6, <2>7 DEF Service
<1> QED BY <1>2, <1>3, <1>4, <1>5 DEF Next

(* A session never transmits or waits on a token without the watchdog's timeout,
   whatever retries, token swaps, aborts, cancellations and failing saves come. *)
THEOREM SessionsWatched == Spec => []Watched
<1>1. Init => Watched BY DEF Init, Watched, WaitStates
<1>2. IInv /\ Watched /\ [Next]_vars => Watched' BY NextWatched
<1> QED BY <1>1, <1>2, Inductive, PTL DEF Spec

-----------------------------------------------------------------------------
(* Slots *)

Prompt == Timely /\ Requests \cap {"answer", "external", "engage"} = {}

(* The parities of neighbouring cycles differ, those two apart agree. *)
LEMMA Parities ==
  ASSUME NEW n \in Nat
  PROVE  n % 2 \in {0, 1} /\ (n + 1) % 2 # n % 2 /\ (n + 2) % 2 = n % 2
OBVIOUS

(* A held reply that is due answers a cycle of the batch's parity, and two cycles
   later it is due. *)
LEMMA DueParity ==
  ASSUME NEW b \in Batch, deferred.cycle \in Nat
  PROVE  /\ Due(b) => b.cycle % 2 = deferred.cycle % 2
         /\ b.cycle = deferred.cycle + 2 => Due(b)
<1>1. b.cycle \in Nat BY DEF Batch
<1>2. Due(b) <=> b.cycle > deferred.cycle
                 /\ ((b.cycle + 1) % 2 = 0 <=> (deferred.cycle + 1) % 2 = 0)
  BY DEF Due, ReplySlotIsAPhase, IsAPhase
<1>3. ((b.cycle + 1) % 2 = 0 <=> (deferred.cycle + 1) % 2 = 0)
        => b.cycle % 2 = deferred.cycle % 2
  BY <1>1
<1>4. b.cycle = deferred.cycle + 2 =>
        /\ b.cycle > deferred.cycle
        /\ (b.cycle + 1) % 2 = 0 <=> (deferred.cycle + 1) % 2 = 0
  BY <1>1
<1> QED BY <1>2, <1>3, <1>4

(* What a batch read in order is: batch 1 of the cycle that just ended and that
   follows the newest read, or a supplementary batch of the newest. *)
Newest(b) == /\ b \in Batch /\ Heard(b)
             /\ IF b.late THEN b.cycle = lastBatch1
                ELSE b.cycle = lastBatch1 + 1 /\ b.cycle = slot - 1

Turns == HeldInv /\ TurnInv

(* A transmission that follows the newest cycle, with nothing held. *)
LEMMA OnAir ==
  ASSUME slot' = slot, lastBatch1' = slot - 1, deferred' = NoReply,
         pc' \in {"saving", "keyed", "sent"}, slot % 2 # Parity[partner']
  PROVE  Turns'
BY DEF Turns, HeldInv, TurnInv

(* A released session holds nothing and has no turn. *)
LEMMA Released ==
  ASSUME NEW st, SafeAbort(st)
  PROVE  Turns'
BY DEF SafeAbort, Turns, HeldInv, TurnInv

(* A reply held while the loop waits. *)
LEMMA Holding ==
  ASSUME pc' = "read", deferred' # NoReply,
         deferred'.cycle \in {lastBatch1', lastBatch1' - 1},
         deferred'.cycle % 2 = Parity[deferred'.to]
  PROVE  Turns'
BY DEF Turns, HeldInv, TurnInv

(* Nothing in progress and nothing held. *)
LEMMA AtRest ==
  ASSUME pc' = "read", state' = "Idle", deferred' = NoReply
  PROVE  Turns'
BY DEF Turns, HeldInv, TurnInv, WaitStates

(* A station heard in the cycle before this slot listens in this slot. *)
LEMMA Listens ==
  ASSUME slot \in Nat \ {0}, NEW b \in Batch, Heard(b), NEW s \in Stations,
         b.heard[s] # "silence", slot = b.cycle + 1
  PROVE  slot % 2 # Parity[s]
<1>1. b.cycle \in Nat BY DEF Batch
<1>2. b.cycle % 2 = Parity[s] BY DEF Heard
<1> QED BY <1>1, <1>2, Parities

(* So does the partner of a held reply that is due. *)
LEMMA DueListens ==
  ASSUME slot \in Nat \ {0}, NEW b \in Batch, deferred \in Reply, slot = b.cycle + 1,
         deferred.cycle % 2 = Parity[deferred.to], Due(b)
  PROVE  slot % 2 # Parity[deferred.to]
<1>1. b.cycle \in Nat /\ deferred.cycle \in Nat BY DEF Batch, Reply
<1>2. b.cycle % 2 = Parity[deferred.to] BY <1>1, DueParity
<1> QED BY <1>1, <1>2, Parities

(* A held reply that is not due at the batch that follows stays of the newest
   cycle or the one before. *)
LEMMA NotDueStays ==
  ASSUME Turns, deferred # NoReply, deferred \in Reply, lastBatch1 \in Nat,
         NEW b \in Batch, b.cycle = lastBatch1 + 1, ~Due(b)
  PROVE  deferred.cycle \in {b.cycle, b.cycle - 1}
<1>1. deferred.cycle \in Nat BY DEF Reply
<1>2. b.cycle # deferred.cycle + 2 BY <1>1, DueParity
<1> QED BY <1>1, <1>2 DEF Turns, HeldInv

-----------------------------------------------------------------------------
(* Handling a batch read in order keeps the turns. *)

(* Batch 1 while Idle: a session begins in the slot its station listens in. *)
LEMMA HandleIdleTurns ==
  ASSUME IInv, PumpInv, Turns, pc = "read", state = "Idle",
         NEW b, Newest(b), ~b.late, HandleIdle(b), lastBatch1' = b.cycle, slot' = slot
  PROVE  Turns'
<1>0. /\ slot \in Nat \ {0} /\ lastBatch1 \in Nat /\ deferred \in Reply
      /\ b \in Batch /\ b.cycle = lastBatch1 + 1 /\ slot = b.cycle + 1 /\ Heard(b)
  BY DEF IInv, TypeOK, ClockType, HeldType, Newest
<1>1. CASE Hold(NoReply) BY <1>1, AtRest DEF Hold, talkVars
<1>2. ASSUME NEW s, Begin(b, s, "answer"), slot % 2 # Parity[s] PROVE Turns'
  <2>1. /\ partner' = s /\ deferred' = NoReply /\ pc' = "saving" /\ lastBatch1' = slot - 1
    BY <1>0, <1>2 DEF Begin, MarkTransition
  <2> QED BY <1>2, <2>1, OnAir
<1>3. CASE isActive /\ AnswerTarget(b) BY <1>3 DEF PumpInv, AnswerTarget
<1>4. CASE AnswerCq(b)
  <2>1. CASE HeldAnswerDue(b) /\ Begin(b, deferred.to, "answer")
    <3>1. deferred # NoReply /\ Due(b) BY <2>1 DEF HeldAnswerDue, NoReply
    <3>2. slot % 2 # Parity[deferred.to] BY <1>0, <3>1, DueListens DEF Turns, HeldInv
    <3> QED BY <1>2, <2>1, <3>2
  <2>2. ASSUME NEW s \in Cqs(b), Begin(b, s, "answer") PROVE Turns'
    <3>1. s \in Stations /\ b.heard[s] # "silence" BY DEF Cqs
    <3>2. slot % 2 # Parity[s] BY <1>0, <3>1, Listens
    <3> QED BY <1>2, <2>2, <3>2
  <2>3. CASE ~HeldAnswerDue(b) /\ Hold(deferred) /\ ~HeldAnswerDropped(b)
    <3>1. CASE deferred = NoReply BY <2>3, <3>1, <1>1
    <3>2. CASE deferred # NoReply
      <4>1. deferred.kind = "Answer"
        BY <1>0, <3>2 DEF IInv, AimInv, HeldReplyBelongs, Reply, WaitStates
      <4>2. ~Due(b) BY <2>3, <4>1 DEF HeldAnswerDue
      <4>3. deferred.cycle \in {b.cycle, b.cycle - 1} BY <1>0, <3>2, <4>2, NotDueStays
      <4>4. pc' = "read" /\ deferred' = deferred BY <2>3 DEF Hold, talkVars
      <4> QED BY <3>2, <4>3, <4>4, Holding DEF Turns, HeldInv
    <3> QED BY <3>1, <3>2
  <2> QED BY <1>1, <1>4, <2>1, <2>2, <2>3 DEF AnswerCq
<1> QED BY <1>1, <1>3, <1>4 DEF HandleIdle

(* Batch 1 in a session: what is sent goes out in the partner's listening slot,
   a retry because the skip guard let pass the cycle of our own slot. *)
LEMMA HandleWaitTurns ==
  ASSUME IInv, PumpInv, Turns, pc = "read", state \in WaitStates,
         NEW b, Newest(b), ~b.late, HandleWait(b), lastBatch1' = b.cycle, slot' = slot
  PROVE  Turns'
<1>0. /\ slot \in Nat \ {0} /\ lastBatch1 \in Nat /\ deferred \in Reply
      /\ b \in Batch /\ b.cycle = lastBatch1 + 1 /\ slot = b.cycle + 1 /\ Heard(b)
      /\ partner \in Stations /\ Parity[partner] \in {0, 1}
  BY ParityAssumption
     DEF IInv, TypeOK, ClockType, HeldType, Newest, SessionInv, InSession, WaitStates
<1>1. ASSUME NEW st, Transmit(st), partner' = partner, deferred' = NoReply,
             slot % 2 # Parity[partner]
      PROVE  Turns'
  BY <1>0, <1>1, OnAir DEF Transmit
<1>2. CASE HearRoger(b) \/ HearReport(b)
  <2>1. b.heard[partner] # "silence"
    BY <1>0, <1>2 DEF HearRoger, HearReport, PartnerSays
  <2>2. slot % 2 # Parity[partner] BY <1>0, <2>1, Listens
  <2> QED BY <1>1, <1>2, <2>2 DEF HearRoger, HearReport, MarkTransition, Send
<1>3. CASE HearElsewhere(b) BY <1>3, Released DEF HearElsewhere
<1>4. CASE SendHeld(b)
  <2>1. deferred # NoReply /\ deferred.to = partner
    <3>1. deferred # NoReply BY <1>4 DEF SendHeld
    <3>2. state # "Idle" BY DEF WaitStates
    <3> QED BY <3>1, <3>2 DEF IInv, HeldReplyBelongs
  <2>2. CASE ~Due(b) /\ Hold(deferred)
    <3>1. deferred.cycle \in {b.cycle, b.cycle - 1} BY <1>0, <2>1, <2>2, NotDueStays
    <3>2. pc' = "read" /\ deferred' = deferred BY <2>2 DEF Hold, talkVars
    <3> QED BY <2>1, <3>1, <3>2, Holding DEF Turns, HeldInv
  <2>3. CASE Due(b) /\ deferred' = NoReply /\ \E msg, st : Send(msg, st)
    <3>1. slot % 2 # Parity[partner] BY <1>0, <2>1, <2>3, DueListens DEF Turns, HeldInv
    <3> QED BY <1>1, <2>3, <3>1 DEF Send
  <2> QED BY <1>4, <2>2, <2>3 DEF SendHeld
<1>5. CASE SkipOwnCycle
  <2>1. deferred = NoReply /\ lastBatch1 % 2 = Parity[partner]
    BY <1>5 DEF SkipOwnCycle, Turns, TurnInv
  <2>2. lastBatch1' % 2 # Parity[partner] BY <1>0, <2>1, Parities
  <2> QED BY <1>5, <2>1, <2>2 DEF SkipOwnCycle, Turns, HeldInv, TurnInv
<1>6. CASE RetryOrAbort
  <2>1. deferred = NoReply /\ lastBatch1 % 2 # Parity[partner]
    BY <1>6 DEF RetryOrAbort, Turns, TurnInv
  <2>2. slot % 2 # Parity[partner]
    <3>1. slot = lastBatch1 + 2 BY <1>0
    <3> QED BY <1>0, <2>1, <3>1, Parities
  <2> QED BY <1>1, <1>6, <2>1, <2>2, Released DEF RetryOrAbort
<1> QED BY <1>2, <1>3, <1>4, <1>5, <1>6 DEF HandleWait

(* A supplementary batch of the newest cycle: what can start whole goes out in the
   slot after it, what cannot is held for the parity of its sender. *)
LEMMA LateIdleTurns ==
  ASSUME IInv, Turns, pc = "read", state = "Idle",
         NEW b, Newest(b), b.late, LateIdle(b), lastBatch1' = lastBatch1, slot' = slot
  PROVE  Turns'
<1>0. /\ slot \in Nat \ {0} /\ lastBatch1 \in Nat /\ deferred \in Reply
      /\ b \in Batch /\ b.cycle = lastBatch1 /\ Heard(b)
  BY DEF IInv, TypeOK, ClockType, HeldType, Newest
<1>1. CASE Hold(deferred)
  BY <1>1 DEF Hold, talkVars, Turns, HeldInv, TurnInv
<1>2. ASSUME NEW s \in Cqs(b), CanStartWhole(b.cycle), Begin(b, s, "answer") PROVE Turns'
  <2>1. s \in Stations /\ b.heard[s] # "silence" /\ slot = b.cycle + 1
    BY <1>2 DEF Cqs, CanStartWhole
  <2>2. slot % 2 # Parity[s] BY <1>0, <2>1, Listens
  <2> QED BY <1>0, <1>2, <2>1, <2>2, OnAir DEF Begin, MarkTransition
<1>3. ASSUME NEW s \in Cqs(b), UNCHANGED talkVars,
             deferred' = [kind |-> "Answer", cycle |-> b.cycle, to |-> s]
      PROVE  Turns'
  <2>1. b.cycle % 2 = Parity[s] BY <1>0 DEF Cqs, Heard
  <2> QED BY <1>0, <1>3, <2>1, Holding DEF talkVars, NoReply
<1> QED BY <1>1, <1>2, <1>3 DEF LateIdle

LEMMA LateWaitTurns ==
  ASSUME IInv, Turns, pc = "read", state \in WaitStates,
         NEW b, Newest(b), b.late, LateWait(b), lastBatch1' = lastBatch1, slot' = slot
  PROVE  Turns'
<1>0. /\ slot \in Nat \ {0} /\ lastBatch1 \in Nat /\ deferred \in Reply
      /\ b \in Batch /\ b.cycle = lastBatch1 /\ Heard(b) /\ partner \in Stations
  BY DEF IInv, TypeOK, ClockType, HeldType, Newest, SessionInv, InSession, WaitStates
<1>1. CASE Hold(deferred)
  BY <1>1 DEF Hold, talkVars, Turns, HeldInv, TurnInv
<1>2. CASE LateRoger(b) \/ LateReport(b)
  <2>1. b.heard[partner] # "silence"
    BY <1>0, <1>2 DEF LateRoger, LateReport, PartnerSays
  <2>2. CASE CanStartWhole(b.cycle)
    <3>1. slot = b.cycle + 1 BY <2>2 DEF CanStartWhole
    <3>2. slot % 2 # Parity[partner] BY <1>0, <2>1, <3>1, Listens
    <3>3. /\ deferred' = NoReply /\ partner' = partner /\ pc' \in {"keyed", "sent"}
      BY <1>2, <2>2 DEF LateRoger, LateReport, Send, Transmit
    <3> QED BY <1>0, <3>1, <3>2, <3>3, OnAir
  <2>3. CASE ~CanStartWhole(b.cycle)
    <3>1. b.cycle % 2 = Parity[partner] BY <1>0, <2>1 DEF Heard
    <3>2. /\ pc' = "read" /\ deferred' # NoReply
          /\ deferred'.cycle = b.cycle /\ deferred'.to = partner
      BY <1>2, <2>3 DEF LateRoger, LateReport, NoReply
    <3> QED BY <1>0, <3>1, <3>2, Holding
  <2> QED BY <2>2, <2>3
<1>3. CASE HearElsewhere(b) BY <1>3, Released DEF HearElsewhere
<1> QED BY <1>1, <1>2, <1>3 DEF LateWait

LEMMA ProcessBatchTurns ==
  ASSUME IInv, PumpInv, Turns, pc = "read", NEW b, Newest(b), ProcessBatch(b), slot' = slot
  PROVE  Turns' /\ lastBatch1' = b.cycle
<1>1. b.cycle \in Nat /\ lastBatch1 \in Nat BY DEF Newest, Batch, IInv, TypeOK, HeldType
<1>2. lastBatch1' = b.cycle /\ (b.late => lastBatch1' = lastBatch1)
  BY <1>1 DEF ProcessBatch, Newest
<1> QED BY <1>2, HandleIdleTurns, HandleWaitTurns, LateIdleTurns, LateWaitTurns
        DEF ProcessBatch

-----------------------------------------------------------------------------
(* The queue keeps its order. *)

LEMMA QueueTypes ==
  ASSUME IInv
  PROVE  /\ slot \in Nat \ {0} /\ lastBatch1 \in Nat /\ pumped.cycle \in Nat
         /\ dq \in Seq(Batch) /\ Len(dq) \in Nat
         /\ \A i \in 1..Len(dq) : dq[i] \in Batch
BY DEF IInv, TypeOK, ClockType, HeldType, FeedType

(* The batch read next is in order. *)
LEMMA HeadIsNewest ==
  ASSUME IInv, QueueInv, dq # <<>>
  PROVE  Newest(Head(dq))
<1>1. 1 \in 1..Len(dq) /\ Head(dq) = dq[1] /\ dq[1] \in Batch BY QueueTypes
<1>2. Heard(dq[1]) BY <1>1 DEF QueueInv
<1>3. CASE 1 \in Firsts BY <1>1, <1>2, <1>3, QueueTypes DEF QueueInv, Firsts, Newest
<1>4. CASE 1 \notin Firsts
  <2>1. dq[1].late BY <1>1, <1>4 DEF Firsts
  <2>2. CASE Firsts = {} BY <1>1, <1>2, <2>1, <2>2 DEF QueueInv, Newest
  <2>3. CASE Firsts # {}
    <3>1. PICK i \in Firsts : TRUE BY <2>3
    <3>2. i \in 1..Len(dq) /\ 1 < i BY <1>4, <3>1 DEF Firsts
    <3>3. dq[1].cycle = lastBatch1 BY <1>1, <3>1, <3>2 DEF QueueInv
    <3> QED BY <1>1, <1>2, <2>1, <3>3 DEF Newest
  <2> QED BY <2>2, <2>3
<1> QED BY <1>3, <1>4

(* Reading it leaves the rest in order. *)
LEMMA QueueRead ==
  ASSUME IInv, PumpInv, QueueInv, dq # <<>>, dq' = Tail(dq),
         lastBatch1' = Head(dq).cycle, UNCHANGED <<slot, pumped>>
  PROVE  QueueInv'
<1>1. /\ Len(dq') \in Nat /\ Len(dq) = Len(dq') + 1 /\ Head(dq) = dq[1]
      /\ \A i \in 1..Len(dq') : i + 1 \in 1..Len(dq) /\ dq'[i] = dq[i + 1]
  BY QueueTypes, HeadTailProperties
<1>2. \A i \in 1..Len(dq') : Heard(dq'[i]) BY <1>1 DEF QueueInv
<1>3. \A i : i \in Firsts' => i \in 1..Len(dq') /\ i + 1 \in Firsts
  BY <1>1 DEF Firsts
<1>4. \A i \in Firsts' :
        /\ pumped.cycle = slot - 1 /\ lastBatch1 = slot - 2 /\ dq'[i].cycle = slot - 1
        /\ dq[1].cycle = slot - 2
        /\ \A j \in 1..Len(dq') :
             /\ j < i => dq'[j].late /\ dq'[j].cycle = slot - 2
             /\ j > i => dq'[j].late /\ dq'[j].cycle = slot - 1
  <2> SUFFICES ASSUME NEW i \in Firsts'
               PROVE  /\ pumped.cycle = slot - 1 /\ lastBatch1 = slot - 2
                      /\ dq'[i].cycle = slot - 1 /\ dq[1].cycle = slot - 2
                      /\ \A j \in 1..Len(dq') :
                           /\ j < i => dq'[j].late /\ dq'[j].cycle = slot - 2
                           /\ j > i => dq'[j].late /\ dq'[j].cycle = slot - 1
    OBVIOUS
  <2>1. i \in 1..Len(dq') /\ i + 1 \in Firsts BY <1>3
  <2>2. /\ pumped.cycle = slot - 1 /\ lastBatch1 = slot - 2 /\ dq[i + 1].cycle = slot - 1
        /\ \A j \in 1..Len(dq) :
             /\ j < i + 1 => dq[j].late /\ dq[j].cycle = slot - 2
             /\ j > i + 1 => dq[j].late /\ dq[j].cycle = slot - 1
    BY <2>1 DEF QueueInv
  <2>3. dq[1].cycle = slot - 2 BY <1>1, <2>1, <2>2
  <2>4. ASSUME NEW j \in 1..Len(dq')
        PROVE  /\ j < i => dq'[j].late /\ dq'[j].cycle = slot - 2
               /\ j > i => dq'[j].late /\ dq'[j].cycle = slot - 1
    BY <1>1, <2>1, <2>2
  <2> QED BY <1>1, <2>1, <2>2, <2>3, <2>4
<1>5. ASSUME Firsts' = {}
      PROVE  /\ lastBatch1' = pumped.cycle
             /\ \A i \in 1..Len(dq') : dq'[i].cycle = pumped.cycle
  <2>1. CASE Firsts = {} BY <1>1, <2>1 DEF QueueInv
  <2>2. CASE Firsts # {}
    <3>1. PICK i \in Firsts : TRUE BY <2>2
    <3>2. i \in 1..Len(dq) /\ ~dq[i].late BY <3>1 DEF Firsts
    <3>3. i = 1
      <4>1. CASE i > 1
        <5>1. i - 1 \in 1..Len(dq') /\ dq'[i - 1] = dq[i] BY <1>1, <3>2, <4>1
        <5>2. i - 1 \in Firsts' BY <3>2, <5>1 DEF Firsts
        <5> QED BY <1>5, <5>2
      <4> QED BY <3>2, <4>1
    <3>4. /\ pumped.cycle = slot - 1 /\ dq[1].cycle = slot - 1
          /\ \A j \in 1..Len(dq) : j > 1 => dq[j].cycle = slot - 1
      BY <3>1, <3>3 DEF QueueInv
    <3> QED BY <1>1, <3>4
  <2> QED BY <2>1, <2>2
<1> QED BY <1>1, <1>2, <1>4, <1>5 DEF QueueInv

(* A wakeup or an aside leaves it as it is. *)
LEMMA QueueKept ==
  ASSUME QueueInv, UNCHANGED <<slot, pumped, dq, lastBatch1>>
  PROVE  QueueInv'
BY DEF QueueInv, Firsts, Heard

(* Batch 1 of the cycle that just ended is appended behind supplementary batches
   of the cycle before. *)
LEMMA QueueFirst ==
  ASSUME IInv, PumpInv, QueueInv, PublishFirst
  PROVE  QueueInv' /\ pumped'.cycle = slot - 1
<1>0. UNCHANGED <<slot, lastBatch1>> BY DEF PublishFirst, clockVars, heldVars
<1>1. PICK c \in (pumped.cycle + 1)..(slot - 1) : \E h \in Decodable(c, {}) :
        /\ dq' = Append(dq, [cycle |-> c, late |-> FALSE, heard |-> h])
        /\ pumped' = [cycle |-> c, late |-> 0, told |-> Told(h)]
  BY DEF PublishFirst
<1>2. PICK h \in Decodable(c, {}) :
        /\ dq' = Append(dq, [cycle |-> c, late |-> FALSE, heard |-> h])
        /\ pumped' = [cycle |-> c, late |-> 0, told |-> Told(h)]
  BY <1>1
<1>3. c \in Nat /\ c = slot - 1 /\ pumped.cycle = slot - 2 BY QueueTypes DEF PumpInv
<1>4. Firsts = {} BY <1>3, QueueTypes DEF QueueInv
<1>5. lastBatch1 = slot - 2 /\ \A i \in 1..Len(dq) : dq[i].late /\ dq[i].cycle = slot - 2
  BY <1>3, <1>4 DEF QueueInv, Firsts
<1> DEFINE b == [cycle |-> c, late |-> FALSE, heard |-> h]
<1>6. b \in Batch BY <1>3 DEF Batch, Decodable
<1>7. Heard(b) BY DEF Heard, Decodable
<1>8. ~b.late /\ b.cycle = slot - 1 BY <1>3
<1>9. dq' = Append(dq, b) BY <1>2
<1> HIDE DEF b
<1>10. /\ Len(dq') = Len(dq) + 1 /\ dq'[Len(dq) + 1] = b
       /\ \A i \in 1..Len(dq) : dq'[i] = dq[i]
  BY <1>6, <1>9, QueueTypes, AppendProperties
<1>11. (\A i \in 1..Len(dq) : Heard(dq[i]))'
  <2>1. \A i \in 1..Len(dq) : Heard(dq'[i]) BY <1>10 DEF QueueInv
  <2>2. Heard(dq'[Len(dq) + 1]) BY <1>7, <1>10
  <2>3. \A i \in 1..Len(dq') : i \in 1..Len(dq) \/ i = Len(dq) + 1 BY <1>10, QueueTypes
  <2>4. \A i \in 1..Len(dq') : Heard(dq'[i]) BY <2>1, <2>2, <2>3
  <2> QED BY <2>4 DEF Heard
<1>12. Firsts' = {Len(dq) + 1}
  <2>1. ~dq'[Len(dq) + 1].late BY <1>8, <1>10
  <2>2. \A i \in 1..Len(dq) : dq'[i].late BY <1>5, <1>10
  <2>3. 1..Len(dq') = (1..Len(dq)) \cup {Len(dq) + 1} BY <1>10, QueueTypes
  <2> QED BY <2>1, <2>2, <2>3 DEF Firsts
<1>13. pumped'.cycle = slot - 1 BY <1>2, <1>3
<1>14. \A j \in 1..Len(dq') :
         /\ j < Len(dq) + 1 => dq'[j].late /\ dq'[j].cycle = slot - 2
         /\ j > Len(dq) + 1 => dq'[j].late /\ dq'[j].cycle = slot - 1
  <2>1. \A j \in 1..Len(dq') : j < Len(dq) + 1 => j \in 1..Len(dq) BY <1>10, QueueTypes
  <2>2. \A j \in 1..Len(dq') : ~(j > Len(dq) + 1) BY <1>10, QueueTypes
  <2> QED BY <1>5, <1>10, <2>1, <2>2
<1> QED BY <1>0, <1>5, <1>8, <1>10, <1>11, <1>12, <1>13, <1>14 DEF QueueInv

(* A supplementary batch is appended behind batches of its cycle. *)
LEMMA QueueSecond ==
  ASSUME IInv, PumpInv, QueueInv, PublishSecond
  PROVE  QueueInv' /\ pumped'.cycle = pumped.cycle
<1>0. UNCHANGED <<slot, lastBatch1>> BY DEF PublishSecond, clockVars, heldVars
<1>1. PICK h \in Decodable(pumped.cycle, pumped.told) :
        /\ dq' = Append(dq, [cycle |-> pumped.cycle, late |-> TRUE, heard |-> h])
        /\ pumped' = [pumped EXCEPT !.late = @ + 1, !.told = @ \cup Told(h)]
  BY DEF PublishSecond
<1> DEFINE b == [cycle |-> pumped.cycle, late |-> TRUE, heard |-> h]
<1>2. b \in Batch BY QueueTypes DEF Batch, Decodable
<1>3. Heard(b) BY DEF Heard, Decodable
<1>4. b.late /\ b.cycle = pumped.cycle OBVIOUS
<1>5. dq' = Append(dq, b) BY <1>1
<1>6. pumped'.cycle = pumped.cycle
  BY <1>1 DEF IInv, TypeOK, FeedType
<1> HIDE DEF b
<1>7. /\ Len(dq') = Len(dq) + 1 /\ dq'[Len(dq) + 1] = b
      /\ \A i \in 1..Len(dq) : dq'[i] = dq[i]
  BY <1>2, <1>5, QueueTypes, AppendProperties
<1>8. \A i \in 1..Len(dq') : Heard(dq'[i]) BY <1>3, <1>7, QueueTypes DEF QueueInv
<1>9. Firsts' = Firsts BY <1>4, <1>7, QueueTypes DEF Firsts
<1>10. \A i \in Firsts : i \in 1..Len(dq) /\ i < Len(dq) + 1 BY QueueTypes DEF Firsts
<1>11. ASSUME NEW i \in Firsts
       PROVE  /\ pumped'.cycle = slot' - 1 /\ lastBatch1' = slot' - 2
              /\ dq'[i].cycle = slot' - 1
              /\ \A j \in 1..Len(dq') :
                   /\ j < i => dq'[j].late /\ dq'[j].cycle = slot' - 2
                   /\ j > i => dq'[j].late /\ dq'[j].cycle = slot' - 1
  <2>1. /\ pumped.cycle = slot - 1 /\ lastBatch1 = slot - 2 /\ dq[i].cycle = slot - 1
        /\ \A j \in 1..Len(dq) :
             /\ j < i => dq[j].late /\ dq[j].cycle = slot - 2
             /\ j > i => dq[j].late /\ dq[j].cycle = slot - 1
    BY <1>11 DEF QueueInv
  <2>2. i \in 1..Len(dq) /\ i < Len(dq) + 1 /\ dq'[i] = dq[i] BY <1>7, <1>10
  <2>3. ASSUME NEW j \in 1..Len(dq')
        PROVE  /\ j < i => dq'[j].late /\ dq'[j].cycle = slot - 2
               /\ j > i => dq'[j].late /\ dq'[j].cycle = slot - 1
    <3>1. CASE j = Len(dq) + 1 BY <1>4, <1>7, <2>1, <2>2, <3>1
    <3>2. CASE j \in 1..Len(dq) BY <1>7, <2>1, <3>2
    <3> QED BY <1>7, <3>1, <3>2, QueueTypes
  <2> QED BY <1>0, <1>6, <2>1, <2>2, <2>3
<1>12. ASSUME Firsts = {}
       PROVE  /\ lastBatch1' = pumped'.cycle
              /\ \A i \in 1..Len(dq') : dq'[i].cycle = pumped'.cycle
  BY <1>0, <1>4, <1>6, <1>7, <1>12, QueueTypes DEF QueueInv
<1> QED BY <1>6, <1>8, <1>9, <1>11, <1>12 DEF QueueInv

(* A slot ends with an empty queue and nothing on the air. *)
LEMMA SlotEnds ==
  ASSUME Prompt, IInv, SlotInv, Tick, slot' # slot
  PROVE  SlotInv'
<1>1. /\ Quiet /\ pc # "keyed" /\ pumped.cycle = slot - 1 /\ slot' = slot + 1
      /\ UNCHANGED <<feedVars, talkVars, heldVars, aimVars>>
  BY DEF Tick, Prompt
<1>2. pc = "read" /\ dq = <<>> BY <1>1 DEF Quiet, Readable
<1>3. lastBatch1 = pumped.cycle /\ Firsts = {}
  BY <1>2 DEF SlotInv, QueueInv, Firsts
<1>4. PumpInv' BY <1>1, QueueTypes DEF SlotInv, PumpInv, feedVars, aimVars, NoTarget
<1>5. QueueInv' BY <1>1, <1>2, <1>3 DEF QueueInv, Firsts, feedVars, heldVars
<1>6. HeldInv' BY <1>1 DEF SlotInv, HeldInv, heldVars, NoReply
<1>7. TurnInv' BY <1>1, <1>2 DEF SlotInv, TurnInv, talkVars, heldVars, NoReply
<1> QED BY <1>4, <1>5, <1>6, <1>7 DEF SlotInv

-----------------------------------------------------------------------------
(* SlotInv is inductive. *)

(* A step that leaves the clock, the queue and the session alone keeps it; a
   session that is released, too. *)
LEMMA SlotKept ==
  ASSUME SlotInv, UNCHANGED <<slot, feedVars, lastBatch1>>, AimsKept, Turns'
  PROVE  SlotInv'
<1>1. UNCHANGED <<pumped, dq, wk>> BY DEF feedVars
<1>2. PumpInv' BY <1>1 DEF SlotInv, PumpInv, AimsKept, NoTarget
<1>3. QueueInv' BY <1>1, QueueKept DEF SlotInv
<1> QED BY <1>2, <1>3 DEF SlotInv, Turns

LEMMA TurnsKept ==
  ASSUME SlotInv, slot' = slot, UNCHANGED <<talkVars, deferred, lastBatch1>>
  PROVE  Turns'
BY DEF SlotInv, Turns, HeldInv, TurnInv, talkVars, NoReply

LEMMA FeedSlot ==
  ASSUME Prompt, IInv, SlotInv, Tick \/ PublishFirst \/ PublishSecond
  PROVE  SlotInv'
<1>1. UNCHANGED <<talkVars, heldVars, aimVars>>
  BY DEF Tick, PublishFirst, PublishSecond
<1>2. AimsKept BY <1>1 DEF AimsKept, aimVars
<1>3. slot' = slot => Turns' BY <1>1, TurnsKept DEF heldVars
<1>4. CASE Tick
  <2>1. CASE slot' = slot BY <1>1, <1>2, <1>3, <1>4, <2>1, SlotKept DEF Tick, heldVars
  <2> QED BY <1>4, <2>1, SlotEnds
<1>5. ASSUME UNCHANGED <<slot, wk>>, QueueInv', pumped'.cycle \in {slot - 2, slot - 1}
      PROVE  SlotInv'
  <2>1. PumpInv' BY <1>2, <1>5 DEF SlotInv, PumpInv, AimsKept, NoTarget
  <2> QED BY <1>3, <1>5, <2>1 DEF SlotInv, Turns
<1>6. CASE PublishFirst BY <1>5, <1>6, QueueFirst DEF PublishFirst, clockVars, SlotInv
<1>7. CASE PublishSecond
  BY <1>5, <1>7, QueueSecond DEF PublishSecond, clockVars, SlotInv, PumpInv
<1> QED BY <1>4, <1>6, <1>7

LEMMA ReadSlot ==
  ASSUME IInv, SlotInv, ReadDecode \/ ReadWakeup
  PROVE  SlotInv'
<1>1. CASE ReadDecode
  <2>1. Newest(Head(dq)) BY <1>1, HeadIsNewest DEF ReadDecode, SlotInv
  <2>2. UNCHANGED <<slot, pumped, wk>> BY <1>1 DEF ReadDecode, clockVars
  <2>3. Turns' /\ lastBatch1' = Head(dq).cycle
    BY <1>1, <2>1, <2>2, ProcessBatchTurns DEF ReadDecode, SlotInv, Turns
  <2>4. QueueInv' BY <1>1, <2>2, <2>3, QueueRead DEF ReadDecode, SlotInv
  <2>5. ASSUME pending = NoTarget, jump = NoTarget, NEW b, ProcessBatch(b)
        PROVE  pending' = NoTarget /\ jump' = NoTarget
    <3>0. ASSUME UNCHANGED aimVars PROVE pending' = NoTarget /\ jump' = NoTarget
      BY <2>5, <3>0 DEF aimVars
    <3>1. ASSUME NEW st, SafeAbort(st) PROVE pending' = NoTarget /\ jump' = NoTarget
      BY <3>1 DEF SafeAbort
    <3>2. ASSUME NEW d, Hold(d) PROVE UNCHANGED aimVars BY <3>2 DEF Hold
    <3>3. ASSUME NEW st, NEW msg, Send(msg, st) PROVE UNCHANGED aimVars BY <3>3 DEF Send
    <3>4. CASE HandleIdle(b)
      BY <2>5, <3>0, <3>2, <3>4 DEF HandleIdle, AnswerTarget, AnswerCq
    <3>5. CASE HandleWait(b)
      <4>1. CASE SendHeld(b) BY <3>0, <3>2, <3>3, <4>1 DEF SendHeld
      <4>2. CASE RetryOrAbort BY <3>0, <3>1, <4>2 DEF RetryOrAbort
      <4> QED BY <3>0, <3>1, <3>3, <3>5, <4>1, <4>2
             DEF HandleWait, HearRoger, HearReport, HearElsewhere, SkipOwnCycle
    <3>6. CASE LateIdle(b) BY <3>0, <3>2, <3>6 DEF LateIdle
    <3>7. CASE LateWait(b)
      BY <3>0, <3>1, <3>2, <3>3, <3>7 DEF LateWait, LateRoger, LateReport, HearElsewhere
    <3> QED BY <2>5, <3>4, <3>5, <3>6, <3>7 DEF ProcessBatch
  <2>6. PumpInv' BY <1>1, <2>2, <2>5 DEF ReadDecode, SlotInv, PumpInv, NoTarget
  <2> QED BY <2>3, <2>4, <2>6 DEF SlotInv, Turns
<1>2. CASE ReadWakeup BY <1>2 DEF ReadWakeup, SlotInv, PumpInv
<1> QED BY <1>1, <1>2

LEMMA ServiceSlot ==
  ASSUME IInv, SlotInv, Service
  PROVE  SlotInv'
<1>1. ASSUME NEW st, SafeAbort(st), UNCHANGED <<slot, feedVars, lastBatch1>>
      PROVE  SlotInv'
  BY <1>1, Released, SlotKept DEF SafeAbort, AimsKept
<1>2. CASE ReadCancelled \/ SaveFails \/ TxCancelled \/ PttFault \/ Finish
  BY <1>1, <1>2 DEF ReadCancelled, SaveFails, TxCancelled, PttFault, TxFailed, Finish, clockVars
<1>3. CASE SaveDone
  <2>1. UNCHANGED <<slot, feedVars, lastBatch1>> BY <1>3 DEF SaveDone, clockVars
  <2>2. CASE UNCHANGED <<partner, skip, deferred, aimVars, cancelled>> /\ pc' \in {"sent", "keyed"}
    <3>1. deferred = NoReply BY <1>3 DEF SaveDone, IInv, HeldReplyBelongs
    <3>2. Turns'
      BY <1>3, <2>1, <2>2, <3>1, OnAir DEF SaveDone, SlotInv, TurnInv
    <3> QED BY <2>1, <2>2, <3>2, SlotKept DEF AimsKept, aimVars
  <2> QED BY <1>1, <1>3, <2>1, <2>2 DEF SaveDone, Transmit
<1>4. CASE TxEnd \/ Settle \/ Complete \/ AbortDone
  <2> USE <1>4 DEF TxEnd, Settle, Complete, AbortDone
  <2>1. UNCHANGED <<slot, feedVars, lastBatch1, deferred, partner>> /\ AimsKept
    BY DEF clockVars, heldVars, aimVars, AimsKept
  <2>2. deferred = NoReply BY DEF IInv, HeldReplyBelongs
  <2>3. CASE TxEnd
    <3>1. slot % 2 # Parity[partner'] /\ lastBatch1' = slot - 1
      BY <2>1, <2>3 DEF SlotInv, TurnInv
    <3> QED BY <2>1, <2>2, <2>3, <3>1, OnAir, SlotKept
  <2>4. CASE Settle
    <3>1. lastBatch1 = slot - 1 /\ slot % 2 # Parity[partner]
      BY <2>4 DEF SlotInv, TurnInv
    <3>2. partner \in Stations /\ Parity[partner] \in {0, 1} /\ slot = lastBatch1 + 1
      BY <2>4, <3>1, ParityAssumption, QueueTypes DEF IInv, SessionInv, InSession
    <3>3. lastBatch1 % 2 = Parity[partner] BY <3>1, <3>2, Parities, QueueTypes
    <3>4. Turns' BY <2>1, <2>2, <2>4, <3>3 DEF Turns, HeldInv, TurnInv
    <3> QED BY <2>1, <3>4, SlotKept
  <2>5. CASE Complete
    <3>1. Turns' BY <2>1, <2>2, <2>5 DEF Turns, HeldInv, TurnInv
    <3> QED BY <2>1, <3>1, SlotKept
  <2>6. CASE AbortDone BY <2>1, <2>2, <2>6, AtRest, SlotKept
  <2> QED BY <2>3, <2>4, <2>5, <2>6
<1> QED BY <1>2, <1>3, <1>4, ReadSlot DEF Service

LEMMA NextSlot ==
  ASSUME Prompt, IInv, SlotInv, [Next]_vars
  PROVE  SlotInv'
<1>1. ASSUME UNCHANGED <<clockVars, feedVars, talkVars, heldVars>>, AimsKept
      PROVE  SlotInv'
  <2>1. Turns' BY <1>1, TurnsKept DEF clockVars, heldVars
  <2> QED BY <1>1, <2>1, SlotKept DEF clockVars, heldVars
<1>2. CASE Operator
  BY <1>1, <1>2
     DEF Prompt, Operator, AnswerCqRequest, ExternalRequest, EngageRequest, EnableRequest,
         DisableRequest, AbortRequest, EngageAbort, SwitchToCaller, RevertToAnswerer,
         AbortAsync, Request, AimsKept, aimVars
<1>3. CASE Http
  BY <1>1, <1>3 DEF Http, HttpCancel, HttpDisarm, HttpAway, HttpEnable, AimsKept, aimVars
<1>4. CASE WatchdogFire \/ Done \/ UNCHANGED vars
  BY <1>1, <1>4 DEF WatchdogFire, Done, vars, AimsKept, aimVars
<1> QED BY <1>2, <1>3, <1>4, FeedSlot, ServiceSlot DEF Next

LEMMA InitSlot == Init => SlotInv
<1> SUFFICES ASSUME Init PROVE SlotInv OBVIOUS
<1> USE DEF Init
<1>1. PumpInv BY DEF PumpInv
<1>2. QueueInv BY DEF QueueInv, Firsts
<1>3. HeldInv /\ TurnInv BY DEF HeldInv, TurnInv, WaitStates
<1> QED BY <1>1, <1>2, <1>3 DEF SlotInv

LEMMA SlotsKept ==
  ASSUME Prompt
  PROVE  Spec => []SlotInv
<1>1. IInv /\ SlotInv /\ [Next]_vars => SlotInv' BY NextSlot
<1> QED BY <1>1, InitSlot, Inductive, PTL DEF Spec

(* On a prompt machine without armed targets the answerer transmits only in the
   slots its partner listens in, for every retry count, every number of
   supplementary batches and every mix of requests, aborts and faults. *)
THEOREM TransmitsOnOwnParity ==
  ASSUME Prompt
  PROVE  Spec => []OwnParity
<1>1. SlotInv => OwnParity BY DEF SlotInv, TurnInv, OwnParity
<1> QED BY <1>1, SlotsKept, PTL

(* And a held reply goes out at the first batch 1 of its parity, or is gone. *)
THEOREM HeldReplySentInTime ==
  ASSUME Prompt
  PROVE  Spec => []HeldReplySentAtFirstChance
<1>1. IInv /\ SlotInv => HeldReplySentAtFirstChance
  <2>1. IInv => lastBatch1 \in Nat /\ deferred.cycle \in Nat
    BY DEF IInv, TypeOK, HeldType, Reply
  <2> QED BY <2>1 DEF SlotInv, HeldInv, HeldReplySentAtFirstChance
<1> QED BY <1>1, Inductive, SlotsKept, PTL
=============================================================================
