--------------------------- MODULE Answerer_proofs ---------------------------
(***************************************************************************)
(* Proofs about Answerer, for every value of its constants.                *)
(*                                                                         *)
(* The inductive invariant is IInv.  CoreInv is the part of it a handler   *)
(* can disturb, RestInv the types of the clock, the queues and the         *)
(* requests.  Each way a handler can end (begin a session, abort, send,    *)
(* hold) has a lemma about CoreInv; the handlers and the actions cite them.*)
(***************************************************************************)
EXTENDS Answerer, TLAPS, SequenceTheorems

CoreInv == /\ TalkType /\ deferred \in Reply /\ transition \in Nat
           /\ AimType /\ CtsType /\ HistType
           /\ SessionInv /\ AimInv
           /\ HeldReplyBelongs /\ RetryRepeatsTheRightMessage

RestInv == /\ ClockType /\ FeedType /\ AskType
           /\ lastBatch1 \in Nat
           /\ snap \in [cycle : Nat, cqs : SUBSET Stations]

(* The two parts are the invariant. *)
LEMMA Parts == IInv <=> CoreInv /\ RestInv
BY DEF IInv, CoreInv, RestInv, TypeOK, HeldType

(* And so they are after a step. *)
LEMMA PartsNext == CoreInv' /\ RestInv' => IInv'
BY DEF IInv, CoreInv, RestInv, TypeOK, HeldType

(* The retries of a session that goes on are counted and bounded. *)
RetryOK == retry \in Nat /\ (RetryCount > 0 => retry <= RetryCount)

LEMMA RetryBound == CoreInv /\ pc # "aborting" => RetryOK
BY DEF CoreInv, TalkType, RetryOK

(* A session starts without any. *)
LEMMA NoRetries == RetryCount > 0 => 0 <= RetryCount
BY BoundAssumption

(* The empty values have their types. *)
LEMMA Empties == NoReply \in Reply /\ NoTarget \in Target
BY DEF NoReply, Reply, NoTarget, Target, Messages

(* Targets are left armed or cleared by a step. *)
AimsKept == /\ jump' = jump \/ jump' = NoTarget
            /\ pending' = pending \/ pending' = NoTarget

-----------------------------------------------------------------------------
(* Beginning a session from Idle keeps the core invariant: every held reply is
   superseded, and there is a partner from here on. *)
LEMMA BeginCore ==
  ASSUME CoreInv, pc = "read", state = "Idle", AimsKept,
         NEW b \in Batch, NEW s \in Stations, NEW msg \in Messages,
         Begin(b, s, msg)
  PROVE  CoreInv'
<1> USE NoRetries DEF Begin, MarkTransition
<1>1. TalkType' BY DEF CoreInv, TalkType
<1>2. deferred' \in Reply /\ transition' \in Nat BY Empties DEF Batch
<1>3. AimType' BY Empties DEF CoreInv, AimType, AimsKept
<1>4. CtsType' /\ HistType' BY DEF CoreInv, CtsType, HistType, ctsVars
<1>5. SessionInv' BY DEF SessionInv, InSession
<1>6. AimInv' BY DEF CoreInv, AimInv, AimsKept, NoReply
<1>7. HeldReplyBelongs' BY DEF HeldReplyBelongs
<1>8. RetryRepeatsTheRightMessage' BY DEF RetryRepeatsTheRightMessage
<1> QED BY <1>1, <1>2, <1>3, <1>4, <1>5, <1>6, <1>7, <1>8 DEF CoreInv

(* Aborting keeps it: partner, held reply and targets go together. *)
LEMMA SafeAbortCore ==
  ASSUME CoreInv, NEW st \in States, SafeAbort(st),
         retry' \in Nat, again' \in BOOLEAN, lastTx' = lastTx,
         transition' \in Nat, HistType'
  PROVE  CoreInv'
<1> USE DEF SafeAbort
<1>1. TalkType' BY DEF CoreInv, TalkType
<1>2. deferred' \in Reply BY Empties
<1>3. AimType' /\ CtsType' BY Empties DEF AimType, CtsType
<1>5. SessionInv' BY DEF SessionInv, InSession
<1>6. AimInv' BY DEF AimInv, NoReply
<1>7. HeldReplyBelongs' BY DEF HeldReplyBelongs
<1>8. RetryRepeatsTheRightMessage' BY DEF RetryRepeatsTheRightMessage
<1> QED BY <1>1, <1>2, <1>3, <1>5, <1>6, <1>7, <1>8 DEF CoreInv

(* Transmitting keeps it when the state names the message and nothing is held. *)
LEMMA TransmitCore ==
  ASSUME CoreInv, slot \in Nat, partner \in Stations,
         NEW st \in States, Transmit(st),
         lastTx' \in Messages, st = FirstState(lastTx'),
         UNCHANGED <<partner, aimVars, ctsVars, log, unspent>>, deferred' = NoReply,
         RetryOK', skip' \in BOOLEAN, again' \in BOOLEAN, transition' \in Nat
  PROVE  CoreInv'
<1> USE DEF Transmit
<1>1. TalkType' BY DEF CoreInv, TalkType, RetryOK
<1>2. deferred' \in Reply BY Empties
<1>3. AimType' /\ CtsType' BY DEF CoreInv, AimType, CtsType, aimVars, ctsVars
<1>4. HistType' BY DEF CoreInv, HistType
<1>5. SessionInv' BY DEF SessionInv, InSession, States
<1>6. AimInv' BY DEF CoreInv, AimInv, NoReply, aimVars
<1>7. HeldReplyBelongs' BY DEF HeldReplyBelongs
<1>8. RetryRepeatsTheRightMessage' BY DEF RetryRepeatsTheRightMessage
<1> QED BY <1>1, <1>2, <1>3, <1>4, <1>5, <1>6, <1>7, <1>8 DEF CoreInv

(* The targets are armed for a station, or not armed. *)
Aimed == /\ AimType
         /\ jump = NoTarget \/ jump.who \in Stations
         /\ pending = NoTarget \/ pending.who \in Stations

(* A step that leaves the session alone keeps it, whatever it does to the
   armed targets and to the token; a reply is only dropped while Idle. *)
LEMMA KeepCore ==
  ASSUME CoreInv, Aimed', CtsType', HistType',
         deferred' = deferred \/ (deferred' = NoReply /\ state = "Idle"),
         UNCHANGED <<talkVars, transition>>
  PROVE  CoreInv'
<1> USE DEF talkVars
<1>1. TalkType' BY DEF CoreInv, TalkType
<1>2. deferred' \in Reply /\ transition' \in Nat BY Empties DEF CoreInv
<1>3. AimType' /\ CtsType' /\ HistType' BY DEF Aimed
<1>5. SessionInv' BY DEF CoreInv, SessionInv, InSession, FirstState
<1>6. AimInv' BY DEF CoreInv, AimInv, NoReply, Aimed
<1>7. HeldReplyBelongs' BY DEF CoreInv, HeldReplyBelongs
<1>8. RetryRepeatsTheRightMessage' BY DEF CoreInv, RetryRepeatsTheRightMessage
<1> QED BY <1>1, <1>2, <1>3, <1>5, <1>6, <1>7, <1>8 DEF CoreInv

(* The histories are as a step leaves them when it writes none. *)
LEMMA HistKept == CoreInv /\ UNCHANGED histVars => HistType'
BY DEF CoreInv, HistType, histVars

(* The armed targets are as a step leaves them when it arms nothing. *)
LEMMA KeptAims == CoreInv /\ AimsKept => Aimed'
<1> SUFFICES ASSUME CoreInv, AimsKept PROVE Aimed' OBVIOUS
<1>1. AimType' BY Empties DEF CoreInv, AimType, AimsKept
<1>2. jump' = NoTarget \/ jump'.who \in Stations BY DEF CoreInv, AimInv, AimsKept
<1>3. pending' = NoTarget \/ pending'.who \in Stations BY DEF CoreInv, AimInv, AimsKept
<1>4. NoTarget' = NoTarget BY DEF NoTarget
<1> QED BY <1>1, <1>2, <1>3, <1>4 DEF Aimed

(* Going back to reading keeps it; a reply is only dropped while Idle. *)
LEMMA HoldCore ==
  ASSUME CoreInv, NEW d, d = deferred \/ (d = NoReply /\ state = "Idle"), Hold(d)
  PROVE  CoreInv'
<1>1. Aimed' BY KeptAims DEF Hold, aimVars, AimsKept
<1>2. CtsType' BY DEF CoreInv, CtsType, Hold, ctsVars
<1>3. HistType' BY HistKept DEF Hold
<1> QED BY <1>1, <1>2, <1>3, KeepCore DEF Hold

-----------------------------------------------------------------------------
(* The handlers of the Idle state keep it. *)
LEMMA HandleIdleCore ==
  ASSUME CoreInv, pc = "read", state = "Idle", NEW b \in Batch, HandleIdle(b)
  PROVE  CoreInv'
<1>1. ASSUME Hold(NoReply) \/ Hold(deferred) PROVE CoreInv'
  BY <1>1, HoldCore
<1>2. ASSUME AnswerTarget(b) PROVE CoreInv'
  <2>1. ASSUME NEW t \in {jump, pending}, t # NoTarget, AimAt(t, b), AimsKept
        PROVE  CoreInv'
    <3>1. t \in Target /\ t.who \in Stations
      BY <2>1 DEF CoreInv, AimType, AimInv
    <3>2. CASE ~Expired(t) /\ Ready(t, b) /\ Begin(b, t.who, t.point)
      <4>1. t.point \in Messages BY <3>1 DEF Target
      <4> QED BY <2>1, <3>1, <3>2, <4>1, BeginCore
    <3>3. CASE UNCHANGED <<talkVars, deferred, transition, ctsVars, histVars>>
      <4>1. CtsType' BY <3>3 DEF CoreInv, CtsType, ctsVars
      <4>2. HistType' BY <3>3, HistKept
      <4> QED BY <2>1, <3>3, <4>1, <4>2, KeptAims, KeepCore
    <3> QED BY <2>1, <3>2, <3>3 DEF AimAt
  <2>2. CASE jump # NoTarget /\ AimAt(jump, b) /\ jump' = NoTarget /\ UNCHANGED pending
    BY <2>1, <2>2 DEF AimsKept
  <2>3. CASE pending # NoTarget /\ AimAt(pending, b) /\ pending' = NoTarget /\ UNCHANGED jump
    BY <2>1, <2>3 DEF AimsKept
  <2>4. CASE Waits(jump, b) \/ Waits(pending, b)
    BY <2>4, <1>1 DEF Waits
  <2> QED BY <1>2, <2>2, <2>3, <2>4 DEF AnswerTarget
<1>3. ASSUME AnswerCq(b) PROVE CoreInv'
  <2>0. "answer" \in Messages BY DEF Messages
  <2>1. CASE HeldAnswerDue(b) /\ Begin(b, deferred.to, "answer") /\ UNCHANGED aimVars
    <3>1. deferred.to \in Stations BY <2>1 DEF CoreInv, AimInv, HeldAnswerDue
    <3> QED BY <2>0, <2>1, <3>1, BeginCore DEF AimsKept, aimVars
  <2>2. CASE \E s \in Cqs(b) : Begin(b, s, "answer") /\ UNCHANGED aimVars
    BY <2>0, <2>2, BeginCore DEF AimsKept, aimVars, Cqs
  <2>3. CASE Hold(IF HeldAnswerDropped(b) THEN NoReply ELSE deferred)
    BY <2>3, <1>1
  <2> QED BY <1>3, <2>1, <2>2, <2>3 DEF AnswerCq
<1> QED BY <1>1, <1>2, <1>3 DEF HandleIdle

-----------------------------------------------------------------------------
(* The handlers of a session keep it. *)

(* Giving up on a partner that works another station. *)
LEMMA HearElsewhereCore ==
  ASSUME CoreInv, NEW b \in Batch, HearElsewhere(b)
  PROVE  CoreInv'
<1>1. state \in States /\ retry' \in Nat /\ again' \in BOOLEAN /\ lastTx' = lastTx
  BY DEF CoreInv, TalkType, HearElsewhere
<1>2. transition' \in Nat BY DEF HearElsewhere, Batch
<1>3. HistType' BY DEF CoreInv, HistType, HearElsewhere, histVars
<1> QED BY <1>1, <1>2, <1>3, SafeAbortCore DEF HearElsewhere

(* Sending a message that is not a retry, with the held reply gone. *)
LEMMA SendCore ==
  ASSUME CoreInv, slot \in Nat, pc = "read", state # "Idle",
         NEW msg \in Messages, Send(msg, FirstState(msg)), deferred' = NoReply,
         RetryOK', skip' \in BOOLEAN, transition' \in Nat
  PROVE  CoreInv'
<1>1. FirstState(msg) \in States BY DEF FirstState, States
<1>2. partner \in Stations BY DEF CoreInv, SessionInv, InSession
<1> QED BY <1>1, <1>2, TransmitCore DEF Send

LEMMA SendHeldCore ==
  ASSUME CoreInv, slot \in Nat, pc = "read", state \in WaitStates,
         NEW b \in Batch, SendHeld(b)
  PROVE  CoreInv'
<1> USE DEF SendHeld
<1>0. state # "Idle" BY DEF WaitStates
<1>1. CASE Hold(deferred) BY <1>1, HoldCore
<1>2. CASE ~Hold(deferred)
  <2>1. /\ deferred' = NoReply /\ RetryOK' /\ skip' \in BOOLEAN
        /\ transition' \in Nat
    BY <1>2, RetryBound DEF CoreInv, TalkType, RetryOK
  <2>2. CASE deferred.kind = "Report" /\ Send(lastTx, "TxReport")
    <3>1. lastTx = "report" /\ lastTx \in Messages /\ FirstState(lastTx) = "TxReport"
      BY <2>2 DEF CoreInv, HeldReplyBelongs, Messages, FirstState
    <3> QED BY <1>0, <2>1, <2>2, <3>1, SendCore
  <2>3. CASE deferred.kind = "Closing" /\ Send("closing", "Tx73")
    <3>1. "closing" \in Messages /\ FirstState("closing") = "Tx73"
      BY DEF Messages, FirstState
    <3> QED BY <1>0, <2>1, <2>3, <3>1, SendCore
  <2> QED BY <1>2, <2>2, <2>3
<1> QED BY <1>1, <1>2

(* A retry repeats the message the wait state is the answer to. *)
LEMMA RetryOrAbortCore ==
  ASSUME CoreInv, slot \in Nat, pc = "read", state \in WaitStates, RetryOrAbort
  PROVE  CoreInv'
<1> USE DEF RetryOrAbort
<1>1. retry' \in Nat /\ transition' \in Nat /\ lastTx' \in Messages
  BY DEF CoreInv, TalkType
<1>2. CASE SafeAbort(state) /\ UNCHANGED <<again, keyedAt>>
  <2>1. state \in States /\ again' \in BOOLEAN BY <1>2 DEF CoreInv, TalkType
  <2>2. HistType' BY <1>2 DEF CoreInv, HistType
  <2> QED BY <1>1, <1>2, <2>1, <2>2, SafeAbortCore
<1>3. CASE /\ RetryCount = 0 \/ retry + 1 <= RetryCount
           /\ Transmit(IF state = "WaitRr73" THEN "TxReport" ELSE "TxAnswer")
           /\ again' = TRUE
           /\ UNCHANGED <<partner, skip, deferred, aimVars, ctsVars>>
  <2> DEFINE st == IF state = "WaitRr73" THEN "TxReport" ELSE "TxAnswer"
  <2>1. st \in States BY DEF States
  <2>2. partner \in Stations BY DEF CoreInv, SessionInv, InSession, WaitStates
  <2>3. st = FirstState(lastTx')
    BY DEF CoreInv, RetryRepeatsTheRightMessage, WaitStates, FirstState
  <2>4. skip' \in BOOLEAN /\ again' \in BOOLEAN BY <1>3 DEF CoreInv, TalkType
  <2>5. Transmit(st) BY <1>3
  <2>6. RetryOK' BY <1>1, <1>3 DEF RetryOK
  <2> HIDE DEF st
  <2> QED BY <1>1, <1>3, <2>1, <2>2, <2>3, <2>4, <2>5, <2>6, TransmitCore
<1> QED BY <1>2, <1>3

LEMMA HandleWaitCore ==
  ASSUME CoreInv, slot \in Nat, pc = "read", state \in WaitStates,
         NEW b \in Batch, HandleWait(b)
  PROVE  CoreInv'
<1>0. state # "Idle" /\ b.cycle \in Nat BY DEF WaitStates, Batch
<1>1. CASE HearRoger(b)
  <2>1. "closing" \in Messages /\ FirstState("closing") = "Tx73"
    BY DEF Messages, FirstState
  <2>2. deferred' = NoReply /\ RetryOK' /\ skip' \in BOOLEAN /\ transition' \in Nat
    BY <1>0, <1>1, RetryBound DEF HearRoger, MarkTransition, CoreInv, TalkType, RetryOK
  <2> QED BY <1>0, <1>1, <2>1, <2>2, SendCore DEF HearRoger
<1>2. CASE HearReport(b)
  <2>1. "report" \in Messages /\ FirstState("report") = "TxReport"
    BY DEF Messages, FirstState
  <2>2. deferred' = NoReply /\ RetryOK' /\ skip' \in BOOLEAN /\ transition' \in Nat
    BY <1>0, <1>2, NoRetries DEF HearReport, MarkTransition, RetryOK
  <2> QED BY <1>0, <1>2, <2>1, <2>2, SendCore DEF HearReport
<1>3. CASE HearElsewhere(b) BY <1>3, HearElsewhereCore
<1>4. CASE SendHeld(b) BY <1>4, SendHeldCore
<1>5. CASE RetryOrAbort BY <1>5, RetryOrAbortCore
<1>6. CASE SkipOwnCycle
  <2> USE <1>6 DEF SkipOwnCycle
  <2>1. TalkType' BY DEF CoreInv, TalkType
  <2>2. deferred' \in Reply /\ transition' \in Nat BY DEF CoreInv
  <2>3. AimType' /\ CtsType' /\ HistType'
    BY DEF CoreInv, AimType, CtsType, HistType, aimVars, ctsVars, histVars
  <2>4. SessionInv' BY DEF CoreInv, SessionInv, InSession, FirstState
  <2>5. AimInv' BY DEF CoreInv, AimInv, NoReply, aimVars
  <2>6. HeldReplyBelongs' BY DEF HeldReplyBelongs, NoReply
  <2>7. RetryRepeatsTheRightMessage' BY DEF CoreInv, RetryRepeatsTheRightMessage, NoReply
  <2> QED BY <2>1, <2>2, <2>3, <2>4, <2>5, <2>6, <2>7 DEF CoreInv
<1> QED BY <1>1, <1>2, <1>3, <1>4, <1>5, <1>6 DEF HandleWait

-----------------------------------------------------------------------------
(* Supplementary batches keep it. *)

LEMMA LateIdleCore ==
  ASSUME CoreInv, pc = "read", state = "Idle", NEW b \in Batch, LateIdle(b)
  PROVE  CoreInv'
<1>1. CASE Hold(deferred) BY <1>1, HoldCore
<1>2. ASSUME NEW s \in Cqs(b), Begin(b, s, "answer"), UNCHANGED aimVars
      PROVE  CoreInv'
  <2>1. s \in Stations /\ "answer" \in Messages BY <1>2 DEF Cqs, Messages
  <2> QED BY <1>2, <2>1, BeginCore DEF AimsKept, aimVars
<1>3. ASSUME NEW s \in Cqs(b), transition' = b.cycle,
             deferred' = [kind |-> "Answer", cycle |-> b.cycle, to |-> s],
             UNCHANGED <<talkVars, aimVars, ctsVars, histVars>>
      PROVE  CoreInv'
  <2> USE <1>3 DEF talkVars, aimVars, ctsVars, histVars
  <2>0. s \in Stations /\ b.cycle \in Nat BY DEF Cqs, Batch
  <2>1. TalkType' BY DEF CoreInv, TalkType
  <2>2. deferred' \in Reply /\ transition' \in Nat BY <2>0 DEF Reply
  <2>3. AimType' /\ CtsType' /\ HistType' BY DEF CoreInv, AimType, CtsType, HistType
  <2>4. SessionInv' BY DEF CoreInv, SessionInv, InSession, FirstState
  <2>5. AimInv' BY <2>0 DEF CoreInv, AimInv, NoReply
  <2>6. HeldReplyBelongs' BY DEF CoreInv, HeldReplyBelongs, SessionInv, InSession
  <2>7. RetryRepeatsTheRightMessage' BY DEF RetryRepeatsTheRightMessage
  <2> QED BY <2>1, <2>2, <2>3, <2>4, <2>5, <2>6, <2>7 DEF CoreInv
<1> QED BY <1>1, <1>2, <1>3 DEF LateIdle

(* Holding a report or a closing for the partner keeps it. *)
LEMMA HoldReplyCore ==
  ASSUME CoreInv, pc = "read", state \in WaitStates, NEW b \in Batch,
         NEW kind \in {"Report", "Closing"},
         deferred' = [kind |-> kind, cycle |-> b.cycle, to |-> partner],
         transition' = b.cycle, retry' = 0,
         lastTx' = IF kind = "Report" THEN "report" ELSE "closing",
         state' = IF kind = "Report" THEN "WaitRr73" ELSE state,
         UNCHANGED <<pc, partner, skip, again, aimVars, ctsVars, histVars>>
  PROVE  CoreInv'
<1> USE DEF aimVars, ctsVars, histVars, WaitStates
<1>0. partner \in Stations /\ b.cycle \in Nat
  BY DEF CoreInv, SessionInv, InSession, Batch
<1>1. TalkType' BY NoRetries DEF CoreInv, TalkType, Messages, States
<1>2. deferred' \in Reply /\ transition' \in Nat BY <1>0 DEF Reply
<1>3. AimType' /\ CtsType' /\ HistType' BY DEF CoreInv, AimType, CtsType, HistType
<1>4. SessionInv' BY <1>0 DEF SessionInv, InSession
<1>5. AimInv' BY DEF CoreInv, AimInv, NoReply
<1>6. HeldReplyBelongs' BY <1>0, NoStationAssumption DEF HeldReplyBelongs
<1>7. RetryRepeatsTheRightMessage' BY DEF RetryRepeatsTheRightMessage, NoReply
<1> QED BY <1>1, <1>2, <1>3, <1>4, <1>5, <1>6, <1>7 DEF CoreInv

LEMMA LateWaitCore ==
  ASSUME CoreInv, slot \in Nat, pc = "read", state \in WaitStates,
         NEW b \in Batch, LateWait(b)
  PROVE  CoreInv'
<1>0. state # "Idle" /\ b.cycle \in Nat BY DEF WaitStates, Batch
<1>1. CASE Hold(deferred) BY <1>1, HoldCore
<1>2. CASE LateRoger(b)
  <2>1. CASE CanStartWhole(b.cycle)
    <3>1. "closing" \in Messages /\ FirstState("closing") = "Tx73"
      BY DEF Messages, FirstState
    <3>2. /\ deferred' = NoReply /\ RetryOK' /\ skip' \in BOOLEAN
          /\ transition' \in Nat
      BY <1>0, <1>2, <2>1, RetryBound, NoRetries DEF LateRoger, CoreInv, TalkType, RetryOK
    <3> QED BY <1>0, <1>2, <2>1, <3>1, <3>2, SendCore DEF LateRoger
  <2>2. CASE ~CanStartWhole(b.cycle)
    BY <1>2, <2>2, HoldReplyCore DEF LateRoger
  <2> QED BY <2>1, <2>2
<1>3. CASE LateReport(b)
  <2>1. CASE CanStartWhole(b.cycle)
    <3>1. "report" \in Messages /\ FirstState("report") = "TxReport"
      BY DEF Messages, FirstState
    <3>2. /\ deferred' = NoReply /\ RetryOK' /\ skip' \in BOOLEAN
          /\ transition' \in Nat
      BY <1>0, <1>3, <2>1, RetryBound, NoRetries DEF LateReport, CoreInv, TalkType, RetryOK
    <3> QED BY <1>0, <1>3, <2>1, <3>1, <3>2, SendCore DEF LateReport
  <2>2. CASE ~CanStartWhole(b.cycle)
    BY <1>3, <2>2, HoldReplyCore DEF LateReport
  <2> QED BY <2>1, <2>2
<1>4. CASE HearElsewhere(b) BY <1>4, HearElsewhereCore
<1> QED BY <1>1, <1>2, <1>3, <1>4 DEF LateWait

-----------------------------------------------------------------------------
(* Reading a batch, whatever the state. *)
LEMMA ProcessBatchCore ==
  ASSUME IInv, pc = "read", NEW b \in Batch, ProcessBatch(b)
  PROVE  /\ CoreInv'
         /\ lastBatch1' \in Nat
         /\ snap' \in [cycle : Nat, cqs : SUBSET Stations]
<1>1. CoreInv /\ slot \in Nat BY Parts DEF RestInv, ClockType
<1>2. lastBatch1 \in Nat /\ snap \in [cycle : Nat, cqs : SUBSET Stations]
  BY Parts DEF RestInv
<1>3. b.cycle \in Nat /\ Cqs(b) \in SUBSET Stations BY DEF Batch, Cqs
<1>4. lastBatch1' \in Nat BY <1>2, <1>3 DEF ProcessBatch
<1>5. CoreInv'
  BY <1>1, HandleIdleCore, HandleWaitCore, LateIdleCore, LateWaitCore DEF ProcessBatch
<1>6. snap' \in [cycle : Nat, cqs : SUBSET Stations]
  <2>1. CASE snap' = [cycle |-> b.cycle, cqs |-> Cqs(b)] BY <2>1, <1>3
  <2>2. CASE MergeIntoSnapshot(b) BY <2>2, <1>2, <1>3 DEF MergeIntoSnapshot
  <2>3. CASE UNCHANGED snap BY <2>3, <1>2
  <2> QED BY <2>1, <2>2, <2>3 DEF ProcessBatch, HandleIdle, HandleWait, LateIdle, LateWait
<1> QED BY <1>4, <1>5, <1>6

(* What RestInv says of a step that disturbs neither the clock, the queues nor
   the requests. *)
LEMMA RestKept ==
  ASSUME IInv, UNCHANGED <<clockVars, feedVars, lastBatch1, snap>>, AskType'
  PROVE  RestInv'
<1>1. RestInv BY Parts
<1>2. ClockType' BY <1>1 DEF RestInv, ClockType, clockVars
<1>3. FeedType' BY <1>1 DEF RestInv, FeedType, feedVars
<1> QED BY <1>1, <1>2, <1>3 DEF RestInv

LEMMA AskKept == IInv /\ UNCHANGED askVars => AskType'
BY DEF IInv, TypeOK, AskType, askVars

(* A wakeup's batch, and the batches the pump delivers, are batches. *)
LEMMA SilentBatch ==
  ASSUME NEW c \in Nat
  PROVE  [cycle |-> c, late |-> FALSE, heard |-> Silence] \in Batch
BY DEF Batch, Silence, Says

-----------------------------------------------------------------------------
(* The steps that read keep the inductive invariant. *)
LEMMA ReadSteps ==
  ASSUME IInv, ReadDecode \/ ReadWakeup
  PROVE  IInv'
<1>1. CASE ReadDecode
  <2> USE <1>1 DEF ReadDecode
  <2>1. dq \in Seq(Batch) /\ dq # <<>> BY DEF IInv, TypeOK, FeedType
  <2>2. Head(dq) \in Batch /\ Tail(dq) \in Seq(Batch) BY <2>1, HeadTailProperties
  <2>3. /\ CoreInv' /\ lastBatch1' \in Nat
        /\ snap' \in [cycle : Nat, cqs : SUBSET Stations]
    BY <2>2, ProcessBatchCore
  <2>4. ClockType' BY DEF IInv, TypeOK, ClockType, clockVars
  <2>5. FeedType' BY <2>2 DEF IInv, TypeOK, FeedType
  <2> QED BY <2>3, <2>4, <2>5, AskKept, PartsNext DEF RestInv
<1>2. CASE ReadWakeup
  <2> USE <1>2 DEF ReadWakeup
  <2>1. wk \in Seq(Nat) /\ wk # <<>> BY DEF IInv, TypeOK, FeedType
  <2>2. Head(wk) \in Nat /\ Tail(wk) \in Seq(Nat) BY <2>1, HeadTailProperties
  <2>3. /\ CoreInv' /\ lastBatch1' \in Nat
        /\ snap' \in [cycle : Nat, cqs : SUBSET Stations]
    BY <2>2, SilentBatch, ProcessBatchCore
  <2>4. ClockType' BY DEF IInv, TypeOK, ClockType, clockVars
  <2>5. FeedType' BY <2>2 DEF IInv, TypeOK, FeedType
  <2> QED BY <2>3, <2>4, <2>5, AskKept, PartsNext DEF RestInv
<1> QED BY <1>1, <1>2

(* So do the steps that abort a session. *)
LEMMA AbortSteps ==
  ASSUME IInv, NEW st \in States, SafeAbort(st),
         UNCHANGED <<clockVars, feedVars, retry, lastTx, again, lastBatch1, transition, snap,
                     askVars, histVars>>
  PROVE  IInv'
<1>1. CoreInv BY Parts
<1>2. retry' \in Nat /\ again' \in BOOLEAN /\ transition' \in Nat
  BY <1>1 DEF CoreInv, TalkType
<1>3. HistType' BY <1>1 DEF CoreInv, HistType, histVars
<1>4. CoreInv' BY <1>1, <1>2, <1>3, SafeAbortCore
<1> QED BY <1>4, AskKept, RestKept, PartsNext

(* The offset was saved, or could not be. *)
LEMMA SaveSteps ==
  ASSUME IInv, SaveDone \/ SaveFails
  PROVE  IInv'
<1>1. CoreInv /\ pc = "saving" /\ slot \in Nat
  BY Parts DEF RestInv, ClockType, SaveDone, SaveFails
<1>2. /\ state \in States /\ FirstState(lastTx) \in States /\ lastTx \in Messages
      /\ retry \in Nat /\ skip \in BOOLEAN /\ again \in BOOLEAN /\ transition \in Nat
  BY <1>1 DEF CoreInv, TalkType, FirstState, States
<1>3. CASE SaveFails BY <1>2, <1>3, AbortSteps DEF SaveFails
<1>4. CASE SaveDone /\ SafeAbort(FirstState(lastTx)) /\ UNCHANGED keyedAt
  BY <1>2, <1>4, AbortSteps DEF SaveDone, histVars
<1>5. CASE /\ SaveDone /\ Transmit(FirstState(lastTx)) /\ wd' = TRUE
           /\ UNCHANGED <<partner, skip, deferred, aimVars, cancelled>>
  <2> USE <1>5 DEF SaveDone, Transmit
  <2>1. TalkType' BY <1>1, <1>2 DEF CoreInv, TalkType
  <2>2. deferred' \in Reply /\ transition' \in Nat BY <1>1 DEF CoreInv
  <2>3. AimType' /\ CtsType' BY <1>1 DEF CoreInv, AimType, CtsType, aimVars
  <2>4. HistType' BY <1>1 DEF CoreInv, HistType
  <2>5. SessionInv' BY <1>1 DEF CoreInv, SessionInv, InSession, FirstState
  <2>6. AimInv' BY <1>1 DEF CoreInv, AimInv, NoReply, aimVars
  <2>7. deferred = NoReply BY <1>1 DEF CoreInv, HeldReplyBelongs
  <2>8. HeldReplyBelongs' BY <2>7 DEF HeldReplyBelongs, NoReply
  <2>9. RetryRepeatsTheRightMessage' BY DEF RetryRepeatsTheRightMessage
  <2>10. CoreInv' BY <2>1, <2>2, <2>3, <2>4, <2>5, <2>6, <2>8, <2>9 DEF CoreInv
  <2> QED BY <2>10, AskKept, RestKept, PartsNext
<1> QED BY <1>3, <1>4, <1>5 DEF SaveDone

(* The steps of a transmission that ended. *)
LEMMA TxSteps ==
  ASSUME IInv, TxEnd \/ TxCancelled \/ PttFault \/ Settle \/ Complete \/ Finish \/ AbortDone
  PROVE  IInv'
<1>1. CoreInv BY Parts
<1>2. state \in States /\ deferred \in Reply /\ transition \in Nat
  BY <1>1 DEF CoreInv, TalkType
<1>3. CASE TxCancelled \/ PttFault
  BY <1>2, <1>3, AbortSteps DEF TxCancelled, PttFault, TxFailed
<1>4. CASE Finish BY <1>2, <1>4, AbortSteps DEF Finish
<1>5. CASE TxEnd
  <2> USE <1>5 DEF TxEnd, heldVars, aimVars, ctsVars, histVars
  <2>1. TalkType' BY <1>1 DEF CoreInv, TalkType
  <2>2. AimType' /\ CtsType' /\ HistType' BY <1>1 DEF CoreInv, AimType, CtsType, HistType
  <2>3. SessionInv' BY <1>1 DEF CoreInv, SessionInv, InSession, FirstState
  <2>4. AimInv' BY <1>1 DEF CoreInv, AimInv, NoReply
  <2>5. HeldReplyBelongs' BY <1>1 DEF CoreInv, HeldReplyBelongs, NoReply
  <2>6. RetryRepeatsTheRightMessage' BY DEF RetryRepeatsTheRightMessage
  <2>7. CoreInv' BY <1>2, <2>1, <2>2, <2>3, <2>4, <2>5, <2>6 DEF CoreInv
  <2> QED BY <2>7, AskKept, RestKept, PartsNext
<1>6. CASE Settle
  <2> USE <1>6 DEF Settle, WaitState, heldVars, aimVars, histVars
  <2>1. TalkType' BY <1>1 DEF CoreInv, TalkType, States
  <2>2. AimType' /\ HistType' BY <1>1 DEF CoreInv, AimType, HistType
  <2>3. CtsType' BY <1>1 DEF CoreInv, CtsType, ctsVars, ResetWatchdog
  <2>4. SessionInv' BY <1>1 DEF CoreInv, SessionInv, InSession
  <2>5. AimInv' BY <1>1 DEF CoreInv, AimInv, NoReply
  <2>6. HeldReplyBelongs' BY <1>1 DEF CoreInv, HeldReplyBelongs, NoReply
  <2>7. RetryRepeatsTheRightMessage'
    BY <1>1 DEF CoreInv, RetryRepeatsTheRightMessage, SessionInv, FirstState
  <2>8. CoreInv' BY <1>2, <2>1, <2>2, <2>3, <2>4, <2>5, <2>6, <2>7 DEF CoreInv
  <2> QED BY <2>8, AskKept, RestKept, PartsNext
<1>7. CASE Complete
  <2> USE <1>7 DEF Complete, heldVars, aimVars, ctsVars
  <2>0. partner \in Stations /\ log \in Seq(Stations)
    BY <1>1 DEF CoreInv, SessionInv, InSession, HistType
  <2>1. TalkType' BY <1>1 DEF CoreInv, TalkType, States
  <2>2. AimType' /\ CtsType' BY <1>1 DEF CoreInv, AimType, CtsType
  <2>3. HistType' BY <1>1, <2>0, AppendProperties DEF CoreInv, HistType
  <2>4. SessionInv' BY <1>1 DEF CoreInv, SessionInv, InSession, FirstState, TalkType, Messages
  <2>5. AimInv' BY <1>1 DEF CoreInv, AimInv, NoReply
  <2>6. HeldReplyBelongs' BY <1>1 DEF CoreInv, HeldReplyBelongs, NoReply
  <2>7. RetryRepeatsTheRightMessage' BY DEF RetryRepeatsTheRightMessage
  <2>8. CoreInv' BY <1>2, <2>1, <2>2, <2>3, <2>4, <2>5, <2>6, <2>7 DEF CoreInv
  <2> QED BY <2>8, AskKept, RestKept, PartsNext
<1>8. CASE AbortDone
  <2> USE <1>8 DEF AbortDone, heldVars, aimVars, ctsVars, histVars
  <2>1. TalkType' BY <1>1, NoRetries DEF CoreInv, TalkType, States
  <2>2. AimType' /\ CtsType' /\ HistType' BY <1>1 DEF CoreInv, AimType, CtsType, HistType
  <2>3. SessionInv' BY <1>1 DEF CoreInv, SessionInv, InSession
  <2>4. AimInv' BY <1>1 DEF CoreInv, AimInv, NoReply
  <2>5. HeldReplyBelongs' BY <1>1 DEF CoreInv, HeldReplyBelongs, NoReply
  <2>6. RetryRepeatsTheRightMessage' BY DEF RetryRepeatsTheRightMessage
  <2>7. CoreInv' BY <1>2, <2>1, <2>2, <2>3, <2>4, <2>5, <2>6 DEF CoreInv
  <2>8. AskType' BY DEF IInv, TypeOK, AskType
  <2> QED BY <2>7, <2>8, RestKept, PartsNext
<1> QED BY <1>3, <1>4, <1>5, <1>6, <1>7, <1>8

-----------------------------------------------------------------------------
(* The clock and the pump keep it: what they append to the queue is a batch. *)
LEMMA FeedSteps ==
  ASSUME IInv, Tick \/ PublishFirst \/ PublishSecond
  PROVE  IInv'
<1>1. CoreInv /\ RestInv BY Parts
<1>2. UNCHANGED <<talkVars, heldVars, aimVars, askVars, ctsVars, histVars>>
  BY DEF Tick, PublishFirst, PublishSecond
<1>3. CoreInv'
  <2>1. CtsType' BY <1>1, <1>2 DEF CoreInv, CtsType, ctsVars
  <2>2. Aimed' BY <1>1, <1>2, KeptAims DEF AimsKept, aimVars
  <2>3. HistType' BY <1>1, <1>2, HistKept
  <2> QED BY <1>1, <1>2, <2>1, <2>2, <2>3, KeepCore DEF heldVars
<1>4. AskType' BY <1>2, AskKept
<1>5. lastBatch1' \in Nat /\ snap' \in [cycle : Nat, cqs : SUBSET Stations]
  BY <1>1, <1>2 DEF RestInv, heldVars
<1>6. CASE Tick
  <2>1. ClockType' BY <1>1, <1>6 DEF RestInv, ClockType, Tick
  <2>2. FeedType' BY <1>1, <1>6 DEF RestInv, FeedType, Tick, feedVars
  <2> QED BY <1>3, <1>4, <1>5, <2>1, <2>2, PartsNext DEF RestInv
<1>7. ASSUME UNCHANGED <<clockVars, wk>>,
             NEW c \in Nat, NEW h \in [Stations -> Says], NEW late \in BOOLEAN,
             dq' = Append(dq, [cycle |-> c, late |-> late, heard |-> h]),
             pumped' \in [cycle : Nat, late : Nat, told : SUBSET Stations]
      PROVE  IInv'
  <2>1. ClockType' BY <1>1, <1>7 DEF RestInv, ClockType, clockVars
  <2>2. [cycle |-> c, late |-> late, heard |-> h] \in Batch BY DEF Batch
  <2>3. dq' \in Seq(Batch) BY <1>1, <1>7, <2>2, AppendProperties DEF RestInv, FeedType
  <2>4. FeedType' BY <1>1, <1>7, <2>3 DEF RestInv, FeedType
  <2> QED BY <1>3, <1>4, <1>5, <2>1, <2>4, PartsNext DEF RestInv
<1>8. CASE PublishFirst
  <2>1. PICK c \in (pumped.cycle + 1)..(slot - 1) : \E h \in Decodable(c, {}) :
          /\ dq' = Append(dq, [cycle |-> c, late |-> FALSE, heard |-> h])
          /\ pumped' = [cycle |-> c, late |-> 0, told |-> Told(h)]
    BY <1>8 DEF PublishFirst
  <2>2. PICK h \in Decodable(c, {}) :
          /\ dq' = Append(dq, [cycle |-> c, late |-> FALSE, heard |-> h])
          /\ pumped' = [cycle |-> c, late |-> 0, told |-> Told(h)]
    BY <2>1
  <2>3. c \in Nat BY <1>1 DEF RestInv, ClockType, FeedType
  <2>4. h \in [Stations -> Says] /\ Told(h) \in SUBSET Stations BY DEF Decodable, Told
  <2>5. UNCHANGED <<clockVars, wk>> BY <1>8 DEF PublishFirst
  <2>6. pumped' \in [cycle : Nat, late : Nat, told : SUBSET Stations]
    BY <2>2, <2>3, <2>4
  <2> QED BY <1>7, <2>2, <2>3, <2>4, <2>5, <2>6
<1>9. CASE PublishSecond
  <2>1. PICK h \in Decodable(pumped.cycle, pumped.told) :
          /\ dq' = Append(dq, [cycle |-> pumped.cycle, late |-> TRUE, heard |-> h])
          /\ pumped' = [pumped EXCEPT !.late = @ + 1, !.told = @ \cup Told(h)]
    BY <1>9 DEF PublishSecond
  <2>2. pumped \in [cycle : Nat, late : Nat, told : SUBSET Stations]
    BY <1>1 DEF RestInv, FeedType
  <2>3. h \in [Stations -> Says] /\ Told(h) \in SUBSET Stations BY DEF Decodable, Told
  <2>4. UNCHANGED <<clockVars, wk>> BY <1>9 DEF PublishSecond
  <2>5. pumped' \in [cycle : Nat, late : Nat, told : SUBSET Stations]
    <3>1. pumped' = [cycle |-> pumped.cycle, late |-> pumped.late + 1,
                     told |-> pumped.told \cup Told(h)]
      BY <2>1, <2>2
    <3> QED BY <2>2, <2>3, <3>1
  <2> QED BY <1>7, <2>1, <2>2, <2>3, <2>4, <2>5
<1> QED BY <1>6, <1>8, <1>9

(* A cancellation, and the requests that arm and disarm, leave the session
   alone. *)
LEMMA AsideSteps ==
  ASSUME IInv, Aimed', CtsType', AskType', HistType', wk' = wk \/ wk' = Append(wk, slot - 1),
         UNCHANGED <<clockVars, pumped, dq, talkVars, heldVars>>
  PROVE  IInv'
<1>1. CoreInv /\ RestInv BY Parts
<1>2. CoreInv' BY <1>1, KeepCore DEF heldVars
<1>3. ClockType' BY <1>1 DEF RestInv, ClockType, clockVars
<1>4. slot - 1 \in Nat /\ wk \in Seq(Nat) BY <1>1 DEF RestInv, ClockType, FeedType
<1>5. wk' \in Seq(Nat) BY <1>4, AppendProperties
<1>6. FeedType' BY <1>1, <1>5 DEF RestInv, FeedType
<1>7. lastBatch1' \in Nat /\ snap' \in [cycle : Nat, cqs : SUBSET Stations]
  BY <1>1 DEF RestInv, heldVars
<1> QED BY <1>2, <1>3, <1>6, <1>7, PartsNext DEF RestInv

LEMMA WatchdogStep ==
  ASSUME IInv, WatchdogFire
  PROVE  IInv'
<1>1. CoreInv BY Parts
<1>2. Aimed' BY <1>1, KeptAims DEF WatchdogFire, AimsKept, aimVars
<1>3. CtsType' BY <1>1 DEF CoreInv, CtsType, WatchdogFire
<1>4. AskType' BY AskKept DEF WatchdogFire
<1>5. HistType' BY <1>1, HistKept DEF WatchdogFire
<1> QED BY <1>2, <1>3, <1>4, <1>5, AsideSteps DEF WatchdogFire, feedVars

(* A request arms, disarms or releases a role, and asks for one session or none. *)
LEMMA OperatorSteps ==
  ASSUME IInv, Operator
  PROVE  IInv'
<1>1. CoreInv /\ RestInv BY Parts
<1>3. ctsVars' = ctsVars /\ reqs' = reqs + 1 /\ stopped' \in {"no", "asked", "done"}
  BY <1>1 DEF RestInv, AskType, Operator, AnswerCqRequest, ExternalRequest, EngageRequest, EnableRequest,
         DisableRequest, AbortRequest, EngageAbort, SwitchToCaller, RevertToAnswerer,
         AbortAsync, Request
<1>4. CtsType' BY <1>1, <1>3 DEF CoreInv, CtsType, ctsVars
<1>5. AskType'
  <2>1. AskType BY <1>1 DEF RestInv
  <2>2. reqs' \in Nat BY <1>3, <2>1 DEF AskType
  <2>3. http' \subseteq HttpSteps
    BY <2>1 DEF AskType, HttpSteps, Operator, AnswerCqRequest, ExternalRequest, EngageRequest,
         EnableRequest, DisableRequest, AbortRequest, EngageAbort, SwitchToCaller,
         RevertToAnswerer, AbortAsync
  <2>4. autoAnswer' \in BOOLEAN /\ isActive' \in BOOLEAN
    BY <2>1 DEF AskType, Operator, AnswerCqRequest, ExternalRequest, EngageRequest,
         EnableRequest, DisableRequest, AbortRequest, EngageAbort, SwitchToCaller,
         RevertToAnswerer, AbortAsync
  <2> QED BY <1>3, <2>2, <2>3, <2>4 DEF AskType
<1>6. UNCHANGED <<clockVars, pumped, dq, talkVars, heldVars, log, keyedAt>>
  BY DEF Operator, AnswerCqRequest, ExternalRequest, EngageRequest, EnableRequest,
         DisableRequest, AbortRequest, EngageAbort, SwitchToCaller, RevertToAnswerer,
         AbortAsync, feedVars
<1>9. HistType'
  <2>1. \E asked \in {0, 1} : unspent' = unspent + asked
    BY DEF Operator, AnswerCqRequest, ExternalRequest, EngageRequest, EnableRequest,
           DisableRequest, AbortRequest, EngageAbort, SwitchToCaller, RevertToAnswerer,
           Request
  <2> QED BY <1>1, <1>6, <2>1 DEF CoreInv, HistType
<1>7. wk' = wk \/ wk' = Append(wk, slot - 1)
  BY DEF Operator, AnswerCqRequest, ExternalRequest, EngageRequest, EnableRequest,
         DisableRequest, AbortRequest, EngageAbort, SwitchToCaller, RevertToAnswerer,
         AbortAsync, ArmPendingTarget, Wake, feedVars
<1>8. Aimed'
  <2>0. slot \in Nat /\ snap.cqs \subseteq Stations /\ snap.cycle \in Nat
    BY <1>1 DEF RestInv, ClockType
  <2>1. ASSUME NEW s \in Stations, NEW cycle \in Nat, NEW point \in Messages
        PROVE  [who |-> s, point |-> point, phase |-> NextPhase(cycle), at |-> slot] \in Target
    BY <2>0, <2>1 DEF Target, NextPhase
  <2>2. "answer" \in Messages /\ "report" \in Messages /\ "closing" \in Messages
    BY DEF Messages
  <2>3. ASSUME NEW s \in Stations, NEW cycle \in Nat, ArmPendingTarget(s, cycle)
        PROVE  Aimed'
    <3>1. pending' \in Target /\ pending'.who \in Stations
      BY <2>1, <2>2, <2>3 DEF ArmPendingTarget
    <3>2. jump' \in Target /\ (jump' = NoTarget \/ jump'.who \in Stations)
      BY <1>1, <2>3 DEF ArmPendingTarget, CoreInv, AimType, AimInv
    <3> QED BY <3>1, <3>2 DEF Aimed, AimType, NoTarget
  <2>4. pumped.cycle \in Nat BY <1>1 DEF RestInv, FeedType
  <2>5. CASE AnswerCqRequest BY <2>3, <2>4, <2>5 DEF AnswerCqRequest
  <2>6. CASE ExternalRequest BY <2>0, <2>3, <2>6 DEF ExternalRequest
  <2>7. CASE EngageRequest
    <3>1. PICK s \in Stations, cycle \in 1..pumped.cycle, point \in {"report", "closing"} :
            jump' = [who |-> s, point |-> point, phase |-> NextPhase(cycle), at |-> slot]
      BY <2>7 DEF EngageRequest
    <3>2. cycle \in Nat /\ point \in Messages BY <2>2, <2>4
    <3>3. jump' \in Target /\ jump'.who \in Stations BY <2>1, <3>1, <3>2
    <3>4. pending' \in Target /\ (pending' = NoTarget \/ pending'.who \in Stations)
      BY <1>1, <2>7 DEF EngageRequest, CoreInv, AimType, AimInv
    <3> QED BY <3>3, <3>4 DEF Aimed, AimType, NoTarget
  <2>8. CASE AimsKept BY <1>1, <2>8, KeptAims
  <2>9. EnableRequest \/ DisableRequest \/ AbortRequest \/ EngageAbort
          \/ SwitchToCaller \/ RevertToAnswerer => AimsKept
    BY DEF EnableRequest, DisableRequest, AbortRequest, EngageAbort, SwitchToCaller,
           RevertToAnswerer, AbortAsync, AimsKept, aimVars
  <2> QED BY <2>5, <2>6, <2>7, <2>8, <2>9 DEF Operator
<1> QED BY <1>4, <1>5, <1>6, <1>7, <1>8, <1>9, AsideSteps

LEMMA HttpStepsKeep ==
  ASSUME IInv, Http
  PROVE  IInv'
<1> USE DEF Http, HttpCancel, HttpDisarm, HttpAway, HttpEnable
<1>1. CoreInv /\ AskType BY Parts DEF RestInv
<1>2. Aimed' BY <1>1, KeptAims DEF AimsKept, aimVars
<1>3. CtsType' BY <1>1 DEF CoreInv, CtsType, ctsVars
<1>4. http' \subseteq HttpSteps BY <1>1 DEF AskType, HttpSteps
<1>5. AskType' BY <1>1, <1>4 DEF AskType
<1>6. UNCHANGED <<clockVars, pumped, dq, wk, talkVars, heldVars, histVars>> BY DEF feedVars
<1>7. HistType' BY <1>1, <1>6, HistKept
<1> QED BY <1>2, <1>3, <1>5, <1>6, <1>7, AsideSteps

(* Nothing happens. *)
LEMMA IdleStep ==
  ASSUME IInv, UNCHANGED vars
  PROVE  IInv'
<1>1. CoreInv BY Parts
<1>2. Aimed' BY <1>1, KeptAims DEF vars, AimsKept, aimVars
<1>3. CtsType' BY <1>1 DEF CoreInv, CtsType, vars, ctsVars
<1>4. AskType' BY AskKept DEF vars
<1>5. HistType' BY <1>1, HistKept DEF vars
<1> QED BY <1>2, <1>3, <1>4, <1>5, AsideSteps DEF vars, feedVars

-----------------------------------------------------------------------------
(* IInv is inductive. *)
LEMMA InitIInv == Init => IInv
<1> SUFFICES ASSUME Init PROVE IInv OBVIOUS
<1> USE DEF Init
<1>1. TalkType BY NoRetries DEF TalkType, States, Messages
<1>2. deferred \in Reply /\ transition \in Nat BY Empties
<1>3. AimType /\ CtsType BY Empties DEF AimType, CtsType
<1>9. HistType
  <2>1. log \in Seq(Stations) BY EmptySeq
  <2>2. unspent \in Int /\ keyedAt \in Nat OBVIOUS
  <2> QED BY <2>1, <2>2 DEF HistType
<1>4. SessionInv BY DEF SessionInv, InSession
<1>5. AimInv BY DEF AimInv, NoReply
<1>6. HeldReplyBelongs /\ RetryRepeatsTheRightMessage
  BY DEF HeldReplyBelongs, RetryRepeatsTheRightMessage
<1>7. CoreInv BY <1>1, <1>2, <1>3, <1>4, <1>5, <1>6, <1>9 DEF CoreInv
<1>8. RestInv
  <2>0. http \subseteq HttpSteps /\ reqs \in Nat OBVIOUS
  <2>1. AskType BY <2>0 DEF AskType
  <2>5. slot \in Nat \ {0} /\ pos \in {"early", "mid", "tail"} OBVIOUS
  <2>2. pumped \in [cycle : Nat, late : Nat, told : SUBSET Stations] OBVIOUS
  <2>3. FeedType BY <2>2, EmptySeq DEF FeedType
  <2>4. snap \in [cycle : Nat, cqs : SUBSET Stations] OBVIOUS
  <2> QED BY <2>1, <2>3, <2>4, <2>5 DEF RestInv, ClockType
<1> QED BY <1>7, <1>8, Parts

LEMMA NextIInv == IInv /\ [Next]_vars => IInv'
<1> SUFFICES ASSUME IInv, [Next]_vars PROVE IInv' OBVIOUS
<1>1. CASE Tick \/ PublishFirst \/ PublishSecond BY <1>1, FeedSteps
<1>2. CASE Service
  <2>1. CASE ReadDecode \/ ReadWakeup BY <2>1, ReadSteps
  <2>2. CASE ReadCancelled
    <3>1. state \in States BY DEF IInv, TypeOK, TalkType
    <3> QED BY <2>2, <3>1, AbortSteps DEF ReadCancelled
  <2>3. CASE SaveDone \/ SaveFails BY <2>3, SaveSteps
  <2>4. CASE TxEnd \/ TxCancelled \/ PttFault \/ Settle \/ Complete \/ Finish \/ AbortDone
    BY <2>4, TxSteps
  <2> QED BY <1>2, <2>1, <2>2, <2>3, <2>4 DEF Service
<1>3. CASE WatchdogFire BY <1>3, WatchdogStep
<1>4. CASE Operator BY <1>4, OperatorSteps
<1>5. CASE Http BY <1>5, HttpStepsKeep
<1>6. CASE Done \/ UNCHANGED vars BY <1>6, IdleStep DEF Done
<1> QED BY <1>1, <1>2, <1>3, <1>4, <1>5, <1>6 DEF Next

(* Every reachable state satisfies the inductive invariant. *)
THEOREM Inductive == Spec => []IInv
BY InitIInv, NextIInv, PTL DEF Spec

(* The state of the answerer keeps its types. *)
THEOREM TypeCorrect == Spec => []TypeOK
<1>1. IInv => TypeOK BY DEF IInv
<1> QED BY <1>1, Inductive, PTL

(* Held replies belong to the session, the state and the partner they are held
   for, whatever batches, wakeups, requests, aborts, watchdogs and faults come in
   whatever order. *)
THEOREM HeldReply == Spec => []HeldReplyBelongs
<1>1. IInv => HeldReplyBelongs BY DEF IInv
<1> QED BY <1>1, Inductive, PTL

(* A retry repeats the message its wait state is the answer to. *)
THEOREM RetryRepeats == Spec => []RetryRepeatsTheRightMessage
<1>1. IInv => RetryRepeatsTheRightMessage BY DEF IInv
<1> QED BY <1>1, Inductive, PTL

-----------------------------------------------------------------------------
(* Answerer implements Contact, for every value of the constants: the initial
   state maps to the initial state, and every step of Next maps to a step of
   Contact or to a stutter.  Each way a handler can end (begin, abort, send
   something new, send the same again, hold) is mapped by a lemma; the handlers
   are split into those. *)

ContactStep == [C!Next]_(C!vars)

(* A step that leaves the session and the token alone is a stutter. *)
LEMMA StutterMaps ==
  ASSUME UNCHANGED <<talkVars, ctsVars, log>>
  PROVE  ContactStep
BY DEF talkVars, ctsVars, ContactStep, C!vars, ContactPhase, ContactDoomed

(* Beginning a session engages its station. *)
LEMMA BeginMaps ==
  ASSUME CoreInv, pc = "read", state = "Idle",
         NEW b, NEW s \in Stations, NEW msg \in Messages, Begin(b, s, msg)
  PROVE  ContactStep
<1>1. partner = NoStation /\ ContactPhase = "free"
  BY DEF CoreInv, SessionInv, InSession, ContactPhase
<1>2. ContactPhase' \in C!Talking
  BY NoStationAssumption DEF Begin, ContactPhase, C!Talking, Messages
<1>3. ContactDoomed' = FALSE BY DEF Begin, ContactDoomed
<1>4. partner' = s /\ log' = log BY DEF Begin
<1>5. C!Engage(s) BY <1>1, <1>2, <1>3, <1>4 DEF C!Engage
<1> QED BY <1>5 DEF ContactStep, C!Next

(* Aborting a session releases it. *)
LEMMA ReleaseMaps ==
  ASSUME CoreInv, InSession, NEW st, SafeAbort(st), UNCHANGED log
  PROVE  ContactStep
<1>1. partner # NoStation /\ ContactPhase # "free"
  BY NoStationAssumption DEF CoreInv, SessionInv, ContactPhase
<1>2. ContactPhase' = "free" /\ partner' = NoStation BY DEF SafeAbort, ContactPhase
<1>3. ContactDoomed' = FALSE BY DEF SafeAbort, ContactDoomed
<1>4. C!Release BY <1>1, <1>2, <1>3 DEF C!Release
<1> QED BY <1>4 DEF ContactStep, C!Next

(* The loop waits in a session, and the read found the token live. *)
Listening == pc = "read" /\ state \in WaitStates /\ cancelled = FALSE

LEMMA ListeningPhase ==
  ASSUME CoreInv, Listening
  PROVE  ContactPhase \in C!Talking /\ ContactDoomed = FALSE /\ partner \in Stations
<1>1. partner \in Stations
  BY DEF CoreInv, SessionInv, InSession, Listening, WaitStates
<1>2. ContactPhase \in C!Talking
  BY <1>1, NoStationAssumption DEF Listening, ContactPhase, C!Talking
<1> QED BY <1>1, <1>2 DEF Listening, ContactDoomed

(* Saying something new, or deciding to, advances the contact. *)
LEMMA AdvanceMaps ==
  ASSUME CoreInv, Listening, lastTx' \in {"report", "closing"}, pc' # "complete",
         UNCHANGED <<partner, ctsVars, log>>
  PROVE  ContactStep
<1>1. ContactPhase' \in {"reporting", "closing"}
  BY ListeningPhase, NoStationAssumption DEF ContactPhase
<1>2. ContactDoomed' = FALSE BY DEF Listening, ContactDoomed, ctsVars
<1>3. C!Advance BY ListeningPhase, <1>1, <1>2 DEF C!Advance
<1> QED BY <1>3 DEF ContactStep, C!Next

(* Saying the same again is a stutter. *)
LEMMA RepeatMaps ==
  ASSUME CoreInv, Listening, pc' # "complete",
         UNCHANGED <<lastTx, partner, ctsVars, log>>
  PROVE  ContactStep
<1>1. ContactPhase' = ContactPhase BY DEF Listening, ContactPhase
<1>2. ContactDoomed' = ContactDoomed BY DEF Listening, ContactDoomed, ctsVars
<1> QED BY <1>1, <1>2 DEF ContactStep, C!vars

-----------------------------------------------------------------------------
(* The Idle handlers begin a session or leave everything alone. *)
LEMMA IdleMaps ==
  ASSUME CoreInv, pc = "read", state = "Idle", NEW b \in Batch,
         HandleIdle(b) \/ LateIdle(b)
  PROVE  ContactStep
<1> DEFINE Aside == UNCHANGED <<talkVars, ctsVars, log>>
<1>1. ASSUME NEW d, Hold(d) PROVE Aside BY <1>1 DEF Hold, histVars
<1>2. "answer" \in Messages BY DEF Messages
<1>3. ASSUME NEW t \in {jump, pending}, t # NoTarget, AimAt(t, b) PROVE ContactStep
  <2>1. t.who \in Stations /\ t.point \in Messages
    BY <1>3 DEF CoreInv, AimType, AimInv, Target
  <2>2. CASE Begin(b, t.who, t.point) BY <2>1, <2>2, BeginMaps
  <2>3. CASE Aside BY <2>3, StutterMaps
  <2> QED BY <1>3, <2>2, <2>3 DEF AimAt, histVars
<1>4. CASE HandleIdle(b)
  <2>1. CASE AnswerTarget(b)
    <3>1. CASE Waits(jump, b) \/ Waits(pending, b)
      BY <1>1, <3>1, StutterMaps DEF Waits
    <3> QED BY <1>3, <2>1, <3>1 DEF AnswerTarget
  <2>2. CASE AnswerCq(b)
    <3>1. CASE HeldAnswerDue(b) /\ Begin(b, deferred.to, "answer")
      <4>1. deferred.to \in Stations BY <3>1 DEF CoreInv, AimInv, HeldAnswerDue
      <4> QED BY <1>2, <3>1, <4>1, BeginMaps
    <3>2. CASE \E s \in Cqs(b) : Begin(b, s, "answer")
      BY <1>2, <3>2, BeginMaps DEF Cqs
    <3>3. CASE Hold(IF HeldAnswerDropped(b) THEN NoReply ELSE deferred)
      BY <1>1, <3>3, StutterMaps
    <3> QED BY <2>2, <3>1, <3>2, <3>3 DEF AnswerCq
  <2>3. CASE Hold(NoReply) BY <1>1, <2>3, StutterMaps
  <2> QED BY <1>4, <2>1, <2>2, <2>3 DEF HandleIdle
<1>5. CASE LateIdle(b)
  <2>1. CASE Hold(deferred) BY <1>1, <2>1, StutterMaps
  <2>2. CASE \E s \in Cqs(b) : Begin(b, s, "answer")
    BY <1>2, <2>2, BeginMaps DEF Cqs
  <2>3. CASE Aside BY <2>3, StutterMaps
  <2> QED BY <1>5, <2>1, <2>2, <2>3 DEF LateIdle, histVars
<1> QED BY <1>4, <1>5

(* The session handlers repeat, advance, give up or leave everything alone. *)
LEMMA WaitMaps ==
  ASSUME CoreInv, Listening, NEW b \in Batch, HandleWait(b) \/ LateWait(b)
  PROVE  ContactStep
<1>0. InSession BY DEF Listening, InSession, WaitStates
<1>1. ASSUME NEW d, Hold(d) PROVE ContactStep
  BY <1>1, StutterMaps DEF Hold, histVars
<1>2. ASSUME NEW msg \in {"report", "closing"}, NEW st, Send(msg, st) PROVE ContactStep
  BY <1>2, AdvanceMaps DEF Send, Transmit
<1>3. CASE HearElsewhere(b)
  BY <1>0, <1>3, ReleaseMaps DEF HearElsewhere, histVars
<1>4. CASE HearRoger(b) \/ HearReport(b)
  BY <1>2, <1>4 DEF HearRoger, HearReport
<1>5. CASE SendHeld(b)
  <2>1. CASE Hold(deferred) BY <1>1, <2>1
  <2>2. CASE deferred.kind = "Report" /\ Send(lastTx, "TxReport")
    BY <2>2, RepeatMaps DEF Send, Transmit
  <2>3. CASE Send("closing", "Tx73") BY <1>2, <2>3
  <2> QED BY <1>5, <2>1, <2>2, <2>3 DEF SendHeld
<1>6. CASE SkipOwnCycle
  BY <1>6, RepeatMaps DEF SkipOwnCycle, histVars, Listening
<1>7. CASE RetryOrAbort
  <2>1. UNCHANGED <<log, lastTx>> BY <1>7 DEF RetryOrAbort
  <2>2. CASE SafeAbort(state) BY <1>0, <2>1, <2>2, ReleaseMaps
  <2>3. CASE /\ Transmit(IF state = "WaitRr73" THEN "TxReport" ELSE "TxAnswer")
             /\ UNCHANGED <<partner, ctsVars>>
    BY <2>1, <2>3, RepeatMaps DEF Transmit
  <2> QED BY <1>7, <2>2, <2>3 DEF RetryOrAbort
<1>8. CASE LateRoger(b)
  <2>1. CASE Send("closing", "Tx73") BY <1>2, <2>1
  <2>2. CASE lastTx' = "closing" /\ UNCHANGED <<pc, partner, ctsVars, histVars>>
    BY <2>2, AdvanceMaps DEF histVars, Listening
  <2> QED BY <1>8, <2>1, <2>2 DEF LateRoger
<1>9. CASE LateReport(b)
  <2>1. CASE Send("report", "TxReport") BY <1>2, <2>1
  <2>2. CASE lastTx' = "report" /\ UNCHANGED <<pc, partner, ctsVars, histVars>>
    BY <2>2, AdvanceMaps DEF histVars, Listening
  <2> QED BY <1>9, <2>1, <2>2 DEF LateReport
<1> QED BY <1>1, <1>3, <1>4, <1>5, <1>6, <1>7, <1>8, <1>9 DEF HandleWait, LateWait

-----------------------------------------------------------------------------
(* The steps of the service loop. *)
LEMMA ServiceMaps ==
  ASSUME IInv, Service
  PROVE  ContactStep
<1>0. CoreInv BY Parts
<1>1. CASE ReadDecode
  <2>1. dq \in Seq(Batch) BY DEF IInv, TypeOK, FeedType
  <2>2. Head(dq) \in Batch BY <1>1, <2>1, HeadTailProperties DEF ReadDecode
  <2>3. CASE state = "Idle"
    BY <1>0, <1>1, <2>2, <2>3, IdleMaps DEF ReadDecode, ProcessBatch, WaitStates
  <2>4. CASE state # "Idle"
    <3>1. cancelled = FALSE BY <1>0, <1>1, <2>4 DEF ReadDecode, CoreInv, CtsType
    <3>2. Listening BY <1>1, <2>4, <3>1 DEF ReadDecode, ProcessBatch, Listening
    <3> QED BY <1>0, <1>1, <2>2, <2>4, <3>2, WaitMaps DEF ReadDecode, ProcessBatch
  <2> QED BY <2>3, <2>4
<1>2. CASE ReadWakeup
  <2>1. wk \in Seq(Nat) BY DEF IInv, TypeOK, FeedType
  <2>2. Head(wk) \in Nat BY <1>2, <2>1, HeadTailProperties DEF ReadWakeup
  <2>3. [cycle |-> Head(wk), late |-> FALSE, heard |-> Silence] \in Batch
    BY <2>2, SilentBatch
  <2> QED BY <1>0, <1>2, <2>3, IdleMaps DEF ReadWakeup, ProcessBatch, WaitStates
<1>3. CASE ReadCancelled
  BY <1>0, <1>3, ReleaseMaps DEF ReadCancelled, InSession, histVars
<1>4. CASE SaveDone
  <2>1. InSession /\ pc = "saving" BY <1>4 DEF SaveDone, InSession
  <2>2. CASE SafeAbort(FirstState(lastTx))
    BY <1>0, <1>4, <2>1, <2>2, ReleaseMaps DEF SaveDone
  <2>3. CASE Transmit(FirstState(lastTx)) /\ UNCHANGED <<partner, cancelled>>
             /\ (PastLastStart \/ ~cancelled)
    <3>1. ContactPhase' = ContactPhase
      BY <1>4, <2>1, <2>3 DEF SaveDone, Transmit, ContactPhase
    <3>2. ContactDoomed' = ContactDoomed
      BY <1>4, <2>1, <2>3 DEF SaveDone, Transmit, ContactDoomed
    <3> QED BY <1>4, <2>3, <3>1, <3>2 DEF SaveDone, ContactStep, C!vars
  <2> QED BY <1>4, <2>2, <2>3 DEF SaveDone
<1>5. CASE SaveFails
  BY <1>0, <1>5, ReleaseMaps DEF SaveFails, InSession, histVars
<1>6. CASE TxEnd
  <2>1. ContactPhase' = ContactPhase /\ ContactDoomed' = ContactDoomed
    BY <1>6 DEF TxEnd, ContactPhase, ContactDoomed, ctsVars
  <2> QED BY <1>6, <2>1 DEF TxEnd, ContactStep, C!vars, histVars
<1>7. CASE TxCancelled \/ PttFault
  BY <1>0, <1>7, ReleaseMaps DEF TxCancelled, PttFault, TxFailed, InSession, histVars
<1>8. CASE Settle
  <2>1. partner \in Stations BY <1>0, <1>8 DEF CoreInv, SessionInv, InSession, Settle
  <2>2. ContactPhase' = ContactPhase BY <1>8 DEF Settle, ContactPhase
  <2>3. ContactPhase \in C!Talking
    BY <1>8, <2>1, NoStationAssumption DEF Settle, ContactPhase, C!Talking
  <2>4. ContactDoomed' \in BOOLEAN BY <1>0, <1>8 DEF ContactDoomed
  <2>5. UNCHANGED <<partner, log>> BY <1>8 DEF Settle, histVars
  <2>6. ContactDoomed = FALSE BY <1>8 DEF Settle, ContactDoomed
  <2>7. CASE ContactDoomed' = TRUE
    <3>1. C!Cancel BY <2>2, <2>3, <2>5, <2>7 DEF C!Cancel
    <3> QED BY <3>1 DEF ContactStep, C!Next
  <2>8. CASE ContactDoomed' = FALSE
    BY <2>2, <2>5, <2>6, <2>8 DEF ContactStep, C!vars
  <2> QED BY <2>4, <2>7, <2>8
<1>9. CASE Complete
  <2>1. partner \in Stations /\ lastTx = "closing"
    BY <1>0, <1>9 DEF CoreInv, SessionInv, InSession, Complete, FirstState, TalkType,
                      Messages
  <2>2. ContactPhase = "closing" /\ ContactPhase' = "logged"
    BY <1>9, <2>1, NoStationAssumption DEF Complete, ContactPhase
  <2>3. ContactDoomed = FALSE /\ ContactDoomed' = FALSE BY <1>9 DEF Complete, ContactDoomed
  <2>4. C!Log BY <1>9, <2>2, <2>3 DEF Complete, C!Log
  <2> QED BY <2>4 DEF ContactStep, C!Next
<1>10. CASE Finish
  BY <1>0, <1>10, ReleaseMaps DEF Finish, InSession, histVars
<1>11. CASE AbortDone
  <2>1. partner = NoStation /\ partner' = NoStation /\ log' = log
    BY <1>0, <1>11 DEF CoreInv, SessionInv, InSession, AbortDone, histVars
  <2>2. ContactPhase' = ContactPhase BY <2>1 DEF ContactPhase
  <2>3. ContactDoomed' = ContactDoomed BY <1>11 DEF AbortDone, ContactDoomed
  <2> QED BY <2>1, <2>2, <2>3 DEF ContactStep, C!vars
<1> QED BY <1>1, <1>2, <1>3, <1>4, <1>5, <1>6, <1>7, <1>8, <1>9, <1>10, <1>11 DEF Service

(* A cancellation dooms a session that waits or transmits, and no other. *)
LEMMA CancelMaps ==
  ASSUME CoreInv, cancelled' = TRUE, UNCHANGED <<talkVars, log>>
  PROVE  ContactStep
<1>1. ContactPhase' = ContactPhase /\ UNCHANGED <<partner, log>>
  BY DEF talkVars, ContactPhase
<1>2. ContactDoomed \in BOOLEAN /\ ContactDoomed' \in BOOLEAN
  BY DEF ContactDoomed
<1>3. CASE ContactDoomed' = ContactDoomed BY <1>1, <1>3 DEF ContactStep, C!vars
<1>4. CASE ContactDoomed' # ContactDoomed
  <2>1. pc = "keyed" \/ (pc = "read" /\ state # "Idle")
    BY <1>4 DEF ContactDoomed, talkVars
  <2>2. partner \in Stations BY <2>1 DEF CoreInv, SessionInv, InSession
  <2>3. ContactPhase \in C!Talking
    BY <2>1, <2>2, NoStationAssumption DEF ContactPhase, C!Talking
  <2>4. ContactDoomed' = TRUE BY <2>1 DEF ContactDoomed, talkVars
  <2>5. C!Cancel BY <1>1, <2>3, <2>4 DEF C!Cancel
  <2> QED BY <2>5 DEF ContactStep, C!Next
<1> QED BY <1>3, <1>4

LEMMA NextMaps == IInv /\ [Next]_vars => ContactStep
<1> SUFFICES ASSUME IInv, [Next]_vars PROVE ContactStep OBVIOUS
<1>0. CoreInv BY Parts
<1>1. CASE Service BY <1>1, ServiceMaps
<1>2. CASE WatchdogFire
  BY <1>0, <1>2, CancelMaps DEF WatchdogFire, histVars
<1>3. CASE HttpCancel
  BY <1>0, <1>3, CancelMaps DEF HttpCancel, histVars
<1>4. CASE UNCHANGED <<talkVars, ctsVars, log>>
  BY <1>4, StutterMaps
<1>5. CASE Tick \/ PublishFirst \/ PublishSecond
  BY <1>4, <1>5 DEF Tick, PublishFirst, PublishSecond, histVars
<1>6. CASE Operator
  BY <1>4, <1>6 DEF Operator, AnswerCqRequest, ExternalRequest, EngageRequest, EnableRequest,
         DisableRequest, AbortRequest, EngageAbort, SwitchToCaller, RevertToAnswerer,
         AbortAsync
<1>7. CASE HttpDisarm \/ HttpAway \/ HttpEnable
  BY <1>4, <1>7 DEF HttpDisarm, HttpAway, HttpEnable, histVars
<1>8. CASE Done \/ UNCHANGED vars BY <1>4, <1>8 DEF Done, vars, histVars
<1> QED BY <1>1, <1>2, <1>3, <1>5, <1>6, <1>7, <1>8 DEF Next, Http

LEMMA InitMaps == Init => C!Init
BY DEF Init, C!Init, ContactPhase, ContactDoomed

(* The answerer implements the contact: a station is logged at most once per
   session and only after it closed, and a cancelled session is only released. *)
THEOREM AnswererRefinesContact == Spec => Refines
<1>1. Init => C!Init BY InitMaps
<1>2. IInv /\ [Next]_vars => [C!Next]_(C!vars) BY NextMaps DEF ContactStep
<1> QED BY <1>1, <1>2, Inductive, PTL DEF Spec, Refines, C!Spec
=============================================================================
