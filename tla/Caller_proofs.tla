---------------------------- MODULE Caller_proofs ----------------------------
(***************************************************************************)
(* Proofs about Caller, for every value of its constants.                  *)
(*                                                                         *)
(* The inductive invariant is IInv.  CoreInv is the part of it a handler   *)
(* can disturb, RestInv the types of the clock, the queues and the         *)
(* requests.  Each way a handler can end (take a responder, give up,       *)
(* transmit, hold, leave the session alone) has a lemma about CoreInv and  *)
(* a lemma about the step of Contact it is; the handlers and the actions   *)
(* cite them.                                                              *)
(***************************************************************************)
EXTENDS Caller, TLAPS, SequenceTheorems

PickOK == PickType /\ PickInv

CoreInv == /\ TalkType /\ deferred \in Reply /\ transition \in Nat
           /\ PickOK /\ SigType /\ HistType
           /\ SessionInv /\ HeldReplyBelongs

RestInv == ClockType /\ FeedType /\ AskType /\ lastBatch1 \in Nat

(* The two parts are the invariant. *)
LEMMA Parts == IInv <=> CoreInv /\ RestInv
BY DEF IInv, CoreInv, RestInv, TypeOK, HeldType, PickOK

(* And so they are after a step. *)
LEMMA PartsNext == CoreInv' /\ RestInv' => IInv'
BY DEF IInv, CoreInv, RestInv, TypeOK, HeldType, PickOK

(* The retries of a session that goes on are counted and bounded. *)
RetryOK == retry \in Nat /\ (RetryCount > 0 => retry <= RetryCount)

LEMMA RetryBound ==
  CoreInv /\ pc \notin {"ending", "aborting"} => RetryOK
BY DEF CoreInv, TalkType, RetryOK

(* A session starts without any. *)
LEMMA NoRetries == RetryCount > 0 => 0 <= RetryCount
BY BoundAssumption

(* The empty values have their types. *)
LEMMA Empties == NoReply \in Reply /\ NoPick \in Pick
BY DEF NoReply, Reply, NoPick, Pick

-----------------------------------------------------------------------------
(* How a step ends, and the core invariant *)

(* A pick is left armed or cleared. *)
PickKept == pending' = pending \/ pending' = NoPick

LEMMA KeptPick ==
  ASSUME PickOK, PickKept, recent' \in SUBSET Stations
  PROVE  PickOK'
BY Empties DEF PickOK, PickType, PickInv, PickKept, NoPick

(* A step that leaves the session alone, whatever it does to the pick and to
   the signals. *)
LEMMA KeepCore ==
  ASSUME CoreInv, PickOK', SigType',
         UNCHANGED <<talkVars, deferred, transition, histVars>>
  PROVE  CoreInv'
<1> USE DEF talkVars, histVars
<1>1. TalkType' BY DEF CoreInv, TalkType
<1>2. deferred' \in Reply /\ transition' \in Nat /\ HistType' BY DEF CoreInv, HistType
<1>3. SessionInv' BY DEF CoreInv, SessionInv, Working, NoReply
<1>4. HeldReplyBelongs' BY DEF CoreInv, HeldReplyBelongs, NoReply
<1> QED BY <1>1, <1>2, <1>3, <1>4 DEF CoreInv

(* Giving up: partner, held reply and pick go together. *)
LEMMA SafeAbortCore ==
  ASSUME CoreInv, NEW st \in States, SafeAbort(st),
         retry' \in Nat, UNCHANGED <<lastTx, again>>, transition' \in Nat, HistType'
  PROVE  CoreInv'
<1> USE DEF SafeAbort
<1>1. TalkType' BY DEF CoreInv, TalkType
<1>2. deferred' \in Reply BY Empties
<1>3. PickOK' /\ SigType'
  BY Empties DEF CoreInv, PickOK, PickType, PickInv, SigType, NoPick
<1>4. SessionInv' BY DEF SessionInv, Working
<1>5. HeldReplyBelongs' BY DEF HeldReplyBelongs, NoReply
<1> QED BY <1>1, <1>2, <1>3, <1>4, <1>5 DEF CoreInv

(* Taking a responder from WaitAnswer. *)
LEMMA BeginCore ==
  ASSUME CoreInv, pc = "read", state = "WaitAnswer", PickOK', skip' \in BOOLEAN,
         NEW b \in Batch, NEW s \in Stations, NEW how \in {"batch", "select", "external"},
         NEW next \in {"saving", "holding"}, Begin(b, s, how, next)
  PROVE  CoreInv'
<1> USE NoRetries DEF Begin
<1>1. TalkType' BY DEF CoreInv, TalkType
<1>2. deferred' \in Reply /\ transition' \in Nat BY Empties DEF Batch
<1>3. SigType' /\ HistType' BY DEF CoreInv, SigType, HistType, sigVars
<1>4. SessionInv' BY DEF SessionInv, Working
<1>5. HeldReplyBelongs' BY DEF HeldReplyBelongs, NoReply
<1> QED BY <1>1, <1>2, <1>3, <1>4, <1>5 DEF CoreInv

(* The state a message is sent in. *)
TxState(msg) == IF msg = "cq" THEN "TxCq" ELSE IF msg = "report" THEN "TxReport" ELSE "TxRr73"

(* Transmitting, when the state names the message, there is a partner unless it
   is a CQ, and nothing is held. *)
LEMMA TransmitCore ==
  ASSUME CoreInv, NEW msg \in {"cq", "report", "rr73"}, Transmit(TxState(msg)), lastTx' = msg,
         partner' = partner, IF msg = "cq" THEN partner = NoStation ELSE partner \in Stations,
         deferred' = NoReply, PickOK', SigType', HistType',
         RetryOK', skip' \in BOOLEAN, again' \in BOOLEAN, transition' \in Nat
  PROVE  CoreInv'
<1> USE DEF Transmit, TxState
<1>1. TalkType' BY DEF CoreInv, TalkType, States, RetryOK
<1>2. deferred' \in Reply BY Empties
<1>3. SessionInv' BY DEF SessionInv, Working, NoReply
<1>4. HeldReplyBelongs' BY DEF HeldReplyBelongs, NoReply
<1> QED BY <1>1, <1>2, <1>3, <1>4 DEF CoreInv

(* What Send determines besides. *)
LEMMA SendCore ==
  ASSUME CoreInv, NEW msg \in {"report", "rr73"}, Send(msg, TxState(msg)),
         partner \in Stations, deferred' = NoReply,
         RetryOK', skip' \in BOOLEAN, transition' \in Nat
  PROVE  CoreInv'
<1>1. PickOK' BY KeptPick DEF Send, CoreInv, PickKept, pickVars, PickOK, PickType
<1>2. SigType' /\ HistType' BY DEF Send, CoreInv, SigType, HistType, sigVars, histVars
<1> QED BY <1>1, <1>2, TransmitCore DEF Send

(* Going back to reading with the same held reply. *)
LEMMA HoldCore ==
  ASSUME CoreInv, Hold(deferred), PickOK'
  PROVE  CoreInv'
<1>1. SigType' BY DEF CoreInv, SigType, Hold, sigVars
<1> QED BY <1>1, KeepCore DEF Hold

(* The batch is taken for our own slot. *)
LEMMA SkipCore ==
  ASSUME CoreInv, pc = "read", SkipOwnCycle, PickOK'
  PROVE  CoreInv'
<1> USE DEF SkipOwnCycle
<1>1. TalkType' BY DEF CoreInv, TalkType
<1>2. deferred' \in Reply /\ transition' \in Nat BY DEF CoreInv
<1>3. SigType' /\ HistType' BY DEF CoreInv, SigType, HistType, sigVars, histVars
<1>4. SessionInv' BY DEF CoreInv, SessionInv, Working, NoReply
<1>5. HeldReplyBelongs' BY DEF HeldReplyBelongs, NoReply
<1> QED BY <1>1, <1>2, <1>3, <1>4, <1>5 DEF CoreInv

(* The CQ or the report again, or the end of the session. *)
LEMMA RetryCore ==
  ASSUME CoreInv, pc = "read", state \in {"WaitAnswer", "WaitRr73"}, RetryOrAbort,
         PickKept
  PROVE  CoreInv'
<1> USE DEF RetryOrAbort
<1>1. /\ retry' \in Nat /\ transition' \in Nat /\ HistType'
      /\ state \in States
  BY DEF CoreInv, TalkType, HistType, histVars
<1>2. CASE SafeAbort(state) /\ UNCHANGED <<lastTx, again>>
  BY <1>1, <1>2, SafeAbortCore
<1>3. CASE /\ RetryCount = 0 \/ retry + 1 <= RetryCount
           /\ Transmit(IF state = "WaitAnswer" THEN "TxCq" ELSE "TxReport")
           /\ lastTx' = (IF state = "WaitAnswer" THEN "cq" ELSE "report") /\ again' = TRUE
           /\ UNCHANGED <<partner, skip, deferred, recent, sigVars>>
  <2> DEFINE msg == IF state = "WaitAnswer" THEN "cq" ELSE "report"
  <2>1. Transmit(TxState(msg)) /\ lastTx' = msg BY <1>3 DEF TxState
  <2>2. partner' = partner /\ (IF msg = "cq" THEN partner = NoStation ELSE partner \in Stations)
    BY <1>3 DEF CoreInv, SessionInv, Working
  <2>3. deferred' = NoReply /\ skip' \in BOOLEAN /\ again' \in BOOLEAN
    BY <1>3 DEF CoreInv, TalkType
  <2>4. SigType' BY <1>3 DEF CoreInv, SigType, sigVars
  <2>5. PickOK' BY <1>3, KeptPick DEF CoreInv, PickOK, PickType
  <2>6. msg \in {"cq", "report", "rr73"} OBVIOUS
  <2>7. RetryOK'
    BY <1>1, <1>3 DEF RetryOK
  <2> HIDE DEF msg
  <2> QED BY <1>1, <2>1, <2>2, <2>3, <2>4, <2>5, <2>6, <2>7, TransmitCore
<1> QED BY <1>2, <1>3

-----------------------------------------------------------------------------
(* The handlers keep the core invariant. *)

LEMMA HandleIdleCore ==
  ASSUME CoreInv, pc = "read", state = "Idle", HandleIdle
  PROVE  CoreInv'
<1> USE DEF HandleIdle
<1>1. PickOK' BY KeptPick DEF CoreInv, PickOK, PickType, PickKept, pickVars
<1>2. CASE Hold(deferred) BY <1>1, <1>2, HoldCore
<1>3. CASE /\ Transmit("TxCq") /\ lastTx' = "cq" /\ again' = FALSE
           /\ partner' = NoStation /\ retry' = 0 /\ wd' = TRUE
           /\ UNCHANGED <<skip, deferred, transition, pickVars, cancelled, abortTcs, stop,
                          histVars>>
  <2>1. partner = NoStation /\ deferred = NoReply
    BY DEF CoreInv, SessionInv, Working, HeldReplyBelongs
  <2>2. Transmit(TxState("cq")) BY <1>3 DEF TxState
  <2>3. SigType' /\ HistType' BY <1>3 DEF CoreInv, SigType, HistType, histVars
  <2>4. RetryOK' /\ skip' \in BOOLEAN /\ again' \in BOOLEAN /\ transition' \in Nat
    BY <1>3, NoRetries DEF CoreInv, TalkType, RetryOK
  <2> QED BY <1>1, <1>3, <2>1, <2>2, <2>3, <2>4, TransmitCore
<1> QED BY <1>2, <1>3

LEMMA HandleWaitAnswerCore ==
  ASSUME CoreInv, pc = "read", state = "WaitAnswer", NEW b \in Batch, HandleWaitAnswer(b)
  PROVE  CoreInv'
<1>0. skip \in BOOLEAN /\ PickOK /\ recent \in SUBSET Stations
  BY DEF CoreInv, TalkType, PickOK, PickType
<1>1. CASE AnswerPick(b)
  <2> USE <1>1 DEF AnswerPick
  <2>1. PickOK' BY <1>0, KeptPick DEF PickKept
  <2>2. CASE Hold(deferred) BY <2>1, <2>2, HoldCore
  <2>3. CASE skip' = FALSE /\ Begin(b, pending.who, pending.via, "saving")
    <3>1. pending.who \in Stations /\ pending.via \in {"batch", "select", "external"}
      BY <1>0 DEF PickOK, PickType, PickInv, Pick, Picked
    <3> QED BY <2>1, <2>3, <3>1, BeginCore
  <2> QED BY <2>2, <2>3
<1>2. CASE pending' = NoPick /\ HearAnswer(b)
  <2> USE <1>2 DEF HearAnswer
  <2>0. Answering(b) \subseteq Stations BY DEF Answering
  <2>1. recent' \in SUBSET Stations BY <1>0, <2>0
  <2>2. PickOK' BY <1>0, <2>1, KeptPick DEF PickKept
  <2>3. CASE Hold(deferred) BY <2>2, <2>3, HoldCore
  <2>4. CASE (\E s \in Answering(b) : Begin(b, s, "batch", "saving")) /\ skip' = FALSE
    BY <2>0, <2>2, <2>4, BeginCore
  <2> QED BY <2>3, <2>4
<1>3. CASE pending' = NoPick /\ SkipOwnCycle
  <2>1. PickOK' BY <1>0, <1>3, KeptPick DEF PickKept, SkipOwnCycle
  <2> QED BY <1>3, <2>1, SkipCore
<1>4. CASE pending' = NoPick /\ RetryOrAbort
  BY <1>4, RetryCore DEF PickKept
<1> QED BY <1>1, <1>2, <1>3, <1>4 DEF HandleWaitAnswer

(* Giving up on a partner that works another station. *)
LEMMA HearElsewhereCore ==
  ASSUME CoreInv, NEW b \in Batch, HearElsewhere(b)
  PROVE  CoreInv'
<1> USE DEF HearElsewhere
<1>1. state \in States /\ retry' \in Nat BY DEF CoreInv, TalkType
<1>2. transition' \in Nat BY DEF Batch
<1>3. HistType' BY DEF CoreInv, HistType, histVars
<1> QED BY <1>1, <1>2, <1>3, SafeAbortCore

LEMMA HandleWaitRr73Core ==
  ASSUME CoreInv, pc = "read", state = "WaitRr73", NEW b \in Batch, HandleWaitRr73(b)
  PROVE  CoreInv'
<1>0. /\ skip \in BOOLEAN /\ PickOK /\ recent \in SUBSET Stations /\ retry \in Nat
      /\ transition \in Nat /\ partner \in Stations /\ b.cycle \in Nat
  BY DEF CoreInv, TalkType, PickOK, PickType, SessionInv, Working, Batch
<1>1. CASE HearRoger(b)
  <2>1. Send("rr73", TxState("rr73")) BY <1>1 DEF HearRoger, TxState
  <2>2. RetryOK' BY <1>1, RetryBound DEF HearRoger, RetryOK
  <2> QED BY <1>0, <1>1, <2>1, <2>2, SendCore DEF HearRoger
<1>2. CASE HearElsewhere(b) BY <1>2, HearElsewhereCore
<1>3. CASE SendHeld(b)
  <2> USE <1>3 DEF SendHeld
  <2>1. CASE Hold(deferred) /\ UNCHANGED pickVars
    BY <1>0, <2>1, KeptPick, HoldCore DEF PickKept, pickVars
  <2>2. CASE /\ deferred.kind = "Report" /\ Send(lastTx, "TxReport")
             /\ deferred' = NoReply /\ UNCHANGED <<retry, skip, transition>>
    <3>1. lastTx = "report" BY <2>2 DEF CoreInv, HeldReplyBelongs
    <3>2. Send("report", TxState("report")) BY <2>2, <3>1 DEF TxState
    <3>3. RetryOK' BY <2>2, RetryBound DEF RetryOK
    <3> QED BY <1>0, <2>2, <3>2, <3>3, SendCore
  <2>3. CASE /\ deferred.kind = "Closing" /\ Send("rr73", "TxRr73")
             /\ deferred' = NoReply /\ UNCHANGED <<retry, skip, transition>>
    <3>1. Send("rr73", TxState("rr73")) BY <2>3 DEF TxState
    <3>2. RetryOK' BY <2>3, RetryBound DEF RetryOK
    <3> QED BY <1>0, <2>3, <3>1, <3>2, SendCore
  <2> QED BY <2>1, <2>2, <2>3
<1>4. CASE SkipOwnCycle /\ UNCHANGED pending
  <2>1. PickOK' BY <1>0, <1>4, KeptPick DEF PickKept, SkipOwnCycle
  <2> QED BY <1>4, <2>1, SkipCore
<1>5. CASE RetryOrAbort /\ pending' = IF pc' = "ending" THEN NoPick ELSE pending
  BY <1>5, RetryCore DEF PickKept
<1> QED BY <1>1, <1>2, <1>3, <1>4, <1>5 DEF HandleWaitRr73

LEMMA LateWaitAnswerCore ==
  ASSUME CoreInv, pc = "read", state = "WaitAnswer", NEW b \in Batch, LateWaitAnswer(b)
  PROVE  CoreInv'
<1> USE DEF LateWaitAnswer
<1>0. skip \in BOOLEAN /\ PickOK /\ recent \in SUBSET Stations /\ Answering(b) \subseteq Stations
  BY DEF CoreInv, TalkType, PickOK, PickType, Answering
<1>1. recent' \in SUBSET Stations BY <1>0
<1>2. PickOK' BY <1>0, <1>1, KeptPick DEF PickKept
<1>3. CASE Hold(deferred) BY <1>2, <1>3, HoldCore
<1>4. ASSUME NEW s \in Answering(b), UNCHANGED skip,
             Begin(b, s, "batch", IF CanStartWhole(b.cycle) THEN "saving" ELSE "holding")
      PROVE  CoreInv'
  <2> DEFINE next == IF CanStartWhole(b.cycle) THEN "saving" ELSE "holding"
  <2>1. next \in {"saving", "holding"} OBVIOUS
  <2>2. Begin(b, s, "batch", next) BY <1>4
  <2> HIDE DEF next
  <2> QED BY <1>0, <1>2, <1>4, <2>1, <2>2, BeginCore
<1> QED BY <1>3, <1>4

LEMMA LateWaitRr73Core ==
  ASSUME CoreInv, pc = "read", state = "WaitRr73", NEW b \in Batch, LateWaitRr73(b)
  PROVE  CoreInv'
<1>0. /\ skip \in BOOLEAN /\ PickOK /\ recent \in SUBSET Stations /\ retry \in Nat
      /\ transition \in Nat /\ partner \in Stations /\ b.cycle \in Nat
  BY DEF CoreInv, TalkType, PickOK, PickType, SessionInv, Working, Batch
<1>1. CASE Hold(deferred) /\ UNCHANGED pickVars
  BY <1>0, <1>1, KeptPick, HoldCore DEF PickKept, pickVars
<1>2. CASE HearElsewhere(b) BY <1>2, HearElsewhereCore
<1>3. CASE LateRoger(b)
  <2> USE <1>3 DEF LateRoger
  <2>1. CASE Send("rr73", "TxRr73") /\ deferred' = NoReply /\ UNCHANGED <<retry, skip>>
    <3>1. Send("rr73", TxState("rr73")) BY <2>1 DEF TxState
    <3>2. RetryOK' BY <2>1, RetryBound DEF RetryOK
    <3> QED BY <1>0, <2>1, <3>1, <3>2, SendCore
  <2>2. CASE /\ retry' = 0 /\ lastTx' = "rr73"
             /\ deferred' = [kind |-> "Closing", cycle |-> b.cycle]
             /\ UNCHANGED <<pc, state, partner, skip, again, pickVars, sigVars, histVars>>
    <3> USE <2>2, NoRetries DEF pickVars, sigVars, histVars
    <3>1. TalkType' BY DEF CoreInv, TalkType
    <3>2. deferred' \in Reply /\ transition' \in Nat BY <1>0 DEF Reply
    <3>3. PickOK' /\ SigType' /\ HistType'
      BY <1>0, KeptPick DEF CoreInv, SigType, HistType, PickKept
    <3>4. SessionInv' BY <1>0 DEF CoreInv, SessionInv, Working, NoReply
    <3>5. HeldReplyBelongs' BY <1>0 DEF HeldReplyBelongs
    <3> QED BY <3>1, <3>2, <3>3, <3>4, <3>5 DEF CoreInv
  <2> QED BY <2>1, <2>2
<1> QED BY <1>1, <1>2, <1>3 DEF LateWaitRr73

(* A pending stop, or the handler of the state. *)
LEMMA BatchCore ==
  ASSUME CoreInv, lastBatch1 \in Nat, pc = "read", NEW b \in Batch, StopNow \/ Handle(b)
  PROVE  CoreInv' /\ lastBatch1' \in Nat
<1>0. b.cycle \in Nat BY DEF Batch
<1>1. CASE StopNow
  <2> USE <1>1 DEF StopNow
  <2>1. state \in States /\ retry' \in Nat /\ transition' \in Nat BY DEF CoreInv, TalkType
  <2>2. HistType' BY DEF CoreInv, HistType, histVars
  <2> QED BY <2>1, <2>2, SafeAbortCore
<1>2. CASE Handle(b)
  <2> USE <1>2 DEF Handle
  <2>1. lastBatch1' \in Nat BY <1>0
  <2>2. CASE Hold(deferred) /\ UNCHANGED pickVars
    <3>1. PickOK' BY <2>2, KeptPick DEF CoreInv, PickKept, pickVars, PickOK, PickType
    <3> QED BY <2>1, <2>2, <3>1, HoldCore
  <2> QED BY <2>1, <2>2, HandleIdleCore, HandleWaitAnswerCore, HandleWaitRr73Core,
             LateWaitAnswerCore, LateWaitRr73Core
<1> QED BY <1>1, <1>2

-----------------------------------------------------------------------------
(* The rest of the invariant *)

(* A step of the loop that leaves the queue alone, and drains the wakeups or
   leaves them. *)
LEMMA RestKept ==
  ASSUME IInv, UNCHANGED <<clockVars, pumped, dq, lastBatch1, askVars>>,
         wk' = wk \/ wk' = <<>>
  PROVE  RestInv'
<1>1. RestInv BY Parts
<1>2. wk' \in Seq(Nat) BY <1>1, EmptySeq DEF RestInv, FeedType
<1>3. FeedType' BY <1>1, <1>2 DEF RestInv, FeedType
<1>4. AskType' BY <1>1 DEF RestInv, AskType, askVars
<1>5. ClockType' BY <1>1 DEF RestInv, ClockType, clockVars
<1> QED BY <1>1, <1>3, <1>4, <1>5 DEF RestInv

-----------------------------------------------------------------------------
(* The actions of the loop *)

(* An empty batch. *)
LEMMA SilentBatch ==
  ASSUME NEW c \in Nat
  PROVE  [cycle |-> c, late |-> FALSE, heard |-> Silence] \in Batch
BY DEF Batch, Silence, Says

LEMMA ReadSteps ==
  ASSUME IInv, ReadDecode \/ ReadWakeup
  PROVE  IInv'
<1>1. CoreInv /\ RestInv BY Parts
<1>2. dq \in Seq(Batch) /\ wk \in Seq(Nat) /\ lastBatch1 \in Nat
  BY <1>1 DEF RestInv, FeedType
<1>3. AskType' /\ ClockType' /\ pumped' \in [cycle : Nat, late : Nat, told : SUBSET Stations]
  BY <1>1 DEF RestInv, AskType, ClockType, FeedType, askVars, clockVars, ReadDecode, ReadWakeup
<1>4. CASE ReadDecode
  <2>1. Head(dq) \in Batch /\ Tail(dq) \in Seq(Batch)
    BY <1>2, <1>4, HeadTailProperties DEF ReadDecode
  <2>2. CoreInv' /\ lastBatch1' \in Nat
    BY <1>1, <1>2, <1>4, <2>1, BatchCore DEF ReadDecode
  <2>3. FeedType'
    BY <1>2, <1>3, <1>4, <2>1 DEF ReadDecode, FeedType
  <2> QED BY <1>3, <2>2, <2>3, PartsNext DEF RestInv
<1>5. CASE ReadWakeup
  <2>1. Head(wk) \in Nat /\ Tail(wk) \in Seq(Nat)
    BY <1>2, <1>5, HeadTailProperties DEF ReadWakeup
  <2>2. [cycle |-> Head(wk), late |-> FALSE, heard |-> Silence] \in Batch
    BY <2>1, SilentBatch
  <2>3. CoreInv' /\ lastBatch1' \in Nat
    BY <1>1, <1>2, <1>5, <2>2, BatchCore DEF ReadWakeup
  <2>4. FeedType'
    BY <1>2, <1>3, <1>5, <2>1 DEF ReadWakeup, FeedType
  <2> QED BY <1>3, <2>3, <2>4, PartsNext DEF RestInv
<1> QED BY <1>4, <1>5

(* Giving up for any reason. *)
LEMMA AbortSteps ==
  ASSUME IInv, NEW st \in States, SafeAbort(st),
         UNCHANGED <<clockVars, pumped, dq, wk, retry, lastTx, again, lastBatch1, transition,
                     askVars, histVars>>
  PROVE  IInv'
<1>1. CoreInv BY Parts
<1>2. retry' \in Nat /\ transition' \in Nat BY <1>1 DEF CoreInv, TalkType
<1>3. HistType' BY <1>1 DEF CoreInv, HistType, histVars
<1>4. CoreInv' BY <1>1, <1>2, <1>3, SafeAbortCore
<1> QED BY <1>4, RestKept, PartsNext

LEMMA GiveUpSteps ==
  ASSUME IInv, GiveUp
  PROVE  IInv'
<1>1. state \in States BY Parts DEF CoreInv, TalkType
<1> QED BY <1>1, AbortSteps DEF GiveUp

(* The steps after the save of the offset. *)
LEMMA SaveSteps ==
  ASSUME IInv, SaveDone \/ HoldReport
  PROVE  IInv'
<1>1. CoreInv BY Parts
<1>2. /\ transition \in Nat /\ retry \in Nat /\ skip \in BOOLEAN /\ again \in BOOLEAN
      /\ deferred \in Reply
  BY <1>1 DEF CoreInv, TalkType
<1>3. CASE SaveDone /\ SafeAbort("TxReport")
  <2>1. "TxReport" \in States BY DEF States
  <2> QED BY <1>3, <2>1, AbortSteps DEF SaveDone
<1>4. CASE /\ SaveDone /\ Transmit("TxReport")
           /\ UNCHANGED <<partner, skip, deferred, pickVars, sigVars>>
  <2> USE <1>4 DEF SaveDone
  <2>1. partner \in Stations /\ lastTx = "report" /\ deferred = NoReply
    BY <1>1 DEF CoreInv, SessionInv, Working, HeldReplyBelongs
  <2>2. Transmit(TxState("report")) BY DEF TxState
  <2>3. PickOK' BY <1>1, KeptPick DEF CoreInv, PickOK, PickType, PickKept, pickVars
  <2>4. SigType' /\ HistType' BY <1>1 DEF CoreInv, SigType, HistType, sigVars, histVars
  <2>5. RetryOK' /\ skip' \in BOOLEAN /\ again' \in BOOLEAN /\ transition' \in Nat
    BY <1>1, <1>2, RetryBound DEF RetryOK
  <2>6. lastTx' = "report" /\ partner' = partner /\ deferred' = NoReply BY <2>1
  <2>7. CoreInv' BY <1>1, <2>1, <2>2, <2>3, <2>4, <2>5, <2>6, TransmitCore
  <2>8. RestInv' BY RestKept
  <2> QED BY <2>7, <2>8, PartsNext
<1>5. CASE HoldReport
  <2> USE <1>5 DEF HoldReport, pickVars, sigVars, histVars
  <2>0. partner \in Stations /\ lastTx = "report"
    BY <1>1 DEF CoreInv, SessionInv, Working
  <2>1. TalkType' BY <1>1 DEF CoreInv, TalkType, States
  <2>2. deferred' \in Reply /\ transition' \in Nat BY <1>2 DEF Reply
  <2>3. PickOK' /\ SigType' /\ HistType'
    BY <1>1, KeptPick DEF CoreInv, PickOK, PickType, PickKept, SigType, HistType
  <2>4. SessionInv' BY <2>0 DEF SessionInv, Working
  <2>5. HeldReplyBelongs' BY <2>0 DEF HeldReplyBelongs
  <2>6. CoreInv' BY <2>1, <2>2, <2>3, <2>4, <2>5 DEF CoreInv
  <2>7. RestInv' BY RestKept
  <2> QED BY <2>6, <2>7, PartsNext
<1> QED BY <1>3, <1>4, <1>5 DEF SaveDone

(* Fresh signals at the end of a session. *)
LEMMA RenewStep ==
  ASSUME IInv, Renew
  PROVE  IInv'
<1> USE DEF Renew, heldVars, pickVars, histVars
<1>1. CoreInv BY Parts
<1>2. deferred \in Reply /\ transition \in Nat BY <1>1 DEF CoreInv
<1>3. TalkType' BY <1>1 DEF CoreInv, TalkType
<1>4. PickOK' /\ SigType' /\ HistType'
  BY <1>1, KeptPick DEF CoreInv, PickOK, PickType, PickKept, SigType, HistType
<1>5. SessionInv' BY <1>1 DEF CoreInv, SessionInv, Working
<1>6. HeldReplyBelongs' BY <1>1 DEF CoreInv, HeldReplyBelongs, NoReply
<1>7. CoreInv' BY <1>2, <1>3, <1>4, <1>5, <1>6 DEF CoreInv
<1> QED BY <1>7, RestKept, PartsNext

(* The steps of a transmission that ended. *)
LEMMA TxSteps ==
  ASSUME IInv, TxEnd \/ Settle \/ Complete \/ AbortDone
  PROVE  IInv'
<1>1. CoreInv BY Parts
<1>2. /\ transition \in Nat /\ deferred \in Reply
      /\ PickOK /\ recent \in SUBSET Stations
  BY <1>1 DEF CoreInv, PickOK, PickType
<1>3. CASE TxEnd
  <2> USE <1>3 DEF TxEnd, heldVars, pickVars, sigVars, histVars
  <2>1. TalkType' BY <1>1 DEF CoreInv, TalkType
  <2>2. PickOK' /\ SigType' /\ HistType'
    BY <1>1, <1>2, KeptPick DEF CoreInv, PickKept, SigType, HistType
  <2>3. SessionInv' BY <1>1 DEF CoreInv, SessionInv, Working
  <2>4. HeldReplyBelongs' BY <1>1 DEF CoreInv, HeldReplyBelongs, NoReply
  <2>5. CoreInv' BY <1>2, <2>1, <2>2, <2>3, <2>4 DEF CoreInv
  <2> QED BY <2>5, RestKept, PartsNext
<1>4. CASE Settle
  <2> USE <1>4 DEF Settle, heldVars, pickVars, histVars
  <2>1. TalkType' BY <1>1 DEF CoreInv, TalkType, States
  <2>2. PickOK' /\ HistType' BY <1>1, <1>2, KeptPick DEF CoreInv, PickKept, HistType
  <2>3. SigType' BY <1>1 DEF CoreInv, SigType
  <2>4. SessionInv' BY <1>1 DEF CoreInv, SessionInv, Working
  <2>5. HeldReplyBelongs' BY <1>1 DEF CoreInv, HeldReplyBelongs, NoReply
  <2>6. CoreInv' BY <1>2, <2>1, <2>2, <2>3, <2>4, <2>5 DEF CoreInv
  <2> QED BY <2>6, RestKept, PartsNext
<1>5. CASE Complete
  <2> USE <1>5 DEF Complete, heldVars, pickVars, sigVars
  <2>0. partner \in Stations /\ log \in Seq(Stations) /\ lastTx = "rr73"
    BY <1>1 DEF CoreInv, SessionInv, Working, HistType
  <2>1. TalkType' BY <1>1 DEF CoreInv, TalkType, States
  <2>2. PickOK' /\ SigType' BY <1>1, <1>2, KeptPick DEF CoreInv, PickKept, SigType
  <2>3. HistType' BY <1>1, <2>0, AppendProperties DEF CoreInv, HistType
  <2>4. SessionInv' BY <2>0 DEF SessionInv, Working
  <2>5. HeldReplyBelongs' BY <1>1 DEF CoreInv, HeldReplyBelongs, NoReply
  <2>6. CoreInv' BY <1>2, <2>1, <2>2, <2>3, <2>4, <2>5 DEF CoreInv
  <2> QED BY <2>6, RestKept, PartsNext
<1>6. CASE AbortDone
  <2> USE <1>6 DEF AbortDone, heldVars, pickVars, sigVars, histVars
  <2>1. TalkType' BY <1>1, NoRetries DEF CoreInv, TalkType, States
  <2>2. PickOK' /\ SigType' /\ HistType'
    BY <1>1, <1>2, KeptPick DEF CoreInv, PickKept, SigType, HistType
  <2>3. SessionInv' BY <1>1 DEF CoreInv, SessionInv, Working
  <2>4. HeldReplyBelongs' BY <1>1 DEF CoreInv, HeldReplyBelongs, NoReply
  <2>5. CoreInv' BY <1>2, <2>1, <2>2, <2>3, <2>4 DEF CoreInv
  <2>6. RestInv
    BY Parts
  <2>7. AskType' BY <2>6 DEF RestInv, AskType
  <2>8. RestInv' BY <2>6, <2>7 DEF RestInv, ClockType, FeedType, clockVars
  <2> QED BY <2>5, <2>8, PartsNext
<1> QED BY <1>3, <1>4, <1>5, <1>6

-----------------------------------------------------------------------------
(* The clock and the pump keep it: what they append to the queue is a batch. *)
LEMMA FeedSteps ==
  ASSUME IInv, Tick \/ PublishFirst \/ PublishSecond
  PROVE  IInv'
<1>1. CoreInv /\ RestInv BY Parts
<1>2. UNCHANGED <<wk, talkVars, heldVars, pickVars, askVars, sigVars, histVars>>
  BY DEF Tick, PublishFirst, PublishSecond
<1>3. CoreInv'
  <2>1. SigType' BY <1>1, <1>2 DEF CoreInv, SigType, sigVars
  <2>2. PickOK' BY <1>1, <1>2, KeptPick DEF CoreInv, PickOK, PickType, PickKept, pickVars
  <2> QED BY <1>1, <1>2, <2>1, <2>2, KeepCore DEF heldVars
<1>4. AskType' BY <1>1, <1>2 DEF RestInv, AskType, askVars
<1>5. lastBatch1' \in Nat BY <1>1, <1>2 DEF RestInv, heldVars
<1>6. CASE Tick
  <2>1. ClockType' BY <1>1, <1>6 DEF RestInv, ClockType, Tick
  <2>2. FeedType' BY <1>1, <1>6 DEF RestInv, FeedType, Tick
  <2> QED BY <1>3, <1>4, <1>5, <2>1, <2>2, PartsNext DEF RestInv
<1>7. ASSUME UNCHANGED clockVars,
             NEW c \in Nat, NEW h \in [Stations -> Says], NEW late \in BOOLEAN,
             dq' = Append(dq, [cycle |-> c, late |-> late, heard |-> h]),
             pumped' \in [cycle : Nat, late : Nat, told : SUBSET Stations]
      PROVE  IInv'
  <2>1. ClockType' BY <1>1, <1>7 DEF RestInv, ClockType, clockVars
  <2>2. [cycle |-> c, late |-> late, heard |-> h] \in Batch BY DEF Batch
  <2>3. dq' \in Seq(Batch) BY <1>1, <1>7, <2>2, AppendProperties DEF RestInv, FeedType
  <2>4. FeedType' BY <1>1, <1>2, <1>7, <2>3 DEF RestInv, FeedType
  <2> QED BY <1>3, <1>4, <1>5, <2>1, <2>4, PartsNext DEF RestInv
<1>8. CASE PublishFirst
  <2>0. PICK c \in (pumped.cycle + 1)..(slot - 1) : \E h \in Decodable(c, {}) :
          /\ dq' = Append(dq, [cycle |-> c, late |-> FALSE, heard |-> h])
          /\ pumped' = [cycle |-> c, late |-> 0, told |-> Told(h)]
    BY <1>8 DEF PublishFirst
  <2>1. PICK h \in Decodable(c, {}) :
          /\ dq' = Append(dq, [cycle |-> c, late |-> FALSE, heard |-> h])
          /\ pumped' = [cycle |-> c, late |-> 0, told |-> Told(h)]
    BY <2>0
  <2>2. c \in Nat BY <1>1 DEF RestInv, ClockType, FeedType
  <2>3. h \in [Stations -> Says] /\ Told(h) \in SUBSET Stations BY DEF Decodable, Told
  <2>4. UNCHANGED clockVars BY <1>8 DEF PublishFirst
  <2>5. pumped' \in [cycle : Nat, late : Nat, told : SUBSET Stations]
    BY <2>1, <2>2, <2>3
  <2> QED BY <1>7, <2>1, <2>2, <2>3, <2>4, <2>5
<1>9. CASE PublishSecond
  <2>1. PICK h \in Decodable(pumped.cycle, pumped.told) :
          /\ dq' = Append(dq, [cycle |-> pumped.cycle, late |-> TRUE, heard |-> h])
          /\ pumped' = [pumped EXCEPT !.late = @ + 1, !.told = @ \cup Told(h)]
    BY <1>9 DEF PublishSecond
  <2>2. pumped \in [cycle : Nat, late : Nat, told : SUBSET Stations]
    BY <1>1 DEF RestInv, FeedType
  <2>3. h \in [Stations -> Says] /\ Told(h) \in SUBSET Stations BY DEF Decodable, Told
  <2>4. UNCHANGED clockVars BY <1>9 DEF PublishSecond
  <2>5. pumped' \in [cycle : Nat, late : Nat, told : SUBSET Stations]
    <3>1. pumped' = [cycle |-> pumped.cycle, late |-> pumped.late + 1,
                     told |-> pumped.told \cup Told(h)]
      BY <2>1, <2>2
    <3> QED BY <2>2, <2>3, <3>1
  <2> QED BY <1>7, <2>1, <2>2, <2>3, <2>4, <2>5
<1> QED BY <1>6, <1>8, <1>9

-----------------------------------------------------------------------------
(* A cancellation and the requests leave the session alone. *)
LEMMA AsideSteps ==
  ASSUME IInv, PickOK', SigType', AskType', wk' = wk \/ wk' = Append(wk, slot - 1),
         UNCHANGED <<clockVars, pumped, dq, talkVars, heldVars, histVars>>
  PROVE  IInv'
<1>1. CoreInv /\ RestInv BY Parts
<1>2. CoreInv' BY <1>1, KeepCore DEF heldVars
<1>3. ClockType' BY <1>1 DEF RestInv, ClockType, clockVars
<1>4. slot - 1 \in Nat /\ wk \in Seq(Nat) BY <1>1 DEF RestInv, ClockType, FeedType
<1>5. wk' \in Seq(Nat) BY <1>4, AppendProperties
<1>6. FeedType' BY <1>1, <1>5 DEF RestInv, FeedType
<1>7. lastBatch1' \in Nat BY <1>1 DEF RestInv, heldVars
<1> QED BY <1>2, <1>3, <1>6, <1>7, PartsNext DEF RestInv

LEMMA WatchdogStep ==
  ASSUME IInv, WatchdogFire
  PROVE  IInv'
<1>1. CoreInv /\ RestInv BY Parts
<1>2. PickOK' BY <1>1, KeptPick DEF WatchdogFire, CoreInv, PickOK, PickType, PickKept, pickVars
<1>3. SigType' BY <1>1 DEF CoreInv, SigType, WatchdogFire
<1>4. AskType' BY <1>1 DEF RestInv, AskType, WatchdogFire, askVars
<1> QED BY <1>2, <1>3, <1>4, AsideSteps DEF WatchdogFire

LEMMA HttpStepsKeep ==
  ASSUME IInv, Http
  PROVE  IInv'
<1> USE DEF Http, HttpCancel, HttpDisarm, HttpStop, HttpAway
<1>1. CoreInv /\ RestInv BY Parts
<1>2. PickOK' BY <1>1, KeptPick DEF CoreInv, PickOK, PickType, PickKept, pickVars
<1>3. SigType' BY <1>1 DEF CoreInv, SigType, sigVars
<1>4. AskType' BY <1>1 DEF RestInv, AskType, HttpSteps
<1>5. UNCHANGED <<clockVars, pumped, dq, talkVars, heldVars, histVars>> OBVIOUS
<1>6. wk' = wk \/ wk' = Append(wk, slot - 1) OBVIOUS
<1> QED BY <1>2, <1>3, <1>4, <1>5, <1>6, AsideSteps

(* A click arms a pick of a station; the other requests leave the pick. *)
LEMMA OperatorSteps ==
  ASSUME IInv, Operator
  PROVE  IInv'
<1>1. CoreInv /\ RestInv BY Parts
<1>2. slot \in Nat /\ pumped.cycle \in Nat /\ recent \subseteq Stations /\ PickOK
  BY <1>1 DEF RestInv, ClockType, FeedType, CoreInv, PickOK, PickType
<1>3. AskType /\ reqs + 1 \in Nat BY <1>1 DEF RestInv, AskType
<1>4. ASSUME PickOK', wk' = wk \/ wk' = Append(wk, slot - 1),
             stop' \in BOOLEAN, UNCHANGED <<cancelled, wd, abortTcs>>, reqs' = reqs + 1,
             autoAnswer' \in BOOLEAN, isActive' \in BOOLEAN,
             http' \subseteq HttpSteps,
             UNCHANGED <<clockVars, pumped, dq, talkVars, heldVars, histVars>>
      PROVE  IInv'
  <2>1. SigType' BY <1>1, <1>4 DEF CoreInv, SigType
  <2>2. AskType' BY <1>3, <1>4 DEF AskType
  <2> QED BY <1>4, <2>1, <2>2, AsideSteps
<1>5. stop \in BOOLEAN BY <1>1 DEF CoreInv, SigType
<1>6. pickVars' = pickVars => PickOK'
  BY <1>2, KeptPick DEF PickKept, pickVars
<1>7. ASSUME NEW s \in Stations, NEW cycle \in Nat, NEW via \in {"select", "external"},
             SelectResponder(s, cycle, via), reqs' = reqs + 1
      PROVE  IInv'
  <2> USE <1>7 DEF SelectResponder
  <2>1. pending' \in Pick /\ pending'.who \in Stations
    BY <1>2 DEF Pick, NextPhase
  <2>2. PickOK' BY <1>2, <2>1 DEF PickOK, PickType, PickInv, NoPick
  <2> QED BY <1>3, <1>4, <1>5, <2>2 DEF AskType, sigVars
<1>8. CASE SelectRequest
  <2>1. PICK s \in Stations, cycle \in 1..pumped.cycle : SelectResponder(s, cycle, "select")
    BY <1>8 DEF SelectRequest
  <2> QED BY <1>2, <1>7, <1>8, <2>1 DEF SelectRequest, Request
<1>9. CASE ExternalRequest
  <2>1. PICK s \in recent : SelectResponder(s, slot - 1, "external")
    BY <1>9 DEF ExternalRequest
  <2>2. slot - 1 \in Nat BY <1>1 DEF RestInv, ClockType
  <2> QED BY <1>2, <1>7, <1>9, <2>1, <2>2 DEF ExternalRequest, Request
<1>10. CASE CallCq \/ SetArmed
  BY <1>3, <1>4, <1>5, <1>6, <1>10 DEF CallCq, SetArmed, Request, AskType, sigVars
<1>11. CASE GracefulStop
  BY <1>3, <1>4, <1>5, <1>6, <1>11 DEF GracefulStop, Request, AskType, HttpSteps, sigVars
<1>12. ASSUME NEW idleNext \in {"disarm", "away"},
              NEW busyNext \in {"cancelThenDisarm", "cancelThenAway"},
              AbortAsync(idleNext, busyNext), reqs' = reqs + 1
       PROVE  IInv'
  BY <1>3, <1>4, <1>5, <1>6, <1>12 DEF AbortAsync, AskType, HttpSteps, sigVars
<1>13. CASE AbortRequest \/ EngageRequest
  BY <1>12, <1>13 DEF AbortRequest, EngageRequest, Request
<1> QED BY <1>8, <1>9, <1>10, <1>11, <1>13 DEF Operator

(* Nothing happens. *)
LEMMA IdleStep ==
  ASSUME IInv, UNCHANGED vars
  PROVE  IInv'
<1> USE DEF vars
<1>1. CoreInv /\ RestInv BY Parts
<1>2. PickOK' BY <1>1, KeptPick DEF CoreInv, PickOK, PickType, PickKept, pickVars
<1>3. SigType' BY <1>1 DEF CoreInv, SigType, sigVars
<1>4. AskType' BY <1>1 DEF RestInv, AskType, askVars
<1> QED BY <1>2, <1>3, <1>4, AsideSteps

-----------------------------------------------------------------------------
(* IInv is inductive. *)
LEMMA InitIInv == Init => IInv
<1> SUFFICES ASSUME Init PROVE IInv OBVIOUS
<1> USE DEF Init
<1>1. TalkType BY NoRetries DEF TalkType, States
<1>2. deferred \in Reply /\ transition \in Nat BY Empties
<1>3. PickOK /\ SigType /\ HistType
  BY Empties, EmptySeq DEF PickOK, PickType, PickInv, SigType, HistType
<1>4. SessionInv BY DEF SessionInv, Working
<1>5. HeldReplyBelongs BY DEF HeldReplyBelongs
<1>6. CoreInv BY <1>1, <1>2, <1>3, <1>4, <1>5 DEF CoreInv
<1>7. AskType /\ ClockType
  <2>1. http \subseteq HttpSteps OBVIOUS
  <2>2. slot \in Nat \ {0} /\ pos \in {"early", "mid", "tail"} OBVIOUS
  <2>3. autoAnswer \in BOOLEAN /\ isActive \in BOOLEAN /\ reqs \in Nat OBVIOUS
  <2> QED BY <2>1, <2>2, <2>3 DEF AskType, ClockType
<1>8. FeedType BY EmptySeq DEF FeedType
<1>9. RestInv BY <1>7, <1>8 DEF RestInv
<1> QED BY <1>6, <1>9, Parts

LEMMA NextIInv == IInv /\ [Next]_vars => IInv'
<1> SUFFICES ASSUME IInv, [Next]_vars PROVE IInv' OBVIOUS
<1>1. CASE Tick \/ PublishFirst \/ PublishSecond BY <1>1, FeedSteps
<1>2. CASE Service
  <2>1. CASE ReadDecode \/ ReadWakeup BY <2>1, ReadSteps
  <2>2. CASE ReadCancelled \/ TxCancelled \/ PttFault \/ Finish
    BY <2>2, GiveUpSteps DEF ReadCancelled, TxCancelled, PttFault, Finish
  <2>3. CASE SaveDone \/ HoldReport BY <2>3, SaveSteps
  <2>4. CASE TxEnd \/ Settle \/ Complete \/ AbortDone BY <2>4, TxSteps
  <2> QED BY <1>2, <2>1, <2>2, <2>3, <2>4, RenewStep DEF Service
<1>3. CASE WatchdogFire BY <1>3, WatchdogStep
<1>4. CASE Operator BY <1>4, OperatorSteps
<1>5. CASE Http BY <1>5, HttpStepsKeep
<1>6. CASE Done \/ UNCHANGED vars BY <1>6, IdleStep DEF Done
<1> QED BY <1>1, <1>2, <1>3, <1>4, <1>5, <1>6 DEF Next

(* Every reachable state satisfies the inductive invariant. *)
THEOREM Inductive == Spec => []IInv
BY InitIInv, NextIInv, PTL DEF Spec

(* The state of the caller keeps its types. *)
THEOREM TypeCorrect == Spec => []TypeOK
<1>1. IInv => TypeOK BY DEF IInv
<1> QED BY <1>1, Inductive, PTL

(* A reply held by a late batch belongs to the session, the partner and the
   message it is held for, whatever batches, clicks, stops, aborts, watchdogs and
   faults come in whatever order. *)
THEOREM HeldReply == Spec => []HeldReplyBelongs
<1>1. IInv => HeldReplyBelongs BY DEF IInv
<1> QED BY <1>1, Inductive, PTL

-----------------------------------------------------------------------------
(* Caller implements Contact, for every value of the constants: the initial
   state maps to the initial state, and every step of Next maps to a step of
   Contact or to a stutter.  A contact begins when a responder is taken; a CQ
   and the wait for its answer are stutters. *)

ContactStep == [C!Next]_(C!vars)

(* A step that leaves the session and the token alone is a stutter. *)
LEMMA StutterMaps ==
  ASSUME UNCHANGED <<talkVars, cancelled, log>>
  PROVE  ContactStep
BY DEF talkVars, ContactStep, C!vars, ContactPhase, ContactDoomed

(* So is any step between two states without a partner. *)
LEMMA FreeMaps ==
  ASSUME partner = NoStation, partner' = NoStation, log' = log
  PROVE  ContactStep
BY DEF ContactStep, C!vars, ContactPhase, ContactDoomed

(* Taking a responder engages it. *)
LEMMA BeginMaps ==
  ASSUME CoreInv, pc = "read", state = "WaitAnswer",
         NEW b, NEW s \in Stations, NEW how, NEW next \in {"saving", "holding"},
         Begin(b, s, how, next)
  PROVE  ContactStep
<1>1. partner = NoStation /\ ContactPhase = "free"
  BY DEF CoreInv, SessionInv, Working, ContactPhase
<1>2. ContactPhase' \in C!Talking
  BY NoStationAssumption DEF Begin, ContactPhase, C!Talking
<1>3. ContactDoomed' = FALSE BY DEF Begin, ContactDoomed
<1>4. partner' = s /\ log' = log BY DEF Begin
<1>5. C!Engage(s) BY <1>1, <1>2, <1>3, <1>4 DEF C!Engage
<1> QED BY <1>5 DEF ContactStep, C!Next

(* Giving up releases the partner, if there is one. *)
LEMMA ReleaseMaps ==
  ASSUME CoreInv, NEW st, SafeAbort(st), log' = log
  PROVE  ContactStep
<1>1. ContactPhase' = "free" /\ partner' = NoStation BY DEF SafeAbort, ContactPhase
<1>2. ContactDoomed' = FALSE BY DEF SafeAbort, ContactDoomed
<1>3. CASE partner = NoStation BY <1>1, <1>3, FreeMaps
<1>4. CASE partner # NoStation
  <2>1. ContactPhase # "free" BY <1>4 DEF ContactPhase
  <2>2. C!Release BY <1>1, <1>2, <2>1 DEF C!Release
  <2> QED BY <2>2 DEF ContactStep, C!Next
<1> QED BY <1>3, <1>4

(* The loop waits for a roger, and the read found the token live. *)
Listening == pc = "read" /\ state = "WaitRr73" /\ cancelled = FALSE

LEMMA ListeningPhase ==
  ASSUME CoreInv, Listening
  PROVE  ContactPhase \in C!Talking /\ ContactDoomed = FALSE /\ partner \in Stations
<1>1. partner \in Stations BY DEF CoreInv, SessionInv, Working, Listening
<1>2. ContactPhase \in C!Talking
  BY <1>1, NoStationAssumption DEF Listening, ContactPhase, C!Talking
<1> QED BY <1>1, <1>2 DEF Listening, ContactDoomed

(* Closing, or deciding to, advances the contact. *)
LEMMA AdvanceMaps ==
  ASSUME CoreInv, Listening, lastTx' = "rr73", pc' # "complete",
         UNCHANGED <<partner, cancelled, log>>
  PROVE  ContactStep
<1>1. ContactPhase' = "closing" BY ListeningPhase, NoStationAssumption DEF ContactPhase
<1>2. ContactDoomed' = FALSE BY DEF Listening, ContactDoomed
<1>3. C!Advance BY ListeningPhase, <1>1, <1>2 DEF C!Advance
<1> QED BY <1>3 DEF ContactStep, C!Next

(* Saying the same again is a stutter. *)
LEMMA RepeatMaps ==
  ASSUME Listening, pc' # "complete", UNCHANGED <<lastTx, partner, cancelled, log>>
  PROVE  ContactStep
<1>1. ContactPhase' = ContactPhase BY DEF Listening, ContactPhase
<1>2. ContactDoomed' = ContactDoomed BY DEF Listening, ContactDoomed
<1> QED BY <1>1, <1>2 DEF ContactStep, C!vars

-----------------------------------------------------------------------------
(* The handlers *)

LEMMA HandleIdleMaps ==
  ASSUME CoreInv, pc = "read", state = "Idle", HandleIdle
  PROVE  ContactStep
<1>1. partner = NoStation BY DEF CoreInv, SessionInv, Working
<1>2. partner' = NoStation /\ log' = log
  BY <1>1 DEF HandleIdle, Hold, talkVars, histVars
<1> QED BY <1>1, <1>2, FreeMaps

(* In WaitAnswer a responder is taken, or there is still none. *)
LEMMA WaitAnswerMaps ==
  ASSUME CoreInv, pc = "read", state = "WaitAnswer", NEW b \in Batch,
         HandleWaitAnswer(b) \/ LateWaitAnswer(b)
  PROVE  ContactStep
<1>1. partner = NoStation BY DEF CoreInv, SessionInv, Working
<1>2. ASSUME partner' = partner, log' = log PROVE ContactStep BY <1>1, <1>2, FreeMaps
<1>3. ASSUME Hold(deferred) PROVE ContactStep
  BY <1>2, <1>3 DEF Hold, talkVars, histVars
<1>4. ASSUME NEW s \in Answering(b), NEW next \in {"saving", "holding"},
             Begin(b, s, "batch", next)
      PROVE  ContactStep
  BY <1>4, BeginMaps DEF Answering
<1>5. CASE AnswerPick(b)
  <2>1. pending.who \in Stations
    BY <1>5 DEF AnswerPick, Picked, CoreInv, PickOK, PickInv
  <2>2. CASE Begin(b, pending.who, pending.via, "saving") BY <2>1, <2>2, BeginMaps
  <2> QED BY <1>3, <1>5, <2>2 DEF AnswerPick
<1>6. CASE HearAnswer(b)
  <2>1. CASE \E s \in Answering(b) : Begin(b, s, "batch", "saving") BY <1>4, <2>1
  <2> QED BY <1>3, <1>6, <2>1 DEF HearAnswer
<1>7. CASE SkipOwnCycle BY <1>2, <1>7 DEF SkipOwnCycle, histVars
<1>8. CASE RetryOrAbort
  <2>1. log' = log BY <1>8 DEF RetryOrAbort, histVars
  <2>2. partner' = partner BY <1>1, <1>8 DEF RetryOrAbort, SafeAbort
  <2> QED BY <1>2, <2>1, <2>2
<1>9. CASE LateWaitAnswer(b)
  <2>1. ASSUME NEW s \in Answering(b),
               Begin(b, s, "batch", IF CanStartWhole(b.cycle) THEN "saving" ELSE "holding")
        PROVE  ContactStep
    <3> DEFINE next == IF CanStartWhole(b.cycle) THEN "saving" ELSE "holding"
    <3>1. next \in {"saving", "holding"} OBVIOUS
    <3>2. Begin(b, s, "batch", next) BY <2>1
    <3> HIDE DEF next
    <3> QED BY <1>4, <3>1, <3>2
  <2> QED BY <1>3, <1>9, <2>1 DEF LateWaitAnswer
<1> QED BY <1>5, <1>6, <1>7, <1>8, <1>9 DEF HandleWaitAnswer

(* In WaitRr73 the partner is told the same again or RR73, or given up. *)
LEMMA WaitRr73Maps ==
  ASSUME CoreInv, Listening, NEW b \in Batch, HandleWaitRr73(b) \/ LateWaitRr73(b)
  PROVE  ContactStep
<1>1. ASSUME Hold(deferred) PROVE ContactStep
  BY <1>1, StutterMaps DEF Hold, sigVars, histVars
<1>2. ASSUME Send("rr73", "TxRr73") PROVE ContactStep
  BY <1>2, AdvanceMaps DEF Send, Transmit, sigVars, histVars
<1>3. CASE HearRoger(b) BY <1>2, <1>3 DEF HearRoger
<1>4. CASE HearElsewhere(b) BY <1>4, ReleaseMaps DEF HearElsewhere, histVars
<1>5. CASE SendHeld(b)
  <2>1. CASE Send(lastTx, "TxReport")
    BY <2>1, RepeatMaps DEF Send, Transmit, sigVars, histVars
  <2> QED BY <1>1, <1>2, <1>5, <2>1 DEF SendHeld
<1>6. CASE SkipOwnCycle
  BY <1>6, RepeatMaps DEF SkipOwnCycle, sigVars, histVars, Listening
<1>7. CASE RetryOrAbort
  <2>1. log' = log BY <1>7 DEF RetryOrAbort, histVars
  <2>2. CASE SafeAbort(state) BY <2>1, <2>2, ReleaseMaps
  <2>3. CASE /\ Transmit(IF state = "WaitAnswer" THEN "TxCq" ELSE "TxReport")
             /\ lastTx' = (IF state = "WaitAnswer" THEN "cq" ELSE "report") /\ again' = TRUE
             /\ UNCHANGED <<partner, skip, deferred, recent, sigVars>>
    <3>1. deferred = NoReply BY <1>7 DEF RetryOrAbort
    <3>2. lastTx' = lastTx
      BY <2>3, <3>1 DEF CoreInv, SessionInv, Listening
    <3> QED BY <2>1, <2>3, <3>2, RepeatMaps DEF Transmit, sigVars
  <2> QED BY <1>7, <2>2, <2>3 DEF RetryOrAbort
<1>8. CASE LateRoger(b)
  <2>1. CASE /\ lastTx' = "rr73"
             /\ UNCHANGED <<pc, state, partner, skip, again, pickVars, sigVars, histVars>>
    BY <2>1, AdvanceMaps DEF sigVars, histVars, Listening
  <2> QED BY <1>2, <1>8, <2>1 DEF LateRoger
<1> QED BY <1>1, <1>3, <1>4, <1>5, <1>6, <1>7, <1>8 DEF HandleWaitRr73, LateWaitRr73

(* A pending stop gives up; otherwise the handler of the state. *)
LEMMA BatchMaps ==
  ASSUME CoreInv, pc = "read", cancelled = FALSE, NEW b \in Batch, StopNow \/ Handle(b)
  PROVE  ContactStep
<1>1. CASE StopNow BY <1>1, ReleaseMaps DEF StopNow, histVars
<1>2. CASE Hold(deferred) BY <1>2, StutterMaps DEF Hold, sigVars, histVars
<1>3. CASE state = "Idle" /\ HandleIdle BY <1>3, HandleIdleMaps
<1>4. CASE state = "WaitAnswer" /\ (HandleWaitAnswer(b) \/ LateWaitAnswer(b))
  BY <1>4, WaitAnswerMaps
<1>5. CASE state = "WaitRr73" /\ (HandleWaitRr73(b) \/ LateWaitRr73(b))
  BY <1>5, WaitRr73Maps DEF Listening
<1> QED BY <1>1, <1>2, <1>3, <1>4, <1>5 DEF Handle

-----------------------------------------------------------------------------
(* The steps of the service loop. *)
LEMMA ServiceMaps ==
  ASSUME IInv, Service
  PROVE  ContactStep
<1>0. CoreInv /\ cancelled \in BOOLEAN BY Parts DEF CoreInv, SigType
<1>1. CASE ReadDecode
  <2>1. dq \in Seq(Batch) BY DEF IInv, TypeOK, FeedType
  <2>2. Head(dq) \in Batch BY <1>1, <2>1, HeadTailProperties DEF ReadDecode
  <2> QED BY <1>0, <1>1, <2>2, BatchMaps DEF ReadDecode
<1>2. CASE ReadWakeup
  <2>1. wk \in Seq(Nat) BY DEF IInv, TypeOK, FeedType
  <2>2. Head(wk) \in Nat BY <1>2, <2>1, HeadTailProperties DEF ReadWakeup
  <2>3. [cycle |-> Head(wk), late |-> FALSE, heard |-> Silence] \in Batch
    BY <2>2, SilentBatch
  <2> QED BY <1>0, <1>2, <2>3, BatchMaps DEF ReadWakeup
<1>3. CASE GiveUp BY <1>0, <1>3, ReleaseMaps DEF GiveUp, histVars
<1>4. CASE SaveDone
  <2>1. CASE SafeAbort("TxReport")
    BY <1>0, <1>4, <2>1, ReleaseMaps DEF SaveDone, histVars
  <2>2. CASE /\ Transmit("TxReport") /\ (PastLastStart \/ ~cancelled)
             /\ UNCHANGED <<partner, skip, deferred, pickVars, sigVars>>
    <3>1. ContactPhase' = ContactPhase /\ ContactDoomed' = ContactDoomed
      BY <1>4, <2>2 DEF SaveDone, Transmit, ContactPhase, ContactDoomed, sigVars
    <3> QED BY <1>4, <2>2, <3>1 DEF SaveDone, ContactStep, C!vars, histVars
  <2> QED BY <1>4, <2>1, <2>2 DEF SaveDone
<1>5. CASE HoldReport
  <2>1. ContactPhase' = ContactPhase /\ partner \in Stations /\ lastTx = "report"
    BY <1>0, <1>5 DEF HoldReport, CoreInv, SessionInv, Working, ContactPhase
  <2>2. ContactPhase \in C!Talking
    BY <1>5, <2>1, NoStationAssumption DEF HoldReport, ContactPhase, C!Talking
  <2>3. ContactDoomed = FALSE /\ ContactDoomed' \in BOOLEAN BY <1>5 DEF HoldReport, ContactDoomed
  <2>4. UNCHANGED <<partner, log>> BY <1>5 DEF HoldReport, histVars
  <2>5. CASE ContactDoomed' = TRUE
    <3>1. C!Cancel BY <2>1, <2>2, <2>4, <2>5 DEF C!Cancel
    <3> QED BY <3>1 DEF ContactStep, C!Next
  <2>6. CASE ContactDoomed' = FALSE
    BY <2>1, <2>3, <2>4, <2>6 DEF ContactStep, C!vars
  <2> QED BY <2>3, <2>5, <2>6
<1>6. CASE TxEnd
  <2>1. ContactPhase' = ContactPhase /\ ContactDoomed' = ContactDoomed
    BY <1>6 DEF TxEnd, ContactPhase, ContactDoomed, sigVars
  <2> QED BY <1>6, <2>1 DEF TxEnd, ContactStep, C!vars, histVars
<1>7. CASE Settle
  <2>1. UNCHANGED <<partner, log>> /\ ContactPhase' = ContactPhase
    BY <1>7 DEF Settle, ContactPhase, histVars
  <2>2. CASE state = "TxCq"
    <3>1. partner = NoStation
      BY <1>0, <1>7, <2>2 DEF CoreInv, SessionInv, Working, Settle
    <3> QED BY <2>1, <3>1, FreeMaps
  <2>3. CASE state = "TxReport"
    <3>1. partner \in Stations BY <1>0, <1>7, <2>3 DEF CoreInv, SessionInv, Working, Settle
    <3>2. ContactPhase \in C!Talking
      BY <1>7, <3>1, NoStationAssumption DEF Settle, ContactPhase, C!Talking
    <3>3. ContactDoomed = FALSE /\ ContactDoomed' \in BOOLEAN
      BY <1>0, <1>7 DEF Settle, ContactDoomed
    <3>4. CASE ContactDoomed' = TRUE
      <4>1. C!Cancel BY <2>1, <3>2, <3>4 DEF C!Cancel
      <4> QED BY <4>1 DEF ContactStep, C!Next
    <3>5. CASE ContactDoomed' = FALSE
      BY <2>1, <3>3, <3>5 DEF ContactStep, C!vars
    <3> QED BY <3>3, <3>4, <3>5
  <2> QED BY <1>7, <2>2, <2>3 DEF Settle
<1>8. CASE Complete
  <2>1. partner \in Stations /\ lastTx = "rr73"
    BY <1>0, <1>8 DEF CoreInv, SessionInv, Working, Complete
  <2>2. ContactPhase = "closing" /\ ContactPhase' = "logged"
    BY <1>8, <2>1, NoStationAssumption DEF Complete, ContactPhase
  <2>3. ContactDoomed = FALSE /\ ContactDoomed' = FALSE BY <1>8 DEF Complete, ContactDoomed
  <2>4. C!Log BY <1>8, <2>2, <2>3 DEF Complete, C!Log
  <2> QED BY <2>4 DEF ContactStep, C!Next
<1>9. CASE Renew \/ AbortDone
  <2>1. partner = NoStation /\ partner' = NoStation /\ log' = log
    BY <1>0, <1>9 DEF CoreInv, SessionInv, Working, Renew, AbortDone, histVars
  <2> QED BY <2>1, FreeMaps
<1> QED BY <1>1, <1>2, <1>3, <1>4, <1>5, <1>6, <1>7, <1>8, <1>9
        DEF Service, ReadCancelled, TxCancelled, PttFault, Finish

(* A cancellation dooms a session that waits or transmits, and no other. *)
LEMMA CancelMaps ==
  ASSUME CoreInv, cancelled' = TRUE, UNCHANGED <<talkVars, log>>
  PROVE  ContactStep
<1>1. ContactPhase' = ContactPhase /\ UNCHANGED <<partner, log>>
  BY DEF talkVars, ContactPhase
<1>2. ContactDoomed \in BOOLEAN /\ ContactDoomed' \in BOOLEAN
  BY DEF CoreInv, SigType, ContactDoomed
<1>3. CASE ContactDoomed' = ContactDoomed BY <1>1, <1>3 DEF ContactStep, C!vars
<1>4. CASE ContactDoomed' # ContactDoomed
  <2>1. partner # NoStation /\ pc # "complete" BY <1>4 DEF ContactDoomed, talkVars
  <2>2. ContactPhase \in C!Talking BY <2>1 DEF ContactPhase, C!Talking
  <2>3. ContactDoomed' = TRUE BY <1>2, <1>4 DEF ContactDoomed, talkVars
  <2>4. C!Cancel BY <1>1, <2>2, <2>3 DEF C!Cancel
  <2> QED BY <2>4 DEF ContactStep, C!Next
<1> QED BY <1>3, <1>4

LEMMA NextMaps == IInv /\ [Next]_vars => ContactStep
<1> SUFFICES ASSUME IInv, [Next]_vars PROVE ContactStep OBVIOUS
<1>0. CoreInv BY Parts
<1>1. CASE Service BY <1>1, ServiceMaps
<1>2. CASE WatchdogFire BY <1>0, <1>2, CancelMaps DEF WatchdogFire, histVars
<1>3. CASE HttpCancel BY <1>0, <1>3, CancelMaps DEF HttpCancel, histVars
<1>4. CASE UNCHANGED <<talkVars, cancelled, histVars>> BY <1>4, StutterMaps DEF histVars
<1>5. CASE Tick \/ PublishFirst \/ PublishSecond
  BY <1>4, <1>5 DEF Tick, PublishFirst, PublishSecond, sigVars
<1>6. CASE Operator
  BY <1>4, <1>6 DEF Operator, CallCq, SetArmed, GracefulStop, SelectRequest, ExternalRequest,
         SelectResponder, AbortRequest, EngageRequest, AbortAsync, sigVars
<1>7. CASE HttpDisarm \/ HttpStop \/ HttpAway
  BY <1>4, <1>7 DEF HttpDisarm, HttpStop, HttpAway, sigVars
<1>8. CASE Done \/ UNCHANGED vars BY <1>4, <1>8 DEF Done, vars, sigVars
<1> QED BY <1>1, <1>2, <1>3, <1>5, <1>6, <1>7, <1>8 DEF Next, Http

LEMMA InitMaps == Init => C!Init
BY DEF Init, C!Init, ContactPhase, ContactDoomed

(* The caller implements the contact: a responder is logged at most once per
   session and only after RR73 was the last thing said to it, and a session that
   was cancelled is only released. *)
THEOREM CallerRefinesContact == Spec => Refines
<1>1. Init => C!Init BY InitMaps
<1>2. IInv /\ [Next]_vars => [C!Next]_(C!vars) BY NextMaps DEF ContactStep
<1> QED BY <1>1, <1>2, Inductive, PTL DEF Spec, Refines, C!Spec
=============================================================================
