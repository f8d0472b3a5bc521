------------------------------- MODULE Caller -------------------------------
(***************************************************************************)
(* The caller state machine of the daemon (QsoCallerService): it calls CQ, *)
(* takes one of the stations that answer, and works it.  With it the HTTP  *)
(* and UDP threads that arm it, abort it, stop it and pick a responder,    *)
(* the watchdog that cancels it and the decode pump that feeds it.         *)
(*                                                                         *)
(* Slots, cycles and batches are those of Answerer.  Three signals reach   *)
(* the loop besides batches: the cancellation of _txCts (abort, watchdog), *)
(* the completion of _abortTcs (abort only) and the flag of a graceful     *)
(* stop with its wakeup.  The loop blocks on the decode channel, the       *)
(* wakeup channel and _abortTcs, never on _txCts: a watchdog is noticed    *)
(* when something else wakes the loop.                                     *)
(*                                                                         *)
(* pc says where the loop is: waiting in "read"; in the save of the TX     *)
(* offset, "saving" before a report that is sent at once and "holding"     *)
(* before one that is held; "keyed" while PTT is on; "sent" after the      *)
(* transmission returned; "complete" once the contact is in the log;       *)
(* "ending" inside SafeAbortToIdleAsync, once the session is cleared but   *)
(* its signals are not; "aborting" from there to its return.  Steps with   *)
(* no await between them are one action, unless another thread may come    *)
(* between them and see it.                                                *)
(*                                                                         *)
(* The configured role is Answerer (TxConfig's default), so the caller is  *)
(* active from a Call CQ to its next return to Idle.  The selection mode   *)
(* is read with each batch and may change between two.  Not represented:   *)
(* message text, reports, frequencies, AP constraints, the decode filter   *)
(* and the engagement validator (an "answer" passes them), and             *)
(* tx.qsoConfirmation, which replaces the log entry by a browser dialog.   *)
(***************************************************************************)
EXTENDS Naturals, Sequences

CONSTANTS Stations,     \* the callsigns that may be heard
          NoStation,    \* no partner
          Parity,       \* the slot parity each station transmits on
          MaxSlot,      \* bound: the last slot of a behaviour
          RetryCount,   \* tx.retryCount; 0 = unlimited
          MaxLate,      \* bound: supplementary batches per cycle
          Modes,        \* the values tx.callerPartnerSelect may take
          Requests,     \* the operator requests that may arrive
          MaxRequests,  \* bound: how many of them
          PickLife,     \* slots a picked responder lives (60 s in the code)
          Timely,       \* TRUE: no lost cycle, no step slower than its slot position
          DiskFaults    \* TRUE: saving the configuration may fail

AllRequests == {"call", "enable", "disable", "abort", "stop", "select", "external", "engage"}

ASSUME NoStationAssumption == NoStation \notin Stations
ASSUME ParityAssumption    == Parity \in [Stations -> {0, 1}]
ASSUME BoundAssumption     == /\ MaxSlot \in Nat \ {0}
                              /\ RetryCount \in Nat
                              /\ MaxLate \in Nat
                              /\ MaxRequests \in Nat
                              /\ PickLife \in Nat
ASSUME ModeAssumption      == /\ Modes \subseteq {"First", "None"}
                              /\ Requests \subseteq AllRequests
                              /\ Timely \in BOOLEAN
                              /\ DiskFaults \in BOOLEAN

VARIABLES
  slot, pos,        \* the clock
  pumped,           \* what the decode pump last delivered: cycle, late batches, stations told
  dq,               \* _decodeChannel
  wk,               \* _wakeupChannel: the cycle of each wakeup batch
  pc,               \* where the service loop is
  state,            \* _callerState
  partner,          \* _partner
  retry,            \* _retryCount
  skip,             \* _skipNextRetry
  lastTx,           \* the kind of _lastTxMessage
  again,            \* the transmission in progress is a retry
  deferred,         \* _deferred
  lastBatch1,       \* _lastBatch1Cycle
  transition,       \* _transitionCycle
  recent,           \* the callsigns of _recentResponderDecodes
  pending,          \* _pendingResponder*
  autoAnswer,       \* tx.autoAnswer in the configuration store
  isActive,         \* IsActive: the router has the caller in charge
  cancelled,        \* the current _txCts is cancelled
  wd,               \* the current _txCts carries the watchdog timeout
  abortTcs,         \* _abortTcs is completed
  stop,             \* _gracefulStopRequested
  http,             \* steps HTTP handlers still have to make
  reqs,             \* operator requests so far
  log,              \* the contacts handed to the log
  by                \* history: what chose the partner of the session

clockVars == <<slot, pos>>
talkVars  == <<pc, state, partner, retry, skip, lastTx, again>>
heldVars  == <<deferred, lastBatch1, transition>>
pickVars  == <<recent, pending>>
askVars   == <<autoAnswer, isActive, http, reqs>>
sigVars   == <<cancelled, wd, abortTcs, stop>>
histVars  == <<log, by>>
vars == <<clockVars, pumped, dq, wk, talkVars, heldVars, pickVars, askVars, sigVars, histVars>>

-----------------------------------------------------------------------------
(* Values *)

States == {"Idle", "TxCq", "WaitAnswer", "TxReport", "WaitRr73", "TxRr73", "QsoComplete"}
(* What a station may be heard sending: an answer to our CQ (a grid or a
   report), a roger report to us, anything to another station, or nothing of
   interest. *)
Says   == {"answer", "roger", "elsewhere", "silence"}

Silence == [s \in Stations |-> "silence"]
Batch   == [cycle : Nat, late : BOOLEAN, heard : [Stations -> Says]]

NoPick == [who |-> NoStation, phase |-> 0, at |-> 0, via |-> "select"]
Pick   == [who : Stations \cup {NoStation}, phase : {0, 1}, at : Nat, via : {"select", "external"}]

NoReply == [kind |-> "none", cycle |-> 0]
Reply   == [kind : {"none", "Report", "Closing"}, cycle : Nat]

HttpSteps == {"cancelThenDisarm", "cancelThenAway", "disarm", "away", "stopFlag", "stopWake"}

ClockType == slot \in Nat \ {0} /\ pos \in {"early", "mid", "tail"}
FeedType  == /\ pumped \in [cycle : Nat, late : Nat, told : SUBSET Stations]
             /\ dq \in Seq(Batch) /\ wk \in Seq(Nat)
TalkType  == /\ pc \in {"read", "saving", "holding", "keyed", "sent", "complete",
                   "ending", "aborting"}
             /\ state \in States
             /\ partner \in Stations \cup {NoStation}
             /\ retry \in Nat /\ skip \in BOOLEAN
             /\ pc \notin {"ending", "aborting"} /\ RetryCount > 0 => retry <= RetryCount
             /\ lastTx \in {"cq", "report", "rr73"} /\ again \in BOOLEAN
HeldType  == deferred \in Reply /\ lastBatch1 \in Nat /\ transition \in Nat
PickType  == recent \in SUBSET Stations /\ pending \in Pick
AskType   == /\ autoAnswer \in BOOLEAN /\ isActive \in BOOLEAN
             /\ http \subseteq HttpSteps
             /\ reqs \in Nat
SigType   == cancelled \in BOOLEAN /\ wd \in BOOLEAN /\ abortTcs \in BOOLEAN /\ stop \in BOOLEAN
HistType  == log \in Seq(Stations) /\ by \in {"batch", "select", "external"}

TypeOK == /\ ClockType /\ FeedType /\ TalkType /\ HeldType
          /\ PickType /\ AskType /\ SigType /\ HistType

-----------------------------------------------------------------------------
(* Slots and batches *)

(* The phase of the slot that follows a cycle: the reply's. *)
NextPhase(cycle) == (cycle + 1) % 2

(* LateBatch.CanStartWhole and Ft8TimeHelper.IsPastLastStart. *)
CanStartWhole(cycle) == slot = cycle + 1 /\ pos = "early"
PastLastStart == pos = "tail"

Answering(b) == {s \in Stations : b.heard[s] = "answer"}
PartnerSays(b) == IF partner \in Stations THEN b.heard[partner] ELSE "silence"

(* What the receiver can decode of a cycle: each station keeps to its parity
   and sends one message, which an earlier batch of the cycle may have told. *)
Decodable(cycle, told) ==
  {h \in [Stations -> Says] :
     \A s \in Stations : Parity[s] # cycle % 2 \/ s \in told => h[s] = "silence"}
Told(h) == {s \in Stations : h[s] # "silence"}

(* The loop is blocked in ReadNextBatchAsync and something wakes it. *)
Woken == dq # <<>> \/ wk # <<>> \/ abortTcs

(* Nothing that takes a negligible time on a prompt machine is outstanding. *)
Quiet == /\ http = {}
         /\ \/ pc = "read" /\ dq = <<>> /\ wk = <<>> /\ ~(abortTcs /\ cancelled)
            \/ pc = "keyed" /\ ~cancelled

-----------------------------------------------------------------------------
(* The clock and the decode pump, as in Answerer *)

Tick ==
  /\ Timely => Quiet
  /\ \/ pos = "early" /\ pos' = "mid" /\ slot' = slot
     \/ pos = "mid" /\ pos' = "tail" /\ slot' = slot
     \/ /\ pos = "tail" /\ slot < MaxSlot /\ pc # "keyed"
        /\ Timely => pumped.cycle = slot - 1
        /\ slot' = slot + 1 /\ pos' = "early"
  /\ UNCHANGED <<pumped, dq, wk, talkVars, heldVars, pickVars, askVars, sigVars, histVars>>

(* A prompt machine reads a wakeup before the pump's next delivery. *)
WakeupFirst == Timely => pc # "read" \/ wk = <<>>

PublishFirst ==
  WakeupFirst /\ \E c \in (pumped.cycle + 1)..(slot - 1) :
    \E h \in Decodable(c, {}) :
      /\ dq' = Append(dq, [cycle |-> c, late |-> FALSE, heard |-> h])
      /\ pumped' = [cycle |-> c, late |-> 0, told |-> Told(h)]
      /\ UNCHANGED <<clockVars, wk, talkVars, heldVars, pickVars, askVars, sigVars, histVars>>

PublishSecond ==
  /\ WakeupFirst
  /\ pumped.cycle > 0 /\ pumped.late < MaxLate
  /\ \E h \in Decodable(pumped.cycle, pumped.told) \ {Silence} :
       /\ dq' = Append(dq, [cycle |-> pumped.cycle, late |-> TRUE, heard |-> h])
       /\ pumped' = [pumped EXCEPT !.late = @ + 1, !.told = @ \cup Told(h)]
       /\ UNCHANGED <<clockVars, wk, talkVars, heldVars, pickVars, askVars, sigVars, histVars>>

-----------------------------------------------------------------------------
(* Pieces of the handlers.  Each names the variables it determines. *)

(* faulty: a held reply outlives its session *)
SafeAbortKeepingReply(st) ==
  /\ pc' = "ending" /\ state' = st
  /\ stop' = FALSE /\ pending' = NoPick /\ recent' = {}
  /\ partner' = NoStation /\ skip' = FALSE /\ deferred' = deferred
  /\ UNCHANGED <<cancelled, wd, abortTcs>>

(* SafeAbortToIdleAsync clears the stop and the session: pc, state, partner,
   skip, deferred, pickVars and sigVars.  The state stays st until AbortDone. *)
SafeAbort(st) ==
  /\ pc' = "ending" /\ state' = st
  /\ stop' = FALSE /\ pending' = NoPick /\ recent' = {}
  /\ partner' = NoStation /\ skip' = FALSE /\ deferred' = NoReply
  /\ UNCHANGED <<cancelled, wd, abortTcs>>

(* A session is given up by a step that does nothing else. *)
GiveUp == /\ SafeAbort(state)
          /\ UNCHANGED <<clockVars, pumped, dq, wk, retry, lastTx, again, lastBatch1, transition,
                         askVars, histVars>>

(* SetStateAndNotify(st) and TransmitAsync on a live token, to the KeyDown: pc
   and state.  A start in the tail is refused, and returns normally. *)
Transmit(st) == state' = st /\ pc' = IF PastLastStart THEN "sent" ELSE "keyed"

(* Transmits a message that is not a retry: also lastTx, again and everything
   but retry, skip, deferred, transition and wk. *)
Send(msg, st) ==
  /\ Transmit(st) /\ lastTx' = msg /\ again' = FALSE
  /\ UNCHANGED <<partner, pickVars, sigVars, histVars>>

(* The loop goes back to reading, holding d. *)
Hold(d) == deferred' = d /\ UNCHANGED <<talkVars, transition, sigVars, histVars>>

(* MarkTransition and ExecuteTxReportAsync up to SaveAsync: the report to s is
   sent after it, or held.  (The code stores the message after the save;
   nothing reads it before.) *)
Begin(b, s, how, next) ==
  /\ transition' = b.cycle /\ deferred' = NoReply
  /\ partner' = s /\ by' = how /\ retry' = 0 /\ lastTx' = "report" /\ again' = FALSE
  /\ pc' = next /\ UNCHANGED <<state, sigVars, log>>

(* faulty: the count is compared before it is incremented *)
RetryOrAbortTooLate ==
  /\ deferred = NoReply /\ ~skip
  /\ retry' = retry + 1
  /\ UNCHANGED <<transition, histVars>>
  /\ \/ /\ RetryCount > 0 /\ retry > RetryCount
        /\ SafeAbort(state) /\ UNCHANGED <<lastTx, again>>
     \/ /\ RetryCount = 0 \/ retry <= RetryCount
        /\ Transmit(IF state = "WaitAnswer" THEN "TxCq" ELSE "TxReport")
        /\ lastTx' = (IF state = "WaitAnswer" THEN "cq" ELSE "report") /\ again' = TRUE
        /\ UNCHANGED <<partner, skip, deferred, recent, sigVars>>

(* RetryOrAbortAsync: the CQ again, or the report again. *)
RetryOrAbort ==
  /\ deferred = NoReply /\ ~skip
  /\ retry' = retry + 1
  /\ UNCHANGED <<transition, histVars>>
  /\ \/ /\ RetryCount > 0 /\ retry + 1 > RetryCount
        /\ SafeAbort(state) /\ UNCHANGED <<lastTx, again>>
     \/ /\ RetryCount = 0 \/ retry + 1 <= RetryCount
        /\ Transmit(IF state = "WaitAnswer" THEN "TxCq" ELSE "TxReport")
        /\ lastTx' = (IF state = "WaitAnswer" THEN "cq" ELSE "report") /\ again' = TRUE
        /\ UNCHANGED <<partner, skip, deferred, recent, sigVars>>

(* The first silent cycle after a transmission is taken for our own slot. *)
SkipOwnCycle == /\ deferred = NoReply /\ skip /\ skip' = FALSE
                /\ UNCHANGED <<pc, state, partner, retry, lastTx, again, deferred,
                               transition, recent, sigVars, histVars>>

-----------------------------------------------------------------------------
(* HandleIdleAsync *)

HandleIdle ==
  \/ ~(isActive /\ autoAnswer) /\ Hold(deferred) /\ UNCHANGED pickVars
  \/ /\ isActive /\ autoAnswer
     /\ Transmit("TxCq") /\ lastTx' = "cq" /\ again' = FALSE
     /\ partner' = NoStation /\ retry' = 0 /\ wd' = TRUE
     /\ UNCHANGED <<skip, deferred, transition, pickVars, cancelled, abortTcs, stop, histVars>>

-----------------------------------------------------------------------------
(* HandleWaitAnswerAsync *)

Expired == slot - pending.at > PickLife
Picked  == pending # NoPick /\ ~Expired

(* A picked responder is answered on its own phase, before the tail, and waits
   otherwise: nothing else is looked at while there is one. *)
AnswerPick(b) ==
  /\ Picked /\ UNCHANGED recent
  /\ \/ /\ NextPhase(b.cycle) = pending.phase /\ ~PastLastStart
        /\ pending' = NoPick /\ skip' = FALSE
        /\ Begin(b, pending.who, pending.via, "saving")
     \/ /\ NextPhase(b.cycle) # pending.phase \/ PastLastStart
        /\ Hold(deferred) /\ UNCHANGED pending

(* First mode takes a station that answers; None mode records those that do,
   and waits for the operator. *)
HearAnswer(b) ==
  \/ /\ "First" \in Modes
     /\ \E s \in Answering(b) : Begin(b, s, "batch", "saving")
     /\ skip' = FALSE /\ UNCHANGED recent
  \/ /\ "None" \in Modes /\ Answering(b) # {}
     /\ recent' = recent \cup Answering(b) /\ Hold(deferred)

(* An expired pick is dropped, unless the retry has cleared it anyway. *)
HandleWaitAnswer(b) ==
  \/ AnswerPick(b)
  \/ /\ ~Picked /\ pending' = NoPick
     /\ \/ HearAnswer(b)
        \/ Answering(b) = {} /\ (SkipOwnCycle \/ RetryOrAbort)

-----------------------------------------------------------------------------
(* HandleWaitRr73Async *)

(* The partner sent its roger report: send RR73. *)
HearRoger(b) ==
  /\ PartnerSays(b) = "roger"
  /\ transition' = b.cycle /\ deferred' = NoReply /\ skip' = FALSE
  /\ Send("rr73", "TxRr73") /\ UNCHANGED retry

(* The partner works another station: give up. *)
HearElsewhere(b) ==
  /\ PartnerSays(b) = "elsewhere"
  /\ transition' = b.cycle /\ SafeAbort(state)
  /\ UNCHANGED <<retry, lastTx, again, histVars>>

(* A held reply is due at a batch 1 of a later cycle of its own parity. *)
Due(b) == b.cycle > deferred.cycle /\ NextPhase(b.cycle) = NextPhase(deferred.cycle)

(* faulty: a held reply is sent at the next batch 1, whatever its parity *)
SendHeldAnyTime(b) ==
  /\ deferred # NoReply /\ UNCHANGED <<retry, skip, transition>>
  /\ deferred' = NoReply
  /\ \/ deferred.kind = "Report" /\ Send(lastTx, "TxReport")
     \/ deferred.kind = "Closing" /\ Send("rr73", "TxRr73")

(* SendDeferredIfDueAsync: a report is whatever _lastTxMessage holds. *)
SendHeld(b) ==
  /\ deferred # NoReply
  /\ \/ ~Due(b) /\ Hold(deferred) /\ UNCHANGED pickVars
     \/ /\ Due(b) /\ deferred' = NoReply /\ UNCHANGED <<retry, skip, transition>>
        /\ \/ deferred.kind = "Report" /\ Send(lastTx, "TxReport")
           \/ deferred.kind = "Closing" /\ Send("rr73", "TxRr73")

HandleWaitRr73(b) ==
  \/ HearRoger(b)
  \/ HearElsewhere(b)
  \/ /\ PartnerSays(b) \in {"answer", "silence"}
     /\ \/ SendHeld(b)
        \/ SkipOwnCycle /\ UNCHANGED pending
        \/ RetryOrAbort /\ pending' = IF pc' = "ending" THEN NoPick ELSE pending

-----------------------------------------------------------------------------
(* ProcessLateBatchAsync: heard, and never a cycle *)

(* Not older than the newest batch 1 and not of an answered cycle. *)
Fresh(b) == b.cycle >= lastBatch1 /\ b.cycle # transition

LateWaitAnswer(b) ==
  /\ UNCHANGED pending
  /\ \/ /\ "First" \in Modes
        /\ \E s \in Answering(b) :
             Begin(b, s, "batch", IF CanStartWhole(b.cycle) THEN "saving" ELSE "holding")
        /\ UNCHANGED <<skip, recent>>
     \/ /\ "None" \in Modes \/ Answering(b) = {}
        /\ recent' = recent \cup (IF "None" \in Modes THEN Answering(b) ELSE {})
        /\ Hold(deferred)

LateRoger(b) ==
  /\ PartnerSays(b) = "roger" /\ transition' = b.cycle
  /\ \/ /\ CanStartWhole(b.cycle) /\ deferred' = NoReply
        /\ Send("rr73", "TxRr73") /\ UNCHANGED <<retry, skip>>
     \/ /\ ~CanStartWhole(b.cycle)
        /\ retry' = 0 /\ lastTx' = "rr73"
        /\ deferred' = [kind |-> "Closing", cycle |-> b.cycle]
        /\ UNCHANGED <<pc, state, partner, skip, again, pickVars, sigVars, histVars>>

LateWaitRr73(b) ==
  \/ LateRoger(b)
  \/ HearElsewhere(b)
  \/ PartnerSays(b) \in {"answer", "silence"} /\ Hold(deferred) /\ UNCHANGED pickVars

-----------------------------------------------------------------------------
(* The loop: ReadNextBatchAsync and ProcessBatchAsync *)

(* A pending stop takes the batch, whatever the state. *)
StopNow == /\ stop /\ SafeAbort(state)
           /\ UNCHANGED <<retry, lastTx, again, lastBatch1, transition, histVars>>

Handle(b) ==
  /\ ~stop
  /\ lastBatch1' = IF ~b.late /\ b.cycle > lastBatch1 THEN b.cycle ELSE lastBatch1
  /\ \/ ~b.late /\ state = "Idle" /\ HandleIdle
     \/ ~b.late /\ state = "WaitAnswer" /\ HandleWaitAnswer(b)
     \/ ~b.late /\ state = "WaitRr73" /\ HandleWaitRr73(b)
     \/ b.late /\ Fresh(b) /\ state = "WaitAnswer" /\ LateWaitAnswer(b)
     \/ b.late /\ Fresh(b) /\ state = "WaitRr73" /\ LateWaitRr73(b)
     \/ b.late /\ (~Fresh(b) \/ state = "Idle") /\ Hold(deferred) /\ UNCHANGED pickVars

ReadDecode ==
  /\ pc = "read" /\ dq # <<>> /\ ~cancelled
  /\ dq' = Tail(dq)
  /\ StopNow \/ Handle(Head(dq))
  /\ UNCHANGED <<clockVars, pumped, wk, askVars>>

(* faulty: the wakeup channel is not read in WaitRr73 *)
ReadWakeupNotInWaitRr73 ==
  /\ pc = "read" /\ wk # <<>> /\ ~cancelled /\ state # "WaitRr73"
  /\ StopNow \/ Handle([cycle |-> Head(wk), late |-> FALSE, heard |-> Silence])
  /\ wk' = Tail(wk)
  /\ UNCHANGED <<clockVars, pumped, dq, askVars>>

(* A wakeup is an empty batch 1 of the cycle before the slot it was pushed in.
   (Which channel is looked at first depends on whether the loop was already
   waiting: either may be.) *)
ReadWakeup ==
  /\ pc = "read" /\ wk # <<>> /\ ~cancelled
  /\ StopNow \/ Handle([cycle |-> Head(wk), late |-> FALSE, heard |-> Silence])
  /\ wk' = Tail(wk)
  /\ UNCHANGED <<clockVars, pumped, dq, askVars>>

(* A cancelled token is noticed before the loop blocks or once it is woken. *)
ReadCancelled == pc = "read" /\ cancelled /\ GiveUp

-----------------------------------------------------------------------------
(* The steps of a session after an await *)

(* The offset is saved, or the save failed and that is ignored.  A token that
   is already cancelled makes KeyDownAsync throw. *)
SaveDone ==
  /\ pc = "saving"
  /\ \/ /\ PastLastStart \/ ~cancelled
        /\ Transmit("TxReport") /\ UNCHANGED <<partner, skip, deferred, pickVars, sigVars>>
     \/ ~PastLastStart /\ cancelled /\ SafeAbort("TxReport")
  /\ UNCHANGED <<clockVars, pumped, dq, wk, retry, lastTx, again, lastBatch1, transition,
                 askVars, histVars>>

(* The report is held for the first batch 1 of its parity. *)
HoldReport ==
  /\ pc = "holding"
  /\ pc' = "read" /\ state' = "WaitRr73"
  /\ deferred' = [kind |-> "Report", cycle |-> transition]
  /\ UNCHANGED <<clockVars, pumped, dq, wk, partner, retry, skip, lastTx, again, lastBatch1,
                 transition, pickVars, askVars, sigVars, histVars>>

(* faulty: the token is not checked after KeyDownAsync returned *)
TxEndUnchecked ==
  /\ pc = "keyed" /\ pos = "tail" /\ pc' = "sent"
  /\ UNCHANGED <<clockVars, pumped, dq, wk, state, partner, retry, skip, lastTx, again,
                 heldVars, pickVars, askVars, sigVars, histVars>>

(* The clip has played, and the token is not cancelled. *)
TxEnd ==
  /\ pc = "keyed" /\ pos = "tail" /\ ~cancelled /\ pc' = "sent"
  /\ UNCHANGED <<clockVars, pumped, dq, wk, state, partner, retry, skip, lastTx, again,
                 heldVars, pickVars, askVars, sigVars, histVars>>

(* The token is cancelled, or the PTT controller throws. *)
TxCancelled == pc = "keyed" /\ cancelled /\ GiveUp
PttFault    == pc = "keyed" /\ ~cancelled /\ GiveUp

(* After the CQ or the report: a fresh token with the timeout, but not after a
   retry; wait. *)
Settle ==
  /\ pc = "sent" /\ state \in {"TxCq", "TxReport"}
  /\ pc' = "read" /\ state' = (IF state = "TxCq" THEN "WaitAnswer" ELSE "WaitRr73")
  /\ skip' = TRUE
  /\ \/ again /\ UNCHANGED <<cancelled, wd>>
     \/ ~again /\ cancelled' = FALSE /\ wd' = TRUE
  /\ UNCHANGED <<clockVars, pumped, dq, wk, partner, retry, lastTx, again, heldVars, pickVars,
                 askVars, abortTcs, stop, histVars>>

(* After RR73: QsoComplete, and the contact is appended to the ADIF log. *)
Complete ==
  /\ pc = "sent" /\ state = "TxRr73"
  /\ pc' = "complete" /\ state' = "QsoComplete"
  /\ log' = Append(log, partner)
  /\ UNCHANGED <<clockVars, pumped, dq, wk, partner, retry, skip, lastTx, again, heldVars,
                 pickVars, askVars, sigVars, by>>

Finish == pc = "complete" /\ GiveUp

(* SafeAbortToIdleAsync goes on: a fresh token and _abortTcs, and the wakeups are
   drained.  A stop asked for since SafeAbort keeps its flag and loses its wakeup. *)
Renew ==
  /\ pc = "ending" /\ pc' = "aborting"
  /\ cancelled' = FALSE /\ wd' = FALSE /\ abortTcs' = FALSE /\ wk' = <<>>
  /\ UNCHANGED <<clockVars, pumped, dq, state, partner, retry, skip, lastTx, again, heldVars,
                 pickVars, askVars, stop, histVars>>

(* SafeAbortToIdleAsync after KeyUpAsync: disarm, Idle, and OnBecameIdle gives
   the role back to the answerer. *)
AbortDone ==
  /\ pc = "aborting"
  /\ pc' = "read" /\ state' = "Idle" /\ retry' = 0
  /\ isActive' = FALSE
  /\ \/ autoAnswer' = FALSE
     \/ DiskFaults /\ UNCHANGED autoAnswer
  /\ UNCHANGED <<clockVars, pumped, dq, wk, partner, skip, lastTx, again, heldVars, pickVars,
                 http, reqs, sigVars, histVars>>

(* CancelAfter: at any time while the timeout is armed. *)
WatchdogFire ==
  /\ wd /\ ~cancelled /\ cancelled' = TRUE
  /\ UNCHANGED <<clockVars, pumped, dq, wk, talkVars, heldVars, pickVars, askVars, wd,
                 abortTcs, stop, histVars>>

-----------------------------------------------------------------------------
(* Operator requests.  The router sends them here while the caller is active. *)

Request(name) ==
  /\ name \in Requests /\ reqs < MaxRequests
  /\ Timely => pc # "read" \/ Quiet
  /\ reqs' = reqs + 1

(* POST /tx/call-cq: refused unless Idle; the router puts the caller in charge
   and arms it. *)
CallCq ==
  /\ Request("call") /\ state = "Idle"
  /\ isActive' = TRUE /\ autoAnswer' = TRUE
  /\ UNCHANGED <<clockVars, pumped, dq, wk, talkVars, heldVars, pickVars, http, sigVars, histVars>>

(* POST /tx/enable and /tx/disable *)
SetArmed ==
  /\ \/ Request("enable") /\ autoAnswer' = TRUE
     \/ Request("disable") /\ autoAnswer' = FALSE
  /\ UNCHANGED <<clockVars, pumped, dq, wk, talkVars, heldVars, pickVars, isActive, http,
                 sigVars, histVars>>

(* POST /tx/stop-cq: GracefulStopAsync, a no-op while Idle.  The loop may go on
   between its steps. *)
GracefulStop ==
  /\ Request("stop") /\ isActive /\ state # "Idle"
  /\ http' = http \cup {"stopFlag"}
  /\ UNCHANGED <<clockVars, pumped, dq, wk, talkVars, heldVars, pickVars, autoAnswer, isActive,
                 sigVars, histVars>>

(* SelectResponderCore: reply on the phase opposite to the response's cycle.
   (A person's clicks are further apart than a save on a prompt machine.) *)
SelectResponder(s, cycle, via) ==
  /\ isActive /\ state = "WaitAnswer"
  /\ Timely => pc = "read"
  /\ pending' = [who |-> s, phase |-> NextPhase(cycle), at |-> slot, via |-> via]
  /\ wk' = Append(wk, slot - 1)
  /\ UNCHANGED <<clockVars, pumped, dq, talkVars, heldVars, recent, autoAnswer, isActive, http,
                 sigVars, histVars>>

(* POST /tx/select-responder, with the row's cycle; and an external reply,
   which takes the last complete slot for it. *)
SelectRequest ==
  /\ Request("select")
  /\ \E s \in Stations, cycle \in 1..pumped.cycle :
       cycle % 2 = Parity[s] /\ SelectResponder(s, cycle, "select")
ExternalRequest ==
  /\ Request("external")
  /\ \E s \in recent : SelectResponder(s, slot - 1, "external")

(* POST /tx/abort and /tx/engage-decode: AbortAsync returns at once while Idle,
   and cancels whatever token is current later; then the handler disarms, or
   the router puts the answerer in charge. *)
AbortAsync(idleNext, busyNext) ==
  /\ isActive
  /\ http' = http \cup {IF state = "Idle" THEN idleNext ELSE busyNext}
  /\ UNCHANGED <<clockVars, pumped, dq, wk, talkVars, heldVars, pickVars, autoAnswer, isActive,
                 sigVars, histVars>>

AbortRequest  == Request("abort") /\ AbortAsync("disarm", "cancelThenDisarm")
EngageRequest == Request("engage") /\ AbortAsync("away", "cancelThenAway")

HttpCancel ==
  \E step \in http \cap {"cancelThenDisarm", "cancelThenAway"} :
    /\ cancelled' = TRUE /\ abortTcs' = TRUE
    /\ http' = (http \ {step}) \cup {IF step = "cancelThenDisarm" THEN "disarm" ELSE "away"}
    /\ UNCHANGED <<clockVars, pumped, dq, wk, talkVars, heldVars, pickVars, autoAnswer, isActive,
                   reqs, wd, stop, histVars>>

HttpDisarm ==
  /\ "disarm" \in http /\ http' = http \ {"disarm"}
  /\ autoAnswer' = FALSE
  /\ UNCHANGED <<clockVars, pumped, dq, wk, talkVars, heldVars, pickVars, isActive, reqs,
                 sigVars, histVars>>

(* faulty: the wakeup is posted before the flag is up *)
HttpStopWakeFirst ==
  /\ \/ /\ "stopFlag" \in http /\ http' = (http \ {"stopFlag"}) \cup {"stopWake"}
        /\ wk' = Append(wk, slot - 1) /\ UNCHANGED stop
     \/ /\ "stopWake" \in http /\ http' = http \ {"stopWake"}
        /\ stop' = TRUE /\ UNCHANGED wk
  /\ UNCHANGED <<clockVars, pumped, dq, talkVars, heldVars, pickVars, autoAnswer, isActive,
                 reqs, cancelled, wd, abortTcs, histVars>>

(* GracefulStopAsync, past its look at the state: the flag, then the wakeup. *)
HttpStop ==
  /\ \/ /\ "stopFlag" \in http /\ http' = (http \ {"stopFlag"}) \cup {"stopWake"}
        /\ stop' = TRUE /\ UNCHANGED wk
     \/ /\ "stopWake" \in http /\ http' = http \ {"stopWake"}
        /\ wk' = Append(wk, slot - 1) /\ UNCHANGED stop
  /\ UNCHANGED <<clockVars, pumped, dq, talkVars, heldVars, pickVars, autoAnswer, isActive,
                 reqs, cancelled, wd, abortTcs, histVars>>

(* The poll of State: Idle and the roles are exchanged, or two seconds have
   passed (503). *)
HttpAway ==
  /\ "away" \in http /\ http' = http \ {"away"}
  /\ isActive' = (isActive /\ state # "Idle")
  /\ UNCHANGED <<clockVars, pumped, dq, wk, talkVars, heldVars, pickVars, autoAnswer, reqs,
                 sigVars, histVars>>

-----------------------------------------------------------------------------
Init ==
  /\ slot = 1 /\ pos = "early"
  /\ pumped = [cycle |-> 0, late |-> 0, told |-> {}]
  /\ dq = <<>> /\ wk = <<>>
  /\ pc = "read" /\ state = "Idle" /\ partner = NoStation
  /\ retry = 0 /\ skip = FALSE /\ lastTx = "cq" /\ again = FALSE
  /\ deferred = NoReply /\ lastBatch1 = 0 /\ transition = 0
  /\ recent = {} /\ pending = NoPick
  /\ autoAnswer = FALSE /\ isActive = FALSE
  /\ cancelled = FALSE /\ wd = FALSE /\ abortTcs = FALSE /\ stop = FALSE
  /\ http = {} /\ reqs = 0
  /\ log = <<>> /\ by = "batch"

Service == \/ ReadDecode \/ ReadWakeup \/ ReadCancelled
           \/ SaveDone \/ HoldReport
           \/ TxEnd \/ TxCancelled \/ PttFault
           \/ Settle \/ Complete \/ Finish \/ Renew \/ AbortDone

Operator == \/ CallCq \/ SetArmed \/ GracefulStop
            \/ SelectRequest \/ ExternalRequest
            \/ AbortRequest \/ EngageRequest

Http == HttpCancel \/ HttpDisarm \/ HttpStop \/ HttpAway

(* The bound on the clock is reached. *)
Done == slot = MaxSlot /\ pos = "tail" /\ pc = "read" /\ UNCHANGED vars

Next == \/ Tick \/ PublishFirst \/ PublishSecond
        \/ Service \/ WatchdogFire
        \/ Operator \/ Http
        \/ Done

Spec == Init /\ [][Next]_vars

-----------------------------------------------------------------------------
(* Properties *)

(* There is a partner exactly while a responder is being worked, and each step
   of the loop finds the state and the message it was left with. *)
Working == \/ pc \in {"saving", "holding"}
           \/ pc \notin {"ending", "aborting"} /\ state \in {"TxReport", "WaitRr73", "TxRr73", "QsoComplete"}

SessionInv ==
  /\ IF Working THEN partner \in Stations ELSE partner = NoStation
  /\ pc = "read" => state \in {"Idle", "WaitAnswer", "WaitRr73"}
  /\ pc \in {"saving", "holding"} => state = "WaitAnswer" /\ lastTx = "report"
  /\ pc \in {"keyed", "sent"} =>
       \/ state = "TxCq" /\ lastTx = "cq"
       \/ state = "TxReport" /\ lastTx = "report"
       \/ state = "TxRr73" /\ lastTx = "rr73"
  /\ pc = "complete" => state = "QsoComplete" /\ lastTx = "rr73"
  /\ pc = "read" /\ state = "WaitRr73" /\ deferred = NoReply => lastTx = "report"

(* A pick names a station. *)
PickInv == pending = NoPick \/ pending.who \in Stations

(* A held reply never outlives its session: a report or a closing held by a
   late batch is held while its own partner is waited for, with the message it
   names last in _lastTxMessage, which SendReportReplyAsync sends blindly. *)
HeldReplyBelongs ==
  deferred # NoReply =>
    /\ pc = "read" /\ state = "WaitRr73" /\ partner \in Stations
    /\ \/ deferred.kind = "Report" /\ lastTx = "report"
       \/ deferred.kind = "Closing" /\ lastTx = "rr73"

(* The inductive invariant. *)
IInv == TypeOK /\ SessionInv /\ PickInv /\ HeldReplyBelongs

(* On a prompt machine every transmission to a partner goes out in the slots
   the partner listens in, when First mode or a click on a row chose it: the
   skip guard, the pick's phase, the parity of a held reply and the refusal in
   the tail never make the two transmit at once.  (A retry to a clicked partner
   is left out: the wakeup of the click is taken for a cycle, as in
   Answerer!OwnWindowNotCounted.  So is an external reply, whose phase is that
   of the last complete window and not of the window the reply came in.) *)
OwnParity ==
  pc = "keyed" /\ partner # NoStation /\ by # "external" /\ (by = "batch" \/ ~again) =>
    slot % 2 # Parity[partner]

(* A graceful stop never leaves the loop asleep in the session it is to end: its
   flag, raised by another thread in a step of its own, is not seen without its
   wakeup queued or about to be written, although other wakeups are consumed and
   every end of a session drains them.  (GracefulStopAsync, SafeAbortToIdleAsync,
   ReadNextBatchAsync.)  A flag raised while the session is already ending is not
   covered: it outlives it, without its wakeup, into Idle. *)
StopWakes ==
  stop /\ state # "Idle" /\ pc \notin {"ending", "aborting"} =>
    wk # <<>> \/ "stopWake" \in http

(* What OwnParity rests on, on a prompt machine.  The pump is at most one cycle
   behind the clock, and the queue holds what is left of two cycles in their
   order: supplementary batches of the newest cycle read, then batch 1 of the
   cycle that just ended, then its supplementary batches.  What a batch tells was
   sent on its sender's parity. *)
Heard(b) == \A s \in Stations : b.heard[s] # "silence" => b.cycle % 2 = Parity[s]
Firsts == {i \in 1..Len(dq) : ~dq[i].late}

QueueInv ==
  /\ pumped.cycle \in {slot - 2, slot - 1}
  /\ \A i \in 1..Len(dq) : Heard(dq[i])
  /\ \A i \in Firsts : /\ slot > 1 /\ pumped.cycle = slot - 1 /\ dq[i].cycle = slot - 1
                       /\ \A j \in 1..Len(dq) :
                            /\ j < i => dq[j].late /\ dq[j].cycle = slot - 2
                            /\ j > i => dq[j].late /\ dq[j].cycle = slot - 1
  /\ Firsts = {} => \A i \in 1..Len(dq) : dq[i].cycle = pumped.cycle

(* The newest cycle of which the loop has read batch 1.  (lastBatch1 may be ahead
   of it: a wakeup counts for one.) *)
NewestRead == IF Firsts = {} THEN pumped.cycle ELSE pumped.cycle - 1

(* A wakeup without a stop is that of a pick armed in this slot, before anything
   else is read; or that of a stop whose session is over, and is not acted upon. *)
Over == \/ pc \in {"ending", "aborting"}
        \/ pc = "read" /\ state = "Idle" /\ ~isActive

WakeInv == /\ wk # <<>> /\ ~stop =>
                \/ Over
                \/ /\ pc = "read" /\ state = "WaitAnswer" /\ dq = <<>> /\ wk = <<slot - 1>>
                   /\ pending # NoPick /\ pending.at = slot
           /\ "stopWake" \in http /\ ~stop => Over

(* A click's pick is fired in the slots its station listens in; a held reply is
   of its partner's parity. *)
PhaseInv == pending # NoPick /\ pending.via = "select" => pending.phase # Parity[pending.who]
HeldInv  == /\ deferred # NoReply => deferred.cycle % 2 = Parity[partner]
            /\ pc = "holding" => transition % 2 = Parity[partner]

(* A session that a batch began transmits in the slot after the newest cycle
   read, in which its partner listens, and while it waits the skip guard is up
   exactly while the next cycle is its own.  Of a click's session that is known
   for what is not a retry. *)
TurnInv ==
  partner # NoStation =>
    /\ by = "batch" /\ pc \in {"saving", "keyed", "sent"} =>
         NewestRead = slot - 1 /\ slot % 2 # Parity[partner]
    /\ by = "batch" /\ pc = "read" /\ deferred = NoReply =>
         (skip <=> NewestRead % 2 = Parity[partner])
    /\ by = "select" /\ pc \in {"saving", "keyed"} /\ ~again => slot % 2 # Parity[partner]

SlotInv == QueueInv /\ WakeInv /\ PhaseInv /\ HeldInv /\ TurnInv

(* What the caller promises its user (Contact), from the moment a responder is
   taken: it is logged once and only after its roger, and a session cancelled
   while it waits or transmits is never advanced or logged, only released. *)
ContactPhase ==
  IF partner = NoStation THEN "free"
  ELSE IF pc = "complete" THEN "logged"
  ELSE IF lastTx = "rr73" THEN "closing"
  ELSE "reporting"

ContactDoomed == /\ cancelled /\ partner # NoStation
                 /\ pc = "keyed" \/ (pc = "read" /\ state = "WaitRr73")

C == INSTANCE Contact WITH phase <- ContactPhase, who <- partner,
                           doomed <- ContactDoomed, log <- log

Refines == C!Spec

-----------------------------------------------------------------------------
(* Fairness: a handler that can go on does, a loop that is woken reads, a clip
   ends and the clock moves on.  Nothing is assumed of the decode pump or of
   the watchdog. *)
Fairness ==
  /\ WF_vars(Tick) /\ WF_vars(TxEnd) /\ WF_vars(TxCancelled)
  /\ WF_vars(ReadWakeup) /\ WF_vars(ReadCancelled /\ Woken)
  /\ WF_vars(SaveDone) /\ WF_vars(HoldReport) /\ WF_vars(Settle)
  /\ WF_vars(Complete) /\ WF_vars(Finish) /\ WF_vars(Renew) /\ WF_vars(AbortDone)
  /\ WF_vars(Http)

FairSpec == Spec /\ Fairness

(* A graceful stop asked for in a session ends it without waiting for a batch
   and without a cancellation: the flag and its wakeup survive transmissions,
   token swaps and the other signals.  (GracefulStopAsync, ProcessBatchAsync.) *)
StopHonoured == stop ~> state = "Idle"
=============================================================================
