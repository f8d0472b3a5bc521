------------------------------ MODULE Answerer ------------------------------
(***************************************************************************)
(* The answerer state machine of the daemon (QsoAnswererService), with the *)
(* HTTP thread that arms and aborts it, the watchdog that cancels it and   *)
(* the decode pump that feeds it.                                          *)
(*                                                                         *)
(* Time is a sequence of 15 s FT8 slots.  A slot is identified by its      *)
(* number and has three positions: "early" (a whole 12.64 s signal can     *)
(* still start: at most 2.36 s into the slot), "mid" (a start is time      *)
(* aligned, its first symbols skipped) and "tail" (11.25 s and later: no   *)
(* start).  Cycle c is the slot c seen by the receiver; its batch 1 exists *)
(* only after slot c has ended.                                            *)
(*                                                                         *)
(* The service is one loop: it reads a batch, handles it, and reads again. *)
(* pc says where the loop is: waiting in "read"; "saving" the TX offset    *)
(* before a new session's first transmission; "keyed" while PTT is on;     *)
(* "sent" after the transmission returned; "complete" once the contact has *)
(* been handed to the log; "aborting" inside SafeAbortToIdleAsync, between *)
(* its first assignments and its last.  Every other step of a handler is   *)
(* atomic: it has no await another thread's step could come between.       *)
(*                                                                         *)
(* Not represented: message text, signal reports, audio frequencies, the   *)
(* AP constraint sink, the reason of an abort (log wording) and the        *)
(* decode filter, the engagement validator and the operator's callsign     *)
(* guards (a "cq" below is one that passes them).                          *)
(***************************************************************************)
EXTENDS Integers, Sequences

CONSTANTS Stations,     \* the callsigns that may be heard
          NoStation,    \* no partner
          Parity,       \* the slot parity each station transmits on
          MaxSlot,      \* bound: the last slot of a behaviour
          RetryCount,   \* tx.retryCount; 0 = unlimited
          MaxLate,      \* bound: supplementary batches per cycle
          Requests,     \* the operator requests that may arrive
          MaxRequests,  \* bound: how many of them
          TargetLife,   \* slots an armed target lives (60 s in the code)
          Timely,       \* TRUE: no lost cycle, no step slower than its slot position
          DiskFaults    \* TRUE: saving the configuration may fail

AllRequests == {"answer", "engage", "external", "enable", "disable", "abort", "role"}

ASSUME NoStationAssumption == NoStation \notin Stations
ASSUME ParityAssumption    == Parity \in [Stations -> {0, 1}]
ASSUME BoundAssumption     == /\ MaxSlot \in Nat \ {0}
                              /\ RetryCount \in Nat
                              /\ MaxLate \in Nat
                              /\ MaxRequests \in Nat
                              /\ TargetLife \in Nat
ASSUME ModeAssumption      == /\ Requests \subseteq AllRequests
                              /\ Timely \in BOOLEAN
                              /\ DiskFaults \in BOOLEAN

VARIABLES
  slot, pos,        \* the clock
  pumped,           \* what the decode pump last delivered: cycle, late batches, stations told
  dq,               \* _decodeChannel
  wk,               \* _wakeupChannel: the cycle of each wakeup batch
  pc,               \* where the service loop is
  state,            \* _state
  partner,          \* _partner
  retry,            \* _retryCount
  skip,             \* _skipNextRetry
  lastTx,           \* the kind of _lastTxMessage
  again,            \* the transmission in progress is a retry
  deferred,         \* _deferred
  lastBatch1,       \* _lastBatch1Cycle
  transition,       \* _transitionCycle
  snap,             \* the CQs of _lastIdleDecodeBatch
  pending,          \* _pendingTarget*
  jump,             \* _jump*
  autoAnswer,       \* tx.autoAnswer in the configuration store
  isActive,         \* IsActive: the router has the answerer in charge
  cancelled,        \* the current _txCts is cancelled
  wd,               \* the current _txCts carries the watchdog timeout
  http,             \* steps HTTP handlers still have to make
  reqs,             \* operator requests so far
  log,              \* the contacts handed to the log
  unspent,          \* history: requests for a session less sessions begun
  keyedAt,          \* history: the last slot PTT was keyed in
  stopped           \* history: an abort was asked for, is done, or something was asked since

clockVars == <<slot, pos>>
feedVars  == <<pumped, dq, wk>>
talkVars  == <<pc, state, partner, retry, skip, lastTx, again>>
heldVars  == <<deferred, lastBatch1, transition, snap>>
aimVars   == <<pending, jump>>
askVars   == <<autoAnswer, isActive, http, reqs, stopped>>
ctsVars   == <<cancelled, wd>>
histVars  == <<log, unspent, keyedAt>>
vars == <<clockVars, feedVars, talkVars, heldVars, aimVars, askVars, ctsVars, histVars>>

-----------------------------------------------------------------------------
(* Values *)

States   == {"Idle", "TxAnswer", "WaitReport", "TxReport", "WaitRr73", "Tx73", "QsoComplete"}
Messages == {"answer", "report", "closing"}    \* what the answerer sends
(* What a station may be heard sending: a CQ, a report to us, a closing roger
   (RR73 or RRR) to us, anything to another station, or nothing of interest. *)
Says     == {"cq", "report", "roger", "elsewhere", "silence"}

Silence == [s \in Stations |-> "silence"]
Batch   == [cycle : Nat, late : BOOLEAN, heard : [Stations -> Says]]

NoTarget == [who |-> NoStation, point |-> "answer", phase |-> 0, at |-> 0]
Target   == [who : Stations \cup {NoStation}, point : Messages, phase : {0, 1}, at : Nat]

(* The code keeps a partner only with a held answer; here a report and a closing
   keep theirs too, for HeldReplyBelongs. *)
NoReply == [kind |-> "none", cycle |-> 0, to |-> NoStation]
Reply   == [kind : {"none", "Report", "Closing", "Answer"}, cycle : Nat,
            to : Stations \cup {NoStation}]

HttpSteps == {"cancelThenDisarm", "cancelThenAway", "cancel", "disarm", "away", "enable"}
WaitStates == {"WaitReport", "WaitRr73"}

ClockType == slot \in Nat \ {0} /\ pos \in {"early", "mid", "tail"}
FeedType  == /\ pumped \in [cycle : Nat, late : Nat, told : SUBSET Stations]
             /\ dq \in Seq(Batch) /\ wk \in Seq(Nat)
TalkType  == /\ pc \in {"read", "saving", "keyed", "sent", "complete", "aborting"}
             /\ state \in States
             /\ partner \in Stations \cup {NoStation}
             /\ retry \in Nat /\ skip \in BOOLEAN
             /\ pc # "aborting" /\ RetryCount > 0 => retry <= RetryCount
             /\ lastTx \in Messages /\ again \in BOOLEAN
HeldType  == /\ deferred \in Reply
             /\ lastBatch1 \in Nat /\ transition \in Nat
             /\ snap \in [cycle : Nat, cqs : SUBSET Stations]
AimType   == pending \in Target /\ jump \in Target
AskType   == /\ autoAnswer \in BOOLEAN /\ isActive \in BOOLEAN
             /\ http \subseteq HttpSteps
             /\ reqs \in Nat /\ stopped \in {"no", "asked", "done"}
CtsType   == cancelled \in BOOLEAN /\ wd \in BOOLEAN
HistType  == log \in Seq(Stations) /\ unspent \in Int /\ keyedAt \in Nat

TypeOK == /\ ClockType /\ FeedType /\ TalkType /\ HeldType
          /\ AimType /\ AskType /\ CtsType /\ HistType

-----------------------------------------------------------------------------
(* Slots and batches *)

IsAPhase(cycle) == cycle % 2 = 0

(* The reply to a cycle goes out in the slot that follows it. *)
ReplySlotIsAPhase(cycle) == IsAPhase(cycle + 1)
NextPhase(cycle) == (cycle + 1) % 2

(* LateBatch.CanStartWhole and Ft8TimeHelper.IsPastLastStart. *)
CanStartWhole(cycle) == slot = cycle + 1 /\ pos = "early"
PastLastStart == pos = "tail"

Cqs(b) == {s \in Stations : b.heard[s] = "cq"}
PartnerSays(b) == IF partner \in Stations THEN b.heard[partner] ELSE "silence"
PartnerWorkingAnother(b, s) == s \in Stations /\ b.heard[s] = "elsewhere"

(* What the receiver can decode of a cycle: each station keeps to its parity
   and sends one message, which an earlier batch of the cycle may have told. *)
Decodable(cycle, told) ==
  {h \in [Stations -> Says] :
     \A s \in Stations : Parity[s] # cycle % 2 \/ s \in told => h[s] = "silence"}
Told(h) == {s \in Stations : h[s] # "silence"}

(* There is something for the loop to read. *)
Readable == \/ dq # <<>>
            \/ state = "Idle" /\ wk # <<>>
            \/ state # "Idle" /\ cancelled

(* Nothing that takes a negligible time on a prompt machine is outstanding. *)
Quiet == /\ http = {}
         /\ \/ pc = "read" /\ ~Readable
            \/ pc = "keyed" /\ ~cancelled

-----------------------------------------------------------------------------
(* The clock and the decode pump *)

(* A clip is cut so that it ends with its slot: PTT is never keyed across a
   slot boundary. *)
Tick ==
  /\ Timely => Quiet
  /\ \/ pos = "early" /\ pos' = "mid" /\ slot' = slot
     \/ pos = "mid" /\ pos' = "tail" /\ slot' = slot
     \/ /\ pos = "tail" /\ slot < MaxSlot /\ pc # "keyed"
        /\ Timely => pumped.cycle = slot - 1
        /\ slot' = slot + 1 /\ pos' = "early"
  /\ UNCHANGED <<feedVars, talkVars, heldVars, aimVars, askVars, ctsVars, histVars>>

(* DecodePump.PublishFirstAsync: batch 1 of a cycle that has ended.  The pump
   is serial, and it loses a cycle whose decode fails or spans a retune. *)
PublishFirst ==
  \E c \in (pumped.cycle + 1)..(slot - 1) :
    \E h \in Decodable(c, {}) :
      /\ dq' = Append(dq, [cycle |-> c, late |-> FALSE, heard |-> h])
      /\ pumped' = [cycle |-> c, late |-> 0, told |-> Told(h)]
      /\ UNCHANGED <<clockVars, wk, talkVars, heldVars, aimVars, askVars, ctsVars, histVars>>

(* DecodePump.PublishSecondAsync: a supplementary batch carries only new
   decodes, and there is none without one. *)
PublishSecond ==
  /\ pumped.cycle > 0 /\ pumped.late < MaxLate
  /\ \E h \in Decodable(pumped.cycle, pumped.told) \ {Silence} :
       /\ dq' = Append(dq, [cycle |-> pumped.cycle, late |-> TRUE, heard |-> h])
       /\ pumped' = [pumped EXCEPT !.late = @ + 1, !.told = @ \cup Told(h)]
       /\ UNCHANGED <<clockVars, wk, talkVars, heldVars, aimVars, askVars, ctsVars, histVars>>

-----------------------------------------------------------------------------
(* Pieces of the handlers.  Each names the variables it determines. *)

(* faulty: a held reply outlives its session *)
SafeAbortKeepingReply(st) ==
  /\ pc' = "aborting" /\ state' = st
  /\ partner' = NoStation /\ skip' = FALSE
  /\ deferred' = deferred
  /\ pending' = NoTarget /\ jump' = NoTarget
  /\ cancelled' = FALSE /\ wd' = FALSE

(* SafeAbortToIdleAsync up to its first await: pc, state, partner, skip,
   deferred, aimVars and ctsVars.  The state stays st until AbortDone. *)
SafeAbort(st) ==
  /\ pc' = "aborting" /\ state' = st
  /\ partner' = NoStation /\ skip' = FALSE
  /\ deferred' = NoReply
  /\ pending' = NoTarget /\ jump' = NoTarget
  /\ cancelled' = FALSE /\ wd' = FALSE

(* SetStateAndNotify(st) and TransmitAsync on a live token, to the KeyDown: pc,
   state and keyedAt.  A start in the tail is refused, and returns normally. *)
Transmit(st) ==
  /\ state' = st
  /\ IF PastLastStart
     THEN pc' = "sent" /\ keyedAt' = keyedAt
     ELSE pc' = "keyed" /\ keyedAt' = slot

(* Transmits a message that is not a retry: also lastTx, again and everything
   but retry, skip, deferred and transition. *)
Send(msg, st) ==
  /\ Transmit(st) /\ lastTx' = msg /\ again' = FALSE
  /\ UNCHANGED <<partner, aimVars, ctsVars, log, unspent>>

(* MarkTransition: the cycle is answered, and a held reply is superseded. *)
MarkTransition(b) == transition' = b.cycle /\ deferred' = NoReply

(* The loop goes back to reading, holding d. *)
Hold(d) == /\ deferred' = d
           /\ UNCHANGED <<talkVars, transition, aimVars, ctsVars, histVars>>

(* ExecuteTxAnswerAsync and ExecuteJumpInAsync up to SaveAsync.  (The code
   stores the message after the save; nothing reads it before.) *)
Begin(b, s, msg) ==
  /\ MarkTransition(b)
  /\ partner' = s /\ retry' = 0 /\ lastTx' = msg /\ again' = FALSE
  /\ pc' = "saving" /\ UNCHANGED <<state, skip>>
  /\ unspent' = unspent - 1
  /\ UNCHANGED <<ctsVars, log, keyedAt>>

(* faulty: due at the next batch 1, whatever its parity *)
DueAnyParity(b) == b.cycle > deferred.cycle
(* faulty: due one round too late *)
DueOneRoundLate(b) == /\ b.cycle > deferred.cycle + 2
                      /\ ReplySlotIsAPhase(b.cycle) = ReplySlotIsAPhase(deferred.cycle)

(* A held reply is due at a batch 1 of a later cycle of its own parity. *)
Due(b) == /\ b.cycle > deferred.cycle
          /\ ReplySlotIsAPhase(b.cycle) = ReplySlotIsAPhase(deferred.cycle)

-----------------------------------------------------------------------------
(* HandleIdleAsync: a batch 1, or a wakeup, while Idle *)

Expired(t) == slot - t.at > TargetLife
Ready(t, b) == NextPhase(b.cycle) = t.phase /\ ~PastLastStart

(* An armed target is dropped when it expired, fires on its own phase before
   the tail, and otherwise stays armed. *)
AimAt(t, b) == \/ /\ Expired(t)
                  /\ UNCHANGED <<talkVars, deferred, transition, ctsVars, histVars>>
               \/ ~Expired(t) /\ Ready(t, b) /\ Begin(b, t.who, t.point)
Waits(t, b) == ~Expired(t) /\ ~Ready(t, b) /\ Hold(deferred)

(* A jump-in is looked at first, then a pending target. *)
AnswerTarget(b) ==
  \/ /\ jump # NoTarget
     /\ \/ AimAt(jump, b) /\ jump' = NoTarget /\ UNCHANGED pending
        \/ Waits(jump, b)
  \/ /\ jump = NoTarget /\ pending # NoTarget
     /\ \/ AimAt(pending, b) /\ pending' = NoTarget /\ UNCHANGED jump
        \/ Waits(pending, b)

HeldAnswerDropped(b) == deferred.kind = "Answer" /\ PartnerWorkingAnother(b, deferred.to)
HeldAnswerDue(b) == deferred.kind = "Answer" /\ ~HeldAnswerDropped(b) /\ Due(b)

(* With auto-answer on: the held answer to a late CQ when it is due, else the
   first CQ of the batch. *)
AnswerCq(b) ==
  \/ /\ HeldAnswerDue(b)
     /\ Begin(b, deferred.to, "answer") /\ UNCHANGED aimVars
  \/ /\ ~HeldAnswerDue(b)
     /\ \E s \in Cqs(b) : Begin(b, s, "answer") /\ UNCHANGED aimVars
  \/ /\ ~HeldAnswerDue(b) /\ Cqs(b) = {}
     /\ Hold(IF HeldAnswerDropped(b) THEN NoReply ELSE deferred)

HandleIdle(b) ==
  /\ snap' = [cycle |-> b.cycle, cqs |-> Cqs(b)]
  /\ \/ ~isActive /\ Hold(NoReply)
     \/ isActive /\ AnswerTarget(b)
     \/ /\ isActive /\ jump = NoTarget /\ pending = NoTarget
        /\ \/ ~autoAnswer /\ Hold(NoReply)
           \/ autoAnswer /\ AnswerCq(b)

-----------------------------------------------------------------------------
(* HandleWaitReportAsync and HandleWaitRr73Async: a batch 1 in a session *)

(* The partner closed (RR73, RRR): send 73. *)
HearRoger(b) ==
  /\ PartnerSays(b) = "roger"
  /\ MarkTransition(b) /\ skip' = FALSE
  /\ Send("closing", "Tx73") /\ UNCHANGED retry

HearReport(b) ==
  /\ state = "WaitReport" /\ PartnerSays(b) = "report"
  /\ MarkTransition(b) /\ skip' = FALSE /\ retry' = 0
  /\ Send("report", "TxReport")

(* The partner works another station: give up. *)
HearElsewhere(b) ==
  /\ PartnerSays(b) = "elsewhere"
  /\ transition' = b.cycle /\ SafeAbort(state)
  /\ UNCHANGED <<retry, lastTx, again, histVars>>

(* In WaitRr73 a batch 1 is searched for the roger and nothing else. *)
HearsNothing(b) ==
  PartnerSays(b) \in IF state = "WaitRr73" THEN Says \ {"roger"} ELSE {"cq", "silence"}

(* faulty: a batch 1 of the other parity drops the held reply *)
SendHeldOrDrop(b) ==
  /\ deferred # NoReply
  /\ \/ ~Due(b) /\ Hold(NoReply)
     \/ /\ Due(b) /\ deferred' = NoReply
        /\ UNCHANGED <<retry, skip, transition>>
        /\ \/ deferred.kind = "Report" /\ Send(lastTx, "TxReport")
           \/ deferred.kind = "Closing" /\ Send("closing", "Tx73")

(* SendDeferredIfDueAsync *)
SendHeld(b) ==
  /\ deferred # NoReply
  /\ \/ ~Due(b) /\ Hold(deferred)
     \/ /\ Due(b) /\ deferred' = NoReply
        /\ UNCHANGED <<retry, skip, transition>>
        /\ \/ deferred.kind = "Report" /\ Send(lastTx, "TxReport")
           \/ deferred.kind = "Closing" /\ Send("closing", "Tx73")

(* The first silent cycle after a transmission is taken for our own slot. *)
SkipOwnCycle == /\ deferred = NoReply /\ skip
                /\ skip' = FALSE
                /\ UNCHANGED <<pc, state, partner, retry, lastTx, again, deferred,
                               transition, aimVars, ctsVars, histVars>>

(* faulty: the count is compared before it is incremented *)
RetryOrAbortTooLate ==
  /\ deferred = NoReply /\ ~skip
  /\ retry' = retry + 1
  /\ UNCHANGED <<transition, lastTx, log, unspent>>
  /\ \/ /\ RetryCount > 0 /\ retry > RetryCount
        /\ SafeAbort(state) /\ UNCHANGED <<again, keyedAt>>
     \/ /\ RetryCount = 0 \/ retry <= RetryCount
        /\ Transmit(IF state = "WaitRr73" THEN "TxReport" ELSE "TxAnswer")
        /\ again' = TRUE
        /\ UNCHANGED <<partner, skip, deferred, aimVars, ctsVars>>

(* RetryOrAbortAsync *)
RetryOrAbort ==
  /\ deferred = NoReply /\ ~skip
  /\ retry' = retry + 1
  /\ UNCHANGED <<transition, lastTx, log, unspent>>
  /\ \/ /\ RetryCount > 0 /\ retry + 1 > RetryCount
        /\ SafeAbort(state) /\ UNCHANGED <<again, keyedAt>>
     \/ /\ RetryCount = 0 \/ retry + 1 <= RetryCount
        /\ Transmit(IF state = "WaitRr73" THEN "TxReport" ELSE "TxAnswer")
        /\ again' = TRUE
        /\ UNCHANGED <<partner, skip, deferred, aimVars, ctsVars>>

HandleWait(b) ==
  /\ UNCHANGED snap
  /\ \/ HearRoger(b)
     \/ HearReport(b)
     \/ state = "WaitReport" /\ HearElsewhere(b)
     \/ HearsNothing(b) /\ (SendHeld(b) \/ SkipOwnCycle \/ RetryOrAbort)

-----------------------------------------------------------------------------
(* ProcessLateBatchAsync: a supplementary batch.  It counts as heard and never
   as a cycle: no retry, no skip guard, no armed target. *)

MergeIntoSnapshot(b) ==
  snap' = IF snap.cycle < b.cycle THEN [cycle |-> b.cycle, cqs |-> Cqs(b)]
          ELSE IF snap.cycle = b.cycle THEN [snap EXCEPT !.cqs = @ \cup Cqs(b)]
          ELSE snap

(* Not older than the newest batch 1 and not of an answered cycle. *)
Fresh(b) == b.cycle >= lastBatch1 /\ b.cycle # transition

LateIdle(b) ==
  /\ MergeIntoSnapshot(b)
  /\ \/ /\ ~Fresh(b) \/ ~isActive \/ ~autoAnswer \/ Cqs(b) = {}
        /\ Hold(deferred)
     \/ /\ Fresh(b) /\ isActive /\ autoAnswer
        /\ \E s \in Cqs(b) :
             \/ CanStartWhole(b.cycle) /\ Begin(b, s, "answer") /\ UNCHANGED aimVars
             \/ /\ ~CanStartWhole(b.cycle)
                /\ transition' = b.cycle
                /\ deferred' = [kind |-> "Answer", cycle |-> b.cycle, to |-> s]
                /\ UNCHANGED <<talkVars, aimVars, ctsVars, histVars>>

(* ApplyLateClosingAsync: our 73 goes out whole now, or is held. *)
LateRoger(b) ==
  /\ PartnerSays(b) = "roger"
  /\ transition' = b.cycle
  /\ \/ /\ CanStartWhole(b.cycle) /\ deferred' = NoReply
        /\ Send("closing", "Tx73") /\ UNCHANGED <<retry, skip>>
     \/ /\ ~CanStartWhole(b.cycle)
        /\ retry' = 0 /\ lastTx' = "closing"
        /\ deferred' = [kind |-> "Closing", cycle |-> b.cycle, to |-> partner]
        /\ UNCHANGED <<pc, state, partner, skip, again, aimVars, ctsVars, histVars>>

(* ApplyReportAsync with deferTx: the state advances before the report is sent. *)
LateReport(b) ==
  /\ state = "WaitReport" /\ PartnerSays(b) = "report"
  /\ transition' = b.cycle /\ retry' = 0
  /\ \/ /\ CanStartWhole(b.cycle) /\ deferred' = NoReply
        /\ Send("report", "TxReport") /\ UNCHANGED skip
     \/ /\ ~CanStartWhole(b.cycle)
        /\ lastTx' = "report" /\ state' = "WaitRr73"
        /\ deferred' = [kind |-> "Report", cycle |-> b.cycle, to |-> partner]
        /\ UNCHANGED <<pc, partner, skip, again, aimVars, ctsVars, histVars>>

LateNothing(b) == PartnerSays(b) \in IF state = "WaitReport" THEN {"cq", "silence"}
                                     ELSE {"cq", "silence", "report"}

LateWait(b) ==
  /\ UNCHANGED snap
  /\ \/ ~Fresh(b) /\ Hold(deferred)
     \/ Fresh(b) /\ LateRoger(b)
     \/ Fresh(b) /\ LateReport(b)
     \/ Fresh(b) /\ HearElsewhere(b)
     \/ Fresh(b) /\ LateNothing(b) /\ Hold(deferred)

-----------------------------------------------------------------------------
(* The loop: ReadNextBatchAsync and ProcessBatchAsync *)

ProcessBatch(b) ==
  /\ lastBatch1' = IF ~b.late /\ b.cycle > lastBatch1 THEN b.cycle ELSE lastBatch1
  /\ \/ ~b.late /\ state = "Idle" /\ HandleIdle(b)
     \/ ~b.late /\ state \in WaitStates /\ HandleWait(b)
     \/ b.late /\ state = "Idle" /\ LateIdle(b)
     \/ b.late /\ state \in WaitStates /\ LateWait(b)

(* faulty: the read is not linked to the TX token *)
ReadDecodeUnlinked ==
  /\ pc = "read" /\ dq # <<>>
  /\ dq' = Tail(dq)
  /\ ProcessBatch(Head(dq))
  /\ UNCHANGED <<clockVars, pumped, wk, askVars>>

(* In a session the read is linked to the TX token; Idle never looks at it. *)
ReadDecode ==
  /\ pc = "read" /\ dq # <<>>
  /\ state = "Idle" \/ ~cancelled
  /\ dq' = Tail(dq)
  /\ ProcessBatch(Head(dq))
  /\ UNCHANGED <<clockVars, pumped, wk, askVars>>

(* A wakeup is an empty batch 1 of the cycle before the slot it was pushed in;
   it is only read while Idle.  (Which queue is looked at first depends on
   whether the loop was already waiting: either may be.) *)
ReadWakeup ==
  /\ pc = "read" /\ state = "Idle" /\ wk # <<>>
  /\ wk' = Tail(wk)
  /\ ProcessBatch([cycle |-> Head(wk), late |-> FALSE, heard |-> Silence])
  /\ UNCHANGED <<clockVars, pumped, dq, askVars>>

ReadCancelled ==
  /\ pc = "read" /\ state # "Idle" /\ cancelled
  /\ SafeAbort(state)
  /\ UNCHANGED <<clockVars, feedVars, retry, lastTx, again, lastBatch1, transition, snap,
                 askVars, histVars>>

-----------------------------------------------------------------------------
(* The steps of a session after an await *)

FirstState(msg) == IF msg = "answer" THEN "TxAnswer"
                   ELSE IF msg = "report" THEN "TxReport"
                   ELSE "Tx73"

(* The offset is saved: StartWatchdog on the current token, and transmit.  A
   token that is already cancelled makes KeyDownAsync throw. *)
SaveDone ==
  /\ pc = "saving"
  /\ \/ /\ PastLastStart \/ ~cancelled
        /\ Transmit(FirstState(lastTx))
        /\ wd' = TRUE
        /\ UNCHANGED <<partner, skip, deferred, aimVars, cancelled>>
     \/ /\ ~PastLastStart /\ cancelled
        /\ SafeAbort(FirstState(lastTx)) /\ UNCHANGED keyedAt
  /\ UNCHANGED <<clockVars, feedVars, retry, lastTx, again, lastBatch1, transition, snap,
                 askVars, log, unspent>>

(* SaveAsync throws; only the answer to a CQ does not catch it. *)
SaveFails ==
  /\ DiskFaults
  /\ pc = "saving" /\ lastTx = "answer"
  /\ SafeAbort(state)
  /\ UNCHANGED <<clockVars, feedVars, retry, lastTx, again, lastBatch1, transition, snap,
                 askVars, histVars>>

(* faulty: the token is not checked after KeyDownAsync returned *)
TxEndUnchecked ==
  /\ pc = "keyed" /\ pos = "tail"
  /\ pc' = "sent"
  /\ UNCHANGED <<clockVars, feedVars, state, partner, retry, skip, lastTx, again,
                 heldVars, aimVars, askVars, ctsVars, histVars>>

(* The clip has played, and the token is not cancelled (TransmitAsync throws
   if it is, whatever KeyDownAsync did). *)
TxEnd ==
  /\ pc = "keyed" /\ pos = "tail" /\ ~cancelled
  /\ pc' = "sent"
  /\ UNCHANGED <<clockVars, feedVars, state, partner, retry, skip, lastTx, again,
                 heldVars, aimVars, askVars, ctsVars, histVars>>

TxFailed ==
  /\ pc = "keyed"
  /\ SafeAbort(state)
  /\ UNCHANGED <<clockVars, feedVars, retry, lastTx, again, lastBatch1, transition, snap,
                 askVars, histVars>>

(* The token is cancelled: KeyDownAsync stops, or was stopped by KeyUpAsync. *)
TxCancelled == cancelled /\ TxFailed

(* The PTT controller throws: the general catch of ExecuteAsync. *)
PttFault == ~cancelled /\ TxFailed

WaitState(st) == IF st = "TxAnswer" THEN "WaitReport" ELSE "WaitRr73"

(* faulty: the fresh token has no timeout *)
ResetWatchdogUnarmed == cancelled' = FALSE /\ wd' = FALSE

(* ResetWatchdog: a fresh token, with the timeout.  Not after a retry. *)
ResetWatchdog == cancelled' = FALSE /\ wd' = TRUE

(* After the answer or the report: wait for the partner. *)
Settle ==
  /\ pc = "sent" /\ state \in {"TxAnswer", "TxReport"}
  /\ pc' = "read" /\ state' = WaitState(state) /\ skip' = TRUE
  /\ \/ again /\ UNCHANGED ctsVars
     \/ ~again /\ ResetWatchdog
  /\ UNCHANGED <<clockVars, feedVars, partner, retry, lastTx, again, heldVars, aimVars,
                 askVars, histVars>>

(* After the closing message: QsoComplete, and BuildAndWriteQsoRecordAsync
   hands the contact to the ADIF log or to the operator's review. *)
Complete ==
  /\ pc = "sent" /\ state = "Tx73"
  /\ pc' = "complete" /\ state' = "QsoComplete"
  /\ log' = Append(log, partner)
  /\ UNCHANGED <<clockVars, feedVars, partner, retry, skip, lastTx, again, heldVars,
                 aimVars, askVars, ctsVars, unspent, keyedAt>>

Finish ==
  /\ pc = "complete"
  /\ SafeAbort(state)
  /\ UNCHANGED <<clockVars, feedVars, retry, lastTx, again, lastBatch1, transition, snap,
                 askVars, histVars>>

(* faulty: Idle again, and still armed *)
AbortDoneArmed ==
  /\ pc = "aborting"
  /\ pc' = "read" /\ state' = "Idle" /\ retry' = 0
  /\ UNCHANGED <<clockVars, feedVars, partner, skip, lastTx, again, heldVars, aimVars,
                 askVars, ctsVars, histVars>>

(* SafeAbortToIdleAsync after KeyUpAsync: disarm, and only then Idle. *)
AbortDone ==
  /\ pc = "aborting"
  /\ pc' = "read" /\ state' = "Idle" /\ retry' = 0
  /\ \/ autoAnswer' = FALSE
     \/ DiskFaults /\ UNCHANGED autoAnswer
  /\ UNCHANGED <<clockVars, feedVars, partner, skip, lastTx, again, heldVars, aimVars,
                 isActive, http, reqs, stopped, ctsVars, histVars>>

(* CancelAfter: at any time while the timeout is armed. *)
WatchdogFire ==
  /\ wd /\ ~cancelled
  /\ cancelled' = TRUE
  /\ UNCHANGED <<clockVars, feedVars, talkVars, heldVars, aimVars, askVars, wd, histVars>>

-----------------------------------------------------------------------------
(* Operator requests (HTTP and UDP threads).  The router sends them to the
   answerer only while it is the active role. *)

(* mark: what the request makes of the history of aborts; asked: the sessions it
   asks for.  A prompt machine has read what there is to read before a person
   reacts to it. *)
Request(name, mark, asked) ==
  /\ name \in Requests /\ reqs < MaxRequests
  /\ Timely => pc # "read" \/ ~Readable
  /\ reqs' = reqs + 1
  /\ stopped' = mark
  /\ unspent' = unspent + asked

(* The wakeup batch of EngageAtAsync and ArmPendingTarget. *)
Wake == wk' = Append(wk, slot - 1)

(* ArmPendingTarget: answer on the phase opposite to the CQ's cycle. *)
ArmPendingTarget(s, cycle) ==
  /\ state = "Idle"
  /\ pending' = [who |-> s, point |-> "answer", phase |-> NextPhase(cycle), at |-> slot]
  /\ Wake
  /\ UNCHANGED jump

(* POST /tx/answer-cq on a row of the decode panel: arm, then save
   autoAnswer = TRUE. *)
AnswerCqRequest ==
  /\ Request("answer", "no", 1) /\ isActive
  /\ \E s \in Stations, cycle \in 1..pumped.cycle :
       cycle % 2 = Parity[s] /\ ArmPendingTarget(s, cycle)
  /\ http' = http \cup {"enable"}
  /\ UNCHANGED <<clockVars, pumped, dq, talkVars, heldVars, autoAnswer, isActive, ctsVars, log, keyedAt>>

(* TryEngageExternal: a CQ of the snapshot; autoAnswer is left alone. *)
ExternalRequest ==
  /\ Request("external", "no", 1) /\ isActive
  /\ \E s \in snap.cqs : ArmPendingTarget(s, snap.cycle)
  /\ UNCHANGED <<clockVars, pumped, dq, talkVars, heldVars, autoAnswer, isActive, http, ctsVars, log, keyedAt>>

(* POST /tx/engage-decode while Idle: the router puts the answerer in charge,
   EngageAtAsync arms the jump-in. *)
EngageRequest ==
  /\ Request("engage", "no", 1) /\ state = "Idle"
  /\ isActive' = TRUE
  /\ \E s \in Stations, cycle \in 1..pumped.cycle, point \in {"report", "closing"} :
       /\ cycle % 2 = Parity[s]
       /\ jump' = [who |-> s, point |-> point, phase |-> NextPhase(cycle), at |-> slot]
  /\ Wake
  /\ UNCHANGED <<clockVars, pumped, dq, talkVars, heldVars, pending, autoAnswer, http, ctsVars, log, keyedAt>>

(* While it is on already, auto-answer is not asked for again. *)
EnableRequest ==
  /\ Request("enable", "no", IF autoAnswer THEN 0 ELSE 1)
  /\ autoAnswer' = TRUE
  /\ UNCHANGED <<clockVars, feedVars, talkVars, heldVars, aimVars, isActive, http, ctsVars, log, keyedAt>>

DisableRequest ==
  /\ Request("disable", stopped, 0)
  /\ autoAnswer' = FALSE
  /\ UNCHANGED <<clockVars, feedVars, talkVars, heldVars, aimVars, isActive, http, ctsVars, log, keyedAt>>

(* AbortAsync up to the cancel: the targets are cleared in any state; while
   Idle that is all, and only the caller's next step is left. *)
AbortAsync(idleNext, busyNext) ==
  /\ isActive
  /\ pending' = NoTarget /\ jump' = NoTarget
  /\ http' = http \cup (IF state = "Idle" THEN idleNext ELSE {busyNext})
  /\ UNCHANGED <<clockVars, feedVars, talkVars, heldVars, autoAnswer, isActive, ctsVars, log, keyedAt>>

(* POST /tx/abort: abort, then save autoAnswer = FALSE. *)
AbortRequest == Request("abort", "asked", 0) /\ AbortAsync({"disarm"}, "cancelThenDisarm")

(* POST /tx/engage-decode in a session aborts it first. *)
EngageAbort == Request("engage", stopped, 0) /\ state # "Idle" /\ AbortAsync({}, "cancel")

(* Router.SwitchToCallerAsync: abort the session, if there is one, and leave; the
   last step enables, whichever role is active by then. *)
SwitchToCaller ==
  /\ Request("role", stopped, 1)
  /\ \/ state # "Idle" /\ AbortAsync({}, "cancelThenAway")
     \/ /\ state = "Idle" /\ isActive
        /\ http' = http \cup {"away"}
        /\ UNCHANGED <<clockVars, feedVars, talkVars, heldVars, aimVars, autoAnswer, isActive, ctsVars, log, keyedAt>>

(* Router.RevertToConfiguredRole, after the caller's own disarm. *)
RevertToAnswerer ==
  /\ Request("role", stopped, 0) /\ ~isActive
  /\ isActive' = TRUE /\ autoAnswer' = FALSE
  /\ UNCHANGED <<clockVars, feedVars, talkVars, heldVars, aimVars, http, ctsVars, log, keyedAt>>

(* AbortAsync's cancel of whatever token is current by then. *)
HttpCancel ==
  \E step \in http \cap {"cancelThenDisarm", "cancelThenAway", "cancel"} :
    /\ cancelled' = TRUE
    /\ http' = (http \ {step}) \cup (CASE step = "cancelThenDisarm" -> {"disarm"}
                                       [] step = "cancelThenAway"   -> {"away"}
                                       [] OTHER                     -> {})
    /\ UNCHANGED <<clockVars, feedVars, talkVars, heldVars, aimVars, autoAnswer, isActive,
                   reqs, stopped, wd, histVars>>

HttpDisarm ==
  /\ "disarm" \in http /\ http' = http \ {"disarm"}
  /\ autoAnswer' = FALSE
  /\ stopped' = IF stopped = "asked" THEN "done" ELSE stopped
  /\ UNCHANGED <<clockVars, feedVars, talkVars, heldVars, aimVars, isActive, reqs, ctsVars, histVars>>

HttpAway ==
  /\ "away" \in http /\ http' = (http \ {"away"}) \cup {"enable"}
  /\ isActive' = FALSE
  /\ UNCHANGED <<clockVars, feedVars, talkVars, heldVars, aimVars, autoAnswer, reqs, stopped, ctsVars, histVars>>

HttpEnable ==
  /\ "enable" \in http /\ http' = http \ {"enable"}
  /\ autoAnswer' = TRUE
  /\ UNCHANGED <<clockVars, feedVars, talkVars, heldVars, aimVars, isActive, reqs, stopped, ctsVars, histVars>>

-----------------------------------------------------------------------------
Init ==
  /\ slot = 1 /\ pos = "early"
  /\ pumped = [cycle |-> 0, late |-> 0, told |-> {}]
  /\ dq = <<>> /\ wk = <<>>
  /\ pc = "read" /\ state = "Idle" /\ partner = NoStation
  /\ retry = 0 /\ skip = FALSE /\ lastTx = "answer" /\ again = FALSE
  /\ deferred = NoReply /\ lastBatch1 = 0 /\ transition = 0
  /\ snap = [cycle |-> 0, cqs |-> {}]
  /\ pending = NoTarget /\ jump = NoTarget
  /\ autoAnswer = FALSE /\ isActive = TRUE
  /\ cancelled = FALSE /\ wd = FALSE
  /\ http = {} /\ reqs = 0 /\ stopped = "no"
  /\ log = <<>> /\ unspent = 0 /\ keyedAt = 0

Service == \/ ReadDecode \/ ReadWakeup \/ ReadCancelled
           \/ SaveDone \/ SaveFails
           \/ TxEnd \/ TxCancelled \/ PttFault
           \/ Settle \/ Complete \/ Finish \/ AbortDone

Operator == \/ AnswerCqRequest \/ ExternalRequest \/ EngageRequest
            \/ EnableRequest \/ DisableRequest
            \/ AbortRequest \/ EngageAbort
            \/ SwitchToCaller \/ RevertToAnswerer

Http == HttpCancel \/ HttpDisarm \/ HttpAway \/ HttpEnable

(* The bound on the clock is reached. *)
Done == /\ slot = MaxSlot /\ pos = "tail" /\ pc = "read"
        /\ UNCHANGED vars

Next == \/ Tick \/ PublishFirst \/ PublishSecond
        \/ Service \/ WatchdogFire
        \/ Operator \/ Http
        \/ Done

Spec == Init /\ [][Next]_vars

-----------------------------------------------------------------------------
(* Properties *)

(* A held reply never outlives its session nor answers another: a report or a
   closing held by a late batch is held in the wait state it belongs to, for
   the partner that caused it, with the message to send in lastTx; an answer to
   a late CQ is held only while there is no session.  (_deferred,
   MarkTransition, SafeAbortToIdleAsync.) *)
HeldReplyBelongs ==
  deferred # NoReply =>
    /\ pc = "read"
    /\ deferred.kind = "Report"  => state = "WaitRr73" /\ lastTx = "report"
    /\ deferred.kind = "Closing" => state \in WaitStates /\ lastTx = "closing"
    /\ deferred.kind = "Answer"  => state = "Idle" /\ partner = NoStation
    /\ deferred.kind # "Answer"  => deferred.to = partner /\ partner # NoStation

(* RetryOrAbortAsync retransmits _lastTxMessage blindly and keys the state that
   names it: when the loop waits and holds nothing, the last message is the one
   the wait state is the answer to, so a retry never repeats a 73 or a report
   of an earlier exchange. *)
RetryRepeatsTheRightMessage ==
  pc = "read" /\ deferred = NoReply =>
    /\ state = "WaitReport" => lastTx = "answer"
    /\ state = "WaitRr73"   => lastTx = "report"

(* On a prompt machine, with auto-answer, every transmission of a session goes
   out in the slots its partner listens in: the skip guard, the retry, the
   parity of a held reply and the refusal in the tail together never make the
   two stations transmit at once. *)
OwnParity == pc = "keyed" => slot % 2 # Parity[partner]

(* A held reply goes out at the first batch 1 of its parity: it is never still
   held after a batch 1 two cycles later. *)
HeldReplySentAtFirstChance ==
  deferred # NoReply => lastBatch1 <= deferred.cycle + 1

(* D-TX-UI-001/003, the supervised single-QSO model: every return to Idle
   disarms, so each session spends a request that asks for one (turns auto-answer
   on, arms a target, or switches roles), and aborts, watchdogs and faults never
   leave the answerer armed for a session nobody asked for. *)
SupervisedSessions == unspent >= 0

(* "A watchdog timer starts when the service leaves Idle" and is there until
   QsoComplete: no order of retries, token swaps, aborts and late cancellations
   leaves a session on a token without the timeout, on which it would wait for a
   silent partner for ever.  (StartWatchdog, ResetWatchdog, SafeAbortToIdleAsync.) *)
Watched == pc \in {"keyed", "sent"} \/ (pc = "read" /\ state \in WaitStates) => wd

(* What SupervisedSessions rests on, when no click is among the requests (a click
   arms a target and, later, auto-answer too): whatever could still begin a
   session, an armed target, auto-answer while no session is in progress, a role
   switch that will enable it, has an unspent request to itself. *)
Bit(p) == IF p THEN 1 ELSE 0

Promises == Bit(pending # NoTarget) + Bit(jump # NoTarget)
            + Bit(autoAnswer /\ pc = "read" /\ state = "Idle")
            + Bit("cancelThenAway" \in http) + Bit("away" \in http) + Bit("enable" \in http)

PromiseInv == Promises <= unspent

(* What OwnParity and HeldReplySentAtFirstChance rest on, on a prompt machine
   without armed targets.  The pump is at most one cycle behind the clock and no
   wakeup is queued. *)
PumpInv == /\ wk = <<>> /\ pending = NoTarget /\ jump = NoTarget
           /\ pumped.cycle \in {slot - 2, slot - 1}

(* The queue holds what is left of two cycles in their order: supplementary
   batches of the newest cycle read, then batch 1 of the cycle that just ended,
   then its supplementary batches.  What a batch tells was sent on its sender's
   parity. *)
Heard(b) == \A s \in Stations : b.heard[s] # "silence" => b.cycle % 2 = Parity[s]
Firsts == {i \in 1..Len(dq) : ~dq[i].late}

QueueInv ==
  /\ \A i \in 1..Len(dq) : Heard(dq[i])
  /\ \A i \in Firsts : /\ pumped.cycle = slot - 1 /\ lastBatch1 = slot - 2
                       /\ dq[i].cycle = slot - 1
                       /\ \A j \in 1..Len(dq) :
                            /\ j < i => dq[j].late /\ dq[j].cycle = slot - 2
                            /\ j > i => dq[j].late /\ dq[j].cycle = slot - 1
  /\ Firsts = {} => /\ lastBatch1 = pumped.cycle
                    /\ \A i \in 1..Len(dq) : dq[i].cycle = pumped.cycle

(* A held reply is of the newest cycle read or of the one before, and of its
   partner's parity. *)
HeldInv == deferred # NoReply =>
             /\ deferred.cycle \in {lastBatch1, lastBatch1 - 1}
             /\ deferred.cycle % 2 = Parity[deferred.to]

(* A session transmits in the slot after the newest cycle read, in which its
   partner listens; when it waits, the skip guard is up exactly while the next
   cycle is its own. *)
TurnInv == /\ pc \in {"saving", "keyed", "sent"} =>
                lastBatch1 = slot - 1 /\ slot % 2 # Parity[partner]
           /\ pc = "read" /\ state \in WaitStates /\ deferred = NoReply =>
                (skip <=> lastBatch1 % 2 = Parity[partner])

SlotInv == PumpInv /\ QueueInv /\ HeldInv /\ TurnInv

(* How the loop, the state, the partner and the last message hang together:
   there is a partner exactly during a session, and each step finds the state
   and the message it was left with. *)
InSession == pc \in {"saving", "keyed", "sent", "complete"} \/ (pc = "read" /\ state # "Idle")

SessionInv ==
  /\ IF InSession THEN partner \in Stations ELSE partner = NoStation
  /\ pc = "read" => state \in {"Idle", "WaitReport", "WaitRr73"}
  /\ pc = "saving" => state = "Idle"
  /\ pc \in {"keyed", "sent"} => state = FirstState(lastTx)
  /\ pc = "complete" => state = "QsoComplete" /\ lastTx = "closing"

(* An armed target names a station; a held reply is of one kind or is none. *)
AimInv == /\ jump = NoTarget \/ jump.who \in Stations
          /\ pending = NoTarget \/ pending.who \in Stations
          /\ deferred.kind = "none" => deferred = NoReply
          /\ deferred.kind = "Answer" => deferred.to \in Stations

(* The inductive invariant. *)
IInv == TypeOK /\ SessionInv /\ AimInv /\ HeldReplyBelongs /\ RetryRepeatsTheRightMessage

(* What the answerer promises its user (Contact): a station is logged once per
   session and only after it closed; a session cancelled while it waits or
   transmits is never advanced or logged, only released. *)
ContactPhase ==
  IF partner = NoStation THEN "free"
  ELSE IF pc = "complete" THEN "logged"
  ELSE IF lastTx = "closing" THEN "closing"
  ELSE IF lastTx = "report" THEN "reporting"
  ELSE "calling"

ContactDoomed == cancelled /\ (pc = "keyed" \/ (pc = "read" /\ state # "Idle"))

C == INSTANCE Contact WITH phase <- ContactPhase, who <- partner,
                           doomed <- ContactDoomed, log <- log

Refines == C!Spec

(* The comment of AbortAsync: "Abort must be an unconditional hard stop:
   nothing may re-engage after it until the operator explicitly requests it
   again." *)
HardStop == [][pc # "keyed" /\ pc' = "keyed" => stopped # "done"]_vars

(* The A-01 guard: a silent cycle that was our own TX window is not counted as
   a missed response. *)
OwnWindowNotCounted ==
  [][retry' > retry => Head(dq).cycle # keyedAt]_vars

-----------------------------------------------------------------------------
(* Fairness: a handler that can go on does, a cancelled wait returns, and an
   armed timer fires.  Nothing else is assumed: not that a batch ever arrives,
   not that a clip ever finishes playing, not that the clock moves on. *)
Fairness ==
  /\ WF_vars(ReadCancelled) /\ WF_vars(TxCancelled) /\ WF_vars(WatchdogFire)
  /\ WF_vars(SaveDone) /\ WF_vars(Settle) /\ WF_vars(Complete)
  /\ WF_vars(Finish) /\ WF_vars(AbortDone)

FairSpec == Spec /\ Fairness

(* Every session ends, whatever the partner does and with unlimited retries:
   the watchdog is the backstop, and it survives every token swap. *)
SessionsEnd == partner # NoStation ~> partner = NoStation
=============================================================================
