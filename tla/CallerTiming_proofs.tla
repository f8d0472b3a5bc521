------------------------- MODULE CallerTiming_proofs -------------------------
(***************************************************************************)
(* Proofs about Caller that relate it to the clock: on a prompt machine it *)
(* transmits to its partner only in the slots the partner listens in.      *)
(* And, on any machine, that a graceful stop wakes the session it is to    *)
(* end.                                                                    *)
(*                                                                         *)
(* SlotInv is inductive when Timely.  QueueInv is about the queue, WakeInv *)
(* about the wakeups, and Turns about what a handler can disturb.  The     *)
(* batch read next is in order (InOrder); NewestRead moves on with it.     *)
(***************************************************************************)
EXTENDS Caller_proofs

(* A step that leaves the flag, the wakeup and its writer alone, and begins no
   session; or that clears the flag. *)
LEMMA StopKept ==
  ASSUME StopWakes,
         \/ /\ UNCHANGED <<stop, wk>> /\ ("stopWake" \in http => "stopWake" \in http')
            /\ state = "Idle" => state' = "Idle"
            /\ pc \in {"ending", "aborting"} =>
                 pc' \in {"ending", "aborting"} \/ state' = "Idle"
         \/ ~stop'
  PROVE  StopWakes'
BY DEF StopWakes

LEMMA HandleKeepsStop ==
  ASSUME NEW b, Handle(b)
  PROVE  ~stop'
<1>0. ~stop BY DEF Handle
<1>1. ASSUME NEW st, SafeAbort(st) PROVE ~stop' BY <1>1 DEF SafeAbort
<1>2. ASSUME NEW d, Hold(d) PROVE ~stop' BY <1>0, <1>2 DEF Hold, sigVars
<1>3. ASSUME NEW msg, NEW st, Send(msg, st) PROVE ~stop'
  BY <1>0, <1>3 DEF Send, sigVars
<1>4. ASSUME NEW s, NEW how, NEW next, Begin(b, s, how, next) PROVE ~stop'
  BY <1>0, <1>4 DEF Begin, sigVars
<1>5. CASE HandleIdle BY <1>0, <1>2, <1>5 DEF HandleIdle
<1>6. ASSUME SkipOwnCycle \/ RetryOrAbort PROVE ~stop'
  BY <1>0, <1>1, <1>6 DEF SkipOwnCycle, RetryOrAbort, sigVars
<1>7. CASE HandleWaitAnswer(b)
  BY <1>2, <1>4, <1>6, <1>7 DEF HandleWaitAnswer, AnswerPick, HearAnswer
<1>8. CASE HandleWaitRr73(b)
  BY <1>1, <1>2, <1>3, <1>6, <1>8 DEF HandleWaitRr73, HearRoger, HearElsewhere, SendHeld
<1>9. CASE LateWaitAnswer(b) BY <1>2, <1>4, <1>9 DEF LateWaitAnswer
<1>10. CASE LateWaitRr73(b)
  BY <1>0, <1>1, <1>2, <1>3, <1>10 DEF LateWaitRr73, LateRoger, HearElsewhere, sigVars
<1> QED BY <1>2, <1>5, <1>7, <1>8, <1>9, <1>10 DEF Handle

LEMMA NextStop ==
  ASSUME IInv, StopWakes, [Next]_vars
  PROVE  StopWakes'
<1>1. ASSUME NEW st, SafeAbort(st) PROVE StopWakes' BY <1>1, StopKept DEF SafeAbort
<1>2. CASE ReadDecode \/ ReadWakeup
  <2>1. CASE StopNow BY <1>1, <2>1 DEF StopNow
  <2>2. ASSUME NEW b, Handle(b) PROVE StopWakes'
    <3>1. ~stop' BY <2>2, HandleKeepsStop
    <3> QED BY <3>1, StopKept
  <2> QED BY <1>2, <2>1, <2>2 DEF ReadDecode, ReadWakeup
<1>3. CASE ReadCancelled \/ TxCancelled \/ PttFault \/ Finish
  BY <1>1, <1>3 DEF ReadCancelled, TxCancelled, PttFault, Finish, GiveUp
<1>4. CASE SaveDone
  <2>1. CASE SafeAbort("TxReport") BY <1>1, <2>1
  <2>2. CASE Transmit("TxReport") /\ UNCHANGED <<partner, skip, deferred, pickVars, sigVars>>
    <3>1. pc = "saving" /\ state # "Idle" BY <1>4 DEF SaveDone, IInv, SessionInv
    <3> QED BY <1>4, <2>2, <3>1, StopKept DEF SaveDone, sigVars, askVars
  <2> QED BY <1>4, <2>1, <2>2 DEF SaveDone
<1>5. CASE HoldReport
  <2>1. pc = "holding" /\ state # "Idle" BY <1>5 DEF HoldReport, IInv, SessionInv
  <2> QED BY <1>5, <2>1, StopKept DEF HoldReport, sigVars, askVars
<1>6. CASE TxEnd \/ Settle \/ Complete
  <2>1. pc \in {"keyed", "sent"} /\ state # "Idle"
    BY <1>6 DEF TxEnd, Settle, Complete, IInv, SessionInv
  <2> QED BY <1>6, <2>1, StopKept DEF TxEnd, Settle, Complete, sigVars, askVars
<1>7. CASE Renew \/ AbortDone BY <1>7 DEF Renew, AbortDone, StopWakes
<1>8. ASSUME NEW c \in Nat, wk' = Append(wk, c) PROVE StopWakes'
  <2>1. wk \in Seq(Nat) BY DEF IInv, TypeOK, FeedType
  <2>2. wk' # <<>> BY <1>8, <2>1, AppendProperties
  <2> QED BY <2>2 DEF StopWakes
<1>9. slot - 1 \in Nat BY DEF IInv, TypeOK, ClockType
<1>10. CASE Operator
  <2>1. CASE SelectRequest \/ ExternalRequest
    BY <1>8, <1>9, <2>1 DEF SelectRequest, ExternalRequest, SelectResponder
  <2>2. CASE CallCq \/ SetArmed \/ AbortRequest \/ EngageRequest \/ GracefulStop
    BY <2>2, StopKept
       DEF CallCq, SetArmed, AbortRequest, EngageRequest, AbortAsync, GracefulStop, sigVars,
           talkVars
  <2> QED BY <1>10, <2>1, <2>2 DEF Operator
<1>11. CASE HttpStop
  <2>1. CASE "stopWake" \in http' BY <2>1 DEF StopWakes
  <2>2. CASE wk' = Append(wk, slot - 1) BY <1>8, <1>9, <2>2
  <2> QED BY <1>11, <2>1, <2>2 DEF HttpStop
<1>12. CASE HttpCancel \/ HttpDisarm \/ HttpAway
  BY <1>12, StopKept DEF HttpCancel, HttpDisarm, HttpAway, sigVars, talkVars
<1>13. CASE Tick \/ PublishFirst \/ PublishSecond \/ WatchdogFire \/ Done \/ UNCHANGED vars
  BY <1>13, StopKept
     DEF Tick, PublishFirst, PublishSecond, WatchdogFire, Done, vars, sigVars, talkVars, askVars
<1> QED BY <1>2, <1>3, <1>4, <1>5, <1>6, <1>7, <1>10, <1>11, <1>12, <1>13
        DEF Next, Service, Http

(* The loop is never left asleep in a session that a graceful stop is to end, on
   any machine and for every mix of requests, although the stop's two steps and
   the loop's end of a session interleave. *)
THEOREM StopAlwaysWakes == Spec => []StopWakes
<1>1. Init => StopWakes BY DEF Init, StopWakes
<1>2. IInv /\ StopWakes /\ [Next]_vars => StopWakes' BY NextStop
<1> QED BY <1>1, <1>2, Inductive, PTL DEF Spec

-----------------------------------------------------------------------------
(* Slots *)

Turns == PhaseInv /\ HeldInv /\ TurnInv

LEMMA QueueTypes ==
  ASSUME IInv
  PROVE  /\ slot \in Nat \ {0} /\ pumped.cycle \in Nat /\ transition \in Nat
         /\ deferred \in Reply /\ deferred.cycle \in Nat
         /\ dq \in Seq(Batch) /\ Len(dq) \in Nat
         /\ \A i \in 1..Len(dq) : dq[i] \in Batch /\ dq[i].cycle \in Nat
<1>1. /\ slot \in Nat \ {0} /\ pumped.cycle \in Nat /\ transition \in Nat
      /\ deferred \in Reply /\ dq \in Seq(Batch) /\ Len(dq) \in Nat
  BY DEF IInv, TypeOK, ClockType, HeldType, FeedType
<1>2. deferred.cycle \in Nat BY <1>1 DEF Reply
<1>3. \A i \in 1..Len(dq) : dq[i] \in Batch BY <1>1
<1>4. \A b \in Batch : b.cycle \in Nat BY DEF Batch
<1> QED BY <1>1, <1>2, <1>3, <1>4

(* The parities of neighbouring cycles differ, those two apart agree. *)
LEMMA Parities ==
  ASSUME NEW n \in Nat
  PROVE  n % 2 \in {0, 1} /\ (n + 1) % 2 # n % 2 /\ (n + 2) % 2 = n % 2
OBVIOUS

(* A station heard in the cycle before this slot listens in this slot. *)
LEMMA Listens ==
  ASSUME slot \in Nat \ {0}, NEW b \in Batch, Heard(b), NEW s \in Stations,
         b.heard[s] # "silence", slot = b.cycle + 1
  PROVE  slot % 2 # Parity[s]
<1>1. b.cycle \in Nat BY DEF Batch
<1>2. b.cycle % 2 = Parity[s] BY DEF Heard
<1> QED BY <1>1, <1>2, Parities

(* So does the partner of a held reply that is due. *)
LEMMA DueListens ==
  ASSUME IInv, HeldInv, deferred # NoReply, NEW b \in Batch, Due(b), slot = b.cycle + 1
  PROVE  slot % 2 # Parity[partner]
<1>1. b.cycle \in Nat /\ deferred.cycle \in Nat BY QueueTypes DEF Batch
<1>2. (b.cycle + 1) % 2 = (deferred.cycle + 1) % 2 BY DEF Due, NextPhase
<1>3. b.cycle % 2 = deferred.cycle % 2 BY <1>1, <1>2
<1>4. b.cycle % 2 = Parity[partner] BY <1>3 DEF HeldInv
<1> QED BY <1>1, <1>4, Parities

-----------------------------------------------------------------------------
(* How a step ends, and the turns *)

(* A pick is left armed or cleared. *)
LEMMA PhaseKept ==
  ASSUME PhaseInv, PickKept
  PROVE  PhaseInv'
BY DEF PhaseInv, PickKept

(* A transmission that follows the newest cycle, with nothing held. *)
LEMMA OnAir ==
  ASSUME PhaseInv', slot' = slot, NewestRead' = slot - 1, deferred' = NoReply,
         pc' \in {"saving", "keyed", "sent"}, slot % 2 # Parity[partner']
  PROVE  Turns'
BY DEF Turns, HeldInv, TurnInv

(* Nobody is being worked. *)
LEMMA Free ==
  ASSUME PhaseInv', partner' = NoStation, deferred' = NoReply, pc' # "holding"
  PROVE  Turns'
BY DEF Turns, HeldInv, TurnInv

LEMMA Released ==
  ASSUME NEW st, SafeAbort(st)
  PROVE  Turns'
<1>1. PhaseInv' BY DEF SafeAbort, PhaseInv
<1> QED BY <1>1, Free DEF SafeAbort

(* A reply held while the loop waits. *)
LEMMA Holding ==
  ASSUME PhaseInv', pc' = "read", deferred' # NoReply,
         deferred'.cycle % 2 = Parity[partner']
  PROVE  Turns'
BY DEF Turns, HeldInv, TurnInv

(* The session goes on as it was. *)
LEMMA GoesOn ==
  ASSUME Turns, PickKept, slot' = slot, NewestRead' = NewestRead,
         UNCHANGED <<talkVars, deferred, transition, by>>
  PROVE  Turns'
<1>1. PhaseInv' BY PhaseKept DEF Turns
<1>2. HeldInv' BY DEF Turns, HeldInv, talkVars, NoReply
<1>3. TurnInv' BY DEF Turns, TurnInv, talkVars, NoReply
<1> QED BY <1>1, <1>2, <1>3 DEF Turns

-----------------------------------------------------------------------------
(* Handling a batch read in order keeps the turns. *)

(* What a batch read in order is: batch 1 of the cycle that just ended and that
   follows the newest read, or a supplementary batch of the newest. *)
InOrder(b) == /\ b \in Batch /\ Heard(b) /\ NewestRead \in Nat
              /\ IF b.late THEN b.cycle = NewestRead
                 ELSE b.cycle = NewestRead + 1 /\ b.cycle = slot - 1

LEMMA HandleIdleTurns ==
  ASSUME IInv, Turns, pc = "read", state = "Idle", HandleIdle
  PROVE  Turns'
<1>1. partner = NoStation /\ deferred = NoReply
  BY DEF IInv, SessionInv, Working, HeldReplyBelongs
<1>2. PhaseInv' BY PhaseKept DEF HandleIdle, Turns, PickKept, pickVars
<1>3. /\ partner' = NoStation /\ deferred' = NoReply /\ pc' # "holding"
  BY <1>1 DEF HandleIdle, Hold, Transmit, talkVars
<1> QED BY <1>2, <1>3, Free

(* A pick fires in a slot of its phase, whether a batch or a wakeup looks at it. *)
LEMMA AnswerPickTurns ==
  ASSUME IInv, Turns, pc = "read", state = "WaitAnswer", slot' = slot,
         NEW b, b.cycle \in Nat, b.cycle = slot - 1, AnswerPick(b)
  PROVE  Turns'
<1>0. partner = NoStation /\ deferred = NoReply /\ slot = b.cycle + 1
  BY QueueTypes DEF IInv, SessionInv, Working, HeldReplyBelongs
<1>1. PhaseInv' BY PhaseKept DEF AnswerPick, Turns, PickKept
<1>2. CASE Hold(deferred)
  BY <1>0, <1>1, <1>2, Free DEF Hold, talkVars
<1>3. CASE NextPhase(b.cycle) = pending.phase /\ Begin(b, pending.who, pending.via, "saving")
  <2>1. pending # NoPick BY DEF AnswerPick, Picked
  <2>2. pending.via = "select" => slot % 2 # Parity[pending.who]
    BY <1>0, <1>3, <2>1 DEF Turns, PhaseInv, NextPhase
  <2>3. by' # "batch"
    BY <1>3 DEF Begin, IInv, TypeOK, PickType, Pick
  <2> QED BY <1>1, <1>3, <2>2, <2>3 DEF Begin, Turns, HeldInv, TurnInv
<1> QED BY <1>2, <1>3 DEF AnswerPick

LEMMA HandleWaitAnswerTurns ==
  ASSUME IInv, Turns, pc = "read", state = "WaitAnswer", slot' = slot,
         NEW b, InOrder(b), ~b.late, HandleWaitAnswer(b), NewestRead' = b.cycle
  PROVE  Turns'
<1>0. /\ partner = NoStation /\ deferred = NoReply /\ slot \in Nat \ {0}
      /\ b \in Batch /\ b.cycle \in Nat /\ slot = b.cycle + 1 /\ Heard(b)
  BY QueueTypes DEF IInv, SessionInv, Working, HeldReplyBelongs, InOrder, Batch
<1>1. CASE AnswerPick(b) BY <1>0, <1>1, AnswerPickTurns
<1>2. CASE pending' = NoPick
  <2>1. PhaseInv' BY <1>2, PhaseKept DEF Turns, PickKept
  <2>2. ASSUME partner' = NoStation, deferred' = NoReply, pc' # "holding" PROVE Turns'
    BY <2>1, <2>2, Free
  <2>3. CASE HearAnswer(b)
    <3>1. ASSUME NEW s \in Answering(b), Begin(b, s, "batch", "saving") PROVE Turns'
      <4>1. s \in Stations /\ b.heard[s] # "silence" BY DEF Answering
      <4>2. slot % 2 # Parity[s] BY <1>0, <4>1, Listens
      <4> QED BY <1>0, <2>1, <3>1, <4>2, OnAir DEF Begin
    <3> QED BY <1>0, <2>2, <2>3, <3>1 DEF HearAnswer, Hold, talkVars
  <2>4. CASE SkipOwnCycle BY <1>0, <2>2, <2>4 DEF SkipOwnCycle
  <2>5. CASE RetryOrAbort BY <1>0, <2>2, <2>5, Released DEF RetryOrAbort, Transmit
  <2> QED BY <1>1, <2>3, <2>4, <2>5 DEF HandleWaitAnswer
<1> QED BY <1>1, <1>2 DEF HandleWaitAnswer

(* Batch 1 in a session: what is sent goes out in the partner's listening slot,
   a retry because the skip guard let pass the cycle of our own slot. *)
LEMMA HandleWaitRr73Turns ==
  ASSUME IInv, Turns, pc = "read", state = "WaitRr73", slot' = slot,
         NEW b, InOrder(b), ~b.late, HandleWaitRr73(b), NewestRead' = b.cycle
  PROVE  Turns'
<1>0. /\ partner \in Stations /\ Parity[partner] \in {0, 1} /\ slot \in Nat \ {0}
      /\ b \in Batch /\ b.cycle \in Nat /\ slot = b.cycle + 1 /\ Heard(b)
      /\ b.cycle = NewestRead + 1 /\ NewestRead \in Nat /\ partner # NoStation
  BY QueueTypes, ParityAssumption, NoStationAssumption
     DEF IInv, SessionInv, Working, InOrder, Batch
<1>1. ASSUME NEW msg, NEW st, Send(msg, st), deferred' = NoReply, slot % 2 # Parity[partner]
      PROVE  Turns'
  <2>1. PhaseInv' BY <1>1, PhaseKept DEF Send, Turns, PickKept, pickVars
  <2> QED BY <1>0, <1>1, <2>1, OnAir DEF Send, Transmit
<1>2. CASE HearRoger(b)
  <2>1. b.heard[partner] # "silence" BY <1>0, <1>2 DEF HearRoger, PartnerSays
  <2>2. slot % 2 # Parity[partner] BY <1>0, <2>1, Listens
  <2> QED BY <1>1, <1>2, <2>2 DEF HearRoger
<1>3. CASE HearElsewhere(b) BY <1>3, Released DEF HearElsewhere
<1>4. CASE SendHeld(b)
  <2>1. CASE ~Due(b) /\ Hold(deferred) /\ UNCHANGED pickVars
    <3>1. PhaseInv' BY <2>1, PhaseKept DEF Turns, PickKept, pickVars
    <3>2. deferred # NoReply /\ deferred.cycle % 2 = Parity[partner]
      BY <1>4 DEF SendHeld, Turns, HeldInv
    <3> QED BY <2>1, <3>1, <3>2, Holding DEF Hold, talkVars
  <2>2. CASE Due(b) /\ deferred' = NoReply /\ \E msg, st : Send(msg, st)
    <3>1. slot % 2 # Parity[partner] BY <1>0, <1>4, <2>2, DueListens DEF Turns, SendHeld
    <3> QED BY <1>1, <2>2, <3>1
  <2> QED BY <1>4, <2>1, <2>2 DEF SendHeld
<1>5. CASE SkipOwnCycle /\ UNCHANGED pending
  <2>1. PhaseInv' BY <1>5, PhaseKept DEF Turns, PickKept
  <2>2. deferred = NoReply /\ skip /\ ~skip' BY <1>5 DEF SkipOwnCycle
  <2>3. by = "batch" => NewestRead % 2 = Parity[partner]
    BY <1>0, <2>2 DEF Turns, TurnInv
  <2>4. by = "batch" => NewestRead' % 2 # Parity[partner]
    BY <1>0, <2>3, Parities
  <2> QED BY <1>5, <2>1, <2>2, <2>4 DEF SkipOwnCycle, histVars, Turns, HeldInv, TurnInv
<1>6. CASE RetryOrAbort /\ pending' = IF pc' = "ending" THEN NoPick ELSE pending
  <2>1. CASE \E st : SafeAbort(st) BY <2>1, Released
  <2>2. CASE /\ Transmit("TxReport") /\ again' = TRUE
             /\ UNCHANGED <<partner, skip, deferred, by>>
    <3>1. PhaseInv' BY <1>6, PhaseKept DEF Turns, PickKept
    <3>2. deferred' = NoReply /\ pc' \in {"keyed", "sent"} BY <1>6, <2>2 DEF RetryOrAbort, Transmit
    <3>3. by = "batch" => NewestRead % 2 # Parity[partner]
      BY <1>0, <1>6 DEF RetryOrAbort, Turns, TurnInv
    <3>4. by = "batch" => slot % 2 # Parity[partner]
      <4>1. slot = NewestRead + 2 BY <1>0
      <4> QED BY <1>0, <3>3, <4>1, Parities
    <3> QED BY <1>0, <2>2, <3>1, <3>2, <3>4 DEF Turns, HeldInv, TurnInv
  <2> QED BY <1>6, <2>1, <2>2 DEF RetryOrAbort, histVars
<1> QED BY <1>2, <1>3, <1>4, <1>5, <1>6 DEF HandleWaitRr73

(* A supplementary batch of the newest cycle: what can start whole goes out in the
   slot after it, what cannot is held for the parity of its sender. *)
LEMMA LateWaitAnswerTurns ==
  ASSUME IInv, Turns, pc = "read", state = "WaitAnswer", slot' = slot,
         NEW b, InOrder(b), b.late, LateWaitAnswer(b), NewestRead' = b.cycle
  PROVE  Turns'
<1>0. /\ partner = NoStation /\ deferred = NoReply /\ slot \in Nat \ {0}
      /\ b \in Batch /\ b.cycle \in Nat /\ Heard(b)
  BY QueueTypes DEF IInv, SessionInv, Working, HeldReplyBelongs, InOrder, Batch
<1>1. PhaseInv' BY PhaseKept DEF LateWaitAnswer, Turns, PickKept
<1>2. CASE Hold(deferred) BY <1>0, <1>1, <1>2, Free DEF Hold, talkVars
<1>3. ASSUME NEW s \in Answering(b),
             Begin(b, s, "batch", IF CanStartWhole(b.cycle) THEN "saving" ELSE "holding")
      PROVE  Turns'
  <2>1. s \in Stations /\ b.heard[s] # "silence" BY DEF Answering
  <2>2. CASE CanStartWhole(b.cycle)
    <3>1. slot = b.cycle + 1 BY <2>2 DEF CanStartWhole
    <3>2. slot % 2 # Parity[s] BY <1>0, <2>1, <3>1, Listens
    <3> QED BY <1>0, <1>1, <1>3, <2>2, <3>1, <3>2, OnAir DEF Begin
  <2>3. CASE ~CanStartWhole(b.cycle)
    <3>1. b.cycle % 2 = Parity[s] BY <1>0, <2>1 DEF Heard
    <3> QED BY <1>1, <1>3, <2>3, <3>1 DEF Begin, Turns, HeldInv, TurnInv
  <2> QED BY <2>2, <2>3
<1> QED BY <1>2, <1>3 DEF LateWaitAnswer

LEMMA LateWaitRr73Turns ==
  ASSUME IInv, Turns, pc = "read", state = "WaitRr73", slot' = slot,
         NEW b, InOrder(b), b.late, LateWaitRr73(b), NewestRead' = b.cycle
  PROVE  Turns'
<1>0. /\ partner \in Stations /\ slot \in Nat \ {0}
      /\ b \in Batch /\ b.cycle \in Nat /\ b.cycle = NewestRead /\ Heard(b)
  BY QueueTypes DEF IInv, SessionInv, Working, InOrder, Batch
<1>1. CASE Hold(deferred) /\ UNCHANGED pickVars
  BY <1>0, <1>1, GoesOn DEF Hold, histVars, pickVars, PickKept
<1>2. CASE HearElsewhere(b) BY <1>2, Released DEF HearElsewhere
<1>3. CASE LateRoger(b)
  <2>1. b.heard[partner] # "silence" BY <1>0, <1>3 DEF LateRoger, PartnerSays
  <2>2. PhaseInv' BY <1>3, PhaseKept DEF LateRoger, Send, Turns, PickKept, pickVars
  <2>3. CASE CanStartWhole(b.cycle)
    <3>1. slot = b.cycle + 1 BY <2>3 DEF CanStartWhole
    <3>2. slot % 2 # Parity[partner] BY <1>0, <2>1, <3>1, Listens
    <3>3. /\ deferred' = NoReply /\ partner' = partner /\ pc' \in {"keyed", "sent"}
      BY <1>3, <2>3 DEF LateRoger, Send, Transmit
    <3> QED BY <1>0, <2>2, <3>1, <3>2, <3>3, OnAir
  <2>4. CASE ~CanStartWhole(b.cycle)
    <3>1. b.cycle % 2 = Parity[partner] BY <1>0, <2>1 DEF Heard
    <3>2. /\ pc' = "read" /\ deferred' # NoReply
          /\ deferred'.cycle = b.cycle /\ partner' = partner
      BY <1>3, <2>4 DEF LateRoger, NoReply
    <3> QED BY <2>2, <3>1, <3>2, Holding
  <2> QED BY <2>3, <2>4
<1> QED BY <1>1, <1>2, <1>3 DEF LateWaitRr73

(* A pending stop, or the handler of the state. *)
LEMMA BatchTurns ==
  ASSUME IInv, Turns, pc = "read", NEW b, InOrder(b), StopNow \/ Handle(b),
         slot' = slot, NewestRead' = b.cycle
  PROVE  Turns'
<1>1. CASE StopNow BY <1>1, Released DEF StopNow
<1>2. CASE b.late /\ Hold(deferred) /\ UNCHANGED pickVars
  BY <1>2, GoesOn DEF InOrder, Hold, histVars, pickVars, PickKept
<1> QED BY <1>1, <1>2, HandleIdleTurns, HandleWaitAnswerTurns, HandleWaitRr73Turns,
           LateWaitAnswerTurns, LateWaitRr73Turns DEF Handle

-----------------------------------------------------------------------------
(* The queue keeps its order. *)

(* The batch read next is in order. *)
LEMMA HeadInOrder ==
  ASSUME IInv, QueueInv, dq # <<>>
  PROVE  InOrder(Head(dq))
<1>1. 1 \in 1..Len(dq) /\ Head(dq) = dq[1] /\ dq[1] \in Batch BY QueueTypes
<1>2. Heard(dq[1]) BY <1>1 DEF QueueInv
<1>3. NewestRead \in Nat
  <2>1. ASSUME NEW i \in Firsts PROVE pumped.cycle - 1 \in Nat
    BY <2>1, QueueTypes DEF QueueInv
  <2> QED BY <2>1, QueueTypes DEF NewestRead
<1>4. CASE 1 \in Firsts
  <2>1. ~dq[1].late BY <1>4 DEF Firsts
  <2>2. dq[1].cycle = slot - 1 /\ NewestRead = dq[1].cycle - 1
    BY <1>4 DEF QueueInv, NewestRead
  <2> QED BY <1>1, <1>2, <1>3, <2>1, <2>2, QueueTypes DEF InOrder
<1>5. CASE 1 \notin Firsts
  <2>1. dq[1].late BY <1>1, <1>5 DEF Firsts
  <2>2. CASE Firsts = {}
    <3>1. dq[1].cycle = NewestRead BY <1>1, <2>2 DEF QueueInv, NewestRead
    <3> QED BY <1>1, <1>2, <1>3, <2>1, <3>1 DEF InOrder
  <2>3. CASE Firsts # {}
    <3>1. PICK i \in Firsts : TRUE BY <2>3
    <3>2. i \in 1..Len(dq) /\ 1 < i BY <1>5, <3>1 DEF Firsts
    <3>3. dq[1].cycle = slot - 2 /\ pumped.cycle = slot - 1
      BY <1>1, <3>1, <3>2 DEF QueueInv
    <3>4. dq[1].cycle = NewestRead BY <2>3, <3>3, QueueTypes DEF NewestRead
    <3> QED BY <1>1, <1>2, <1>3, <2>1, <3>4 DEF InOrder
  <2> QED BY <2>2, <2>3
<1> QED BY <1>4, <1>5

(* Reading it leaves the rest in order, and it is the newest cycle then. *)
LEMMA QueueRead ==
  ASSUME IInv, QueueInv, dq # <<>>, dq' = Tail(dq), UNCHANGED <<slot, pumped>>
  PROVE  QueueInv' /\ NewestRead' = Head(dq).cycle
<1>1. /\ Len(dq') \in Nat /\ Len(dq) = Len(dq') + 1 /\ Head(dq) = dq[1]
      /\ \A i \in 1..Len(dq') : i + 1 \in 1..Len(dq) /\ dq'[i] = dq[i + 1]
  BY QueueTypes, HeadTailProperties
<1>2. \A i \in 1..Len(dq') : Heard(dq'[i]) BY <1>1 DEF QueueInv
<1>3. \A i : i \in Firsts' => i \in 1..Len(dq') /\ i + 1 \in Firsts
  BY <1>1 DEF Firsts
<1>4. \A i \in Firsts' :
        /\ slot > 1 /\ pumped.cycle = slot - 1 /\ dq'[i].cycle = slot - 1
        /\ dq[1].cycle = slot - 2
        /\ \A j \in 1..Len(dq') :
             /\ j < i => dq'[j].late /\ dq'[j].cycle = slot - 2
             /\ j > i => dq'[j].late /\ dq'[j].cycle = slot - 1
  <2> SUFFICES ASSUME NEW i \in Firsts'
               PROVE  /\ slot > 1 /\ pumped.cycle = slot - 1 /\ dq'[i].cycle = slot - 1
                      /\ dq[1].cycle = slot - 2
                      /\ \A j \in 1..Len(dq') :
                           /\ j < i => dq'[j].late /\ dq'[j].cycle = slot - 2
                           /\ j > i => dq'[j].late /\ dq'[j].cycle = slot - 1
    OBVIOUS
  <2>1. i \in 1..Len(dq') /\ i + 1 \in Firsts BY <1>3
  <2>2. /\ slot > 1 /\ pumped.cycle = slot - 1 /\ dq[i + 1].cycle = slot - 1
        /\ \A j \in 1..Len(dq) :
             /\ j < i + 1 => dq[j].late /\ dq[j].cycle = slot - 2
             /\ j > i + 1 => dq[j].late /\ dq[j].cycle = slot - 1
    BY <2>1 DEF QueueInv
  <2>3. dq[1].cycle = slot - 2 BY <1>1, <2>1, <2>2
  <2>4. ASSUME NEW j \in 1..Len(dq')
        PROVE  /\ j < i => dq'[j].late /\ dq'[j].cycle = slot - 2
               /\ j > i => dq'[j].late /\ dq'[j].cycle = slot - 1
    BY <1>1, <2>1, <2>2
  <2> QED BY <1>1, <2>1, <2>2, <2>3, <2>4
<1>5. ASSUME Firsts' = {}
      PROVE  /\ dq[1].cycle = pumped.cycle
             /\ \A i \in 1..Len(dq') : dq'[i].cycle = pumped.cycle
  <2>0. 1 \in 1..Len(dq) BY <1>1
  <2>1. CASE Firsts = {} BY <1>1, <2>0, <2>1 DEF QueueInv
  <2>2. CASE Firsts # {}
    <3>1. PICK i \in Firsts : TRUE BY <2>2
    <3>2. i \in 1..Len(dq) /\ ~dq[i].late BY <3>1 DEF Firsts
    <3>3. i = 1
      <4>1. CASE i > 1
        <5>1. i - 1 \in 1..Len(dq') /\ dq'[i - 1] = dq[i] BY <1>1, <3>2, <4>1
        <5>2. i - 1 \in Firsts' BY <3>2, <5>1 DEF Firsts
        <5> QED BY <1>5, <5>2
      <4> QED BY <3>2, <4>1
    <3>4. /\ pumped.cycle = slot - 1 /\ dq[1].cycle = slot - 1
          /\ \A j \in 1..Len(dq) : j > 1 => dq[j].cycle = slot - 1
      BY <3>1, <3>3 DEF QueueInv
    <3> QED BY <1>1, <3>4
  <2> QED BY <2>1, <2>2
<1>6. QueueInv' BY <1>1, <1>2, <1>4, <1>5 DEF QueueInv
<1>7. CASE Firsts' = {} BY <1>1, <1>5, <1>6, <1>7 DEF NewestRead
<1>8. CASE Firsts' # {}
  <2>1. dq[1].cycle = slot - 2 /\ pumped.cycle = slot - 1 BY <1>4, <1>8
  <2> QED BY <1>1, <1>6, <1>8, <2>1, QueueTypes DEF NewestRead
<1> QED BY <1>7, <1>8

(* A step that does not touch it. *)
LEMMA QueueKept ==
  ASSUME QueueInv, UNCHANGED <<slot, pumped, dq>>
  PROVE  QueueInv' /\ NewestRead' = NewestRead
BY DEF QueueInv, Firsts, Heard, NewestRead

(* Batch 1 of the cycle that just ended is appended behind supplementary batches
   of the cycle before. *)
LEMMA QueueFirst ==
  ASSUME IInv, QueueInv, PublishFirst
  PROVE  QueueInv' /\ NewestRead' = NewestRead
<1>0. slot' = slot BY DEF PublishFirst, clockVars
<1>1. PICK c \in (pumped.cycle + 1)..(slot - 1) : \E h \in Decodable(c, {}) :
        /\ dq' = Append(dq, [cycle |-> c, late |-> FALSE, heard |-> h])
        /\ pumped' = [cycle |-> c, late |-> 0, told |-> Told(h)]
  BY DEF PublishFirst
<1>2. PICK h \in Decodable(c, {}) :
        /\ dq' = Append(dq, [cycle |-> c, late |-> FALSE, heard |-> h])
        /\ pumped' = [cycle |-> c, late |-> 0, told |-> Told(h)]
  BY <1>1
<1>3. c \in Nat /\ c = slot - 1 /\ slot > 1 /\ pumped.cycle = slot - 2
  BY QueueTypes DEF QueueInv
<1>4. Firsts = {} BY <1>3, QueueTypes DEF QueueInv
<1>5. \A i \in 1..Len(dq) : dq[i].late /\ dq[i].cycle = slot - 2
  BY <1>3, <1>4 DEF QueueInv, Firsts
<1> DEFINE b == [cycle |-> c, late |-> FALSE, heard |-> h]
<1>6. b \in Batch BY <1>3 DEF Batch, Decodable
<1>7. Heard(b) BY DEF Heard, Decodable
<1>8. ~b.late /\ b.cycle = slot - 1 BY <1>3
<1>9. dq' = Append(dq, b) BY <1>2
<1> HIDE DEF b
<1>10. /\ Len(dq') = Len(dq) + 1 /\ dq'[Len(dq) + 1] = b
       /\ \A i \in 1..Len(dq) : dq'[i] = dq[i]
  BY <1>6, <1>9, QueueTypes, AppendProperties
<1>11. (\A i \in 1..Len(dq) : Heard(dq[i]))'
  <2>1. \A i \in 1..Len(dq) : Heard(dq'[i]) BY <1>10 DEF QueueInv
  <2>2. Heard(dq'[Len(dq) + 1]) BY <1>7, <1>10
  <2>3. \A i \in 1..Len(dq') : i \in 1..Len(dq) \/ i = Len(dq) + 1 BY <1>10, QueueTypes
  <2>4. \A i \in 1..Len(dq') : Heard(dq'[i]) BY <2>1, <2>2, <2>3
  <2> QED BY <2>4 DEF Heard
<1>12. Firsts' = {Len(dq) + 1}
  <2>1. ~dq'[Len(dq) + 1].late BY <1>8, <1>10
  <2>2. \A i \in 1..Len(dq) : dq'[i].late BY <1>5, <1>10
  <2>3. 1..Len(dq') = (1..Len(dq)) \cup {Len(dq) + 1} BY <1>10, QueueTypes
  <2> QED BY <2>1, <2>2, <2>3 DEF Firsts
<1>13. pumped'.cycle = slot - 1 BY <1>2, <1>3
<1>14. \A j \in 1..Len(dq') :
         /\ j < Len(dq) + 1 => dq'[j].late /\ dq'[j].cycle = slot - 2
         /\ j > Len(dq) + 1 => dq'[j].late /\ dq'[j].cycle = slot - 1
  <2>1. \A j \in 1..Len(dq') : j < Len(dq) + 1 => j \in 1..Len(dq) BY <1>10, QueueTypes
  <2>2. \A j \in 1..Len(dq') : ~(j > Len(dq) + 1) BY <1>10, QueueTypes
  <2> QED BY <1>5, <1>10, <2>1, <2>2
<1>15. QueueInv'
  BY <1>0, <1>3, <1>8, <1>10, <1>11, <1>12, <1>13, <1>14, QueueTypes DEF QueueInv
<1> QED BY <1>3, <1>4, <1>12, <1>13, <1>15, QueueTypes DEF NewestRead

(* A supplementary batch is appended behind batches of its cycle. *)
LEMMA QueueSecond ==
  ASSUME IInv, QueueInv, PublishSecond
  PROVE  QueueInv' /\ NewestRead' = NewestRead
<1>0. slot' = slot BY DEF PublishSecond, clockVars
<1>1. PICK h \in Decodable(pumped.cycle, pumped.told) :
        /\ dq' = Append(dq, [cycle |-> pumped.cycle, late |-> TRUE, heard |-> h])
        /\ pumped' = [pumped EXCEPT !.late = @ + 1, !.told = @ \cup Told(h)]
  BY DEF PublishSecond
<1> DEFINE b == [cycle |-> pumped.cycle, late |-> TRUE, heard |-> h]
<1>2. b \in Batch BY QueueTypes DEF Batch, Decodable
<1>3. Heard(b) BY DEF Heard, Decodable
<1>4. b.late /\ b.cycle = pumped.cycle OBVIOUS
<1>5. dq' = Append(dq, b) BY <1>1
<1>6. pumped'.cycle = pumped.cycle BY <1>1 DEF IInv, TypeOK, FeedType
<1> HIDE DEF b
<1>7. /\ Len(dq') = Len(dq) + 1 /\ dq'[Len(dq) + 1] = b
      /\ \A i \in 1..Len(dq) : dq'[i] = dq[i]
  BY <1>2, <1>5, QueueTypes, AppendProperties
<1>8. \A i \in 1..Len(dq') : Heard(dq'[i]) BY <1>3, <1>7, QueueTypes DEF QueueInv
<1>9. Firsts' = Firsts BY <1>4, <1>7, QueueTypes DEF Firsts
<1>10. \A i \in Firsts : i \in 1..Len(dq) /\ i < Len(dq) + 1 BY QueueTypes DEF Firsts
<1>11. ASSUME NEW i \in Firsts
       PROVE  /\ slot' > 1 /\ pumped'.cycle = slot' - 1 /\ dq'[i].cycle = slot' - 1
              /\ \A j \in 1..Len(dq') :
                   /\ j < i => dq'[j].late /\ dq'[j].cycle = slot' - 2
                   /\ j > i => dq'[j].late /\ dq'[j].cycle = slot' - 1
  <2>1. /\ slot > 1 /\ pumped.cycle = slot - 1 /\ dq[i].cycle = slot - 1
        /\ \A j \in 1..Len(dq) :
             /\ j < i => dq[j].late /\ dq[j].cycle = slot - 2
             /\ j > i => dq[j].late /\ dq[j].cycle = slot - 1
    BY <1>11 DEF QueueInv
  <2>2. i \in 1..Len(dq) /\ i < Len(dq) + 1 /\ dq'[i] = dq[i] BY <1>7, <1>10
  <2>3. ASSUME NEW j \in 1..Len(dq')
        PROVE  /\ j < i => dq'[j].late /\ dq'[j].cycle = slot - 2
               /\ j > i => dq'[j].late /\ dq'[j].cycle = slot - 1
    <3>1. CASE j = Len(dq) + 1 BY <1>4, <1>7, <2>1, <2>2, <3>1
    <3>2. CASE j \in 1..Len(dq) BY <1>7, <2>1, <3>2
    <3> QED BY <1>7, <3>1, <3>2, QueueTypes
  <2> QED BY <1>0, <1>6, <2>1, <2>2, <2>3
<1>12. ASSUME Firsts = {}
       PROVE  \A i \in 1..Len(dq') : dq'[i].cycle = pumped'.cycle
  BY <1>4, <1>6, <1>7, <1>12, QueueTypes DEF QueueInv
<1>13. pumped'.cycle \in {slot' - 2, slot' - 1} BY <1>0, <1>6 DEF QueueInv
<1>14. QueueInv' BY <1>6, <1>8, <1>9, <1>11, <1>12, <1>13 DEF QueueInv
<1> QED BY <1>6, <1>9, <1>14 DEF NewestRead

-----------------------------------------------------------------------------
(* SlotInv is inductive. *)

(* A step that leaves the clock and the queue alone, and the wakeups unless it
   drains them. *)
LEMMA SlotKept ==
  ASSUME SlotInv, UNCHANGED <<slot, pumped, dq>>, Turns', WakeInv'
  PROVE  SlotInv'
<1>1. QueueInv' BY QueueKept DEF SlotInv
<1> QED BY <1>1 DEF SlotInv, Turns

(* A loop that is not reading has no wakeup queued or on its way without a stop,
   unless its session is over. *)
LEMMA WakeKept ==
  ASSUME SlotInv, pc \notin {"read", "ending", "aborting"},
         wk' = wk, stop' = stop, "stopWake" \in http' => "stopWake" \in http
  PROVE  WakeInv'
BY DEF SlotInv, WakeInv, Over

(* The end of a session accounts for every wakeup. *)
LEMMA SlotReleased ==
  ASSUME SlotInv, NEW st, SafeAbort(st), UNCHANGED <<slot, pumped, dq>>
  PROVE  SlotInv'
<1>1. WakeInv' BY DEF SafeAbort, WakeInv, Over
<1> QED BY <1>1, Released, SlotKept

(* A step outside the loop that leaves the pick and the wakeups alone. *)
LEMMA WakeAside ==
  ASSUME SlotInv, UNCHANGED <<slot, dq, wk, pc, state, pending, stop>>,
         "stopWake" \in http' => "stopWake" \in http, isActive' => isActive
  PROVE  WakeInv'
BY DEF SlotInv, WakeInv, Over

LEMMA SlotAside ==
  ASSUME SlotInv, UNCHANGED <<slot, pumped, dq, talkVars, heldVars, pending, by>>, WakeInv'
  PROVE  SlotInv'
<1>1. NewestRead' = NewestRead BY QueueKept DEF SlotInv
<1>2. Turns' BY <1>1, GoesOn DEF SlotInv, Turns, heldVars, PickKept
<1> QED BY <1>2, SlotKept

(* The clock and the pump *)
LEMMA FeedSlot ==
  ASSUME Timely, IInv, SlotInv, Tick \/ PublishFirst \/ PublishSecond
  PROVE  SlotInv'
<1>0. UNCHANGED <<wk, talkVars, heldVars, pending, stop, by, http, isActive>>
  BY DEF Tick, PublishFirst, PublishSecond, pickVars, sigVars, histVars, askVars
<1>1. ASSUME PickKept, slot' = slot, NewestRead' = NewestRead PROVE Turns'
  BY <1>0, <1>1, GoesOn DEF SlotInv, Turns, heldVars
<1>2. PickKept BY <1>0 DEF PickKept
<1>3. CASE Tick
  <2>1. CASE slot' = slot
    <3>1. UNCHANGED <<pumped, dq>> BY <1>3 DEF Tick
    <3>2. WakeInv' BY <1>0, <2>1, <3>1, WakeAside DEF talkVars
    <3> QED BY <1>0, <2>1, <3>1, <3>2, SlotAside
  <2>2. CASE slot' # slot
    <3>1. /\ Quiet /\ pc # "keyed" /\ pumped.cycle = slot - 1 /\ slot' = slot + 1
          /\ UNCHANGED <<pumped, dq>>
      BY <1>3, <2>2 DEF Tick
    <3>2. pc = "read" /\ dq = <<>> /\ wk = <<>> BY <3>1 DEF Quiet
    <3>3. Firsts = {} /\ Firsts' = {} BY <3>1, <3>2 DEF Firsts
    <3>4. NewestRead' = NewestRead BY <3>1, <3>3 DEF NewestRead
    <3>5. QueueInv' BY <3>1, <3>2, <3>3, QueueTypes DEF QueueInv
    <3>6. WakeInv' BY <1>0, <3>1, <3>2 DEF WakeInv, Quiet
    <3>7. PhaseInv' BY <1>2, PhaseKept DEF SlotInv
    <3>8. HeldInv' BY <1>0 DEF SlotInv, HeldInv, talkVars, heldVars, NoReply
    <3>9. TurnInv' BY <1>0, <3>2, <3>4 DEF SlotInv, TurnInv, talkVars, heldVars, NoReply
    <3> QED BY <3>5, <3>6, <3>7, <3>8, <3>9 DEF SlotInv
  <2> QED BY <2>1, <2>2
<1>4. CASE PublishFirst \/ PublishSecond
  <2>1. slot' = slot /\ (pc = "read" => wk = <<>>)
    BY <1>4 DEF PublishFirst, PublishSecond, WakeupFirst, clockVars
  <2>2. QueueInv' /\ NewestRead' = NewestRead
    BY <1>4, QueueFirst, QueueSecond DEF SlotInv
  <2>3. Turns' BY <1>1, <1>2, <2>1, <2>2
  <2>4. WakeInv' BY <1>0, <2>1 DEF SlotInv, WakeInv, Over, talkVars
  <2> QED BY <2>2, <2>3, <2>4 DEF SlotInv, Turns
<1> QED BY <1>3, <1>4

(* A caller that is not in charge looks at nothing. *)
LEMMA HandleAtRest ==
  ASSUME NEW b, Handle(b), pc = "read", state = "Idle", ~isActive
  PROVE  Hold(deferred) /\ UNCHANGED pickVars
BY DEF Handle, HandleIdle

(* A batch that is read is in order; a wakeup is that of a pick, or a stop's. *)
LEMMA ReadSlot ==
  ASSUME IInv, SlotInv, ReadDecode \/ ReadWakeup
  PROVE  SlotInv'
<1>0. Turns /\ slot \in Nat \ {0} BY QueueTypes DEF SlotInv, Turns
<1>1. ASSUME SafeAbort(state) PROVE WakeInv' BY <1>1 DEF SafeAbort, WakeInv, Over
<1>2. ASSUME NEW b, Handle(b), pc = "read", state = "Idle", ~isActive, UNCHANGED isActive
      PROVE  WakeInv'
  <2>1. pc' = "read" /\ state' = "Idle" /\ ~isActive'
    BY <1>2, HandleAtRest DEF Hold, talkVars
  <2> QED BY <2>1 DEF WakeInv, Over
<1>3. ASSUME pc = "read", ~stop, ~Over, wk' = <<>>, UNCHANGED http PROVE WakeInv'
  BY <1>3 DEF SlotInv, WakeInv
<1>4. CASE ReadDecode
  <2>1. /\ pc = "read" /\ dq # <<>> /\ dq' = Tail(dq) /\ UNCHANGED <<slot, pumped>>
        /\ (StopNow \/ Handle(Head(dq))) /\ UNCHANGED <<wk, http, isActive>>
    BY <1>4 DEF ReadDecode, clockVars, askVars
  <2>2. InOrder(Head(dq)) BY <2>1, HeadInOrder DEF SlotInv
  <2>3. QueueInv' /\ NewestRead' = Head(dq).cycle BY <2>1, QueueRead DEF SlotInv
  <2>4. Turns' BY <1>0, <1>4, <2>1, <2>2, <2>3, BatchTurns DEF ReadDecode
  <2>5. WakeInv'
    <3>1. CASE StopNow BY <1>1, <3>1 DEF StopNow
    <3>2. CASE Handle(Head(dq)) /\ Over BY <1>2, <2>1, <3>2 DEF Over
    <3>3. CASE Handle(Head(dq)) /\ ~Over
      <4>1. wk = <<>> /\ ~stop BY <2>1, <3>3 DEF Handle, SlotInv, WakeInv
      <4> QED BY <1>3, <2>1, <3>3, <4>1
    <3> QED BY <2>1, <3>1, <3>2, <3>3
  <2> QED BY <2>3, <2>4, <2>5 DEF SlotInv, Turns
<1>5. CASE ReadWakeup
  <2> DEFINE b == [cycle |-> Head(wk), late |-> FALSE, heard |-> Silence]
  <2>1. /\ pc = "read" /\ wk # <<>> /\ wk' = Tail(wk) /\ UNCHANGED <<slot, pumped, dq>>
        /\ (StopNow \/ Handle(b)) /\ UNCHANGED <<http, isActive>>
    BY <1>5 DEF ReadWakeup, clockVars, askVars
  <2>2. CASE StopNow BY <2>1, <2>2, SlotReleased DEF StopNow
  <2>3. CASE Handle(b) /\ Over
    <3>1. state = "Idle" /\ ~isActive BY <2>1, <2>3 DEF Over
    <3>2. WakeInv' BY <1>2, <2>1, <2>3, <3>1
    <3>3. NewestRead' = NewestRead BY <2>1, QueueKept DEF SlotInv
    <3>4. Hold(deferred) /\ UNCHANGED pickVars BY <2>1, <2>3, <3>1, HandleAtRest
    <3>5. Turns'
      BY <1>0, <2>1, <3>3, <3>4, GoesOn DEF Hold, pickVars, histVars, PickKept
    <3> QED BY <2>1, <3>2, <3>5, SlotKept
  <2>4. CASE Handle(b) /\ ~Over
    <3>1. /\ state = "WaitAnswer" /\ wk = <<slot - 1>> /\ ~stop
          /\ pending # NoPick /\ pending.at = slot
      BY <2>1, <2>4 DEF Handle, SlotInv, WakeInv
    <3>2. Head(wk) = slot - 1 /\ Tail(wk) = <<>> BY <3>1
    <3>3. b.cycle = slot - 1 /\ b.cycle \in Nat BY <1>0, <3>2
    <3>4. Picked BY <1>0, <3>1, BoundAssumption DEF Picked, Expired
    <3>5. HandleWaitAnswer(b) BY <2>4, <3>1 DEF Handle
    <3>6. AnswerPick(b) BY <3>4, <3>5 DEF HandleWaitAnswer
    <3> HIDE DEF b
    <3>7. Turns' BY <1>0, <2>1, <3>1, <3>3, <3>6, AnswerPickTurns
    <3>8. WakeInv' BY <1>3, <2>1, <2>4, <3>1, <3>2
    <3> QED BY <2>1, <3>7, <3>8, SlotKept
  <2> QED BY <2>1, <2>2, <2>3, <2>4
<1> QED BY <1>4, <1>5

(* The other steps of the loop *)
LEMMA ServiceSlot ==
  ASSUME IInv, SlotInv, Service
  PROVE  SlotInv'
<1>0. Turns /\ slot \in Nat \ {0} BY QueueTypes DEF SlotInv, Turns
<1>1. CASE ReadCancelled \/ TxCancelled \/ PttFault \/ Finish
  BY <1>1, SlotReleased DEF ReadCancelled, TxCancelled, PttFault, Finish, GiveUp, clockVars
<1>2. ASSUME pc # "read", UNCHANGED <<slot, pumped, dq, pending>>,
             NewestRead' = NewestRead => HeldInv' /\ TurnInv',
             \/ pc \notin {"ending", "aborting"} /\ UNCHANGED <<wk, stop, http>>
             \/ WakeInv'
      PROVE  SlotInv'
  <2>1. NewestRead' = NewestRead BY <1>2, QueueKept DEF SlotInv
  <2>2. PhaseInv' BY <1>2, PhaseKept DEF SlotInv, PickKept
  <2>3. Turns' BY <1>2, <2>1, <2>2 DEF Turns
  <2>4. WakeInv' BY <1>2, WakeKept
  <2> QED BY <1>2, <2>3, <2>4, SlotKept
<1>3. deferred # NoReply => pc = "read" BY DEF IInv, HeldReplyBelongs
<1> USE DEF clockVars, heldVars, pickVars, sigVars, histVars, askVars
<1>4. CASE SaveDone
  <2>1. CASE SafeAbort("TxReport") BY <1>4, <2>1, SlotReleased DEF SaveDone
  <2>2. CASE Transmit("TxReport") /\ UNCHANGED <<partner, skip, deferred, pickVars, sigVars>>
    <3>1. wk' = wk /\ deferred = NoReply /\ deferred' = NoReply
          /\ pc = "saving" /\ pc' \in {"keyed", "sent"}
      BY <1>3, <1>4, <2>2 DEF SaveDone, Transmit
    <3>2. UNCHANGED <<slot, pumped, dq, by, again, http>> BY <1>4 DEF SaveDone
    <3>3. HeldInv' BY <3>1 DEF HeldInv
    <3>4. NewestRead' = NewestRead => TurnInv'
      BY <1>0, <2>2, <3>1, <3>2 DEF Turns, TurnInv
    <3> QED BY <1>2, <2>2, <3>1, <3>2, <3>3, <3>4
  <2> QED BY <1>4, <2>1, <2>2 DEF SaveDone
<1>5. CASE HoldReport
  <2>1. /\ pc = "holding" /\ pc' = "read" /\ deferred'.cycle = transition
        /\ deferred' # NoReply /\ partner' = partner
    BY <1>5 DEF HoldReport, NoReply
  <2>2. HeldInv' /\ TurnInv' BY <1>0, <2>1 DEF Turns, HeldInv, TurnInv
  <2> QED BY <1>2, <1>5, <2>2 DEF HoldReport
<1>6. CASE TxEnd
  <2>1. deferred = NoReply BY <1>3, <1>6 DEF TxEnd
  <2>2. HeldInv' BY <1>6, <2>1 DEF TxEnd, HeldInv
  <2>3. NewestRead' = NewestRead => TurnInv' BY <1>0, <1>6 DEF TxEnd, Turns, TurnInv
  <2> QED BY <1>2, <1>6, <2>2, <2>3 DEF TxEnd
<1>7. CASE Settle
  <2>1. deferred = NoReply BY <1>3, <1>7 DEF Settle
  <2>2. HeldInv' BY <1>7, <2>1 DEF Settle, HeldInv
  <2>3. ASSUME NewestRead' = NewestRead, by = "batch", partner # NoStation
        PROVE  skip' /\ NewestRead % 2 = Parity[partner]
    <3>1. NewestRead = slot - 1 /\ slot % 2 # Parity[partner]
      BY <1>0, <1>7, <2>3 DEF Settle, Turns, TurnInv
    <3>2. partner \in Stations /\ Parity[partner] \in {0, 1}
      BY <2>3, ParityAssumption DEF IInv, TypeOK, TalkType
    <3>3. (slot - 1) \in Nat /\ (slot - 1) + 1 = slot BY <1>0
    <3>4. (slot - 1) % 2 # slot % 2 /\ (slot - 1) % 2 \in {0, 1} /\ slot % 2 \in {0, 1}
      BY <1>0, <3>3, Parities
    <3> QED BY <1>7, <3>1, <3>2, <3>4 DEF Settle
  <2>4. NewestRead' = NewestRead => TurnInv' BY <1>7, <2>3 DEF Settle, TurnInv
  <2> QED BY <1>2, <1>7, <2>2, <2>4 DEF Settle
<1>8. CASE Complete
  <2>1. HeldInv' /\ TurnInv' BY <1>3, <1>8 DEF Complete, HeldInv, TurnInv
  <2> QED BY <1>2, <1>8, <2>1 DEF Complete
<1>9. CASE Renew \/ AbortDone
  <2>1. deferred = NoReply /\ partner = NoStation
    BY <1>3, <1>9 DEF Renew, AbortDone, IInv, SessionInv, Working
  <2>2. HeldInv' /\ TurnInv' BY <1>9, <2>1 DEF Renew, AbortDone, HeldInv, TurnInv
  <2>3. WakeInv' BY <1>9 DEF Renew, AbortDone, WakeInv, Over
  <2> QED BY <1>2, <1>9, <2>2, <2>3 DEF Renew, AbortDone
<1> QED BY <1>1, <1>4, <1>5, <1>6, <1>7, <1>8, <1>9, ReadSlot DEF Service

(* A click's pick takes the phase opposite to its response's cycle, and its wakeup
   finds the loop reading and nothing else queued. *)
LEMMA OperatorSlot ==
  ASSUME Timely, IInv, SlotInv, Operator
  PROVE  SlotInv'
<1>1. CASE SetArmed \/ AbortRequest \/ EngageRequest \/ GracefulStop
  <2> USE DEF SetArmed, AbortRequest, EngageRequest, AbortAsync, GracefulStop
  <2>1. /\ UNCHANGED <<slot, pumped, dq, wk, talkVars, heldVars, pending, stop, by>>
        /\ isActive' = isActive /\ ("stopWake" \in http' => "stopWake" \in http)
    BY <1>1 DEF clockVars, pickVars, sigVars, histVars
  <2>2. WakeInv' BY <2>1, WakeAside DEF talkVars
  <2> QED BY <2>1, <2>2, SlotAside
<1>2. CASE CallCq
  <2>1. /\ UNCHANGED <<slot, pumped, dq, wk, talkVars, heldVars, pending, stop, by, http>>
        /\ pc # "read" \/ Quiet
    BY <1>2 DEF CallCq, Request, clockVars, pickVars, sigVars, histVars
  <2>2. WakeInv'
    <3>1. CASE pc = "read" BY <2>1, <3>1 DEF Quiet, WakeInv
    <3>2. CASE pc # "read" BY <2>1, <3>2 DEF SlotInv, WakeInv, Over, talkVars
    <3> QED BY <3>1, <3>2
  <2> QED BY <2>1, <2>2, SlotAside
<1>3. ASSUME NEW s \in Stations, NEW cycle \in Nat, NEW via, SelectResponder(s, cycle, via),
             pc # "read" \/ Quiet, via = "select" => cycle % 2 = Parity[s]
      PROVE  SlotInv'
  <2>1. /\ pc = "read" /\ state = "WaitAnswer" /\ dq = <<>> /\ wk = <<>> /\ http = {}
    BY <1>3 DEF SelectResponder, Quiet
  <2>2. UNCHANGED <<slot, pumped, dq, talkVars, heldVars, by, http>>
    BY <1>3 DEF SelectResponder, clockVars, histVars
  <2>3. QueueInv' /\ NewestRead' = NewestRead BY <2>2, QueueKept DEF SlotInv
  <2>4. pending' = [who |-> s, phase |-> NextPhase(cycle), at |-> slot, via |-> via]
    BY <1>3 DEF SelectResponder
  <2>5. PhaseInv' BY <1>3, <2>4, Parities DEF PhaseInv, NextPhase
  <2>6. HeldInv' BY <2>2 DEF SlotInv, HeldInv, talkVars, heldVars, NoReply
  <2>7. TurnInv' BY <2>2, <2>3 DEF SlotInv, TurnInv, talkVars, heldVars, NoReply
  <2>8. wk' = <<slot - 1>> BY <1>3, <2>1 DEF SelectResponder
  <2>9. pending' # NoPick BY <2>4, NoStationAssumption DEF NoPick
  <2>10. WakeInv' BY <2>1, <2>2, <2>4, <2>8, <2>9 DEF WakeInv, talkVars
  <2> QED BY <2>3, <2>5, <2>6, <2>7, <2>10 DEF SlotInv
<1>4. CASE SelectRequest
  BY <1>3, <1>4, QueueTypes DEF SelectRequest, Request
<1>5. CASE ExternalRequest
  <2>1. slot - 1 \in Nat /\ recent \subseteq Stations
    BY QueueTypes DEF IInv, TypeOK, PickType
  <2> QED BY <1>3, <1>5, <2>1 DEF ExternalRequest, Request
<1> QED BY <1>1, <1>2, <1>4, <1>5 DEF Operator

LEMMA NextSlot ==
  ASSUME Timely, IInv, SlotInv, [Next]_vars
  PROVE  SlotInv'
<1>1. ASSUME UNCHANGED <<slot, pumped, dq, wk, talkVars, heldVars, pending, stop, by>>,
             "stopWake" \in http' => "stopWake" \in http, isActive' => isActive
      PROVE  SlotInv'
  <2>1. WakeInv' BY <1>1, WakeAside DEF talkVars
  <2> QED BY <1>1, <2>1, SlotAside
<1>2. CASE \/ HttpCancel \/ HttpDisarm \/ HttpAway \/ WatchdogFire \/ Done
           \/ UNCHANGED vars
  <2> USE DEF HttpCancel, HttpDisarm, HttpAway, WatchdogFire, Done, vars, clockVars, pickVars,
              sigVars, histVars, askVars
  <2>1. UNCHANGED <<slot, pumped, dq, wk, talkVars, heldVars, pending, stop, by>> BY <1>2
  <2>2. "stopWake" \in http' => "stopWake" \in http BY <1>2
  <2>3. isActive' = isActive \/ isActive' = (isActive /\ state # "Idle") BY <1>2
  <2>4. isActive' => isActive BY <2>3
  <2> QED BY <1>1, <2>1, <2>2, <2>4
<1>3. CASE HttpStop
  <2>1. UNCHANGED <<slot, pumped, dq, talkVars, heldVars, pending, by, isActive>>
    BY <1>3 DEF HttpStop, clockVars, pickVars, histVars
  <2>2. stop' \/ ("stopWake" \in http /\ stop' = stop) BY <1>3 DEF HttpStop
  <2>3. WakeInv' BY <2>1, <2>2 DEF SlotInv, WakeInv, Over, talkVars
  <2> QED BY <2>1, <2>3, SlotAside
<1> QED BY <1>2, <1>3, FeedSlot, ServiceSlot, OperatorSlot DEF Next, Http

LEMMA InitSlot == Init => SlotInv
<1> SUFFICES ASSUME Init PROVE SlotInv OBVIOUS
<1> USE DEF Init
<1>1. QueueInv BY DEF QueueInv, Firsts
<1>2. WakeInv /\ PhaseInv /\ HeldInv /\ TurnInv BY DEF WakeInv, PhaseInv, HeldInv, TurnInv
<1> QED BY <1>1, <1>2 DEF SlotInv

(* On a prompt machine the caller transmits to a station that First mode or a
   click chose only in the slots that station listens in (retries to a clicked
   one apart), for every retry count and every mix of batches, requests, stops,
   aborts, watchdogs and faults. *)
THEOREM TransmitsOnOwnParity ==
  ASSUME Timely
  PROVE  Spec => []OwnParity
<1>1. IInv /\ SlotInv => OwnParity
  BY DEF SlotInv, TurnInv, OwnParity, IInv, TypeOK, HistType
<1>2. IInv /\ SlotInv /\ [Next]_vars => SlotInv' BY NextSlot
<1> QED BY <1>1, <1>2, InitSlot, Inductive, PTL DEF Spec
=============================================================================
