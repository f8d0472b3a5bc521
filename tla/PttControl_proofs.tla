-------------------------- MODULE PttControl_proofs --------------------------
(***************************************************************************)
(* Proofs about PttControl, for every value of the constants and however   *)
(* callers overlap: its types, that a taken lock is always attended, and   *)
(* that a keyed rig is, but for three events that the property names.      *)
(*                                                                         *)
(* Each thread's step changes its own pc and call only (Moved); what is    *)
(* left of an action is what it does to the flags, the timer and the rig.  *)
(***************************************************************************)
EXTENDS PttControl, TLAPS

(* p went to step s of call c, and nobody else moved. *)
Moved(p, s, c) == /\ pc'[p] = s /\ call'[p] = c
                  /\ \A q \in Actors \ {p} : pc'[q] = pc[q] /\ call'[q] = call[q]
                  /\ pc' \in [Actors -> Steps] /\ call' \in [Actors -> Calls]

LEMMA GotoMoves ==
  ASSUME TypeOK, NEW p \in Actors, NEW s \in Steps, NEW c \in Calls, Goto(p, s, c)
  PROVE  Moved(p, s, c)
BY DEF TypeOK, Goto, Moved

LEMMA GoMoves ==
  ASSUME TypeOK, NEW p \in Actors, NEW s \in Steps, Go(p, s)
  PROVE  Moved(p, s, call[p])
<1>1. call[p] \in Calls BY DEF TypeOK
<1> QED BY <1>1, GotoMoves DEF Go

(* The end of a call: idle, another key-up, or, inside KeyDownAsync, its own
   release of the lock. *)
Ended(p) == \/ Moved(p, "idle", "none")
            \/ p \in Users /\ Moved(p, "up", "thrown")
            \/ p \in Users /\ Moved(p, "up", "safeAbort")
            \/ p \in Users /\ call[p] = "catch" /\ Moved(p, "freeCheck", "outer")

LEMMA ReturnEnds ==
  ASSUME TypeOK, CallsMatch, NEW p \in Actors, Return(p)
  PROVE  Ended(p)
<1>1. /\ "freeCheck" \in Steps /\ "up" \in Steps /\ "idle" \in Steps
      /\ "outer" \in Calls /\ "thrown" \in Calls /\ "safeAbort" \in Calls /\ "none" \in Calls
  BY DEF Steps, Calls
<1>2. p \notin Users => call[p] \notin {"catch", "outer", "finally", "thrown", "safeAbort"}
  BY DEF CallsMatch
<1>3. CASE Goto(p, "idle", "none") BY <1>1, <1>3, GotoMoves DEF Ended
<1>4. CASE p \in Users /\ Goto(p, "up", "thrown") BY <1>1, <1>4, GotoMoves DEF Ended
<1>5. CASE p \in Users /\ Goto(p, "up", "safeAbort") BY <1>1, <1>5, GotoMoves DEF Ended
<1>6. CASE p \in Users /\ call[p] = "catch" /\ Goto(p, "freeCheck", "outer")
  BY <1>1, <1>6, GotoMoves DEF Ended
<1> QED BY <1>2, <1>3, <1>4, <1>5, <1>6 DEF Return, Users

-----------------------------------------------------------------------------
(* Types, and who makes which calls *)

Typed == TypeOK /\ CallsMatch

HistTyped == /\ lost \in BOOLEAN /\ unacked \in BOOLEAN
             /\ overtaken \subseteq Actors /\ astray \in BOOLEAN

(* A move of one thread keeps both when the rest of the state keeps its types
   and the thread goes where its kind goes. *)
LEMMA MoveTyped ==
  ASSUME Typed, NEW p \in Actors, NEW s, NEW c, Moved(p, s, c),
         p \notin Users => c \in {"none", "once", "force"},
         s \in {"idle", "wait"} => c = "none",
         s \in {"up", "stopping"} => c # "force",
         rig' \in {"rx", "tx"}, permits' \in {0, 1}, held' \in BOOLEAN,
         asserted' \in BOOLEAN, timer' \in BOOLEAN, due' \in BOOLEAN,
         disposed' \in BOOLEAN, keyings' \in Nat, events' \in Nat,
         HistTyped'
  PROVE  Typed'
<1>1. TypeOK' BY DEF TypeOK, Moved, HistTyped
<1>2. CallsMatch' BY DEF Typed, CallsMatch, Moved, Forced
<1> QED BY <1>1, <1>2 DEF Typed

LEMMA EndTyped ==
  ASSUME Typed, NEW p \in Actors, Ended(p),
         rig' \in {"rx", "tx"}, permits' \in {0, 1}, held' \in BOOLEAN,
         asserted' \in BOOLEAN, timer' \in BOOLEAN, due' \in BOOLEAN,
         disposed' \in BOOLEAN, keyings' \in Nat, events' \in Nat,
         HistTyped'
  PROVE  Typed'
<1>1. CASE Moved(p, "idle", "none") BY <1>1, MoveTyped
<1>2. CASE p \in Users /\ Moved(p, "up", "thrown") BY <1>2, MoveTyped
<1>3. CASE p \in Users /\ Moved(p, "up", "safeAbort") BY <1>3, MoveTyped
<1>4. CASE p \in Users /\ Moved(p, "freeCheck", "outer") BY <1>4, MoveTyped
<1> QED BY <1>1, <1>2, <1>3, <1>4 DEF Ended

(* Steps of a user that acquires and keys. *)
LEMMA KeyDownStepTyped ==
  ASSUME Typed, NEW p \in Users, KeyDownStep(p)
  PROVE  Typed'
<1> USE DEF flagVars, wdVars, countVars, histVars, HistTyped, Event
<1>1. p \in Actors /\ TypeOK BY DEF Actors, Typed
<1>2. CASE KeyDown(p)
  <2>1. Moved(p, "wait", call[p]) BY <1>1, <1>2, GoMoves DEF KeyDown, Steps
  <2>2. call[p] = "none" BY <1>1, <1>2 DEF KeyDown, At, Typed, CallsMatch
  <2>3. keyings' \in Nat BY <1>1, <1>2 DEF KeyDown, TypeOK
  <2> QED BY <1>1, <1>2, <2>1, <2>2, <2>3, MoveTyped DEF KeyDown, TypeOK
<1>3. CASE Acquire(p)
  <2>1. Moved(p, "locked", call[p]) BY <1>1, <1>3, GoMoves DEF Acquire, Steps
  <2> QED BY <1>1, <1>3, <2>1, MoveTyped DEF Acquire, TypeOK, Typed, CallsMatch
<1>4. CASE AcquireCancelled(p)
  <2>1. Moved(p, "up", "thrown") \/ Moved(p, "idle", "none")
    BY <1>1, <1>4, GotoMoves DEF AcquireCancelled, Steps, Calls
  <2> QED BY <1>1, <1>4, <2>1, MoveTyped DEF AcquireCancelled, TypeOK
<1>5. CASE KeyCommandFails(p)
  <2>1. Moved(p, "freeCheck", "outer")
    BY <1>1, <1>5, GotoMoves DEF KeyCommandFails, Steps, Calls
  <2>2. CASE UNCHANGED <<rig, events, unacked>>
    BY <1>1, <1>5, <2>1, <2>2, MoveTyped DEF KeyCommandFails, TypeOK
  <2>3. CASE rig' = "tx" /\ unacked' = TRUE /\ Event
    <3>1. events' \in Nat BY <1>1, <2>3 DEF TypeOK
    <3> QED BY <1>1, <1>5, <2>1, <2>3, <3>1, MoveTyped DEF KeyCommandFails, TypeOK
  <2> QED BY <1>5, <2>2, <2>3 DEF KeyCommandFails
<1>6. CASE PlayEnds(p)
  <2>1. Moved(p, "up", "finally") \/ Moved(p, "up", "once")
    BY <1>1, <1>6, GotoMoves DEF PlayEnds, Steps, Calls
  <2> QED BY <1>1, <1>6, <2>1, MoveTyped DEF PlayEnds, TypeOK
<1>7. CASE PlayThrows(p)
  <2>1. Moved(p, "up", "catch")
    BY <1>1, <1>7, GotoMoves DEF PlayThrows, Steps, Calls
  <2> QED BY <1>1, <1>7, <2>1, MoveTyped DEF PlayThrows, TypeOK
<1>8. CASE SafeAbort(p)
  <2>1. Moved(p, "up", "safeAbort") BY <1>1, <1>8, GotoMoves DEF SafeAbort, Steps, Calls
  <2>2. events' \in Nat BY <1>1, <1>8 DEF SafeAbort, TypeOK
  <2> QED BY <1>1, <1>8, <2>1, <2>2, MoveTyped DEF SafeAbort, TypeOK
<1> QED BY <1>2, <1>3, <1>4, <1>5, <1>6, <1>7, <1>8 DEF KeyDownStep

(* Steps of any thread that keys up. *)
LEMMA ProgressTyped ==
  ASSUME Typed, NEW p \in Actors, Progress(p) \/ UnkeyFails(p)
  PROVE  Typed'
<1> USE DEF flagVars, wdVars, countVars, histVars, HistTyped, Event
<1>0. TypeOK /\ CallsMatch BY DEF Typed
<1>1. ASSUME NEW s \in Steps \ {"idle", "wait", "up"}, Go(p, s), s = "stopping" => ~Forced(p),
             rig' \in {"rx", "tx"}, permits' \in {0, 1}, held' \in BOOLEAN,
             asserted' \in BOOLEAN, timer' \in BOOLEAN, due' \in BOOLEAN,
             UNCHANGED <<disposed, keyings>>, events' \in Nat, HistTyped'
      PROVE  Typed'
  <2>1. Moved(p, s, call[p]) BY <1>0, <1>1, GoMoves
  <2> QED BY <1>0, <1>1, <2>1, MoveTyped DEF TypeOK, CallsMatch, Forced
<1>2. ASSUME Return(p),
             rig' \in {"rx", "tx"}, permits' \in {0, 1}, held' \in BOOLEAN,
             asserted' \in BOOLEAN, timer' \in BOOLEAN, due' \in BOOLEAN,
             UNCHANGED <<disposed, keyings>>, events' \in Nat, HistTyped'
      PROVE  Typed'
  <2>1. Ended(p) BY <1>0, <1>2, ReturnEnds
  <2> QED BY <1>0, <1>2, <2>1, EndTyped DEF TypeOK
<1>3. {"locked", "keyed", "playing", "stopping", "unkey", "clear", "freeCheck",
       "free", "forcing"} \subseteq Steps \ {"idle", "wait", "up"}
  BY DEF Steps
<1>4. CASE KeyCommand(p) BY <1>0, <1>1, <1>3, <1>4 DEF KeyCommand, TypeOK
<1>5. CASE Assert(p) BY <1>0, <1>1, <1>3, <1>5 DEF Assert, TypeOK, Clearing
<1>6. CASE Disarm(p) BY <1>0, <1>1, <1>3, <1>6 DEF Disarm, TypeOK, CallsMatch, At
<1>7. CASE CheckAsserted(p) BY <1>0, <1>1, <1>2, <1>3, <1>7 DEF CheckAsserted, TypeOK
<1>8. CASE Unkey(p)
  <2>1. Go(p, "freeCheck") \/ Go(p, "clear") BY <1>8 DEF Unkey
  <2> QED BY <1>0, <1>1, <1>3, <1>8, <2>1 DEF Unkey, TypeOK
<1>9. CASE UnkeyFails(p)
  <2>1. Go(p, "freeCheck") \/ Return(p) BY <1>9 DEF UnkeyFails
  <2> QED BY <1>0, <1>1, <1>2, <1>3, <1>9, <2>1 DEF UnkeyFails, TypeOK
<1>10. CASE Clear(p) BY <1>0, <1>1, <1>3, <1>10 DEF Clear, TypeOK
<1>11. CASE FreeCheck(p) BY <1>0, <1>1, <1>2, <1>3, <1>11 DEF FreeCheck, TypeOK
<1>12. CASE Free(p) BY <1>0, <1>2, <1>12 DEF Free, TypeOK
<1> QED BY <1>4, <1>5, <1>6, <1>7, <1>8, <1>9, <1>10, <1>11, <1>12 DEF Progress

(* The other ways to release. *)
LEMMA OthersTyped ==
  ASSUME Typed, Abort \/ TimerFires \/ OnFired \/ ForceRelease \/ Dispose
  PROVE  Typed'
<1> USE DEF flagVars, wdVars, countVars, histVars, HistTyped, Event
<1>0. TypeOK /\ CallsMatch BY DEF Typed
<1>1. {Aborter, Watchdog, Disposer} \subseteq Actors BY DEF Actors
<1>2. Users \cap {Aborter, Watchdog, Disposer} = {} BY ActorsAssumption
<1>3. CASE Abort
  <2>1. Moved(Aborter, "up", "once")
    BY <1>0, <1>1, <1>3, GotoMoves DEF Abort, Steps, Calls
  <2>2. events' \in Nat BY <1>0, <1>3 DEF Abort, TypeOK
  <2> QED BY <1>0, <1>1, <1>3, <2>1, <2>2, MoveTyped DEF Abort, TypeOK
<1>4. CASE TimerFires
  <2>1. TypeOK' BY <1>0, <1>4 DEF TimerFires, TypeOK
  <2>2. CallsMatch' BY <1>0, <1>4 DEF TimerFires, CallsMatch, Forced
  <2> QED BY <2>1, <2>2 DEF Typed
<1>5. CASE OnFired
  <2>1. CASE timer
    <3>1. Moved(Watchdog, "forcing", "force")
      BY <1>0, <1>1, <1>5, <2>1, GotoMoves DEF OnFired, Steps, Calls
    <3> QED BY <1>0, <1>1, <1>5, <2>1, <3>1, MoveTyped DEF OnFired, TypeOK
  <2>2. CASE ~timer
    <3>1. TypeOK' BY <1>0, <1>5, <2>2 DEF OnFired, TypeOK
    <3>2. CallsMatch' BY <1>0, <1>5, <2>2 DEF OnFired, CallsMatch, Forced
    <3> QED BY <3>1, <3>2 DEF Typed
  <2> QED BY <2>1, <2>2
<1>6. CASE ForceRelease
  <2>1. CASE Go(Watchdog, "unkey")
    <3>1. Moved(Watchdog, "unkey", call[Watchdog])
      BY <1>0, <1>1, <2>1, GoMoves DEF Steps
    <3>2. call[Watchdog] \in {"none", "once", "force"} BY <1>0, <1>1, <1>2 DEF CallsMatch
    <3> QED BY <1>0, <1>1, <1>6, <3>1, <3>2, MoveTyped DEF ForceRelease, TypeOK
  <2>2. CASE Return(Watchdog)
    <3>1. Ended(Watchdog) BY <1>0, <1>1, <2>2, ReturnEnds
    <3> QED BY <1>0, <1>1, <1>6, <3>1, EndTyped DEF ForceRelease, TypeOK
  <2> QED BY <1>6, <2>1, <2>2 DEF ForceRelease
<1>7. CASE Dispose
  <2>0. events' \in Nat BY <1>0, <1>7 DEF Dispose, TypeOK
  <2>1. CASE asserted
    <3>1. Moved(Disposer, "unkey", "force")
      BY <1>0, <1>1, <1>7, <2>1, GotoMoves DEF Dispose, Steps, Calls
    <3> QED BY <1>0, <1>1, <1>7, <2>0, <3>1, MoveTyped DEF Dispose, TypeOK
  <2>2. CASE ~asserted
    <3>1. TypeOK' BY <1>0, <1>7, <2>0, <2>2 DEF Dispose, TypeOK
    <3>2. CallsMatch' BY <1>0, <1>7, <2>2 DEF Dispose, CallsMatch, Forced
    <3> QED BY <3>1, <3>2 DEF Typed
  <2> QED BY <2>1, <2>2
<1> QED BY <1>3, <1>4, <1>5, <1>6, <1>7

LEMMA InitTyped == Init => Typed
<1> SUFFICES ASSUME Init PROVE Typed OBVIOUS
<1>1. Disposer \in Actors BY DEF Actors
<1>2. TypeOK BY <1>1 DEF Init, TypeOK, Steps, Calls
<1>3. CallsMatch BY DEF Init, CallsMatch, Forced
<1> QED BY <1>2, <1>3 DEF Typed

LEMMA NextTyped == Typed /\ [Next]_vars => Typed'
<1> SUFFICES ASSUME Typed, [Next]_vars PROVE Typed' OBVIOUS
<1>1. CASE Next
  BY <1>1, KeyDownStepTyped, ProgressTyped, OthersTyped DEF Next
<1>2. CASE UNCHANGED vars
  BY <1>2 DEF vars, flagVars, wdVars, countVars, histVars, Typed, TypeOK, CallsMatch, Forced
<1> QED BY <1>1, <1>2

(* Every flag, timer, thread and history variable keeps its type; in particular
   the count of _txLock never exceeds one. *)
THEOREM TypeCorrect == Spec => []TypeOK
<1>1. Typed => TypeOK BY DEF Typed
<1> QED BY <1>1, InitTyped, NextTyped, PTL DEF Spec

-----------------------------------------------------------------------------
(* A keyed rig is attended *)

RigInv == Attended /\ ClearInv

(* A step that neither keys nor unkeys: p is not the one the rig relies on, or
   hands it over. *)
LEMMA RigKept ==
  ASSUME RigInv, NEW p \in Actors, NEW s, NEW c, Moved(p, s, c),
         UNCHANGED <<rig, histVars>>,
         s # "clear", pc[p] \in {"keyed", "unkey"} => s = "unkey",
         \/ s = "unkey"
         \/ asserted' /\ (timer' \/ s \in {"stopping", "forcing"})
         \/ /\ asserted' = asserted
            /\ asserted => timer' = timer /\ pc[p] \notin {"stopping", "forcing"}
  PROVE  RigInv'
<1> USE DEF At, histVars
<1>1. pc'[p] = s /\ \A q \in Actors \ {p} : pc'[q] = pc[q] BY DEF Moved
<1>2. \A q \in Actors : pc[q] \in {"keyed", "unkey"} => pc'[q] \in {"keyed", "unkey"} BY <1>1
<1>3. Attended' BY <1>1, <1>2 DEF RigInv, Attended, InHand
<1>4. Clearing' \subseteq Clearing BY <1>1 DEF Clearing
<1>5. ClearInv' BY <1>2, <1>4 DEF RigInv, ClearInv
<1> QED BY <1>3, <1>5 DEF RigInv

(* So is the rest of the state but for the timer when the flag is down. *)
LEMMA RigStill ==
  ASSUME RigInv, UNCHANGED <<rig, asserted, pc, histVars>>, asserted => timer' = timer
  PROVE  RigInv'
BY DEF RigInv, Attended, InHand, ClearInv, Clearing, histVars, At

(* So is the end of a call that has found the flag down. *)
LEMMA EndRig ==
  ASSUME RigInv, Typed, NEW p \in Actors, Return(p),
         UNCHANGED <<rig, asserted, timer, histVars>>,
         pc[p] \in {"stopping", "forcing", "freeCheck", "free"},
         pc[p] \in {"stopping", "forcing"} => ~asserted
  PROVE  RigInv'
<1>1. Ended(p) BY ReturnEnds DEF Typed
<1> QED BY <1>1, RigKept DEF Ended

LEMMA KeyDownRig ==
  ASSUME RigInv, Typed, NEW p \in Users, KeyDownStep(p)
  PROVE  RigInv'
<1> USE DEF flagVars, wdVars, countVars, At
<1>0. p \in Actors /\ TypeOK BY DEF Actors, Typed
<1>1. CASE KeyDown(p)
  <2>1. Moved(p, "wait", call[p]) BY <1>0, <1>1, GoMoves DEF KeyDown, Steps
  <2> QED BY <1>0, <1>1, <2>1, RigKept DEF KeyDown
<1>2. CASE Acquire(p)
  <2>1. Moved(p, "locked", call[p]) BY <1>0, <1>2, GoMoves DEF Acquire, Steps
  <2> QED BY <1>0, <1>2, <2>1, RigKept DEF Acquire
<1>3. CASE AcquireCancelled(p)
  <2>1. Moved(p, "up", "thrown") \/ Moved(p, "idle", "none")
    BY <1>0, <1>3, GotoMoves DEF AcquireCancelled, Steps, Calls
  <2> QED BY <1>0, <1>3, <2>1, RigKept DEF AcquireCancelled
<1>4. CASE KeyCommandFails(p)
  <2>1. Moved(p, "freeCheck", "outer")
    BY <1>0, <1>4, GotoMoves DEF KeyCommandFails, Steps, Calls
  <2>2. CASE unacked' BY <2>2 DEF RigInv, Attended, ClearInv
  <2>3. CASE ~unacked'
    <3>1. UNCHANGED <<rig, asserted, timer, histVars>> /\ pc[p] = "locked"
      BY <1>4, <2>3 DEF KeyCommandFails, histVars
    <3> QED BY <1>0, <2>1, <3>1, RigKept
  <2> QED BY <2>2, <2>3
<1>5. CASE PlayEnds(p) \/ PlayThrows(p)
  <2>1. \E c \in {"finally", "once", "catch"} : Moved(p, "up", c)
    BY <1>0, <1>5, GotoMoves DEF PlayEnds, PlayThrows, Steps, Calls
  <2>2. UNCHANGED <<rig, asserted, timer, histVars>> /\ pc[p] = "playing"
    BY <1>5 DEF PlayEnds, PlayThrows
  <2> QED BY <1>0, <2>1, <2>2, RigKept
<1>6. CASE SafeAbort(p)
  <2>1. Moved(p, "up", "safeAbort")
    BY <1>0, <1>6, GotoMoves DEF SafeAbort, Steps, Calls
  <2> QED BY <1>0, <1>6, <2>1, RigKept DEF SafeAbort
<1> QED BY <1>1, <1>2, <1>3, <1>4, <1>5, <1>6 DEF KeyDownStep

(* The flag goes down: with the rig receiving, or with another thread keying or
   unkeying, or as the flag of a later keying. *)
LEMMA ClearRig ==
  ASSUME RigInv, Typed, NEW p \in Actors, Clear(p)
  PROVE  RigInv'
<1> USE DEF At, Clearing
<1>1. Moved(p, "freeCheck", call[p]) BY GoMoves DEF Clear, Typed, Steps
<1>2. \A q \in Actors : pc[q] \in {"keyed", "unkey"} => pc'[q] = pc[q]
  BY <1>1 DEF Moved, Clear
<1>3. /\ rig' = rig /\ (lost => lost') /\ (unacked => unacked') /\ (astray => astray')
      /\ asserted /\ p \in overtaken => astray'
      /\ overtaken' = overtaken \ {p} /\ p \in Clearing
  BY DEF Clear
<1>4. Attended'
  <2> SUFFICES ASSUME rig = "tx", ~lost', ~unacked', ~astray' PROVE InHand'
    BY <1>3 DEF Attended
  <2>0. ~lost /\ ~unacked /\ ~astray BY <1>3
  <2>1. \E q \in Actors : pc[q] \in {"keyed", "unkey"}
    <3>1. CASE p \in overtaken
      <4>1. ~asserted BY <1>3, <3>1
      <4> QED BY <2>0, <4>1 DEF RigInv, Attended, InHand
    <3>2. CASE p \notin overtaken BY <1>3, <2>0, <3>2 DEF RigInv, ClearInv
    <3> QED BY <3>1, <3>2
  <2> QED BY <1>2, <2>1 DEF InHand
<1>5. Clearing' \subseteq Clearing \ {p} BY <1>1 DEF Moved
<1>6. ClearInv' BY <1>2, <1>3, <1>5 DEF RigInv, ClearInv
<1> QED BY <1>4, <1>6 DEF RigInv

LEMMA ProgressRig ==
  ASSUME RigInv, Typed, NEW p \in Actors, Progress(p) \/ UnkeyFails(p)
  PROVE  RigInv'
<1> USE DEF flagVars, wdVars, countVars, At
<1>0. TypeOK /\ CallsMatch BY DEF Typed
<1>1. CASE KeyCommand(p)
  <2>1. Moved(p, "keyed", call[p]) BY <1>0, <1>1, GoMoves DEF KeyCommand, Steps
  <2>2. \E q \in Actors : pc'[q] = "keyed" BY <2>1 DEF Moved
  <2> QED BY <2>2 DEF RigInv, Attended, InHand, ClearInv
<1>2. CASE Assert(p)
  <2>1. Moved(p, "playing", call[p]) BY <1>0, <1>2, GoMoves DEF Assert, Steps
  <2>2. Attended' BY <1>2 DEF Assert, Attended, InHand
  <2>3. Clearing' \subseteq overtaken' BY <1>2, <2>1 DEF Assert, Moved, Clearing
  <2> QED BY <2>2, <2>3 DEF RigInv, ClearInv
<1>3. CASE Disarm(p)
  <2>1. Moved(p, "stopping", call[p]) BY <1>0, <1>3, GoMoves DEF Disarm, Steps
  <2> QED BY <1>0, <1>3, <2>1, RigKept DEF Disarm, TypeOK
<1>4. CASE CheckAsserted(p) /\ asserted
  <2>1. Moved(p, "unkey", call[p]) BY <1>0, <1>4, GoMoves DEF CheckAsserted, Steps
  <2> QED BY <1>4, <2>1, RigKept DEF CheckAsserted
<1>5. CASE CheckAsserted(p) /\ ~asserted BY <1>5, EndRig DEF CheckAsserted
<1>6. CASE Unkey(p) BY <1>6 DEF Unkey, RigInv, Attended, ClearInv
<1>7. CASE UnkeyFails(p) BY <1>7 DEF UnkeyFails, RigInv, Attended, ClearInv
<1>8. CASE Clear(p) BY <1>8, ClearRig
<1>9. CASE FreeCheck(p)
  <2>1. CASE Go(p, "free")
    <3>1. Moved(p, "free", call[p]) BY <1>0, <2>1, GoMoves DEF Steps
    <3> QED BY <1>9, <3>1, RigKept DEF FreeCheck
  <2>2. CASE Return(p) BY <1>9, <2>2, EndRig DEF FreeCheck
  <2> QED BY <1>9, <2>1, <2>2 DEF FreeCheck
<1>10. CASE Free(p) BY <1>10, EndRig DEF Free
<1> QED BY <1>1, <1>2, <1>3, <1>4, <1>5, <1>6, <1>7, <1>8, <1>9, <1>10 DEF Progress

LEMMA OthersRig ==
  ASSUME RigInv, Typed, Abort \/ TimerFires \/ OnFired \/ ForceRelease \/ Dispose
  PROVE  RigInv'
<1> USE DEF flagVars, wdVars, countVars, At
<1>0. TypeOK BY DEF Typed
<1>1. {Aborter, Watchdog, Disposer} \subseteq Actors BY DEF Actors
<1>3. CASE Abort
  <2>1. Moved(Aborter, "up", "once") BY <1>0, <1>1, <1>3, GotoMoves DEF Abort, Steps, Calls
  <2> QED BY <1>1, <1>3, <2>1, RigKept DEF Abort
<1>4. CASE TimerFires BY <1>4, RigStill DEF TimerFires
<1>5. CASE OnFired /\ timer
  <2>1. Moved(Watchdog, "forcing", "force")
    BY <1>0, <1>1, <1>5, GotoMoves DEF OnFired, Steps, Calls
  <2>2. CASE asserted BY <1>1, <1>5, <2>1, <2>2, RigKept DEF OnFired
  <2>3. CASE ~asserted BY <1>1, <1>5, <2>1, <2>3, RigKept DEF OnFired
  <2> QED BY <2>2, <2>3
<1>6. CASE OnFired /\ ~timer BY <1>6, RigStill DEF OnFired
<1>7. CASE ForceRelease /\ asserted
  <2>1. Moved(Watchdog, "unkey", call[Watchdog])
    BY <1>0, <1>1, <1>7, GoMoves DEF ForceRelease, Steps
  <2> QED BY <1>1, <1>7, <2>1, RigKept DEF ForceRelease
<1>8. CASE ForceRelease /\ ~asserted
  BY <1>0, <1>1, <1>8, EndRig DEF ForceRelease, TypeOK
<1>9. CASE Dispose /\ asserted
  <2>1. Moved(Disposer, "unkey", "force")
    BY <1>0, <1>1, <1>9, GotoMoves DEF Dispose, Steps, Calls
  <2> QED BY <1>1, <1>9, <2>1, RigKept DEF Dispose
<1>10. CASE Dispose /\ ~asserted BY <1>0, <1>10, RigStill DEF Dispose, TypeOK
<1> QED BY <1>3, <1>4, <1>5, <1>6, <1>7, <1>8, <1>9, <1>10

LEMMA NextIInv == IInv /\ [Next]_vars => IInv'
<1> SUFFICES ASSUME IInv, [Next]_vars PROVE IInv' OBVIOUS
<1>1. Typed /\ RigInv BY DEF IInv, Typed, RigInv
<1>2. Typed' BY <1>1, NextTyped
<1>3. ASSUME UNCHANGED vars PROVE RigInv'
  <2>1. UNCHANGED <<rig, flagVars, wdVars, pc, histVars>> BY <1>3 DEF vars
  <2>2. UNCHANGED asserted /\ UNCHANGED timer BY <2>1 DEF flagVars, wdVars
  <2> QED BY <1>1, <2>1, <2>2, RigStill
<1>4. ASSUME NEW p \in Actors, Progress(p) \/ UnkeyFails(p) PROVE RigInv'
  BY <1>1, <1>4, ProgressRig
<1>5. ASSUME NEW p \in Users, KeyDownStep(p) PROVE RigInv'
  BY <1>1, <1>5, KeyDownRig
<1>6. ASSUME Next PROVE RigInv'
  BY <1>1, <1>4, <1>5, <1>6, OthersRig DEF Next
<1> QED BY <1>2, <1>3, <1>6 DEF IInv, Typed, RigInv

LEMMA InitIInv == Init => IInv
<1> SUFFICES ASSUME Init PROVE IInv OBVIOUS
<1>1. Typed BY InitTyped
<1>2. Attended BY DEF Init, Attended
<1>3. ClearInv BY DEF Init, ClearInv
<1> QED BY <1>1, <1>2, <1>3 DEF IInv, Typed

(* A keyed rig always has somebody who is going to release it, for any number of
   services, tests, aborts, ended sessions and keyings, however these overlap and
   however the watchdog's callbacks come - until a release command fails, a key
   command fails after the rig obeyed it, or an overtaken key-up clears the flag of
   the keying that overtook it: the three ways, and the only ones, in which the
   controller leaves the rig keyed. *)
THEOREM PttAttended == Spec => []Attended
<1>1. IInv => Attended BY DEF IInv
<1> QED BY <1>1, InitIInv, NextIInv, PTL DEF Spec

-----------------------------------------------------------------------------
(* A taken lock is attended, whoever overlaps. *)

(* The lock is left alone by a step of p that either stays on its way to it or
   had no part in it. *)
LEMMA LockKept ==
  ASSUME LockInv, NEW p \in Actors, NEW s, NEW c, Moved(p, s, c),
         UNCHANGED <<permits, held, lost>>,
         \/ s \in {"locked", "keyed", "unkey", "clear", "freeCheck", "free"}
         \/ asserted' /\ (timer' \/ s \in {"stopping", "forcing"})
         \/ /\ UNCHANGED <<asserted, timer>>
            /\ pc[p] \notin {"locked", "keyed"} /\ ~Releasing(p)
            /\ asserted => pc[p] \notin {"stopping", "forcing"}
         \/ permits = 1
  PROVE  LockInv'
<1> USE DEF At, Releasing
<1>1. HeldIsTaken' BY DEF LockInv, HeldIsTaken
<1>2. pc'[p] = s /\ \A q \in Actors \ {p} : pc'[q] = pc[q] BY DEF Moved
<1>3. LockAttended' BY <1>2 DEF LockInv, LockAttended
<1> QED BY <1>1, <1>3 DEF LockInv

(* So is it by the end of a call that found it free, or the flag down. *)
LEMMA EndLock ==
  ASSUME LockInv, Typed, NEW p \in Actors, Return(p),
         UNCHANGED <<permits, held, lost, asserted, timer>>,
         \/ permits = 1
         \/ ~asserted /\ pc[p] \in {"stopping", "forcing"}
  PROVE  LockInv'
<1>1. Ended(p) BY ReturnEnds DEF Typed
<1> QED BY <1>1, LockKept DEF Ended, Releasing

LEMMA KeyDownLock ==
  ASSUME LockInv, Typed, NEW p \in Users, KeyDownStep(p)
  PROVE  LockInv'
<1> USE DEF flagVars, wdVars, countVars, histVars, At, Releasing
<1>0. p \in Actors /\ TypeOK BY DEF Actors, Typed
<1>1. CASE KeyDown(p)
  <2>1. Moved(p, "wait", call[p]) BY <1>0, <1>1, GoMoves DEF KeyDown, Steps
  <2> QED BY <1>0, <1>1, <2>1, LockKept DEF KeyDown
<1>2. CASE Acquire(p)
  <2>1. Moved(p, "locked", call[p]) BY <1>0, <1>2, GoMoves DEF Acquire, Steps
  <2> QED BY <1>0, <1>2, <2>1 DEF Acquire, Moved, LockInv, HeldIsTaken, LockAttended
<1>3. CASE AcquireCancelled(p)
  <2>1. Moved(p, "up", "thrown") \/ Moved(p, "idle", "none")
    BY <1>0, <1>3, GotoMoves DEF AcquireCancelled, Steps, Calls
  <2> QED BY <1>0, <1>3, <2>1, LockKept DEF AcquireCancelled
<1>4. CASE KeyCommandFails(p)
  <2>1. Moved(p, "freeCheck", "outer")
    BY <1>0, <1>4, GotoMoves DEF KeyCommandFails, Steps, Calls
  <2> QED BY <1>0, <1>4, <2>1, LockKept DEF KeyCommandFails
<1>5. CASE PlayEnds(p) \/ PlayThrows(p)
  <2>1. \E c \in {"finally", "once", "catch"} : Moved(p, "up", c)
    BY <1>0, <1>5, GotoMoves DEF PlayEnds, PlayThrows, Steps, Calls
  <2>2. UNCHANGED <<flagVars, wdVars, lost>> /\ pc[p] = "playing"
    BY <1>5 DEF PlayEnds, PlayThrows
  <2> QED BY <1>0, <2>1, <2>2, LockKept
<1>6. CASE SafeAbort(p)
  <2>1. Moved(p, "up", "safeAbort")
    BY <1>0, <1>6, GotoMoves DEF SafeAbort, Steps, Calls
  <2> QED BY <1>0, <1>6, <2>1, LockKept DEF SafeAbort
<1> QED BY <1>1, <1>2, <1>3, <1>4, <1>5, <1>6 DEF KeyDownStep

LEMMA ProgressLock ==
  ASSUME LockInv, Typed, NEW p \in Actors, Progress(p)
  PROVE  LockInv'
<1> USE DEF flagVars, wdVars, countVars, histVars, At, Releasing
<1>0. TypeOK BY DEF Typed
<1>1. CASE KeyCommand(p)
  <2>1. Moved(p, "keyed", call[p]) BY <1>0, <1>1, GoMoves DEF KeyCommand, Steps
  <2> QED BY <1>1, <2>1, LockKept DEF KeyCommand
<1>2. CASE Assert(p)
  <2>1. Moved(p, "playing", call[p]) BY <1>0, <1>2, GoMoves DEF Assert, Steps
  <2> QED BY <1>2, <2>1, LockKept DEF Assert
<1>3. CASE Disarm(p)
  <2>1. Moved(p, "stopping", call[p]) BY <1>0, <1>3, GoMoves DEF Disarm, Steps
  <2>2. HeldIsTaken' BY <1>3 DEF Disarm, LockInv, HeldIsTaken
  <2>3. LockAttended' BY <1>3, <2>1 DEF Disarm, Moved, LockInv, LockAttended
  <2> QED BY <2>2, <2>3 DEF LockInv
<1>4. CASE CheckAsserted(p) /\ asserted
  <2>1. Moved(p, "unkey", call[p]) BY <1>0, <1>4, GoMoves DEF CheckAsserted, Steps
  <2> QED BY <1>4, <2>1, LockKept DEF CheckAsserted
<1>5. CASE CheckAsserted(p) /\ ~asserted BY <1>5, EndLock DEF CheckAsserted
<1>6. CASE Unkey(p)
  <2>1. \E s \in {"freeCheck", "clear"} : Moved(p, s, call[p])
    BY <1>0, <1>6, GoMoves DEF Unkey, Steps
  <2> QED BY <1>6, <2>1, LockKept DEF Unkey
<1>7. CASE Clear(p)
  <2>1. Moved(p, "freeCheck", call[p]) BY <1>0, <1>7, GoMoves DEF Clear, Steps
  <2> QED BY <1>7, <2>1, LockKept DEF Clear
<1>8. CASE FreeCheck(p)
  <2>1. CASE held /\ Go(p, "free")
    <3>1. Moved(p, "free", call[p]) BY <1>0, <2>1, GoMoves DEF Steps
    <3> QED BY <1>8, <3>1, LockKept DEF FreeCheck
  <2>2. CASE ~held /\ Return(p)
    <3>1. permits = 1 BY <1>0, <2>2 DEF TypeOK, LockInv, HeldIsTaken
    <3> QED BY <1>8, <2>2, <3>1, EndLock DEF FreeCheck
  <2> QED BY <1>8, <2>1, <2>2 DEF FreeCheck
<1>9. CASE Free(p) BY <1>9 DEF Free, LockInv, HeldIsTaken, LockAttended
<1> QED BY <1>1, <1>2, <1>3, <1>4, <1>5, <1>6, <1>7, <1>8, <1>9 DEF Progress

LEMMA OthersLock ==
  ASSUME LockInv, Typed, Abort \/ TimerFires \/ OnFired \/ ForceRelease \/ Dispose
  PROVE  LockInv'
<1> USE DEF flagVars, wdVars, countVars, histVars, At, Releasing
<1>0. TypeOK BY DEF Typed
<1>1. {Aborter, Watchdog, Disposer} \subseteq Actors BY DEF Actors
<1>2. CASE Abort
  <2>1. Moved(Aborter, "up", "once") BY <1>0, <1>1, <1>2, GotoMoves DEF Abort, Steps, Calls
  <2> QED BY <1>1, <1>2, <2>1, LockKept DEF Abort
<1>3. CASE TimerFires BY <1>3 DEF TimerFires, LockInv, HeldIsTaken, LockAttended
<1>4. CASE OnFired /\ timer
  <2>1. Moved(Watchdog, "forcing", "force")
    BY <1>0, <1>1, <1>4, GotoMoves DEF OnFired, Steps, Calls
  <2>2. HeldIsTaken' BY <1>4 DEF OnFired, LockInv, HeldIsTaken
  <2>3. LockAttended' BY <1>1, <1>4, <2>1 DEF OnFired, Moved, LockInv, LockAttended
  <2> QED BY <2>2, <2>3 DEF LockInv
<1>5. CASE OnFired /\ ~timer BY <1>5 DEF OnFired, LockInv, HeldIsTaken, LockAttended
<1>6. CASE ForceRelease /\ asserted
  <2>1. Moved(Watchdog, "unkey", call[Watchdog])
    BY <1>0, <1>1, <1>6, GoMoves DEF ForceRelease, Steps
  <2> QED BY <1>1, <1>6, <2>1, LockKept DEF ForceRelease
<1>7. CASE ForceRelease /\ ~asserted
  BY <1>0, <1>1, <1>7, EndLock DEF ForceRelease, TypeOK
<1>8. CASE Dispose /\ asserted
  <2>1. Moved(Disposer, "unkey", "force")
    BY <1>0, <1>1, <1>8, GotoMoves DEF Dispose, Steps, Calls
  <2> QED BY <1>1, <1>8, <2>1, LockKept DEF Dispose
<1>9. CASE Dispose /\ ~asserted BY <1>9 DEF Dispose, LockInv, HeldIsTaken, LockAttended
<1> QED BY <1>2, <1>3, <1>4, <1>5, <1>6, <1>7, <1>8, <1>9

LEMMA NextLock ==
  ASSUME LockInv, Typed, [Next]_vars
  PROVE  LockInv'
<1>1. CASE UNCHANGED vars
  BY <1>1 DEF vars, flagVars, wdVars, histVars, LockInv, HeldIsTaken, LockAttended, At, Releasing
<1>2. ASSUME NEW p \in Actors, UnkeyFails(p) PROVE LockInv'
  BY <1>2 DEF UnkeyFails, flagVars, LockInv, HeldIsTaken, LockAttended
<1> QED BY <1>1, <1>2, KeyDownLock, ProgressLock, OthersLock DEF Next

(* A taken lock always has somebody who is going to give it back, for any number of
   services, tests, aborts and keyings, whoever overlaps whom and whatever
   acknowledgements are lost, until a release command fails: no race leaves
   KeyDownAsync waiting for a lock nobody holds. *)
THEOREM LockIsAttended == Spec => []LockAttended
<1>1. Init => LockInv BY DEF Init, LockInv, HeldIsTaken, LockAttended
<1>2. Typed /\ LockInv /\ [Next]_vars => LockInv' BY NextLock
<1>3. LockInv => LockAttended BY DEF LockInv
<1> QED BY <1>1, <1>2, <1>3, InitTyped, NextTyped, PTL DEF Spec
=============================================================================
