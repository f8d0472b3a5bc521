----------------------------- MODULE PttControl -----------------------------
(***************************************************************************)
(* The PTT controller of the daemon (CatPttController; its serial twin     *)
(* SerialRtsDtrPttController has the same steps around another key line),  *)
(* its PttWatchdog, and everyone who calls it: the services that transmit, *)
(* the Test button of the settings page, the operator's abort and the      *)
(* disposal of the daemon.                                                 *)
(*                                                                         *)
(* Every caller is a thread; pc says which step of KeyDownAsync,           *)
(* KeyUpAsync, ForceReleaseAsync or DisposeAsync it takes next, and call   *)
(* from where the KeyUpAsync in progress was called, hence what follows    *)
(* it.  Reads and writes of the two flags, of the timer and of the lock    *)
(* are steps of their own wherever another thread can come between.        *)
(*                                                                         *)
(* Not represented: the audio, the lead and tail times (any time may pass  *)
(* between two steps) and the bytes on the wire.  A rig command is done,   *)
(* or fails; CatPollingService makes it fail while CAT is disabled or has  *)
(* lost its connection.                                                    *)
(***************************************************************************)
EXTENDS Naturals

CONSTANTS Services,     \* the loops that transmit (answerer, caller)
          Testers,      \* requests of the Test button
          MaxKeyings,   \* bound: calls of KeyDownAsync
          MaxEvents     \* bound: operator aborts, sessions that end in a wait, a shutdown,
                        \* release commands that fail, key commands that fail unacknowledged

Aborter  == "abort"       \* QsoAnswererService.AbortAsync and its twin
Watchdog == "watchdog"    \* the timer's callback
Disposer == "dispose"
Users    == Services \cup Testers
Actors   == Users \cup {Aborter, Watchdog, Disposer}

ASSUME ActorsAssumption == /\ Services \cap Testers = {}
                           /\ Users \cap {Aborter, Watchdog, Disposer} = {}
ASSUME BoundAssumption  == MaxKeyings \in Nat /\ MaxEvents \in Nat

VARIABLES
  rig,        \* what the rig does: "rx" or "tx"
  permits,    \* the count of _txLock
  held,       \* _txLockHeld
  asserted,   \* _pttAsserted
  timer,      \* PttWatchdog._timer is not null
  due,        \* a timer ran out and its callback has not entered OnFired
  pc, call,   \* where each thread is
  disposed,   \* DisposeAsync has begun
  keyings, events,
  lost,       \* history: a command to release PTT has failed
  unacked,    \* history: a key command has failed after the rig obeyed it
  overtaken,  \* history: those about to clear the flag for a keying that a later one followed
  astray      \* history: one of them has cleared the flag of the later keying

flagVars == <<permits, held, asserted>>
wdVars   == <<timer, due>>
countVars == <<disposed, keyings, events>>
histVars == <<lost, unacked, overtaken, astray>>
vars == <<rig, flagVars, wdVars, pc, call, countVars, histVars>>

Steps == {"idle", "wait", "locked", "keyed", "playing", "up", "stopping",
          "unkey", "clear", "freeCheck", "free", "forcing"}
(* catch: in KeyDownAsync; outer: its ReleaseTxLockOnce; finally: TransmitAsync;
   thrown: the same after an exception; safeAbort: SafeAbortToIdleAsync; once:
   a KeyUpAsync that nothing follows; force: a forced release. *)
Calls == {"none", "catch", "outer", "finally", "thrown", "safeAbort", "once", "force"}

TypeOK == /\ rig \in {"rx", "tx"} /\ permits \in {0, 1}
          /\ held \in BOOLEAN /\ asserted \in BOOLEAN
          /\ timer \in BOOLEAN /\ due \in BOOLEAN
          /\ pc \in [Actors -> Steps] /\ call \in [Actors -> Calls]
          /\ disposed \in BOOLEAN /\ keyings \in Nat /\ events \in Nat
          /\ lost \in BOOLEAN /\ unacked \in BOOLEAN
          /\ overtaken \subseteq Actors /\ astray \in BOOLEAN

Init == /\ rig = "rx" /\ permits = 1 /\ held = FALSE /\ asserted = FALSE
        /\ timer = FALSE /\ due = FALSE
        /\ pc = [p \in Actors |-> "idle"] /\ call = [p \in Actors |-> "none"]
        /\ disposed = FALSE /\ keyings = 0 /\ events = 0
        /\ lost = FALSE /\ unacked = FALSE
        /\ overtaken = {} /\ astray = FALSE

-----------------------------------------------------------------------------
(* Where a thread goes *)

At(p, s) == pc[p] = s
Goto(p, s, c) == pc' = [pc EXCEPT ![p] = s] /\ call' = [call EXCEPT ![p] = c]
Go(p, s) == Goto(p, s, call[p])

(* One of the bounded events. *)
Event == events < MaxEvents /\ events' = events + 1

(* ForceReleaseAsync or DisposeAsync, not a KeyUpAsync. *)
Forced(p) == call[p] = "force"
(* A thread that has decided to release and is not done with it. *)
Releasing(p) == pc[p] \in {"unkey", "clear", "freeCheck", "free"}

(* The end of the call in progress, by an exception or not: what its caller does
   next.  TransmitAsync ignores an exception of its KeyUpAsync; after a clip that
   played, a cancelled token still ends the session. *)
Return(p) ==
  \/ call[p] = "catch" /\ Goto(p, "freeCheck", "outer")
  \/ call[p] = "outer" /\ p \in Services /\ Goto(p, "up", "thrown")
  \/ call[p] = "finally" /\ (Goto(p, "idle", "none") \/ Goto(p, "up", "safeAbort"))
  \/ call[p] = "thrown" /\ Goto(p, "up", "safeAbort")
  \/ call[p] \in {"safeAbort", "once", "force"} /\ Goto(p, "idle", "none")
  \/ call[p] = "outer" /\ p \notin Services /\ Goto(p, "idle", "none")

-----------------------------------------------------------------------------
(* KeyDownAsync *)

(* The Test endpoint refuses while a service is inside TransmitAsync; when that
   service goes on to SafeAbortToIdleAsync, _keying is false again. *)
Keying == \E s \in Services : ~At(s, "idle") /\ call[s] # "safeAbort"

KeyDown(p) ==
  /\ At(p, "idle") /\ keyings < MaxKeyings
  /\ p \in Testers => ~Keying
  /\ Go(p, "wait") /\ keyings' = keyings + 1
  /\ UNCHANGED <<rig, flagVars, wdVars, disposed, events, histVars>>

(* The lock, and _txLockHeld with it. *)
Acquire(p) ==
  /\ At(p, "wait") /\ permits = 1
  /\ permits' = 0 /\ held' = TRUE
  /\ Go(p, "locked")
  /\ UNCHANGED <<rig, asserted, wdVars, countVars, histVars>>

(* The token is cancelled while waiting: nothing to undo yet. *)
AcquireCancelled(p) ==
  /\ At(p, "wait")
  /\ IF p \in Services THEN Goto(p, "up", "thrown") ELSE Goto(p, "idle", "none")
  /\ UNCHANGED <<rig, flagVars, wdVars, countVars, histVars>>

(* SetPttAsync(true) *)
KeyCommand(p) ==
  /\ At(p, "locked")
  /\ rig' = "tx"
  /\ Go(p, "keyed")
  /\ UNCHANGED <<flagVars, wdVars, countVars, histVars>>

(* It throws, or the token is cancelled: before the rig obeyed or, since
   RigctldConnection waits for an acknowledgement, after it. *)
KeyCommandFails(p) ==
  /\ At(p, "locked")
  /\ \/ UNCHANGED <<rig, events, unacked>>
     \/ rig' = "tx" /\ unacked' = TRUE /\ Event
  /\ Goto(p, "freeCheck", "outer")
  /\ UNCHANGED <<flagVars, wdVars, disposed, keyings, lost, overtaken, astray>>

(* Who is between its release command and the write that clears the flag. *)
Clearing == {q \in Actors : At(q, "clear")}

(* faulty: the watchdog is not armed *)
AssertUnarmed(p) ==
  /\ At(p, "keyed")
  /\ asserted' = TRUE
  /\ overtaken' = overtaken \cup Clearing
  /\ Go(p, "playing")
  /\ UNCHANGED <<rig, permits, held, wdVars, countVars, lost, unacked, astray>>

(* _pttAsserted, and the watchdog is armed. *)
Assert(p) ==
  /\ At(p, "keyed")
  /\ asserted' = TRUE /\ timer' = TRUE
  /\ overtaken' = overtaken \cup Clearing
  /\ Go(p, "playing")
  /\ UNCHANGED <<rig, permits, held, due, countVars, lost, unacked, astray>>

(* The clip ends, or is stopped by another thread's KeyUpAsync. *)
PlayEnds(p) ==
  /\ At(p, "playing")
  /\ Goto(p, "up", IF p \in Services THEN "finally" ELSE "once")
  /\ UNCHANGED <<rig, flagVars, wdVars, countVars, histVars>>

(* The token is cancelled, or the device fails. *)
PlayThrows(p) ==
  /\ At(p, "playing")
  /\ Goto(p, "up", "catch")
  /\ UNCHANGED <<rig, flagVars, wdVars, countVars, histVars>>

-----------------------------------------------------------------------------
(* KeyUpAsync, and what it shares with the forced releases *)

Disarm(p) ==
  /\ At(p, "up")
  /\ timer' = FALSE
  /\ Go(p, "stopping")
  /\ UNCHANGED <<rig, flagVars, due, countVars, histVars>>

CheckAsserted(p) ==
  /\ At(p, "stopping")
  /\ \/ asserted /\ Go(p, "unkey")
     \/ ~asserted /\ Return(p)
  /\ UNCHANGED <<rig, flagVars, wdVars, countVars, histVars>>

(* SetPttAsync(false).  KeyUpAsync clears the flag after it; a forced release
   has cleared it before. *)
Unkey(p) ==
  /\ At(p, "unkey")
  /\ rig' = "rx"
  /\ Go(p, IF Forced(p) THEN "freeCheck" ELSE "clear")
  /\ UNCHANGED <<flagVars, wdVars, countVars, histVars>>

(* It throws, and the call is over; only DisposeAsync catches that and goes on. *)
UnkeyFails(p) ==
  /\ At(p, "unkey") /\ Event
  /\ lost' = TRUE
  /\ IF p = Disposer THEN Go(p, "freeCheck") ELSE Return(p)
  /\ UNCHANGED <<rig, flagVars, wdVars, disposed, keyings, unacked, overtaken, astray>>

(* The flag it clears may be that of a later keying: the one that gave the lock
   back for this keying need not be the last to get here. *)
Clear(p) ==
  /\ At(p, "clear")
  /\ asserted' = FALSE
  /\ astray' = (astray \/ (asserted /\ p \in overtaken))
  /\ overtaken' = overtaken \ {p}
  /\ Go(p, "freeCheck")
  /\ UNCHANGED <<rig, permits, held, wdVars, countVars, lost, unacked>>

(* faulty: a forced release leaves the lock to the key-up it interrupts *)
FreeCheckNotForced(p) ==
  /\ At(p, "freeCheck")
  /\ \/ held /\ ~Forced(p) /\ Go(p, "free")
     \/ (~held \/ Forced(p)) /\ Return(p)
  /\ UNCHANGED <<rig, flagVars, wdVars, countVars, histVars>>

(* ReleaseTxLockOnce: look at _txLockHeld ... *)
FreeCheck(p) ==
  /\ At(p, "freeCheck")
  /\ \/ held /\ Go(p, "free")
     \/ ~held /\ Return(p)
  /\ UNCHANGED <<rig, flagVars, wdVars, countVars, histVars>>

(* faulty: the semaphore has no maximum count *)
FreeUnbounded(p) ==
  /\ At(p, "free")
  /\ held' = FALSE
  /\ permits' = permits + 1 /\ Return(p)
  /\ UNCHANGED <<rig, asserted, wdVars, countVars, histVars>>

(* ... clear it, and release.  A semaphore that is free throws, which nobody tells
   from the end of the call. *)
Free(p) ==
  /\ At(p, "free")
  /\ held' = FALSE /\ permits' = 1
  /\ Return(p)
  /\ UNCHANGED <<rig, asserted, wdVars, countVars, histVars>>

-----------------------------------------------------------------------------
(* The other ways to release *)

(* AbortAsync calls KeyUpAsync on the HTTP thread, beside the service. *)
Abort ==
  /\ At(Aborter, "idle") /\ Event
  /\ Goto(Aborter, "up", "once")
  /\ UNCHANGED <<rig, flagVars, wdVars, disposed, keyings, histVars>>

(* A session ends in a wait (a stop, the retry limit, its own watchdog):
   SafeAbortToIdleAsync calls KeyUpAsync, whoever is keyed. *)
SafeAbort(p) ==
  /\ p \in Services /\ At(p, "idle") /\ Event
  /\ Goto(p, "up", "safeAbort")
  /\ UNCHANGED <<rig, flagVars, wdVars, disposed, keyings, histVars>>

(* The timer runs out: from here on its callback comes, whatever is disarmed. *)
TimerFires ==
  /\ timer /\ ~due
  /\ due' = TRUE
  /\ UNCHANGED <<rig, flagVars, timer, pc, call, countVars, histVars>>

(* OnFired, under the gate: the timer it finds may be a later one. *)
OnFired ==
  /\ due /\ At(Watchdog, "idle")
  /\ due' = FALSE
  /\ \/ timer /\ timer' = FALSE /\ Goto(Watchdog, "forcing", "force")
     \/ ~timer /\ UNCHANGED <<timer, pc, call>>
  /\ UNCHANGED <<rig, flagVars, countVars, histVars>>

(* faulty: the clip is stopped, and the release is left to its key-up *)
ForceStopOnly ==
  /\ At(Watchdog, "forcing")
  /\ Return(Watchdog)
  /\ UNCHANGED <<rig, flagVars, wdVars, countVars, histVars>>

(* ForceReleaseAsync: the flag goes first. *)
ForceRelease ==
  /\ At(Watchdog, "forcing")
  /\ \/ asserted /\ Go(Watchdog, "unkey")
     \/ ~asserted /\ Return(Watchdog)
  /\ asserted' = FALSE
  /\ UNCHANGED <<rig, permits, held, wdVars, countVars, histVars>>

(* DisposeAsync *)
Dispose ==
  /\ ~disposed /\ disposed' = TRUE /\ Event
  /\ timer' = FALSE
  /\ \/ asserted /\ Goto(Disposer, "unkey", "force")
     \/ ~asserted /\ UNCHANGED <<pc, call>>
  /\ asserted' = FALSE
  /\ UNCHANGED <<rig, permits, held, due, keyings, histVars>>

-----------------------------------------------------------------------------
(* Steps a thread takes as soon as it is scheduled. *)
Progress(p) ==
  \/ KeyCommand(p) \/ Assert(p)
  \/ Disarm(p) \/ CheckAsserted(p) \/ Unkey(p) \/ Clear(p)
  \/ FreeCheck(p) \/ Free(p)

KeyDownStep(p) ==
  \/ KeyDown(p) \/ Acquire(p) \/ AcquireCancelled(p)
  \/ KeyCommandFails(p)
  \/ PlayEnds(p) \/ PlayThrows(p)
  \/ SafeAbort(p)

Next == \/ \E p \in Users : KeyDownStep(p)
        \/ \E p \in Actors : Progress(p) \/ UnkeyFails(p)
        \/ Abort \/ TimerFires \/ OnFired \/ ForceRelease \/ Dispose

Spec == Init /\ [][Next]_vars

(* A thread that can go on does, and a timer runs out.  Not assumed: that a
   clip ever ends, nor that the lock is fair. *)
FairSpec == /\ Spec
            /\ \A p \in Actors : WF_vars(Progress(p))
            /\ WF_vars(TimerFires) /\ WF_vars(OnFired) /\ WF_vars(ForceRelease)

-----------------------------------------------------------------------------
(* Properties *)

(* Somebody is still going to release the rig: the thread that just keyed it, one
   on its way to the release command, or, while the flag that lets them is set,
   the timer, its callback or a key-up that has disarmed it. *)
InHand ==
  \/ \E p \in Actors : At(p, "keyed") \/ At(p, "unkey")
  \/ asserted /\ (timer \/ \E p \in Actors : At(p, "stopping") \/ At(p, "forcing"))

(* What the controller makes of "PTT is guaranteed released on any exception during
   KeyDownAsync, on cancellation, on a watchdog trip, and on DisposeAsync": a keyed
   rig is in somebody's hands, however callers overlap, until one of three things
   happens: a release command fails, a key command fails after the rig obeyed it,
   or a key-up that a later keying has overtaken clears the flag of that keying. *)
Attended == rig = "tx" => InHand \/ lost \/ unacked \/ astray

(* The guarantee as the comment gives it, while the rig obeys release commands. *)
GuaranteedRelease == rig = "tx" => InHand \/ lost

(* "Released exactly once per successful acquire by whichever of KeyUpAsync /
   ForceReleaseAsync / DisposeAsync (or KeyDownAsync's own catch block, for a
   pre-assert failure) actually performs the release": while the lock is taken
   somebody is still going to give it back - a thread between taking it and the
   assertion, one on its way from the release command to the lock, or, while the
   flag is set, the timer, its callback or a key-up that has disarmed it. *)
LockAttended ==
  permits = 0 /\ ~lost =>
    \/ \E p \in Actors : pc[p] \in {"locked", "keyed"} \/ Releasing(p)
    \/ asserted /\ (timer \/ \E p \in Actors : At(p, "stopping") \/ At(p, "forcing"))

Transmitting == \E s \in Services : rig = "tx" /\ pc[s] \in {"keyed", "playing"}

(* The comment on _txLock says of a Test click that without the lock "its own short
   KeyUpAsync could de-assert PTT mid-transmission, physically unkeying a real
   over-the-air transmission", and that with it "a second caller's KeyDownAsync
   cannot begin asserting PTT until the first caller's KeyUpAsync has fully
   completed": no release command of a test reaches the rig while a service is
   transmitting. *)
TestNeverUnkeysATransmission ==
  [][\A p \in Testers : At(p, "unkey") /\ pc'[p] = "clear" => ~Transmitting]_vars

(* Every keying ends, even if the clip never does: the watchdog is the backstop,
   and no interleaving of it with key-ups, aborts, later keyings and a disposal
   loses it, but for the three events that Attended names. *)
Released == rig = "tx" ~> rig = "rx" \/ lost \/ unacked \/ astray

(* The lock always comes free again: of the releases that may race for one
   keying, one gives it back. *)
LockFreed == permits = 0 ~> permits = 1 \/ lost

(* Why Attended is preserved: who is about to clear the flag has released the rig,
   and if the rig is keyed again it is by a keying that has not set the flag yet,
   or that has overtaken the clearing one. *)
ClearInv ==
  \A p \in Clearing : rig = "tx" =>
    \/ \E q \in Actors : At(q, "keyed") \/ At(q, "unkey")
    \/ lost \/ unacked \/ p \in overtaken

(* Who makes which calls. *)
CallsMatch ==
  \A p \in Actors : /\ p \notin Users => call[p] \in {"none", "once", "force"}
                    /\ pc[p] \in {"idle", "wait"} => call[p] = "none"
                    /\ pc[p] \in {"up", "stopping"} => ~Forced(p)

(* Why LockAttended is preserved, whoever overlaps: _txLockHeld tells whether the
   lock is taken, so who looks at it before the release finds it so. *)
HeldIsTaken == held <=> permits = 0

(* The inductive invariants: of the rig, and of the lock. *)
IInv    == TypeOK /\ CallsMatch /\ Attended /\ ClearInv
LockInv == HeldIsTaken /\ LockAttended
=============================================================================
