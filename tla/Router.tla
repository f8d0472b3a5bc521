------------------------------- MODULE Router -------------------------------
(***************************************************************************)
(* The two QSO services behind their router (QsoControllerRouter): which   *)
(* of them is in charge, how the HTTP and UDP requests exchange the roles, *)
(* and how a caller's session gives its role back.                         *)
(*                                                                         *)
(* Answerer and Caller model what a service does in a session.  Here a     *)
(* session is only where it stands towards the router:                     *)
(*   idle       waiting for a batch, State is Idle                         *)
(*   deciding   the answerer has chosen a station and saves the TX offset; *)
(*              State is still Idle                                        *)
(*   busy       State is not Idle                                          *)
(*   releasing  in SafeAbortToIdleAsync, State is not Idle yet             *)
(*   clearing   in SafeAbortToIdleAsync entered from Idle, by a            *)
(*              cancellation that came too late for the session before     *)
(*                                                                         *)
(* Everybody tests State and the flags without a lock, and saves the       *)
(* configuration later.  Steps with no await between them are one action:  *)
(* a test of State with the exchange of roles that follows it (so the      *)
(* answerer is Idle whenever SwitchToCallerAsync looks, and its own abort  *)
(* of the answerer is not needed), and Idle with OnBecameIdle.             *)
(*                                                                         *)
(* Requests come in any number; the state is finite.  Not represented:     *)
(* which station a target names, the phases it waits for and its expiry    *)
(* (Answerer), the choice of a responder and the graceful stop (Caller).   *)
(***************************************************************************)
CONSTANTS Configured,   \* tx.role when the daemon started: the configured role
          DiskFaults    \* TRUE: a save of the configuration may fail

Roles == {"answerer", "caller"}

ASSUME ConfiguredAssumption == Configured \in Roles
ASSUME DiskAssumption       == DiskFaults \in BOOLEAN

VARIABLES
  role,        \* _activeRole
  active,      \* the services whose IsActive is set
  phase,       \* where each service stands
  target,      \* the answerer has a pending target or a jump-in
  cancelled,   \* the services whose current _txCts is cancelled
  autoAnswer,  \* tx.autoAnswer in the configuration store
  http         \* steps HTTP handlers still have to make

serviceVars == <<phase, target, cancelled>>
roleVars    == <<role, active>>
vars == <<roleVars, serviceVars, autoAnswer, http>>

Phases == {"idle", "deciding", "busy", "releasing", "clearing"}

TypeOK == /\ role \in Roles /\ active \subseteq Roles
          /\ phase \in [Roles -> Phases] /\ phase["caller"] # "deciding"
          /\ target \in BOOLEAN /\ cancelled \subseteq Roles
          /\ autoAnswer \in BOOLEAN
          /\ http \subseteq {"arm", "disarm", "engage"}

-----------------------------------------------------------------------------
(* What the router and the endpoints see of a service: its State. *)
StateIdle(s) == phase[s] \in {"idle", "deciding", "clearing"}

(* The exchange of roles in SwitchToCallerAsync and EngageAtAsync. *)
TakeRole(r) == role' = r /\ active' = {r}

(* RevertToConfiguredRole: the flags are exchanged only towards the answerer. *)
Revert ==
  \/ role = Configured /\ UNCHANGED roleVars
  \/ /\ role # Configured /\ role' = Configured
     /\ active' = IF Configured = "answerer" THEN {"answerer"} ELSE active

(* AbortAsync of the service in charge: the answerer forgets its target even
   while Idle; a service that is not Idle has its current token cancelled. *)
AbortActive ==
  /\ target' = (target /\ role # "answerer")
  /\ cancelled' = IF StateIdle(role) THEN cancelled ELSE cancelled \cup {role}

-----------------------------------------------------------------------------
(* The services *)

(* HandleIdleAsync of the answerer: a target fires, armed or not; a CQ is
   answered while armed. *)
AnswererDecides ==
  /\ phase["answerer"] = "idle" /\ "answerer" \in active
  /\ target \/ autoAnswer
  /\ phase' = [phase EXCEPT !["answerer"] = "deciding"]
  /\ target' = FALSE
  /\ UNCHANGED <<roleVars, cancelled, autoAnswer, http>>

(* The offset is saved: TxAnswer; or the save threw. *)
AnswererStarts ==
  /\ phase["answerer"] = "deciding"
  /\ \/ phase' = [phase EXCEPT !["answerer"] = "busy"] /\ UNCHANGED <<target, cancelled>>
     \/ /\ DiskFaults
        /\ phase' = [phase EXCEPT !["answerer"] = "clearing"]
        /\ target' = FALSE /\ cancelled' = cancelled \ {"answerer"}
  /\ UNCHANGED <<roleVars, autoAnswer, http>>

(* faulty: the caller reads the flags before a wait and starts after it *)
CallerStartsLate ==
  /\ phase["caller"] \in {"idle", "deciding"} /\ "caller" \notin cancelled
  /\ \/ phase["caller"] = "idle" /\ "caller" \in active /\ autoAnswer
     \/ phase["caller"] = "deciding"
  /\ phase' = [phase EXCEPT !["caller"] = IF @ = "idle" THEN "deciding" ELSE "busy"]
  /\ UNCHANGED <<roleVars, target, cancelled, autoAnswer, http>>

(* HandleIdleAsync of the caller: TxCq. *)
CallerStarts ==
  /\ phase["caller"] = "idle" /\ "caller" \in active /\ autoAnswer
  /\ "caller" \notin cancelled
  /\ phase' = [phase EXCEPT !["caller"] = "busy"]
  /\ UNCHANGED <<roleVars, target, cancelled, autoAnswer, http>>

(* A session ends, for any of its reasons: SafeAbortToIdleAsync up to its first
   await. *)
Ends(s) ==
  /\ phase[s] = "busy"
  /\ phase' = [phase EXCEPT ![s] = "releasing"]
  /\ target' = (target /\ s # "answerer")
  /\ cancelled' = cancelled \ {s}
  /\ UNCHANGED <<roleVars, autoAnswer, http>>

(* The caller's loop notices a cancelled token in Idle too (the answerer's does
   not: it stays until its next session). *)
CallerClears ==
  /\ phase["caller"] = "idle" /\ "caller" \in cancelled
  /\ phase' = [phase EXCEPT !["caller"] = "clearing"]
  /\ cancelled' = cancelled \ {"caller"}
  /\ UNCHANGED <<roleVars, target, autoAnswer, http>>

(* faulty: the caller's return to Idle is not reported to the router *)
ReleasedUnreported(s) ==
  /\ phase[s] \in {"releasing", "clearing"}
  /\ phase' = [phase EXCEPT ![s] = "idle"]
  /\ autoAnswer' = FALSE \/ (DiskFaults /\ UNCHANGED autoAnswer)
  /\ UNCHANGED <<roleVars, target, cancelled, http>>

(* SafeAbortToIdleAsync from KeyUpAsync on: the supervised disarm, Idle, and the
   caller's OnBecameIdle. *)
Released(s) ==
  /\ phase[s] \in {"releasing", "clearing"}
  /\ phase' = [phase EXCEPT ![s] = "idle"]
  /\ autoAnswer' = FALSE \/ (DiskFaults /\ UNCHANGED autoAnswer)
  /\ \/ s = "caller" /\ Revert
     \/ s # "caller" /\ UNCHANGED roleVars
  /\ UNCHANGED <<target, cancelled, http>>

-----------------------------------------------------------------------------
(* The requests *)

(* faulty: the caller is put in charge, and only the role is written *)
CallCqRoleOnly ==
  /\ StateIdle(role)
  /\ role' = "caller" /\ active' = active \cup {"caller"}
  /\ http' = http \cup {"arm"}
  /\ UNCHANGED <<serviceVars, autoAnswer>>

(* POST /tx/call-cq and SwitchToCallerAsync up to its save. *)
CallCq ==
  /\ StateIdle(role)
  /\ TakeRole("caller")
  /\ http' = http \cup {"arm"}
  /\ UNCHANGED <<serviceVars, autoAnswer>>

(* POST /tx/enable and /tx/disable *)
SetArmed ==
  /\ autoAnswer' \in BOOLEAN
  /\ UNCHANGED <<roleVars, serviceVars, http>>

(* POST /tx/abort up to its save. *)
Abort ==
  /\ AbortActive
  /\ http' = http \cup {"disarm"}
  /\ UNCHANGED <<roleVars, phase, autoAnswer>>

(* POST /tx/answer-cq up to its save; a caller in charge ignores it. *)
AnswerCq ==
  /\ StateIdle(role) /\ role = "answerer"
  /\ target' = TRUE
  /\ http' = http \cup {"arm"}
  /\ UNCHANGED <<roleVars, phase, cancelled, autoAnswer>>

(* TryEngageAsync: an external reply to a CQ, saving nothing. *)
ExternalReply ==
  /\ StateIdle(role) /\ role = "answerer"
  /\ target' = TRUE
  /\ UNCHANGED <<roleVars, phase, cancelled, autoAnswer, http>>

(* EngageAtAsync: a jump-in is always the answerer's. *)
EngageAt ==
  /\ TakeRole("answerer") /\ target' = TRUE
  /\ UNCHANGED <<phase, cancelled, autoAnswer>>

(* POST /tx/engage-decode: at once while Idle, else abort and wait for Idle. *)
Engage ==
  \/ StateIdle(role) /\ EngageAt /\ UNCHANGED http
  \/ /\ ~StateIdle(role) /\ AbortActive
     /\ http' = http \cup {"engage"}
     /\ UNCHANGED <<roleVars, phase, autoAnswer>>

(* The save a handler ends with, or its failure (500). *)
HttpSave ==
  /\ UNCHANGED <<roleVars, serviceVars>>
  /\ \E step \in http \cap {"arm", "disarm"} :
       /\ http' = http \ {step}
       /\ autoAnswer' = (step = "arm") \/ (DiskFaults /\ UNCHANGED autoAnswer)

(* faulty: the jump-in does not wait for the aborted session *)
HttpEngageAtOnce ==
  /\ "engage" \in http /\ http' = http \ {"engage"}
  /\ EngageAt

(* The poll of State: Idle, or two seconds have passed (503). *)
HttpEngage ==
  /\ "engage" \in http /\ http' = http \ {"engage"}
  /\ \/ StateIdle(role) /\ EngageAt
     \/ ~StateIdle(role) /\ UNCHANGED <<roleVars, serviceVars, autoAnswer>>

-----------------------------------------------------------------------------
Init ==
  /\ role = Configured /\ active = {Configured}
  /\ phase = [r \in Roles |-> "idle"]
  /\ target = FALSE /\ cancelled = {}
  /\ autoAnswer = FALSE
  /\ http = {}

Service == \/ AnswererDecides \/ AnswererStarts
           \/ CallerStarts \/ CallerClears
           \/ \E s \in Roles : Ends(s) \/ Released(s)

Operator == CallCq \/ SetArmed \/ Abort \/ AnswerCq \/ ExternalReply \/ Engage

Next == Service \/ Operator \/ HttpSave \/ HttpEngage

Spec == Init /\ [][Next]_vars

(* A session ends (Answerer!SessionsEnd, and the watchdog of the caller), and
   SafeAbortToIdleAsync returns: its awaits are a rig command and a save, both
   with caught errors. *)
FairSpec == /\ Spec
            /\ \A s \in Roles : WF_vars(Ends(s)) /\ WF_vars(Released(s))

-----------------------------------------------------------------------------
(* Properties, for a daemon configured as an answerer *)

(* The router's role is the service whose IsActive is set: the aborts, stops and
   targets it delegates reach the service that may start a session. *)
RoleMatchesActive == active = {role}

(* A caller in a session is in charge: an abort reaches it, and it is never left
   transmitting behind an answerer that took the role. *)
CallerInCharge == phase["caller"] = "busy" => role = "caller"

(* A caller's session gives the role back.  (OnBecameIdle.) *)
RoleReverts == phase["caller"] = "busy" ~> role = Configured

(* The inductive invariant. *)
IInv == /\ TypeOK
        /\ RoleMatchesActive
        /\ CallerInCharge
=============================================================================
