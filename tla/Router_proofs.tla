---------------------------- MODULE Router_proofs ----------------------------
(***************************************************************************)
(* Proofs about Router.  The types hold whatever the daemon is configured  *)
(* as.  The other results are for one configured as an answerer, the       *)
(* default of tx.role, and do not hold for a caller: there                 *)
(* RevertToConfiguredRole restores the role without the flags.             *)
(***************************************************************************)
EXTENDS Router, TLAPS

(* The two of the services are all there is. *)
LEMMA Others ==
  ASSUME NEW s \in Roles, s # "caller"
  PROVE  s = "answerer"
BY DEF Roles

(* An exchange of the roles while the caller is not in a session. *)
LEMMA TakeKeeps ==
  ASSUME IInv, NEW r \in Roles, TakeRole(r), phase' = phase, StateIdle(role),
         target' \in BOOLEAN, cancelled' \subseteq Roles, autoAnswer' \in BOOLEAN,
         http' \subseteq {"arm", "disarm", "engage"}
  PROVE  IInv'
<1>1. phase["caller"] # "busy"
  BY DEF IInv, CallerInCharge, StateIdle
<1> QED BY <1>1 DEF IInv, TypeOK, TakeRole, RoleMatchesActive, CallerInCharge

(* A step that leaves the roles and the phases. *)
LEMMA AsideKeeps ==
  ASSUME IInv, UNCHANGED <<roleVars, phase>>,
         target' \in BOOLEAN, cancelled' \subseteq Roles, autoAnswer' \in BOOLEAN,
         http' \subseteq {"arm", "disarm", "engage"}
  PROVE  IInv'
BY DEF IInv, TypeOK, roleVars, RoleMatchesActive, CallerInCharge

(* A step that moves one service, not the caller into a session unless it is in
   charge, and leaves the roles. *)
LEMMA MoveKeeps ==
  ASSUME IInv, NEW s \in Roles, NEW p \in Phases, phase' = [phase EXCEPT ![s] = p],
         s = "caller" => p # "deciding" /\ (p = "busy" => role = "caller"),
         UNCHANGED roleVars,
         target' \in BOOLEAN, cancelled' \subseteq Roles, autoAnswer' \in BOOLEAN,
         http' \subseteq {"arm", "disarm", "engage"}
  PROVE  IInv'
<1>1. phase \in [Roles -> Phases] BY DEF IInv, TypeOK
<1>2. "caller" \in Roles BY DEF Roles
<1>3. phase' \in [Roles -> Phases] BY <1>1
<1>4. phase'["caller"] = IF s = "caller" THEN p ELSE phase["caller"] BY <1>1, <1>2
<1>5. TypeOK' BY <1>3, <1>4 DEF IInv, TypeOK, roleVars
<1>6. CallerInCharge' BY <1>4 DEF IInv, CallerInCharge, roleVars
<1> QED BY <1>5, <1>6 DEF IInv, RoleMatchesActive, roleVars

(* IInv is inductive. *)
LEMMA InitIInv == Init => IInv
BY ConfiguredAssumption
   DEF Init, IInv, TypeOK, Phases, Roles, RoleMatchesActive, CallerInCharge

(* The services keep it. *)
LEMMA ServiceSteps ==
  ASSUME Configured = "answerer", IInv, Service
  PROVE  IInv'
<1> USE DEF Phases
<1>0. /\ target \in BOOLEAN /\ cancelled \subseteq Roles /\ autoAnswer \in BOOLEAN
      /\ http \subseteq {"arm", "disarm", "engage"}
      /\ "answerer" \in Roles /\ "caller" \in Roles
  BY DEF IInv, TypeOK, Roles
<1>1. CASE AnswererDecides BY <1>0, <1>1, MoveKeeps DEF AnswererDecides
<1>2. CASE AnswererStarts
  <2>1. CASE phase' = [phase EXCEPT !["answerer"] = "busy"] /\ UNCHANGED <<target, cancelled>>
    BY <1>0, <1>2, <2>1, MoveKeeps DEF AnswererStarts
  <2>2. CASE /\ phase' = [phase EXCEPT !["answerer"] = "clearing"]
             /\ target' = FALSE /\ cancelled' = cancelled \ {"answerer"}
    BY <1>0, <1>2, <2>2, MoveKeeps DEF AnswererStarts
  <2> QED BY <1>2, <2>1, <2>2 DEF AnswererStarts
<1>3. CASE CallerStarts
  <2>1. role = "caller" BY <1>3 DEF CallerStarts, IInv, RoleMatchesActive
  <2> QED BY <1>0, <1>3, <2>1, MoveKeeps DEF CallerStarts
<1>4. CASE CallerClears BY <1>0, <1>4, MoveKeeps DEF CallerClears
<1>5. ASSUME NEW s \in Roles, Ends(s) PROVE IInv'
  BY <1>0, <1>5, MoveKeeps DEF Ends
<1>6. ASSUME NEW s \in Roles, Released(s) PROVE IInv'
  <2> USE <1>6 DEF Released
  <2>1. autoAnswer' \in BOOLEAN BY <1>0
  <2>2. CASE UNCHANGED roleVars BY <1>0, <2>1, <2>2, MoveKeeps
  <2>3. CASE s = "caller" /\ role' = Configured /\ active' = {"answerer"}
    <3>1. phase \in [Roles -> Phases] BY DEF IInv, TypeOK
    <3>2. phase' \in [Roles -> Phases] /\ phase'["caller"] = "idle" BY <1>0, <2>3, <3>1
    <3>3. role' \in Roles /\ active' \subseteq Roles BY <1>0, <2>3
    <3>4. TypeOK' BY <1>0, <2>1, <3>2, <3>3 DEF TypeOK
    <3> QED BY <2>3, <3>2, <3>4 DEF IInv, RoleMatchesActive, CallerInCharge
  <2> QED BY <2>2, <2>3 DEF Revert
<1> QED BY <1>1, <1>2, <1>3, <1>4, <1>5, <1>6 DEF Service

(* The requests keep it: the roles are exchanged only while the service in
   charge is Idle. *)
LEMMA RequestSteps ==
  ASSUME IInv, Operator \/ HttpSave \/ HttpEngage
  PROVE  IInv'
<1> USE DEF serviceVars
<1>0. /\ target \in BOOLEAN /\ cancelled \subseteq Roles /\ autoAnswer \in BOOLEAN
      /\ http \subseteq {"arm", "disarm", "engage"} /\ role \in Roles
      /\ "answerer" \in Roles /\ "caller" \in Roles
  BY DEF IInv, TypeOK, Roles
<1>1. AbortActive => target' \in BOOLEAN /\ cancelled' \subseteq Roles
  BY <1>0 DEF AbortActive
<1>2. CASE CallCq BY <1>0, <1>2, TakeKeeps DEF CallCq
<1>3. CASE SetArmed BY <1>0, <1>3, AsideKeeps DEF SetArmed
<1>4. CASE Abort BY <1>0, <1>1, <1>4, AsideKeeps DEF Abort
<1>5. CASE AnswerCq \/ ExternalReply
  BY <1>0, <1>5, AsideKeeps DEF AnswerCq, ExternalReply
<1>6. CASE StateIdle(role) /\ EngageAt /\ http' \subseteq {"arm", "disarm", "engage"}
  BY <1>0, <1>6, TakeKeeps DEF EngageAt
<1>7. CASE Engage
  <2>1. CASE StateIdle(role) /\ EngageAt /\ UNCHANGED http BY <1>0, <1>6, <2>1
  <2>2. CASE /\ AbortActive /\ http' = http \cup {"engage"}
             /\ UNCHANGED <<roleVars, phase, autoAnswer>>
    BY <1>0, <1>1, <2>2, AsideKeeps
  <2> QED BY <1>7, <2>1, <2>2 DEF Engage
<1>8. CASE HttpSave BY <1>0, <1>8, AsideKeeps DEF HttpSave
<1>9. CASE HttpEngage
  <2>1. http' \subseteq {"arm", "disarm", "engage"} BY <1>0, <1>9 DEF HttpEngage
  <2>2. CASE UNCHANGED <<roleVars, serviceVars, autoAnswer>>
    BY <1>0, <2>1, <2>2, AsideKeeps
  <2> QED BY <1>6, <1>9, <2>1, <2>2 DEF HttpEngage
<1> QED BY <1>2, <1>3, <1>4, <1>5, <1>7, <1>8, <1>9 DEF Operator

(* Every reachable state satisfies the inductive invariant. *)
THEOREM Inductive ==
  ASSUME Configured = "answerer"
  PROVE  Spec => []IInv
<1>1. IInv /\ [Next]_vars => IInv'
  <2> SUFFICES ASSUME IInv, [Next]_vars PROVE IInv' OBVIOUS
  <2>1. CASE Service BY <2>1, ServiceSteps
  <2>2. CASE Operator \/ HttpSave \/ HttpEngage BY <2>2, RequestSteps
  <2>3. CASE UNCHANGED vars
    <3>1. /\ target' \in BOOLEAN /\ cancelled' \subseteq Roles /\ autoAnswer' \in BOOLEAN
          /\ http' \subseteq {"arm", "disarm", "engage"}
      BY <2>3 DEF vars, serviceVars, IInv, TypeOK
    <3> QED BY <2>3, <3>1, AsideKeeps DEF vars, serviceVars
  <2> QED BY <2>1, <2>2, <2>3 DEF Next
<1> QED BY InitIInv, <1>1, PTL DEF Spec

(* The router's role and the IsActive flags of the services always agree. *)
THEOREM RolesAgree ==
  ASSUME Configured = "answerer"
  PROVE  Spec => []RoleMatchesActive
<1>1. IInv => RoleMatchesActive BY DEF IInv
<1> QED BY <1>1, Inductive, PTL

(* A caller in a session is the service the router delegates to, whatever
   engagements, calls and late aborts come in whatever order. *)
THEOREM CallerReachable ==
  ASSUME Configured = "answerer"
  PROVE  Spec => []CallerInCharge
<1>1. IInv => CallerInCharge BY DEF IInv
<1> QED BY <1>1, Inductive, PTL

-----------------------------------------------------------------------------
(* The types, for both configured roles *)

(* A service moves from one phase to another; the caller never decides. *)
LEMMA MoveTypes ==
  ASSUME TypeOK, NEW s \in Roles, NEW p \in Phases, phase' = [phase EXCEPT ![s] = p],
         s = "caller" => p # "deciding"
  PROVE  phase' \in [Roles -> Phases] /\ phase'["caller"] # "deciding"
<1>1. "caller" \in Roles BY DEF Roles
<1> QED BY <1>1 DEF TypeOK

LEMMA PhaseTypes ==
  ASSUME TypeOK, [Next]_vars
  PROVE  phase' \in [Roles -> Phases] /\ phase'["caller"] # "deciding"
<1> USE DEF Phases
<1>0. "answerer" \in Roles /\ "caller" \in Roles BY DEF Roles
<1>1. CASE UNCHANGED phase BY <1>1 DEF TypeOK
<1>2. CASE AnswererDecides BY <1>0, <1>2, MoveTypes DEF AnswererDecides
<1>3. CASE AnswererStarts BY <1>0, <1>3, MoveTypes DEF AnswererStarts
<1>4. CASE CallerStarts BY <1>0, <1>4, MoveTypes DEF CallerStarts
<1>5. CASE CallerClears BY <1>0, <1>5, MoveTypes DEF CallerClears
<1>6. ASSUME NEW s \in Roles, Ends(s) \/ Released(s)
      PROVE  phase' \in [Roles -> Phases] /\ phase'["caller"] # "deciding"
  BY <1>6, MoveTypes DEF Ends, Released
<1>7. Operator \/ HttpSave \/ HttpEngage => UNCHANGED phase
  BY DEF Operator, CallCq, SetArmed, Abort, AnswerCq, ExternalReply, Engage, EngageAt,
         HttpSave, HttpEngage, serviceVars
<1>8. UNCHANGED vars => UNCHANGED phase BY DEF vars, serviceVars
<1> QED BY <1>1, <1>2, <1>3, <1>4, <1>5, <1>6, <1>7, <1>8 DEF Next, Service

LEMMA RoleTypes ==
  ASSUME TypeOK, [Next]_vars
  PROVE  role' \in Roles /\ active' \subseteq Roles
<1>0. role \in Roles /\ active \subseteq Roles BY DEF TypeOK
<1>1. CASE UNCHANGED roleVars BY <1>0, <1>1 DEF roleVars
<1>2. ASSUME NEW r \in Roles, TakeRole(r) PROVE role' \in Roles /\ active' \subseteq Roles
  BY <1>2 DEF TakeRole
<1>3. CASE Revert BY <1>0, <1>3, ConfiguredAssumption DEF Revert, roleVars, Roles
<1>4. Service => UNCHANGED roleVars \/ Revert
  BY DEF Service, AnswererDecides, AnswererStarts, CallerStarts, CallerClears, Ends, Released
<1>5. Operator \/ HttpSave \/ HttpEngage
        => UNCHANGED roleVars \/ TakeRole("caller") \/ TakeRole("answerer")
  BY DEF Operator, CallCq, SetArmed, Abort, AnswerCq, ExternalReply, Engage, EngageAt,
         HttpSave, HttpEngage
<1>6. UNCHANGED vars => UNCHANGED roleVars BY DEF vars
<1>7. "answerer" \in Roles /\ "caller" \in Roles BY DEF Roles
<1> QED BY <1>1, <1>2, <1>3, <1>4, <1>5, <1>6, <1>7 DEF Next

LEMMA RestTypes ==
  ASSUME TypeOK, [Next]_vars
  PROVE  /\ target' \in BOOLEAN /\ cancelled' \subseteq Roles /\ autoAnswer' \in BOOLEAN
         /\ http' \subseteq {"arm", "disarm", "engage"}
<1>0. /\ role \in Roles /\ target \in BOOLEAN /\ cancelled \subseteq Roles
      /\ autoAnswer \in BOOLEAN /\ http \subseteq {"arm", "disarm", "engage"}
  BY DEF TypeOK
<1>1. CASE Service
  BY <1>0, <1>1
     DEF Service, AnswererDecides, AnswererStarts, CallerStarts, CallerClears, Ends, Released
<1>2. CASE Operator
  BY <1>0, <1>2
     DEF Operator, CallCq, SetArmed, Abort, AbortActive, AnswerCq, ExternalReply, Engage,
         EngageAt, serviceVars
<1>3. CASE HttpSave \/ HttpEngage
  BY <1>0, <1>3 DEF HttpSave, HttpEngage, EngageAt, serviceVars
<1>4. CASE UNCHANGED vars BY <1>0, <1>4 DEF vars, serviceVars
<1> QED BY <1>1, <1>2, <1>3, <1>4 DEF Next

(* The router, the flags, the phases and the steps handlers still owe keep their
   types, for both configured roles. *)
THEOREM TypeCorrect == Spec => []TypeOK
<1>1. Init => TypeOK
  BY ConfiguredAssumption DEF Init, TypeOK, Roles, Phases
<1>2. TypeOK /\ [Next]_vars => TypeOK'
  BY PhaseTypes, RoleTypes, RestTypes DEF TypeOK
<1> QED BY <1>1, <1>2, PTL DEF Spec
=============================================================================
