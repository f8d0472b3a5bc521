-------------------------- MODULE Supervisor_proofs --------------------------
(***************************************************************************)
(* Proofs about Supervisor, for any limits, any number of restarts and     *)
(* resumptions, and any faults: types, the daemon that can always be found *)
(* again, and what a clean orphan check and an aborted precheck mean.      *)
(***************************************************************************)
EXTENDS Supervisor, TLAPS

(* The limits are positive. *)
LEMMA Limits == /\ MaxConsec \in Nat /\ MaxConsec > 0
                /\ WavStrikes \in Nat /\ WavStrikes > 0
                /\ CapturePolls \in Nat /\ CapturePolls > 0
                /\ CalmPolls \in Nat /\ CalmPolls > 0
                /\ MaxResumes \in Nat
BY LimitAssumption

(* IInv holds initially. *)
LEMMA InitIInv == Init => IInv
<1> SUFFICES ASSUME Init PROVE IInv
  OBVIOUS
<1>1. TypeOK
  <2>1. file \in [phase : Phases \cup {"none", "torn"}, pid : Pids \cup {NoPid}, window : BOOLEAN]
    BY DEF Init, NoFile
  <2>2. pc \in InTry \cup Saving \cup {"down", "launch", "record", "wait", "query"}
    BY DEF Init
  <2>3. capFalse \in 0..CapturePolls /\ strikes \in 0..WavStrikes
    BY Limits DEF Init
  <2>4. consec \in 0..MaxConsec /\ calm \in 0..CalmPolls /\ resumes \in 0..MaxResumes
    BY Limits DEF Init
  <2> QED BY <2>1, <2>2, <2>3, <2>4 DEF Init, TypeOK
<1>2. FirstInv BY DEF Init, FirstInv
<1>3. TrackInv BY DEF Init, TrackInv
<1>4. CountInv BY Limits DEF Init, CountInv
<1> QED BY <1>1, <1>2, <1>3, <1>4 DEF IInv

(* The exit of a process keeps the invariant, whatever it leaves in state.json,
   if that still names the daemon or the fault is on record. *)
LEMMA ExitKeeps ==
  ASSUME IInv, pc # "down", Exit, UNCHANGED <<armed, over, verdict, resumes>>,
         up' = up, file'.phase # "none",
         file' \in [phase : Phases \cup {"none", "torn"}, pid : Pids \cup {NoPid}, window : BOOLEAN],
         faults' \in SUBSET {"cut", "blind"},
         faults' = {} => faults = {} /\ up \subseteq {file'.pid}
  PROVE  IInv'
<1>1. TypeOK'
  BY Limits DEF IInv, TypeOK, Exit, FreshLoop
<1>2. FirstInv' BY DEF IInv, FirstInv, First, Exit
<1>3. TrackInv'
  BY DEF IInv, TrackInv, Known, Exit
<1>4. CountInv' BY Limits DEF IInv, CountInv, Exit, FreshLoop
<1> QED BY <1>1, <1>2, <1>3, <1>4 DEF IInv

(* A step of the daemons or of the clock. *)
LEMMA EnvironmentSteps ==
  ASSUME IInv, DaemonDies \/ WindowCloses
  PROVE  IInv'
<1> USE DEF IInv, loopVars, historyVars
<1>1. CASE DaemonDies
  <2>1. up' \subseteq up BY <1>1 DEF DaemonDies
  <2>2. TypeOK' BY <1>1, <2>1 DEF DaemonDies, TypeOK
  <2>3. FirstInv' BY <1>1, <2>1 DEF DaemonDies, FirstInv, First
  <2>4. TrackInv' BY <1>1, <2>1 DEF DaemonDies, TrackInv, Known
  <2>5. CountInv' BY <1>1 DEF DaemonDies, CountInv
  <2> QED BY <2>2, <2>3, <2>4, <2>5
<1>2. CASE WindowCloses
  BY <1>2 DEF WindowCloses, TypeOK, FirstInv, First, TrackInv, Known, CountInv
<1> QED BY <1>1, <1>2

(* The two ways a supervisor starts. *)
LEMMA StartSteps ==
  ASSUME IInv, Start \/ Resume
  PROVE  IInv'
<1> USE DEF IInv, loopVars, historyVars
<1>1. CASE Start
  <2>1. /\ file' = [phase |-> "PRECHECK", pid |-> NoPid, window |-> FALSE]
        /\ up = {} /\ faults = {} /\ pc = "down" /\ own = NoPid /\ verdict = "none"
    BY <1>1 DEF Start, SavePhase, NoFile, FirstInv, First
  <2>2. file'.phase # "none" BY <2>1
  <2>3. TypeOK' BY <1>1, <2>1 DEF Start, TypeOK, Saving, Phases
  <2>4. FirstInv' BY <1>1, <2>1, <2>2 DEF Start, FirstInv, NoFile
  <2>5. TrackInv' BY <1>1, <2>1 DEF Start, TrackInv, Known
  <2>6. CountInv' BY <1>1, <2>1 DEF Start, CountInv
  <2> QED BY <2>3, <2>4, <2>5, <2>6
<1>2. CASE Resume
  <2>1. TypeOK' BY <1>2, Limits DEF Resume, TypeOK
  <2>2. FirstInv' BY <1>2 DEF Resume, FirstInv, First
  <2>3. TrackInv' BY <1>2 DEF Resume, TrackInv, Known
  <2>4. CountInv' BY <1>2 DEF Resume, CountInv
  <2> QED BY <2>1, <2>2, <2>3, <2>4
<1> QED BY <1>1, <1>2

(* The steps up to the window, and those that launch a daemon. *)
LEMMA LaunchSteps ==
  ASSUME IInv,
         Precheck \/ Recorded \/ Aborted \/ OpenWindow \/ FindDaemon
           \/ Launch \/ Record \/ Restarted
  PROVE  IInv'
<1> USE Limits DEF IInv, loopVars, historyVars
<1>1. CASE Precheck
  <2>1. TypeOK' BY <1>1 DEF Precheck, TypeOK, Saving
  <2>2. FirstInv' BY <1>1 DEF Precheck, FirstInv, First, NoFile
  <2>3. TrackInv' BY <1>1 DEF Precheck, TrackInv, Known
  <2>4. CountInv' BY <1>1 DEF Precheck, CountInv
  <2> QED BY <2>1, <2>2, <2>3, <2>4
<1>2. CASE Recorded
  <2>1. TypeOK'
    <3>1. armed' \in BOOLEAN /\ up' \subseteq up /\ pc' \in Saving
      BY <1>2 DEF Recorded, KillOwn, TypeOK, Saving
    <3> QED BY <1>2, <3>1 DEF Recorded, TypeOK
  <2>2. FirstInv' BY <1>2 DEF Recorded, KillOwn, FirstInv, First
  <2>3. TrackInv' BY <1>2 DEF Recorded, KillOwn, TrackInv, Known
  <2>4. CountInv' BY <1>2 DEF Recorded, CountInv
  <2> QED BY <2>1, <2>2, <2>3, <2>4
<1>3. CASE Aborted
  <2>1. /\ file' = [file EXCEPT !.phase = "ABORTED"] /\ Exit /\ pc = "abort"
        /\ UNCHANGED <<armed, up, over, verdict, resumes, faults>>
    BY <1>3 DEF Aborted, SavePhase
  <2>2. /\ file' \in [phase : Phases \cup {"none", "torn"}, pid : Pids \cup {NoPid}, window : BOOLEAN]
        /\ file'.phase = "ABORTED" /\ file'.pid = file.pid
    BY <2>1 DEF TypeOK, Phases
  <2>3. faults = {} => up \subseteq {file'.pid} BY <2>1, <2>2 DEF TrackInv
  <2> QED BY <2>1, <2>2, <2>3, ExitKeeps DEF NoFile, TypeOK
<1>4. CASE OpenWindow
  <2>1. /\ file' \in [phase : Phases \cup {"none", "torn"}, pid : Pids \cup {NoPid}, window : BOOLEAN]
        /\ file'.phase = "WINDOW" /\ file'.pid = file.pid
    BY <1>4 DEF OpenWindow, TypeOK, Phases
  <2>2. TypeOK' BY <1>4, <2>1 DEF OpenWindow, TypeOK, InTry
  <2>3. FirstInv' BY <1>4, <2>1 DEF OpenWindow, FirstInv, First, NoFile
  <2>4. TrackInv' BY <1>4, <2>1 DEF OpenWindow, TrackInv, Known
  <2>5. CountInv' BY <1>4 DEF OpenWindow, CountInv
  <2> QED BY <2>2, <2>3, <2>4, <2>5
<1>5. CASE FindDaemon
  <2> PICK seen \in SUBSET Pids : /\ Query(up \cap {own}, seen, faults')
                                  /\ pc' = IF seen = {} THEN "launch" ELSE "sleep"
    BY <1>5 DEF FindDaemon
  <2>1. faults' \subseteq {"cut", "blind"} /\ (faults' = {} => faults = {} /\ seen = up \cap {own})
    BY DEF Query, TypeOK
  <2>2. TypeOK' BY <1>5, <2>1 DEF FindDaemon, TypeOK, InTry
  <2>3. site = "resume" BY <1>5 DEF FindDaemon, CountInv
  <2>4. FirstInv' BY <1>5, <2>3 DEF FindDaemon, FirstInv, First, NoFile
  <2>5. TrackInv' BY <1>5, <2>1 DEF FindDaemon, TrackInv, Known
  <2>6. CountInv' BY <1>5, <2>3 DEF FindDaemon, CountInv
  <2> QED BY <2>2, <2>4, <2>5, <2>6
<1>6. CASE Launch
  <2> PICK d \in Pids \ (up \cup {own, file.pid}) : up' = up \cup {d} /\ own' = d
    BY <1>6 DEF Launch
  <2>1. TypeOK' BY <1>6 DEF Launch, TypeOK
  <2>2. FirstInv' BY <1>6 DEF Launch, FirstInv, First, NoFile
  <2>3. TrackInv' BY <1>6 DEF Launch, TrackInv, Known, CountInv
  <2>4. CountInv' BY <1>6 DEF Launch, CountInv
  <2> QED BY <2>1, <2>2, <2>3, <2>4
<1>7. CASE Record
  <2>1. /\ file' \in [phase : Phases \cup {"none", "torn"}, pid : Pids \cup {NoPid}, window : BOOLEAN]
        /\ file'.phase = file.phase /\ file'.pid = own
    BY <1>7 DEF Record, TypeOK
  <2>2. TypeOK' BY <1>7, <2>1 DEF Record, TypeOK
  <2>3. file.phase # "none" BY <1>7 DEF Record, FirstInv, First, TypeOK
  <2>4. FirstInv' BY <1>7, <2>1, <2>3 DEF Record, FirstInv, First, NoFile
  <2>5. TrackInv' BY <1>7, <2>1 DEF Record, TrackInv, Known
  <2>6. CountInv' BY <1>7 DEF Record, CountInv
  <2> QED BY <2>2, <2>4, <2>5, <2>6
<1>8. CASE Restarted
  <2>1. TypeOK' BY <1>8 DEF Restarted, TypeOK, InTry, CountInv
  <2>2. FirstInv' BY <1>8 DEF Restarted, FirstInv, First, NoFile
  <2>3. TrackInv' BY <1>8 DEF Restarted, TrackInv, Known
  <2>4. CountInv' BY <1>8 DEF Restarted, CountInv, TypeOK
  <2> QED BY <2>1, <2>2, <2>3, <2>4
<1> QED BY <1>1, <1>2, <1>3, <1>4, <1>5, <1>6, <1>7, <1>8

(* A poll: what it leaves alone, and what becomes of the counts. *)
LEMMA PollKeeps ==
  ASSUME IInv, pc = "sleep", Calm \/ Problem,
         capFalse' \in 0..CapturePolls, strikes' \in 0..WavStrikes,
         UNCHANGED <<file, armed, up, own, site, over, others, verdict, historyVars>>
  PROVE  IInv'
<1> USE Limits DEF IInv, historyVars
<1>1. /\ pc' \in {"sleep", "stop", "teardown"}
      /\ calm' \in 0..CalmPolls /\ consec' \in 0..MaxConsec
      /\ consec' > 0 => calm' < CalmPolls
      /\ pc' = "stop" => consec' < MaxConsec
  BY DEF Calm, Problem, TypeOK, CountInv
<1>2. TypeOK' BY <1>1 DEF TypeOK, InTry
<1>3. FirstInv' BY <1>1 DEF FirstInv, First
<1>4. TrackInv' BY <1>1 DEF TrackInv, Known
<1>5. CountInv' BY <1>1 DEF CountInv
<1> QED BY <1>2, <1>3, <1>4, <1>5

(* The steps of the window loop. *)
LEMMA LoopSteps ==
  ASSUME IInv, PollDead \/ PollAlive \/ Stop \/ WindowOver
  PROVE  IInv'
<1> USE Limits DEF IInv, loopVars, historyVars
<1>1. CASE PollDead
  BY <1>1, PollKeeps DEF PollDead, TypeOK
<1>2. CASE PollAlive
  <2>1. capFalse' \in 0..CapturePolls /\ strikes' \in 0..WavStrikes
    BY <1>2 DEF PollAlive, TypeOK, Statuses
  <2>2. Calm \/ Problem BY <1>2 DEF PollAlive
  <2> QED BY <1>2, <2>1, <2>2, PollKeeps DEF PollAlive
<1>3. CASE Stop
  <2>1. TypeOK' BY <1>3 DEF Stop, KillOwn, TypeOK
  <2>2. FirstInv' BY <1>3 DEF Stop, KillOwn, FirstInv, First
  <2>3. TrackInv' BY <1>3 DEF Stop, KillOwn, TrackInv, Known
  <2>4. CountInv' BY <1>3 DEF Stop, CountInv
  <2> QED BY <2>1, <2>2, <2>3, <2>4
<1>4. CASE WindowOver
  <2>1. TypeOK' BY <1>4 DEF WindowOver, TypeOK, InTry
  <2>2. FirstInv' BY <1>4 DEF WindowOver, FirstInv, First
  <2>3. TrackInv' BY <1>4 DEF WindowOver, TrackInv, Known
  <2>4. CountInv' BY <1>4 DEF WindowOver, CountInv
  <2> QED BY <2>1, <2>2, <2>3, <2>4
<1> QED BY <1>1, <1>2, <1>3, <1>4

(* The steps of the teardown: without a fault the queries return what there is. *)
LEMMA TeardownSteps ==
  ASSUME IInv,
         Teardown \/ ListOthers \/ Kill \/ OrphanCheck \/ Gather \/ Finished
  PROVE  IInv'
<1> USE Limits DEF IInv, loopVars, historyVars
<1>1. ASSUME NEW p \in Phases, SavePhase(p)
      PROVE  /\ file' \in [phase : Phases \cup {"none", "torn"}, pid : Pids \cup {NoPid},
                           window : BOOLEAN]
             /\ file'.phase = p /\ file'.pid = file.pid
  BY <1>1 DEF SavePhase, TypeOK
<1>2. CASE Teardown \/ Gather
  <2>1. PICK p \in {"TEARDOWN", "GATHER"} : SavePhase(p) BY <1>2 DEF Teardown, Gather
  <2>2. /\ file' \in [phase : Phases \cup {"none", "torn"}, pid : Pids \cup {NoPid},
                      window : BOOLEAN]
        /\ file'.phase = p /\ file'.pid = file.pid
    BY <1>1, <2>1 DEF Phases
  <2>3. /\ pc \in {"teardown", "gather"} /\ pc' \in {"others", "done"}
        /\ pc = "teardown" => pc' = "others"
        /\ pc = "gather" => pc' = "done"
        /\ UNCHANGED <<armed, up, own, site, capFalse, strikes, consec, calm, over,
                      others, verdict, resumes, faults>>
    BY <1>2 DEF Teardown, Gather
  <2>4. TypeOK' BY <2>2, <2>3 DEF TypeOK, InTry
  <2>5. FirstInv' BY <2>1, <2>2, <2>3 DEF FirstInv, First
  <2>6. TrackInv' BY <2>2, <2>3 DEF TrackInv, Known
  <2>7. CountInv' BY <2>3 DEF CountInv
  <2> QED BY <2>4, <2>5, <2>6, <2>7
<1>3. CASE ListOthers
  <2> PICK seen \in SUBSET Pids : Query(up, seen, faults') /\ others' = seen \ {own}
    BY <1>3 DEF ListOthers
  <2>1. faults' \subseteq {"cut", "blind"} /\ (faults' = {} => faults = {} /\ seen = up)
    BY DEF Query, TypeOK
  <2>2. TypeOK' BY <1>3, <2>1 DEF ListOthers, TypeOK, InTry
  <2>3. FirstInv' BY <1>3 DEF ListOthers, FirstInv, First
  <2>4. TrackInv' BY <1>3, <2>1 DEF ListOthers, TrackInv, Known
  <2>5. CountInv' BY <1>3 DEF ListOthers, CountInv
  <2> QED BY <2>2, <2>3, <2>4, <2>5
<1>4. CASE Kill
  <2>1. TypeOK' BY <1>4 DEF Kill, KillOwn, TypeOK, InTry
  <2>2. FirstInv' BY <1>4 DEF Kill, KillOwn, FirstInv, First
  <2>3. TrackInv' BY <1>4 DEF Kill, KillOwn, TrackInv, Known
  <2>4. CountInv' BY <1>4 DEF Kill, CountInv
  <2> QED BY <2>1, <2>2, <2>3, <2>4
<1>5. CASE OrphanCheck
  <2> PICK seen \in SUBSET Pids :
         /\ Query(up, seen, faults')
         /\ verdict' = IF seen \subseteq others THEN "clean" ELSE "warned"
    BY <1>5 DEF OrphanCheck
  <2>1. faults' \subseteq {"cut", "blind"} /\ (faults' = {} => faults = {} /\ seen = up)
    BY DEF Query, TypeOK
  <2>2. TypeOK' BY <1>5, <2>1 DEF OrphanCheck, TypeOK, InTry
  <2>3. FirstInv' BY <1>5 DEF OrphanCheck, FirstInv, First
  <2>4. TrackInv' BY <1>5, <2>1 DEF OrphanCheck, TrackInv, Known
  <2>5. CountInv' BY <1>5 DEF OrphanCheck, CountInv
  <2> QED BY <2>2, <2>3, <2>4, <2>5
<1>6. CASE Finished
  <2>1. /\ file' \in [phase : Phases \cup {"none", "torn"}, pid : Pids \cup {NoPid},
                      window : BOOLEAN]
        /\ file'.phase = "DONE" /\ file'.pid = file.pid
    BY <1>1, <1>6 DEF Finished, Phases
  <2>2. faults = {} => up \subseteq {file'.pid} BY <1>6, <2>1 DEF Finished, TrackInv, Known
  <2> QED BY <1>6, <2>1, <2>2, ExitKeeps DEF Finished, TypeOK
<1> QED BY <1>2, <1>3, <1>4, <1>5, <1>6

(* The failures of the supervisor. *)
LEMMA FailureSteps ==
  ASSUME IInv, Fails \/ Crash \/ CrashCut
  PROVE  IInv'
<1> USE DEF IInv, historyVars
<1>1. CASE Fails
  <2>1. /\ file' \in [phase : Phases \cup {"none", "torn"}, pid : Pids \cup {NoPid},
                      window : BOOLEAN]
        /\ file'.phase = "ERROR" /\ file'.pid = own
    BY <1>1 DEF Fails, TypeOK, Phases
  <2>2. pc # "down" BY <1>1 DEF Fails, Tried, InTry
  <2>3. faults = {} => up \subseteq {file'.pid} BY <2>1, <2>2 DEF TrackInv, Known
  <2> QED BY <1>1, <2>1, <2>2, <2>3, ExitKeeps DEF Fails, TypeOK
<1>2. CASE Crash
  <2>1. file' = file /\ file.phase # "none" BY <1>2 DEF Crash, FirstInv
  <2>2. faults = {} => up \subseteq {file'.pid} BY <1>2, <2>1 DEF Crash, TrackInv, Known
  <2> QED BY <1>2, <2>1, <2>2, ExitKeeps DEF Crash, TypeOK
<1>3. CASE CrashCut
  <2>1. pc # "down" /\ faults' # {} /\ faults' \subseteq {"cut", "blind"}
    BY <1>3 DEF CrashCut, Saving, TypeOK
  <2>2. file.phase # "none" BY <2>1 DEF FirstInv
  <2>3. file' \in {file, Torn} BY <1>3 DEF CrashCut
  <2>4. Torn \in [phase : Phases \cup {"none", "torn"}, pid : Pids \cup {NoPid},
                 window : BOOLEAN] /\ Torn.phase = "torn"
    BY DEF Torn
  <2>5. /\ file' \in [phase : Phases \cup {"none", "torn"}, pid : Pids \cup {NoPid},
                      window : BOOLEAN]
        /\ file'.phase # "none"
    BY <2>2, <2>3, <2>4 DEF TypeOK
  <2> QED BY <1>3, <2>1, <2>5, ExitKeeps DEF CrashCut
<1> QED BY <1>1, <1>2, <1>3

(* Every step keeps the invariant. *)
LEMMA NextIInv == IInv /\ [Next]_vars => IInv'
<1> SUFFICES ASSUME IInv, [Next]_vars PROVE IInv'
  OBVIOUS
<1>1. CASE UNCHANGED vars
  BY <1>1 DEF vars, loopVars, historyVars, IInv, TypeOK, FirstInv, First, TrackInv, Known, CountInv
<1>2. CASE Next
  BY <1>2, EnvironmentSteps, StartSteps, LaunchSteps, LoopSteps, TeardownSteps, FailureSteps
     DEF Next, Run
<1> QED BY <1>1, <1>2

(* IInv holds in every reachable state. *)
THEOREM Inductive == Spec => []IInv
BY InitIInv, NextIInv, PTL DEF Spec

(* Every variable keeps its type; in particular the count of restarts never
   passes MAX_CONSEC_RESTARTS. *)
THEOREM TypeCorrect == Spec => []TypeOK
<1>1. IInv => TypeOK BY DEF IInv
<1> QED BY <1>1, Inductive, PTL

(* A daemon that runs is the one a resumed supervisor would find, unless a fault
   that loses track of daemons is on record. *)
THEOREM DaemonAccounted == Spec => []Accounted
<1>1. IInv => Accounted BY DEF IInv, TrackInv, Accounted
<1> QED BY <1>1, Inductive, PTL

(* "HK-019 orphan check: clean" is true, with the same proviso. *)
THEOREM CleanIsTrue == Spec => []CleanWhenTracked
<1>1. IInv => CleanWhenTracked BY DEF IInv, TrackInv, CleanWhenTracked, CleanMeansNone
<1> QED BY <1>1, Inductive, PTL

(* An aborted precheck leaves no daemon behind, whatever faults may occur: none
   can have occurred before. *)
THEOREM AbortsClean == Spec => AbortLeavesNothing
<1>1. IInv /\ [Next]_vars => [file'.phase = "ABORTED" /\ file.phase # "ABORTED" => up' = {}]_vars
  <2> SUFFICES ASSUME IInv, Next, file'.phase = "ABORTED", file.phase # "ABORTED" PROVE up' = {}
    OBVIOUS
  <2>1. file # file' OBVIOUS
  <2>2. CASE Aborted
    BY <2>2 DEF Aborted, IInv, FirstInv, First, TrackInv
  <2>3. CASE ~Aborted
    <3>1. file.phase \in Phases \cup {"none", "torn"} /\ file = [phase |-> file.phase, pid |-> file.pid, window |-> file.window]
      BY DEF IInv, TypeOK
    <3>2. \/ Start \/ OpenWindow \/ Record \/ Teardown \/ Gather \/ Finished \/ Fails \/ CrashCut
      BY <2>1, <2>3 DEF Next, Run, DaemonDies, WindowCloses, Resume, Precheck, Recorded, FindDaemon,
         Launch, Restarted, PollDead, PollAlive, Stop, WindowOver, ListOthers, Kill, OrphanCheck, Crash
    <3>3. CASE Start \/ OpenWindow \/ Teardown \/ Gather \/ Finished \/ Fails
      BY <3>1, <3>3 DEF Start, OpenWindow, Teardown, Gather, Finished, Fails, SavePhase, NoFile
    <3>4. CASE Record
      BY <3>1, <3>4 DEF Record
    <3>5. CASE CrashCut
      <4>1. file' = Torn BY <2>1, <3>5 DEF CrashCut
      <4> QED BY <4>1 DEF Torn
    <3> QED BY <3>2, <3>3, <3>4, <3>5
  <2> QED BY <2>2, <2>3
<1> QED BY <1>1, Inductive, PTL DEF Spec, AbortLeavesNothing

(* A night is not given up on a problem after a healthy stretch. *)
THEOREM GivesUpLate == Spec => NoEarlyGivingUp
<1>1. IInv /\ [Next]_vars => [pc = "sleep" /\ ~over /\ pc' = "teardown" => calm < CalmPolls]_vars
  <2> SUFFICES ASSUME IInv, Next, pc = "sleep", ~over, pc' = "teardown" PROVE calm < CalmPolls
    OBVIOUS
  <2>1. PollDead \/ PollAlive
    BY DEF Next, Run, DaemonDies, WindowCloses, Start, Resume, Precheck, Recorded, Aborted, OpenWindow,
       FindDaemon, Launch, Record, Restarted, Stop, WindowOver, Teardown, ListOthers, Kill,
       OrphanCheck, Gather, Finished, Fails, Crash, CrashCut, Exit, IInv, TypeOK, Saving
  <2>2. consec >= MaxConsec
    BY <2>1 DEF PollDead, PollAlive, Problem, Calm
  <2>3. consec > 0 BY <2>2, Limits DEF IInv, TypeOK
  <2> QED BY <2>3 DEF IInv, CountInv
<1> QED BY <1>1, Inductive, PTL DEF Spec, NoEarlyGivingUp
=============================================================================
