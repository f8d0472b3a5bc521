----------------------------- MODULE Supervisor -----------------------------
(***************************************************************************)
(* The supervisor of an endurance run (endurance_supervisor.py): it starts *)
(* the daemon, restarts it when it fails, tears it down at the end of the  *)
(* window, and after a crash of its own is resumed from state.json.        *)
(*                                                                         *)
(* What survives a crash of the supervisor: state.json, arm_config.json    *)
(* and the daemons.  A daemon may die at any moment; a poll may find a     *)
(* living one in any health.  Every call of the supervisor may raise: in   *)
(* the try block of main that is Fails, outside of it a crash.             *)
(*                                                                         *)
(* A process id is not given again while state.json names it.  taskkill    *)
(* works.  Not represented: the audio sampler, the text files written for  *)
(* a reader, the contents of arm_config.json.                              *)
(***************************************************************************)
EXTENDS Naturals

CONSTANTS Pids,         \* process ids for the daemons of this run
          NoPid,        \* no process id
          MaxConsec,    \* MAX_CONSEC_RESTARTS
          WavStrikes,   \* STALE_WAV_STRIKES
          CapturePolls, \* polls in 90 s
          CalmPolls,    \* polls in the 600 s that clear the restart count
          MaxResumes,   \* bound: how often the run is resumed
          Cuts,         \* TRUE: a crash may hit a save or a launch
          QueryFails    \* TRUE: a PowerShell query may fail

ASSUME PidAssumption   == NoPid \notin Pids
ASSUME LimitAssumption ==
  /\ {MaxConsec, WavStrikes, CapturePolls, CalmPolls} \subseteq Nat \ {0}
  /\ MaxResumes \in Nat
ASSUME FaultAssumption == Cuts \in BOOLEAN /\ QueryFails \in BOOLEAN

VARIABLES
  file,      \* state.json
  armed,     \* arm_config.json has been written
  up,        \* the daemons of this run that are running
  own,       \* run.daemon_pid
  pc,        \* where the supervisor is; "down": no supervisor is running
  site,      \* who called start_daemon: precheck, resume or the window loop
  capFalse,  \* polls since cap_false_since (0: None)
  strikes,   \* stale_strikes
  consec,    \* consec
  calm,      \* polls since healthy_since
  over,      \* the window has ended
  others,    \* pre_teardown_others
  verdict,   \* what the orphan check said: "none" (not yet), "clean", "warned"
  resumes,   \* times the run was resumed
  faults     \* history: the kinds of fault that lose track of a daemon

loopVars    == <<capFalse, strikes, consec, calm>>
historyVars == <<resumes, faults>>
vars == <<file, armed, up, own, pc, site, loopVars, over, others, verdict, historyVars>>

Phases == {"PRECHECK", "ABORTED", "WINDOW", "TEARDOWN", "GATHER", "DONE", "ERROR"}
NoFile == [phase |-> "none", pid |-> NoPid, window |-> FALSE]
Torn   == [phase |-> "torn", pid |-> NoPid, window |-> FALSE]

(* In the try block of main; the other places are outside of it. *)
InTry == {"sleep", "stop", "teardown", "others", "kill", "check", "gather", "done"}
Tried == pc \in InTry \/ (pc \in {"launch", "record", "wait"} /\ site = "window")

(* The steps that begin with a save of state.json. *)
Saving == {"precheck", "abort", "open", "teardown", "gather", "done"}

TypeOK ==
  /\ file \in [phase : Phases \cup {"none", "torn"}, pid : Pids \cup {NoPid}, window : BOOLEAN]
  /\ armed \in BOOLEAN /\ up \subseteq Pids /\ own \in Pids \cup {NoPid}
  /\ pc \in InTry \cup Saving \cup {"down", "launch", "record", "wait", "query"}
  /\ site \in {"precheck", "resume", "window"}
  /\ capFalse \in 0..CapturePolls /\ strikes \in 0..WavStrikes
  /\ consec \in 0..MaxConsec /\ calm \in 0..CalmPolls
  /\ over \in BOOLEAN /\ others \subseteq Pids
  /\ verdict \in {"none", "clean", "warned"}
  /\ resumes \in 0..MaxResumes /\ faults \subseteq {"cut", "blind"}

-----------------------------------------------------------------------------
(* run.state with its phase set, saved. *)
SavePhase(p) == file' = [file EXCEPT !.phase = p]

(* What a query for processes that are really q returns: a failed one returns
   nothing, which is a fault when it hides something. *)
Query(q, result, missed) ==
  \/ result = q /\ missed = faults
  \/ QueryFails /\ q # {} /\ result = {} /\ missed = faults \cup {"blind"}

(* stop_daemon *)
KillOwn == up' = up \ {own}

FreshLoop == capFalse' = 0 /\ strikes' = 0 /\ consec' = 0 /\ calm' = 0

(* The process ends, with its memory. *)
Exit == /\ pc' = "down" /\ FreshLoop
        /\ own' = NoPid /\ others' = {} /\ site' = "precheck"

-----------------------------------------------------------------------------
(* The daemons and the clock *)

DaemonDies ==
  /\ \E d \in up : up' = up \ {d}
  /\ UNCHANGED <<file, armed, own, pc, site, loopVars, over, others, verdict, historyVars>>

WindowCloses ==
  /\ file.window /\ ~over /\ over' = TRUE
  /\ UNCHANGED <<file, armed, up, own, pc, site, loopVars, others, verdict, historyVars>>

-----------------------------------------------------------------------------
(* main up to the window *)

Start ==
  /\ pc = "down" /\ file = NoFile
  /\ SavePhase("PRECHECK") /\ pc' = "precheck"
  /\ UNCHANGED <<armed, up, own, site, loopVars, over, others, verdict, historyVars>>

(* The checks before start_daemon: another daemon, missing files, provenance. *)
Precheck ==
  /\ pc = "precheck" /\ site' = "precheck"
  /\ pc' \in {"launch", "abort"}
  /\ UNCHANGED <<file, armed, up, own, loopVars, over, others, verdict, historyVars>>

(* faulty: a mismatch found after the start does not stop the daemon *)
RecordedKeepingDaemon ==
  /\ pc = "wait" /\ site = "precheck"
  /\ pc' \in {"abort", "open"} /\ armed' = TRUE
  /\ UNCHANGED <<file, up, own, site, loopVars, over, others, verdict, historyVars>>

(* After wait_ready: not ready or no status (stopped, nothing written), a
   mismatch (written, stopped), or all checks pass. *)
Recorded ==
  /\ pc = "wait" /\ site = "precheck"
  /\ \/ KillOwn /\ pc' = "abort" /\ armed' \in {armed, TRUE}
     \/ pc' = "open" /\ armed' = TRUE /\ UNCHANGED up
  /\ UNCHANGED <<file, own, site, loopVars, over, others, verdict, historyVars>>

Aborted ==
  /\ pc = "abort" /\ SavePhase("ABORTED") /\ Exit
  /\ UNCHANGED <<armed, up, over, verdict, historyVars>>

OpenWindow ==
  /\ pc = "open" /\ pc' = "sleep"
  /\ file' = [file EXCEPT !.phase = "WINDOW", !.window = TRUE]
  /\ UNCHANGED <<armed, up, own, site, loopVars, over, others, verdict, historyVars>>

(* --resume: the two files are read; without them it dies at once. *)
Resume ==
  /\ pc = "down" /\ file \notin {NoFile, Torn} /\ armed
  /\ resumes < MaxResumes /\ resumes' = resumes + 1
  /\ own' = file.pid /\ pc' = "query" /\ site' = "resume"
  /\ verdict' = "none"
  /\ UNCHANGED <<file, armed, up, loopVars, over, others, faults>>

(* faulty: a resumed supervisor always starts a daemon *)
FindDaemonAlwaysLaunching ==
  /\ pc = "query" /\ pc' = "launch"
  /\ UNCHANGED <<file, armed, up, own, site, loopVars, over, others, verdict, historyVars>>

(* Is the recorded daemon running? *)
FindDaemon ==
  /\ pc = "query"
  /\ \E seen \in SUBSET Pids : /\ Query(up \cap {own}, seen, faults')
                               /\ pc' = IF seen = {} THEN "launch" ELSE "sleep"
  /\ UNCHANGED <<file, armed, up, own, site, loopVars, over, others, verdict, resumes>>

-----------------------------------------------------------------------------
(* start_daemon: the process exists before its id is saved. *)

Launch ==
  /\ pc = "launch" /\ pc' = "record"
  /\ \E d \in Pids \ (up \cup {own, file.pid}) : up' = up \cup {d} /\ own' = d
  /\ UNCHANGED <<file, armed, site, loopVars, over, others, verdict, historyVars>>

(* faulty: the new process id is not saved *)
RecordNothing ==
  /\ pc = "record" /\ pc' = "wait"
  /\ UNCHANGED <<file, armed, up, own, site, loopVars, over, others, verdict, historyVars>>

Record ==
  /\ pc = "record" /\ pc' = "wait"
  /\ file' = [file EXCEPT !.pid = own]
  /\ UNCHANGED <<armed, up, own, site, loopVars, over, others, verdict, historyVars>>

(* wait_ready, its result ignored: back to the loop. *)
Restarted ==
  /\ pc = "wait" /\ site # "precheck" /\ pc' = "sleep"
  /\ \/ site = "resume" /\ UNCHANGED loopVars
     \/ /\ site = "window" /\ consec' = consec + 1
        /\ capFalse' = 0 /\ strikes' = 0 /\ calm' = 0
  /\ UNCHANGED <<file, armed, up, own, site, over, others, verdict, historyVars>>

-----------------------------------------------------------------------------
(* The window loop *)

(* What a poll of a living daemon can find: its status, and the age of the
   newest WAV. *)
Statuses == {"good", "notCapturing", "failing"}

(* faulty: the count of restarts is never cleared *)
CalmUncleared ==
  /\ pc' = "sleep"
  /\ calm' = IF calm < CalmPolls THEN calm + 1 ELSE calm
  /\ UNCHANGED consec

(* A poll without a problem; 600 s after the last restart it clears the count. *)
Calm ==
  /\ pc' = "sleep"
  /\ calm' = IF calm < CalmPolls THEN calm + 1 ELSE calm
  /\ consec' = IF calm' = CalmPolls THEN 0 ELSE consec

(* faulty: one restart too many *)
ProblemUncapped ==
  /\ pc' = IF consec > MaxConsec THEN "teardown" ELSE "stop"
  /\ UNCHANGED <<consec, calm>>

(* A problem: restart, or give up.  There is no second poll. *)
Problem ==
  /\ pc' = IF consec >= MaxConsec THEN "teardown" ELSE "stop"
  /\ UNCHANGED <<consec, calm>>

(* faulty: a daemon that does not run is only noted *)
PollDeadNoted ==
  /\ pc = "sleep" /\ file.window /\ ~over
  /\ own \notin up
  /\ Calm /\ UNCHANGED <<capFalse, strikes>>
  /\ UNCHANGED <<file, armed, up, own, site, over, others, verdict, historyVars>>

(* The process is gone, or seems to be. *)
PollDead ==
  /\ pc = "sleep" /\ file.window /\ ~over
  /\ own \notin up \/ QueryFails
  /\ Problem /\ UNCHANGED <<capFalse, strikes>>
  /\ UNCHANGED <<file, armed, up, own, site, over, others, verdict, historyVars>>

PollAlive ==
  /\ pc = "sleep" /\ file.window /\ ~over
  /\ own \in up
  /\ \E status \in Statuses, stale \in BOOLEAN :
       /\ capFalse' = CASE status = "good"         -> 0
                        [] status = "notCapturing" -> IF capFalse < CapturePolls THEN capFalse + 1
                                                                                 ELSE capFalse
                        [] status = "failing"      -> capFalse
       /\ strikes' = IF ~stale THEN 0
                     ELSE IF strikes < WavStrikes THEN strikes + 1 ELSE strikes
       /\ IF \/ status = "failing"
             \/ status = "notCapturing" /\ capFalse' = CapturePolls
             \/ stale /\ strikes' = WavStrikes
          THEN Problem ELSE Calm
  /\ UNCHANGED <<file, armed, up, own, site, over, others, verdict, historyVars>>

Stop ==
  /\ pc = "stop" /\ KillOwn
  /\ pc' = "launch" /\ site' = "window"
  /\ UNCHANGED <<file, armed, own, loopVars, over, others, verdict, historyVars>>

WindowOver ==
  /\ pc = "sleep" /\ file.window /\ over /\ pc' = "teardown"
  /\ UNCHANGED <<file, armed, up, own, site, loopVars, over, others, verdict, historyVars>>

-----------------------------------------------------------------------------
(* Teardown *)

Teardown ==
  /\ pc = "teardown" /\ SavePhase("TEARDOWN") /\ pc' = "others"
  /\ UNCHANGED <<armed, up, own, site, loopVars, over, others, verdict, historyVars>>

(* The daemons that are not ours: these will not count as orphans. *)
ListOthers ==
  /\ pc = "others" /\ pc' = "kill"
  /\ \E seen \in SUBSET Pids : Query(up, seen, faults') /\ others' = seen \ {own}
  /\ UNCHANGED <<file, armed, up, own, site, loopVars, over, verdict, resumes>>

Kill ==
  /\ pc = "kill" /\ KillOwn /\ pc' = "check"
  /\ UNCHANGED <<file, armed, own, site, loopVars, over, others, verdict, historyVars>>

(* HK-019 *)
OrphanCheck ==
  /\ pc = "check" /\ pc' = "gather"
  /\ \E seen \in SUBSET Pids :
       /\ Query(up, seen, faults')
       /\ verdict' = IF seen \subseteq others THEN "clean" ELSE "warned"
  /\ UNCHANGED <<file, armed, up, own, site, loopVars, over, others, resumes>>

Gather ==
  /\ pc = "gather" /\ SavePhase("GATHER") /\ pc' = "done"
  /\ UNCHANGED <<armed, up, own, site, loopVars, over, others, verdict, historyVars>>

Finished ==
  /\ pc = "done" /\ SavePhase("DONE") /\ Exit
  /\ UNCHANGED <<armed, up, over, verdict, historyVars>>

-----------------------------------------------------------------------------
(* Failures of the supervisor *)

(* An exception in the try block: the daemon is left running.  A resumed run
   whose window was never opened always ends here. *)
Fails ==
  /\ Tried /\ Exit
  /\ file' = [file EXCEPT !.phase = "ERROR", !.pid = own]
  /\ UNCHANGED <<armed, up, over, verdict, historyVars>>

(* The process ends between two steps. *)
Crash ==
  /\ pc \notin {"down", "record"} /\ Exit
  /\ UNCHANGED <<file, armed, up, over, verdict, historyVars>>

(* It ends inside start_daemon, or with state.json open for writing. *)
CrashCut ==
  /\ Cuts /\ pc \in Saving \cup {"record"} /\ Exit
  /\ file' \in {Torn} \cup (IF pc = "record" THEN {file} ELSE {})
  /\ faults' = faults \cup {"cut"}
  /\ UNCHANGED <<armed, up, over, verdict, resumes>>

-----------------------------------------------------------------------------
Init ==
  /\ file = NoFile /\ armed = FALSE
  /\ up = {} /\ own = NoPid
  /\ pc = "down" /\ site = "precheck"
  /\ capFalse = 0 /\ strikes = 0 /\ consec = 0 /\ calm = 0
  /\ over = FALSE /\ others = {} /\ verdict = "none"
  /\ resumes = 0 /\ faults = {}

(* The supervisor's own thread. *)
Run == \/ Precheck \/ Recorded \/ Aborted \/ OpenWindow \/ FindDaemon
       \/ Launch \/ Record \/ Restarted
       \/ PollDead \/ PollAlive \/ Stop \/ WindowOver
       \/ Teardown \/ ListOthers \/ Kill \/ OrphanCheck \/ Gather \/ Finished

Next == \/ DaemonDies \/ WindowCloses
        \/ Start \/ Resume
        \/ Run
        \/ Fails \/ Crash \/ CrashCut

Spec == Init /\ [][Next]_vars

(* The supervisor's thread goes on: its queries, status requests and the gatherer
   have timeouts, and a missing window_end raises.  The clock is not needed. *)
FairSpec == Spec /\ WF_vars(Run \/ (~file.window /\ Fails))

-----------------------------------------------------------------------------
(* Properties *)

(* The one daemon the supervisor knows, or would know once resumed. *)
Known == IF pc = "down" THEN file.pid ELSE own

(* However often daemon and supervisor die, no daemon runs that a resumed
   supervisor would not find: it never leaves one behind, and never runs two on
   one port and one sound card. *)
Accounted == faults = {} => up \subseteq {Known}

(* "HK-019 orphan check: clean" is true, for whatever supervisor, resumed or
   not, wrote it. *)
CleanMeansNone == verdict = "clean" => up = {}
CleanWhenTracked == faults = {} => CleanMeansNone

(* precheck: "Does not leave a daemon it started running if PRECHECK itself
   fails": when the checks are found to fail, that is; a supervisor that raises
   inside them leaves the phase as it is. *)
AbortLeavesNothing ==
  [][file'.phase = "ABORTED" /\ file.phase # "ABORTED" => up' = {}]_vars

(* A night is given up only when the daemon failed again and again: never on a
   problem after a healthy stretch, whatever happened before it. *)
NoEarlyGivingUp ==
  [][pc = "sleep" /\ ~over /\ pc' = "teardown" => calm < CalmPolls]_vars

(* A daemon found dead in the window is replaced, or the night is given up,
   however long the window still is. *)
Recovers == pc = "sleep" /\ own \notin up ~> own \in up \/ pc \in {"teardown", "down"}

-----------------------------------------------------------------------------
(* The inductive invariant *)

(* Before its window is open the run has met no fault: it has one supervisor. *)
First == \/ file.phase = "none"
         \/ pc \in {"precheck", "abort", "open"}
         \/ pc \in {"launch", "record", "wait"} /\ site = "precheck"

FirstInv == /\ file.phase = "none" =>
                 pc = "down" /\ up = {} /\ own = NoPid /\ verdict = "none" /\ ~armed
            /\ First => faults = {}

(* While no fault lost track of a daemon, state.json names the one daemon there
   can be, and none runs where one is about to be launched. *)
TrackInv == faults = {} =>
  /\ up \subseteq {Known} /\ others = {}
  /\ pc \notin {"down", "record"} => file.pid = own
  /\ pc \in {"precheck", "abort", "launch"} => up = {}
  /\ verdict = "clean" => up = {}

CountInv ==
  /\ pc = "query" => site = "resume"
  /\ verdict # "none" => pc \in {"gather", "done", "down"}
  /\ pc = "stop" \/ (pc \in {"launch", "record", "wait"} /\ site = "window") => consec < MaxConsec
  /\ consec > 0 => calm < CalmPolls

IInv == TypeOK /\ FirstInv /\ TrackInv /\ CountInv
=============================================================================
