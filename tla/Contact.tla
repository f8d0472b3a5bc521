------------------------------ MODULE Contact ------------------------------
(***************************************************************************)
(* What one side of an FT8 contact promises, with no clock, no batches, no *)
(* threads and no retransmission: a session with one station is engaged,   *)
(* advances as that station is heard, is logged at most once and only      *)
(* after the station closed it, and is released.  A session that was       *)
(* cancelled (operator abort or watchdog) can only be released.            *)
(*                                                                         *)
(* Answerer and Caller implement it (Refines in each).                     *)
(***************************************************************************)
EXTENDS Sequences

CONSTANTS Stations,   \* the callsigns that may be worked
          NoStation   \* no partner

VARIABLES phase,    \* free, calling, reporting, closing or logged
          who,      \* the station of the session
          doomed,   \* a cancellation was delivered to the session
          log       \* the stations handed to the log, in order

vars == <<phase, who, doomed, log>>

Talking == {"calling", "reporting", "closing"}
Phases  == Talking \cup {"free", "logged"}

TypeOK == /\ phase \in Phases
          /\ who \in Stations \cup {NoStation}
          /\ doomed \in BOOLEAN
          /\ log \in Seq(Stations)

Init == /\ phase = "free"
        /\ who = NoStation
        /\ doomed = FALSE
        /\ log = <<>>

(* A session starts by calling a CQ, or in the middle of an exchange. *)
Engage(s) == /\ phase = "free"
             /\ phase' \in Talking
             /\ who' = s
             /\ doomed' = FALSE
             /\ UNCHANGED log

(* The partner sent its report, or its closing roger.  A closing reply that
   was still held may be overtaken by a repeated report. *)
Advance == /\ phase \in Talking
           /\ ~doomed
           /\ phase' \in {"reporting", "closing"}
           /\ UNCHANGED <<who, doomed, log>>

Cancel == /\ phase \in Talking
          /\ doomed' = TRUE
          /\ UNCHANGED <<phase, who, log>>

Log == /\ phase = "closing"
       /\ ~doomed
       /\ phase' = "logged"
       /\ log' = Append(log, who)
       /\ UNCHANGED <<who, doomed>>

Release == /\ phase # "free"
           /\ phase' = "free"
           /\ who' = NoStation
           /\ doomed' = FALSE
           /\ UNCHANGED log

Next == \/ \E s \in Stations : Engage(s)
        \/ Advance
        \/ Cancel
        \/ Log
        \/ Release

Spec == Init /\ [][Next]_vars
=============================================================================
