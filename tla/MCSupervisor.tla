---------------------------- MODULE MCSupervisor ----------------------------
(* Process ids for TLC: as many as can be running or recorded at once. *)
EXTENDS Supervisor

FewPids == 1..(MaxResumes + 3)
=============================================================================
