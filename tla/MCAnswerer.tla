----------------------------- MODULE MCAnswerer -----------------------------
(* Instances of Answerer for TLC: stations X and Y are model values of the
   .cfg files; here are the parities they call on. *)
EXTENDS Answerer, TLC

CONSTANTS X, Y

(* Both stations call in odd slots (the answers go out in even ones). *)
OneParity == [s \in Stations |-> 1]
(* The stations call in turn. *)
TwoParities == X :> 1 @@ Y :> 0

AutoRequests     == {"enable", "disable", "abort"}
OperatorRequests == AllRequests
AbortRequests    == {"answer", "abort"}
ClickRequests    == {"answer"}
=============================================================================
