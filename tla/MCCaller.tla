------------------------------ MODULE MCCaller ------------------------------
(* Instances of Caller for TLC: station X is a model value of the .cfg files and
   transmits in odd slots. *)
EXTENDS Caller

CONSTANTS X

OneParity == [s \in Stations |-> 1]

BothModes == {"First", "None"}

OperatorRequests == AllRequests
=============================================================================
