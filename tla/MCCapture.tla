------------------------------ MODULE MCCapture ------------------------------
(* Two identifiers a device may rotate between.  Nothing tells them apart, so
   the daemon starts with A chosen or none. *)
EXTENDS Capture
CONSTANTS A, B

TwoDevices == {A, B}

InitFromA == Init /\ config.device # B
FromA     == InitFromA /\ [][Next]_vars /\ Fairness
=============================================================================
