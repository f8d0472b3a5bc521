---------------------------- MODULE MCPttControl ----------------------------
(* Instances of PttControl for TLC: one service and one Test request. *)
EXTENDS PttControl

OneService == {"service"}
OneTester  == {"test"}
=============================================================================
