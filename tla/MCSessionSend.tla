---------------------------- MODULE MCSessionSend ----------------------------
(* SessionSend with two sending threads: the logic worker and the pump.    *)
EXTENDS SessionSend
=============================================================================
