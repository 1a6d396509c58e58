------------------------------ MODULE MCCServer ------------------------------
(* CServer with two sessions on two io_contexts.                         *)
EXTENDS CServer
=============================================================================
