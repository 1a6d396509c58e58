-------------------------------- MODULE MCLog --------------------------------
(* Log with three threads and as many sessions as the cfg says.            *)
EXTENDS Log
=============================================================================
