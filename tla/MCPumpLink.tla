------------------------------ MODULE MCPumpLink ------------------------------
(* PumpLink with the two Inits of Mt4MgrSvr per thread.                    *)
EXTENDS PumpLink
=============================================================================
