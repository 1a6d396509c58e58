----------------------------- MODULE MCMt4MgrSvr -----------------------------
(* Mt4MgrSvr with the two Inits of each thread.                            *)
EXTENDS Mt4MgrSvr
=============================================================================
