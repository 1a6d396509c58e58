----------------------------- MODULE MCLogicSyc -----------------------------
(* LogicSyc with two io threads posting.                                   *)
EXTENDS LogicSyc
=============================================================================
