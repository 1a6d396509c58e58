---------------------------- MODULE MCMt4PumpSvr ----------------------------
(* Mt4PumpSvr with two sessions, which are interchangeable.                *)
EXTENDS Mt4PumpSvr, TLC

Symmetry == Permutations(Sessions)
=============================================================================
