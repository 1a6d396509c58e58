---------------------------- MODULE MCSessionRead ----------------------------
(* SessionRead with small frames and every kind of header.                 *)
EXTENDS SessionRead
=============================================================================
