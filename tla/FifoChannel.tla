----------------------------- MODULE FifoChannel -----------------------------
(***************************************************************************)
(* What every queue of the server promises to the code around it: the      *)
(* messages handed over are passed on one by one, in the order in which    *)
(* they were accepted, none twice, none skipped, and - as long as the      *)
(* channel is not broken - each of them eventually.                        *)
(*                                                                         *)
(* CSession's send queue and read loop and LogicSyc's request queue are    *)
(* shown to implement this module.                                         *)
(***************************************************************************)
EXTENDS Naturals, Sequences

CONSTANT Message

VARIABLES
  accepted,   \* the messages handed over, in order
  received,   \* the messages passed on, in order
  broken      \* nothing is passed on any more

vars == <<accepted, received, broken>>

Init ==
  /\ accepted = <<>>
  /\ received = <<>>
  /\ broken = FALSE

Accept ==
  /\ \E m \in Message : accepted' = Append(accepted, m)
  /\ UNCHANGED <<received, broken>>

Deliver ==
  /\ ~broken
  /\ Len(received) < Len(accepted)
  /\ received' = Append(received, accepted[Len(received) + 1])
  /\ UNCHANGED <<accepted, broken>>

Break ==
  /\ broken' = TRUE
  /\ UNCHANGED <<accepted, received>>

Next == Accept \/ Deliver \/ Break

SafeSpec == Init /\ [][Next]_vars

Spec == SafeSpec /\ WF_vars(Deliver)
=============================================================================
