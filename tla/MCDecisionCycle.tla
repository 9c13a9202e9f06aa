-------------------------- MODULE MCDecisionCycle --------------------------
(* Two sessions with a closed day between them; the fee changes the size. *)
EXTENDS DecisionCycle

MCSession == {1, 3}
MCSizing == [n \in 0..MaxFees |-> 2 - n]
=============================================================================
