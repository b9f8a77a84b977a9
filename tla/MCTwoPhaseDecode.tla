-------------------------- MODULE MCTwoPhaseDecode --------------------------
(* Constants of TwoPhaseDecode for TLC are given in the configurations. *)
EXTENDS TwoPhaseDecode
=============================================================================
