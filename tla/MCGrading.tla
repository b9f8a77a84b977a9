------------------------------ MODULE MCGrading ------------------------------
(* Constants of Grading for TLC. *)
EXTENDS Grading

\* The scheduler's host has one group and a CPU left over; the other host takes
\* two tasks at a time.
CONSTANTS h1, h2
MCCpus == (h1 :> 3) @@ (h2 :> 4)
=============================================================================
