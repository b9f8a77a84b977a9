--------------------------- MODULE MCMloraTraining ---------------------------
(* Constants of MloraTraining for TLC. *)
EXTENDS MloraTraining

CONSTANTS k1

MCValues == {0, 10}

MCChildren == { [value |-> 0, key |-> k1, fits |-> TRUE],
                [value |-> 10, key |-> NoKey, fits |-> TRUE] }

=============================================================================
