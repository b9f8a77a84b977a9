---------------------------- MODULE MCPipeTraining ----------------------------
(* Constants of PipeTraining for TLC. *)
EXTENDS PipeTraining, TLC

CONSTANTS t1, t2

\* One task with a short last batch and one with a single batch to an epoch.
MCDataLen == (t1 :> 3) @@ (t2 :> 1)

=============================================================================
