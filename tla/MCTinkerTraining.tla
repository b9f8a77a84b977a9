-------------------------- MODULE MCTinkerTraining --------------------------
(* Constants of TinkerTraining for TLC. *)
EXTENDS TinkerTraining

Loop(l, streams, minis, bon) ==
  [loop |-> l, stream |-> streams, minibatches |-> minis, filter |-> TRUE, bon |-> bon]

\* Every loop; filtering is on, and whether a group is constant is open.
MCAllLoops ==
  {Loop("sync", FALSE, 1, FALSE), Loop("sync", FALSE, 1, TRUE), Loop("stream", FALSE, 2, FALSE),
   Loop("async", FALSE, 1, FALSE), Loop("async", TRUE, 1, FALSE)}
MCAsync == {Loop("async", FALSE, 1, FALSE)}
MCStream == {Loop("stream", FALSE, 1, FALSE)}
=============================================================================
