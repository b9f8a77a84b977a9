--------------------------- MODULE MCTrainingData ---------------------------
(* Constants of TrainingData for TLC. *)
EXTENDS TrainingData
=============================================================================
