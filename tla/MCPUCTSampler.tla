---------------------------- MODULE MCPUCTSampler ----------------------------
(* Constants of PUCTSampler for TLC. *)
EXTENDS PUCTSampler, TLC

CONSTANTS k1

MCValues == {0, 20}

\* Weak constructions, each unlike any other, a strong one that several rollouts
\* find, one that is too long, and a rollout whose state has no value.
MCChildren ==
  { [value |-> 0, key |-> NoKey, fits |-> TRUE],
    [value |-> 20, key |-> k1, fits |-> TRUE],
    [value |-> 20, key |-> NoKey, fits |-> FALSE],
    [value |-> NoValue, key |-> NoKey, fits |-> TRUE] }

\* Fewer of them for the runs with two trees.
MCFewChildren ==
  { [value |-> 0, key |-> NoKey, fits |-> TRUE],
    [value |-> 10, key |-> k1, fits |-> TRUE] }

MCFewValues == {0, 10}

MCSymmetry == Permutations(Ids)

=============================================================================
