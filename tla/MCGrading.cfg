CONSTANTS
  h1 = h1
  h2 = h2
  Rollouts = {r1, r2, r3}
  Hosts = {h1, h2}
  ActorHost = h1
  Cpus <- MCCpus
  CpusPerTask = 2
  Persistent = 0
  Threads = 2
  MaxRetries = 1
  MaxKills = 1

SPECIFICATION Spec

INVARIANTS
  GradingTypeOK
  OneProgramPerCpu
  WaitsOnlyForLost
  AnswersCounted
  FilesFollowTask

PROPERTIES
  GradingSettles

\* The program stops once every rollout is graded.
CHECK_DEADLOCK FALSE
