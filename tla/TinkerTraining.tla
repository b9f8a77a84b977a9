--------------------------- MODULE TinkerTraining ---------------------------
(***************************************************************************)
(* The training program over the Tinker API: main of ug_ttt/rl/train.py and  *)
(* its three loops, with the checkpoints of ug_ttt/checkpoint_utils.py.      *)
(*                                                                          *)
(*   sync    do_sync_training: a batch of groups is rolled out by concurrent  *)
(*           tasks and gathered, the sampler is flushed, the policy trained   *)
(*           and saved.  With eval_BoN the policy is not trained.            *)
(*   stream  do_sync_training_with_stream_minibatch: the tasks put their      *)
(*           groups in a queue and minibatches are trained as they fill.     *)
(*   async   do_async_training: a dataloader, workers, a training loop and an *)
(*           evaluation loop run concurrently over two queues; groups sampled *)
(*           too many steps ago are rolled out again.  Minibatches may be     *)
(*           streamed here too.                                              *)
(*                                                                          *)
(* All tasks share one event loop: an action is what a task does from one     *)
(* await to the next.  The process may die between any two actions and is    *)
(* then started again on the same log directory.                             *)
(*                                                                          *)
(* A policy is abstracted to the groups it was trained on, and the archive of *)
(* the sampler to the builders whose rollouts it has recorded.               *)
(***************************************************************************)
EXTENDS Integers, FiniteSets, SequencesExt

CONSTANTS
  Configs,          \* the configurations considered
  NumBatches,       \* num_batches: end_batch
  BatchSize,        \* groups the dataset gives per batch
  GroupsPerBatch,   \* async_config.groups_per_batch, stream_minibatch_config's
  NumSubsteps,      \* num_substeps
  MaxOffPolicy,     \* async_config.max_steps_off_policy
  SaveEvery,        \* save_every
  EvalEvery,        \* eval_every
  MaxRuns           \* bound: times the process is started

\* loop: which of the loops runs; stream: async_config with stream_minibatch_config;
\* minibatches: stream_minibatch_config.num_minibatches; filter:
\* remove_constant_reward_groups; bon: eval_BoN.
Config == [loop : {"sync", "stream", "async"}, stream : BOOLEAN, minibatches : Nat \ {0},
           filter : BOOLEAN, bon : BOOLEAN]

\* The dataset gives as many groups per batch as the loops take.  Nothing in the
\* code requires it; with fewer the last batch is never full, with more builders
\* are left over at the end, and shutdown_loops raises QueueFull.
ASSUME TinkerAssumption ==
  /\ BatchSize = GroupsPerBatch
  /\ \A c \in Configs :
       /\ c \in Config /\ (c.bon => c.loop = "sync") /\ (c.stream => c.loop = "async")
       /\ GroupsPerBatch % (NumSubsteps * c.minibatches) = 0
  /\ {NumBatches, BatchSize, GroupsPerBatch, NumSubsteps, MaxRuns} \subseteq Nat \ {0}
  /\ {MaxOffPolicy, SaveEvery, EvalEvery} \subseteq Nat

VARIABLES
  config,     \* the configuration of the program
  pc,         \* where the training loop is; "down" when the process is dead
  cause,      \* why the process failed
  run,        \* number of the run of the process
  start,      \* start_batch
  batch,      \* i_batch of the training loop
  mini,       \* minibatches trained in this batch
  next,       \* dataloader: the next builder it puts in the queue
  builders,   \* env_group_builders_queue
  requeue,    \* requeue_stale_sample_task: builders waiting to be put back
  workers,    \* the tasks that roll groups out
  groups,     \* trajectory_groups_queue; the results gathered, in sync
  wrapped,    \* wrapped_trajectory_groups
  client,     \* sampling_client, sampling_client_step
  shutdown,   \* shutdown_event
  evaluator,  \* evaluation_loop
  updated,    \* sampling_client_updated_event
  weights,    \* the policy: the groups it was trained on
  archive,    \* the sampler: the builders whose rollouts it has recorded
  rows,       \* checkpoints.jsonl, with the saved policies
  files,      \* the sampler's file of each step
  untrained   \* history: builders used up without training on them

loader == <<next, builders, requeue>>
rolling == <<workers, groups>>
loop == <<pc, cause, batch, mini, wrapped, client, shutdown>>
eval == <<evaluator, updated>>
disk == <<rows, files>>
process == <<config, run, start>>
vars == <<process, loop, loader, rolling, eval, weights, archive, disk, untrained>>

Alive == pc \notin {"down", "failed", "closed"}
IsAsync == config.loop = "async"
Streams == config.loop = "stream" \/ config.stream
Workers == 1 .. (IF IsAsync THEN GroupsPerBatch ELSE BatchSize)
Minibatches == NumSubsteps * config.minibatches
GroupsPerMinibatch == GroupsPerBatch \div Minibatches

\* An environment group builder: a position of the dataset, of this run.
Builder(b, s) == [batch |-> b, slot |-> s, run |-> run]
Pill == [batch |-> -1, slot |-> 0, run |-> 0]  \* None, at shutdown
Idle == [at |-> "idle", builder |-> Pill, label |-> 0, client |-> 0]
Exited == [Idle EXCEPT !.at = "exited"]
Rolling(builder) == [at |-> "rolling", builder |-> builder, label |-> client, client |-> client]

-----------------------------------------------------------------------------
(* Starting the process *)

NoFiles == [i \in {} |-> {}]

\* The state the loops start in.
Quiet(w) ==
  /\ workers' = w /\ builders' = <<>> /\ requeue' = {} /\ groups' = <<>> /\ wrapped' = <<>>
  /\ mini' = 0 /\ shutdown' = FALSE /\ updated' = FALSE

Init ==
  /\ config \in Configs
  /\ pc = "down" /\ cause = "none" /\ run = 0 /\ start = 0 /\ batch = 0 /\ mini = 0
  /\ next = [batch |-> 0, slot |-> 1]
  /\ builders = <<>> /\ requeue = {} /\ workers = [w \in Workers |-> Exited]
  /\ groups = <<>> /\ wrapped = <<>> /\ client = 0 /\ shutdown = FALSE
  /\ evaluator = "exited" /\ updated = FALSE
  /\ weights = {} /\ archive = {} /\ rows = <<>> /\ files = NoFiles /\ untrained = {}

\* get_last_checkpoint
LastRow == IF rows = <<>> THEN [batch |-> 0, state |-> {}] ELSE Last(rows)

\* reload_from_step, after step 0
ReloadedFresh(b) == {}  \* fault: the archive built with the dataset is kept
Reloaded(b) == IF b > 0 THEN files[b] ELSE {}

\* main up to the choice of the loop.  The dataset builder writes new initial
\* states over the sampler's file of step 0 before the sampler is reloaded.
StartFails(b) == b > 0 /\ b \notin DOMAIN files

Start ==
  /\ pc \in {"down", "failed"} /\ run < MaxRuns
  /\ run' = run + 1
  /\ LET b == LastRow.batch IN
     /\ start' = b /\ batch' = b /\ client' = b
     /\ next' = [batch |-> b, slot |-> 1]
     /\ weights' = LastRow.state
     /\ files' = [i \in DOMAIN files \cup {0} |-> IF i = 0 THEN {} ELSE files[i]]
     /\ IF StartFails(b) THEN pc' = "failed" /\ cause' = "no sampler file" /\ archive' = {}
        ELSE pc' = "open" /\ cause' = "none" /\ archive' = Reloaded(b)
  /\ Quiet([w \in Workers |-> Exited]) /\ evaluator' = "exited"
  /\ untrained' = {}
  /\ UNCHANGED <<config, rows>>

Row(b) == [batch |-> b, state |-> weights]

\* The asynchronous loop saves before it starts its tasks; the others only make
\* a sampling client.
Open ==
  /\ pc = "open"
  /\ pc' = IF IsAsync THEN "collect" ELSE "begin"
  /\ IF IsAsync
       THEN /\ rows' = Append(rows, Row(start))
            /\ workers' = [w \in Workers |-> Idle]
            /\ evaluator' = (IF EvalEvery = 0 THEN "exited" ELSE "waiting") /\ updated' = TRUE
       ELSE UNCHANGED <<rows, workers, eval>>
  /\ UNCHANGED <<process, cause, batch, mini, wrapped, client, shutdown, loader, groups,
                 weights, archive, files, untrained>>

Crash ==
  /\ Alive /\ run < MaxRuns
  /\ pc' = "down"
  /\ Quiet([w \in Workers |-> Exited]) /\ evaluator' = "exited"
  /\ weights' = {} /\ archive' = {} /\ client' = 0
  /\ untrained' = {}
  /\ UNCHANGED <<process, cause, batch, next, disk>>

-----------------------------------------------------------------------------
(* Rollouts *)

\* dataloader_loop
LoadsOneMore(b) == b <= NumBatches  \* fault: one batch too many
Loads(b) == b < NumBatches

\* shutdown_event is read between two batches only.
DataloaderEnded == next.slot = 1 /\ (shutdown \/ ~Loads(next.batch))

DataloaderStep ==
  /\ IsAsync /\ Alive /\ pc # "open" /\ ~DataloaderEnded
  /\ Len(builders) < GroupsPerBatch
  /\ builders' = Append(builders, Builder(next.batch, next.slot))
  /\ next' = IF next.slot < BatchSize THEN [next EXCEPT !.slot = @ + 1]
                                       ELSE [batch |-> next.batch + 1, slot |-> 1]
  /\ UNCHANGED <<process, loop, requeue, rolling, eval, weights, archive, disk, untrained>>

\* The put of a stale builder, which waits while the queue is full.
RequeueStep(b) ==
  /\ Alive /\ Len(builders) < GroupsPerBatch
  /\ builders' = Append(builders, b) /\ requeue' = requeue \ {b}
  /\ UNCHANGED <<process, loop, next, rolling, eval, weights, archive, disk, untrained>>

\* trajectory_group_worker_loop: the worker takes the next builder.
TakeBuilder(w) ==
  /\ Alive /\ workers[w].at = "idle" /\ builders # <<>>
  /\ workers' = [workers EXCEPT ![w] = IF Head(builders) = Pill THEN Exited
                                        ELSE Rolling(Head(builders))]
  /\ builders' = Tail(builders)
  /\ UNCHANGED <<process, loop, next, requeue, groups, eval, weights, archive, disk, untrained>>

\* do_sync_training and its streaming twin create one task per builder.
BeginBatch ==
  /\ pc = "begin"
  /\ IF batch < NumBatches
       THEN /\ workers' = [w \in Workers |-> Rolling(Builder(batch, w))]
            /\ next' = [batch |-> batch + 1, slot |-> 1]
            /\ pc' = "collect"
       ELSE pc' = "final" /\ UNCHANGED <<workers, next>>
  /\ UNCHANGED <<process, cause, batch, mini, wrapped, client, shutdown, builders, requeue,
                 groups, eval, weights, archive, disk, untrained>>

\* The group a worker hands over, labelled with the step it copied before the
\* rollout.
GroupAsOfNow(w, constant) ==  \* fault: the step is read after the rollout
  [builder |-> workers[w].builder, label |-> client, client |-> workers[w].client,
   constant |-> constant]
Group(w, constant) ==
  [builder |-> workers[w].builder, label |-> workers[w].label, client |-> workers[w].client,
   constant |-> constant]

\* do_group_rollout_and_filter_constant_reward: the rollouts are recorded by the
\* sampler; all rewards of the group may be equal.
FinishRollout(w) ==
  /\ Alive /\ workers[w].at = "rolling"
  /\ \E constant \in (IF config.filter THEN BOOLEAN ELSE {FALSE}) :
       groups' = Append(groups, Group(w, constant))
  /\ archive' = archive \cup {workers[w].builder}
  /\ workers' = [workers EXCEPT ![w] = IF IsAsync /\ ~shutdown THEN Idle ELSE Exited]
  /\ UNCHANGED <<process, loop, loader, eval, weights, disk, untrained>>

-----------------------------------------------------------------------------
(* Training *)

\* What training on the groups of G adds to the policy.
Trained(G) ==
  {[builder |-> g.builder, client |-> g.client, at |-> batch] : g \in G}
BuildersOf(G) == {g.builder : g \in G}

\* dataset.flush(step=i_batch + 1)
FlushedAsThis ==  \* fault: under the step of the batch that ends
  [i \in DOMAIN files \cup {batch} |-> IF i = batch THEN archive ELSE files[i]]
Flushed ==
  [i \in DOMAIN files \cup {batch + 1} |-> IF i = batch + 1 THEN archive ELSE files[i]]

\* do_sync_training: all groups gathered; the sampler is flushed first.
Gather ==
  /\ config.loop = "sync" /\ pc = "collect" /\ Len(groups) = BatchSize
  /\ files' = Flushed
  /\ pc' = "train"
  /\ UNCHANGED <<process, cause, batch, mini, wrapped, client, shutdown, loader, rolling, eval,
                 weights, archive, rows, untrained>>

\* remove_constant_reward_groups keeps the first group when all are constant.
Remaining ==
  LET varied == {g \in ToSet(groups) : ~g.constant}
  IN  IF varied # {} THEN varied
      ELSE {g \in ToSet(groups) : \A h \in ToSet(groups) : g.builder.slot <= h.builder.slot}

SyncTrain ==
  /\ config.loop = "sync" /\ pc = "train"
  /\ LET G == IF config.bon THEN {} ELSE Remaining IN
     /\ weights' = weights \cup Trained(G)
     /\ untrained' = untrained \cup (BuildersOf(ToSet(groups)) \ BuildersOf(G))
  /\ groups' = <<>>
  /\ pc' = "save"
  /\ UNCHANGED <<process, cause, batch, mini, wrapped, client, shutdown, loader, workers, eval,
                 archive, disk>>

\* filter_stale_trajectory_group
IsStale(g) == batch - g.label > MaxOffPolicy

\* training_loop takes a group: dropped, put back, or collected.
Drop ==
  /\ untrained' = untrained \cup {Head(groups).builder}
  /\ UNCHANGED <<requeue, wrapped>>
PutBackLost ==  \* fault: a stale group is skipped and not put back
  UNCHANGED <<requeue, wrapped, untrained>>
PutBack ==
  /\ requeue' = requeue \cup {Head(groups).builder}
  /\ UNCHANGED <<wrapped, untrained>>

\* Dynamic sampling: enough groups for a batch have been collected.
IsFull(collected) == Len(collected) >= GroupsPerBatch

Collect ==
  /\ IsAsync /\ ~config.stream /\ pc = "collect" /\ batch < NumBatches /\ groups # <<>>
  /\ IF Head(groups).constant THEN Drop /\ pc' = pc
     ELSE IF IsStale(Head(groups)) THEN PutBack /\ pc' = pc
     ELSE /\ wrapped' = Append(wrapped, Head(groups))
          /\ pc' = IF IsFull(wrapped') THEN "train" ELSE pc
          /\ UNCHANGED <<requeue, untrained>>
  /\ groups' = Tail(groups)
  /\ UNCHANGED <<process, cause, batch, mini, client, shutdown, next, builders, workers, eval,
                 weights, archive, disk>>

\* do_train_step_and_get_sampling_client on the groups collected
AsyncTrain ==
  /\ IsAsync /\ pc = "train"
  /\ weights' = weights \cup Trained(ToSet(wrapped))
  /\ wrapped' = <<>>
  /\ pc' = "save"
  /\ UNCHANGED <<process, cause, batch, mini, client, shutdown, loader, rolling, eval, archive,
                 disk, untrained>>

\* The asynchronous loop with minibatches waits for a first group and puts it
\* back at the end of its queue.
Peek ==
  /\ IsAsync /\ config.stream /\ pc = "collect" /\ batch < NumBatches /\ groups # <<>>
  /\ IF Head(groups).constant
       THEN /\ Drop /\ groups' = Tail(groups) /\ pc' = pc
       ELSE /\ groups' = Append(Tail(groups), Head(groups)) /\ pc' = "stream"
            /\ UNCHANGED <<requeue, wrapped, untrained>>
  /\ UNCHANGED <<process, cause, batch, mini, client, shutdown, next, builders, workers, eval,
                 weights, archive, disk>>

\* A minibatch is full: it is trained on without its constant groups, and the
\* step is over when all minibatches of all substeps are.  The metrics of a step
\* without any group cannot be computed.
Minibatch(full) ==
  LET G == {g \in ToSet(full) : ~g.constant}
      last == mini + 1 = Minibatches
      sofar == {w \in weights : w.at = batch} \cup Trained(G)
  IN  /\ weights' = weights \cup Trained(G)
      /\ untrained' = untrained \cup BuildersOf(ToSet(full) \ G)
      /\ wrapped' = <<>>
      /\ mini' = IF last THEN 0 ELSE mini + 1
      /\ IF last /\ sofar = {} THEN pc' = "failed" /\ cause' = "no group"
         ELSE pc' = (IF last THEN "save" ELSE pc) /\ cause' = cause

\* do_train_step_streaming_and_get_sampling_client: the asynchronous loop
\* filters the groups, the synchronous one counts a constant group as well.
StreamTake ==
  /\ Streams /\ pc = (IF IsAsync THEN "stream" ELSE "collect") /\ groups # <<>>
  /\ LET g == Head(groups) IN
     IF IsAsync /\ g.constant THEN Drop /\ UNCHANGED <<pc, cause, mini, weights>>
     ELSE IF IsAsync /\ IsStale(g) THEN PutBack /\ UNCHANGED <<pc, cause, mini, weights>>
     ELSE IF Len(wrapped) + 1 < GroupsPerMinibatch
     THEN wrapped' = Append(wrapped, g) /\ UNCHANGED <<pc, cause, mini, weights, requeue, untrained>>
     ELSE Minibatch(Append(wrapped, g)) /\ UNCHANGED requeue
  /\ groups' = Tail(groups)
  /\ UNCHANGED <<process, batch, client, shutdown, next, builders, workers, eval, archive, disk>>

-----------------------------------------------------------------------------
(* Checkpoints and the end of a batch *)

\* save_checkpoint_and_get_sampling_client: the step it is called with, the
\* batch after this one, or this one when nothing was trained.
SavedBatch == IF config.bon THEN batch ELSE batch + 1
SavedRows ==
  IF SaveEvery > 0 /\ SavedBatch > 0 /\ SavedBatch % SaveEvery = 0
    THEN Append(rows, Row(SavedBatch)) ELSE rows

Save ==
  /\ pc = "save"
  /\ rows' = SavedRows
  /\ IF config.loop = "sync"
       THEN pc' = "begin" /\ batch' = batch + 1 /\ client' = batch + 1
       ELSE pc' = "flush" /\ UNCHANGED <<batch, client>>
  /\ UNCHANGED <<process, cause, mini, wrapped, shutdown, loader, rolling, eval, weights, archive,
                 files, untrained>>

\* shutdown_loops: a None for every worker, without waiting for room.
PillsButOne == [w \in 1 .. GroupsPerBatch - 1 |-> Pill]  \* fault: one too few
Pills == [w \in 1 .. GroupsPerBatch |-> Pill]
Overflows == Len(builders) + GroupsPerBatch > GroupsPerBatch

EndLoop ==
  /\ shutdown' = TRUE
  /\ IF Overflows THEN pc' = "failed" /\ cause' = "queue full" /\ UNCHANGED <<builders, updated>>
     ELSE pc' = "join" /\ cause' = cause /\ builders' = builders \o Pills /\ updated' = TRUE

\* The new client is announced, the sampler flushed and the next step begun
\* without an await between them.
FlushStep ==
  /\ pc = "flush"
  /\ files' = Flushed
  /\ batch' = batch + 1 /\ client' = batch + 1
  /\ IF ~IsAsync
       THEN pc' = "begin" /\ UNCHANGED <<cause, shutdown, builders, updated>>
     ELSE IF batch + 1 < NumBatches
       THEN pc' = "collect" /\ updated' = TRUE /\ UNCHANGED <<cause, shutdown, builders>>
     ELSE EndLoop
  /\ UNCHANGED <<process, mini, wrapped, next, requeue, rolling, evaluator, weights, archive, rows,
                 untrained>>

\* A run resumed after its last batch has nothing to do.
NothingLeft ==
  /\ IsAsync /\ pc = "collect" /\ batch >= NumBatches
  /\ EndLoop
  /\ UNCHANGED <<process, batch, mini, wrapped, client, next, requeue, rolling, evaluator, weights,
                 archive, disk, untrained>>

\* evaluation_loop
EvalWake ==
  /\ Alive /\ evaluator = "waiting" /\ updated
  /\ updated' = FALSE
  /\ evaluator' = IF client % EvalEvery = 0 THEN "evaluating"
                  ELSE IF shutdown THEN "exited" ELSE "waiting"
  /\ UNCHANGED <<process, loop, loader, rolling, weights, archive, disk, untrained>>

EvalDone ==
  /\ Alive /\ evaluator = "evaluating"
  /\ evaluator' = IF shutdown THEN "exited" ELSE "waiting"
  /\ UNCHANGED <<process, loop, loader, rolling, updated, weights, archive, disk, untrained>>

\* gather returns when every loop has.
Join ==
  /\ pc = "join"
  /\ DataloaderEnded /\ evaluator = "exited" /\ \A w \in Workers : workers[w].at = "exited"
  /\ pc' = "final"
  /\ UNCHANGED <<process, cause, batch, mini, wrapped, client, shutdown, loader, rolling, eval,
                 weights, archive, disk, untrained>>

\* main saves the final checkpoint, unless training was already complete.
Close ==
  /\ pc = "final"
  /\ rows' = IF start < NumBatches THEN Append(rows, Row(NumBatches)) ELSE rows
  /\ pc' = "closed"
  /\ UNCHANGED <<process, cause, batch, mini, wrapped, client, shutdown, loader, rolling, eval,
                 weights, archive, files, untrained>>

-----------------------------------------------------------------------------
(* Specification *)

Dataloading == DataloaderStep \/ \E b \in requeue : RequeueStep(b)
Working(w) == TakeBuilder(w) \/ FinishRollout(w)
Training ==
  \/ Open \/ BeginBatch \/ Gather \/ SyncTrain \/ Collect \/ AsyncTrain \/ Peek \/ StreamTake
  \/ Save \/ FlushStep \/ NothingLeft \/ Join \/ Close
Evaluating == EvalWake \/ EvalDone

Next ==
  \/ Start \/ Crash
  \/ Dataloading \/ (\E w \in Workers : Working(w)) \/ Training \/ Evaluating

\* The event loop runs every task that is ready, rollouts and evaluations end
\* (the service answers, grading is timed), and a dead process is started again.
Fairness ==
  /\ WF_vars(Dataloading) /\ WF_vars(Training) /\ WF_vars(Evaluating) /\ WF_vars(Start)
  /\ \A w \in 1 .. BatchSize + GroupsPerBatch : WF_vars(w \in Workers /\ Working(w))

Spec == Init /\ [][Next]_vars /\ Fairness

-----------------------------------------------------------------------------
(* Properties *)

Groups == [builder : [batch : Nat, slot : Nat, run : Nat], label : Nat, client : Nat,
           constant : BOOLEAN]

\* Every variable has its type.
TinkerTypeOK ==
  /\ config \in Configs
  /\ pc \in {"down", "open", "begin", "collect", "stream", "train", "save", "flush", "join",
            "final", "closed", "failed"}
  /\ cause \in {"none", "no sampler file", "no group", "queue full"}
  /\ run \in 0 .. MaxRuns /\ start \in 0 .. NumBatches /\ batch \in 0 .. NumBatches
  /\ mini \in 0 .. Minibatches - 1
  /\ next \in [batch : 0 .. NumBatches, slot : 1 .. BatchSize]
  /\ Len(builders) <= GroupsPerBatch /\ \A w \in Workers : workers[w].at \in {"idle", "rolling", "exited"}
  /\ groups \in Seq(Groups) /\ wrapped \in Seq(Groups) /\ Len(wrapped) <= GroupsPerBatch
  /\ client \in 0 .. NumBatches /\ {shutdown, updated} \subseteq BOOLEAN
  /\ evaluator \in {"waiting", "evaluating", "exited"}
  /\ DOMAIN files \subseteq 0 .. NumBatches

\* No step trains on a group that a policy more than max_steps_off_policy steps
\* old has sampled, or in the synchronous loops any older one, though the policy
\* may change while the group is rolled out, queued and collected.
OffPolicyBounded ==
  \A w \in weights : w.at - w.client \in 0 .. (IF IsAsync THEN MaxOffPolicy ELSE 0)

\* What the dataset has given in this run is neither lost nor used twice: a
\* builder is in one queue, in one task, or used up; above all one whose group was stale
\* and is rolled out again.
Loaded ==
  {Builder(b, s) : b \in start .. next.batch - 1, s \in 1 .. BatchSize}
    \cup {Builder(next.batch, s) : s \in 1 .. next.slot - 1}
Places(x) ==
  Cardinality({j \in DOMAIN builders : builders[j] = x})
    + Cardinality({w \in Workers : workers[w].at = "rolling" /\ workers[w].builder = x})
    + Cardinality({j \in DOMAIN groups : groups[j].builder = x})
    + Cardinality({j \in DOMAIN wrapped : wrapped[j].builder = x})
    + Cardinality({w \in weights : w.builder = x})
    + Cardinality({x} \cap requeue) + Cardinality({x} \cap untrained)
InOnePlace == pc # "down" => \A x \in Loaded : Places(x) = 1

\* Policy and archive stay in step, over crashes and resumes: the archive holds
\* the rollouts of every group the policy was trained on, and in the synchronous
\* loops those of no batch twice, though a batch is repeated after a crash.
InStep ==
  pc \notin {"down", "failed"} =>
    /\ \A w \in weights : w.builder \in archive
    /\ ~IsAsync => \A x, y \in archive : x.batch = y.batch => x.run = y.run

\* What the comment in main says ("reload sampler from the correct checkpoint
\* step"): the sampler's file of the last checkpoint is there.
Resumable == LastRow.batch > 0 => LastRow.batch \in DOMAIN files

\* The synchronous loop keeps it so at every moment the process may die.
SyncResumable == config.loop = "sync" => Resumable

\* Training ends, over crashes, unless a file it needs or all groups are missing or,
\* in the asynchronous loop, a group was dropped for its constant rewards; at
\* shutdown the queue of builders has room for the Nones, and every loop gets one.
TrainingEnds ==
  <>(pc = "closed" \/ cause \in {"no sampler file", "no group"} \/ (IsAsync /\ untrained # {}))

\* What the comment of groups_per_batch says ("We will ensure all batches have at
\* least this many groups"): the groups of every batch arrive.
BatchesArrive == <>(batch = NumBatches)

=============================================================================
