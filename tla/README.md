# Formal models of UG-TTT (epistemic uncertainty for test-time discovery)

UG-TTT searches for solutions of open mathematical problems by reinforcement
learning at test time: a language model with an ensemble of LoRA adapters writes
programs that improve on earlier solutions, and an archive of the solutions found
decides which one to improve next. This directory models the parts of the
repository whose *control* is hard to get right: the archive, the two training
programs around it and what they leave on disk when the process dies, the batched
decoder, the grading of the programs on a cluster, the assembly of training data, and
the pipelined executor of the vendored fine-tuning runtime.

    scripts/run.sh -> ug_ttt.rl.mlora_train.cli_main -> main
                        | sample_states / update_states /          ^ resume
                        | record_failed_rollout / flush            |
                        v                                          |
                      PUCTSampler  ---- puct_sampler_step_N.json --+
                      LoRAEnsemble ---- ensemble_k/step_N/adapter.pt
                      StreamingMITracker -- metrics.jsonl
                      main         ---- last_epoch.txt
      per group:  TwoPhaseDecode (GPU)  ->  Grading (threads, Ray, CPU groups)

    ug_ttt.rl.train.main  (the same environments and archive over the Tinker API)
      dataloader -> [builders] -> workers -> [groups] -> training loop -> checkpoints.jsonl
                                                TrainingData: trajectories -> data

    mLoRA/mlora/executor  (the vendored runtime, run as a ring of processes)
      rank 0: dispatcher, loss -> activations -> rank 1 -> ... -> last rank -> rank 0
                               <- gradients   <-        <- ... <-           <-
                               -> task_add, task_running, task_done ->

## Inventory

| component (source) | state | operations | what is hard | correct when |
|---|---|---|---|---|
| PUCT archive (`recipes/ttt/sampler.py`, `state.py`) | states with lineage, `_n`, `_m`, `_T`, a file per step | sample, update, record failure, flush, load | pruning and reloads between visits counted over lineages; duplicates; the buffer limit | counts and Q stay consistent with the tree, bounds hold on disk, the best child is not lost, a batch is spread |
| Training program (`rl/mlora_train.py`) | epoch, groups, tracker, files | rollouts, filter, train step, report, flush, checkpoint, resume | crash between and inside writes of four kinds of file | adapters, archive and history resume at one epoch; training ends |
| LoRA ensemble (`rl/ensemble.py`) | K adapters, their optimizers and files | save, load, generate, score | one adapter saved and the next not | a named checkpoint is whole |
| Streaming MI tracker (`mlora_train.py:312`) | MI history, threshold | record, update, rebuild | rebuilt from an append-only log | the history is that of the policy |
| Two-phase decode (`ensemble.py:495-664`, `1040-1492`) | per-sequence cursors, caches | MI stop, prefill, wrap-up, second phase | N sequences in lock step, each in its own phase | budgets, masks, no token from a wrong phase |
| Tinker training loops (`rl/train.py`) | two queues, events, step of the sampling client | dataloader, workers, training, evaluation | stale and dropped groups, bounded queue at shutdown, checkpoint before flush | bounded staleness, progress, shutdown |
| Environments (`env_*.py`, `dataset_builder.py`) | none of their own | step, get_batch, flush | grading timeout with a late answer | every rollout counted once |
| CPU scheduler (`utils/cpu_scheduler.py`) | free groups per host | get, release | timeouts, dead holders | a group has one holder |
| Isolated worker (`utils/single_process_pool.py`) | two queues, a process | call, restart | - | not used by the program |
| Training data (`rl/data_processing.py`, `supervised/common.py`) | the sequence being merged and its four lists | merge, shift, cut | indices of lists that grow and shift together | each sampled token trained once, in its context |
| Reward tasks (`tasks/base_reward_task.py`) | code and results files | compute_score, run_eval_code, run_program | late answers, killed workers, retries | files follow the task, no CPU runs two programs |
| File lock, best-sequence store (`best_sequence_utils.py`) | lock files, JSON | lock, break stale lock, save if better | - | never written by the program |
| Greedy and fixed samplers (`sampler.py:166-290`) | top states | sample, update, flush | values that are None or negative | best kept |
| Rewards, losses, uncertainty, renderers, metrics | none | floating-point and text | - | outside the models |
| mLoRA pipeline executor (`mLoRA/mlora/executor`) | dispatcher, adapters, progress and caches of each rank, three queues between two ranks | add task, dispatch, forward, loss, backward, step, end | ranks that share nothing but messages, which overtake one another | each batch computed with the adapter, after the step before; what is saved is whole |
| `ug_ttt/supervised`, `preference`, `eval`; the rest of `mLoRA/` (vendored); `results/`, `analyze_*.py` | - | - | not on the path of `run.sh` | outside the models |

`PROJECT.json` lists each component with its status and every hazard at its line.

## Modules

### `PUCTSampler` - the archive

One action operator per method, in terms of the fields of the class:

| module | code |
|---|---|
| `states`, `initial` | `_states`, `_initial_states` (sets of uuids) |
| `value`, `parent`, `ancestors`, `key` | the fields of the `State` objects; `State.parents` as its head and the set of its ids; `_get_construction_key` |
| `n`, `m`, `T` | `_n`, `_m`, `_T`; a missing entry of `_m` is `NoValue` |
| `sampled`, `step`, `file` | `_last_sampled_states`, `_current_step`, the JSON file of each step |
| `SampleStates(P)` | `sample_states`: score, sort, greedy scan with `blocked_ids`, refresh of random initial states |
| `UpdateStates(p, kid)` | `update_states`: statistics, best k per parent, value/length/duplicate checks, `_set_parent_info` |
| `RecordFailedRollout(p)` | `record_failed_rollout` |
| `Flush(s)` | `flush` and `_finalize_and_save`: per-parent filter, buffer limit, file |
| `Load(s)`, `FreshStart(I, v, k)` | the constructor with and without `resume_step` |

`known` and `held` are history variables: the uuids drawn, and the parents that
callers may still report on. `Spec` is the archive under *any* caller that reports
only on parents it was given, with any interleaving of batches, reports, flushes,
resumes and restarts; this covers the callers in `env_ttt.py` (one child or one
failure per step, from concurrent rollouts) and in `mlora_train.py` (a group at a
time).

Abstractions. Values are integers and constructions are members of a small set
(`NoKey`: unlike any other, or absent). The score comparison is exact: both sides
are multiplied out, and the square root is removed by comparing signed squares.
What depends on the order of a list only to settle ties (equal values in a stable
sort or in `argsort`) may go either way. A file appears whole or not at all, as
`os.replace` provides. `State.parent_values` is left out: the values a child records of its
ancestors when it is reported, which prompts and statistics print and no decision reads.
So the model says nothing of a child that records the value its initial parent was
refreshed to after the child's prompt was made. `group_size` inside the class is 1, as the constructor sets
it. Initial states have a value (true of `ac1`, `ac2`, `cp` and of `erdos` with its
default random start; an `erdos` start without a value is not modelled). Callers
pass `save=False` and children of one parent per call. `MaxBuffer > BatchSize` is
assumed, as in every configuration of the repository (1000 against at most 64).
`Load` is the constructor's; `reload_from_step`, which no caller in the launched
program uses, differs in keeping `_last_sampled_states`.

### `MloraTraining` - the training program

Extends `PUCTSampler` and calls its operators from the steps of `main`, in program
order (`pc`). `SampleParents`, `RolloutGroup`/`FilteredGroup` per sampled parent,
`TrainStep`, `ReportFailed`/`ReportChildren` per kept group, `FlushEpoch`, then the
checkpoint: `OpenAdapter`/`SaveAdapter` per adapter (a crash in between leaves the
file torn), `OpenMark`/`WriteMark` for `last_epoch.txt`, `NextEpoch`; the end of
`main` saves once more. `Crash` may come at any point; `StartFresh` and
`StartResumed` are the next run on the same log directory, with what `cli_main`,
`create_sampler`, `ensemble.load` and the tracker's rebuild do.

Learning is abstracted to provenance: `weights[k]` is the sequence of the numbers of
the process runs that took adapter `k` through each epoch, and `lineage` (a history
variable) is the same for the archive. Two things are in step exactly when these
sequences are equal. The MI history and its log are sets of pairs (epoch, run).
The constant-reward filter is on, as the launcher has it; a group of more than one
rollout is dropped or kept freely, since rewards are data. Fresh uuids are chosen deterministically: they are
interchangeable. A crash between the lines of one archive call is the crash before
or after it, because the archive's memory is lost either way and its file is
replaced atomically.

### `TwoPhaseDecode` and `DecodedSequences` - batched decoding

`TwoPhaseDecode` is `generate_batch_multi_adapter_two_phase` with the part of
`_build_rollout_from_scored` that reads its masks. One action per iteration of a
decoding loop: `FirstTokens`, `ThinkStep` (phase 5a: MI check, forward pass, and for
each sequence prefill, wrap-up or thinking), `EndThinking`, `InjectStep` (5b),
`CodeStep` (5c), `BuildRollouts` (6). Variables keep the code's names (`cur_pos` is
`curPos`, `mi_prefill_cursor` is `cursor`, `mi_wrap_remaining` is `wrapLeft`).

A token is an ordinary one, a stop token, or the k-th of the prefill: nothing else
about it decides anything. What the model and the MI score answer is any choice. The
key/value cache is abstracted to *which of the sequence's own tokens* was fed at each
position, 0 for a dummy: whether attention sees the right prefix is exactly whether
that list is 1, 2, 3, ... up to the position. `wrapLeft` of a finished sequence and
`logprobs`, which grow with the tokens, are not kept apart.

`DecodedSequences` is the abstract specification: what each sequence is promised as
if decoded alone. It is translated from `generate_two_phase`, the one-sequence decoder
the batched one delegates to, with the early stop added. `EachAlone` shows the
refinement: `tokens` and `early` are the detailed variables and `stage` is computed
(`Stage`). One step of the batch is a step, or none, of every sequence. A sequence
stopped too late to get its prefill and wrap-up in the first phase is promised only an
end (`RunOut`, `Late`); the `late` run shows that this happens.

### `TinkerTraining` - the training loops over the Tinker API

`rl/train.py`'s `main` with its three loops, chosen by `config`. All tasks share one
event loop, so an action is what a task does between two awaits:

| action | code |
|---|---|
| `Start`, `Open`, `Crash`, `Close` | `main`: last row of `checkpoints.jsonl`, sampler reload, first and final checkpoint |
| `DataloaderStep`, `RequeueStep` | `dataloader_loop`, `requeue_stale_sample_task` (both wait for room) |
| `TakeBuilder`, `FinishRollout` | the workers, before and after the awaited rollout; the tasks of the synchronous loops |
| `BeginBatch`, `Gather`, `SyncTrain` | `do_sync_training` |
| `Collect`, `AsyncTrain`, `Peek` | `training_loop` |
| `StreamTake` | `do_train_step_streaming_and_get_sampling_client` |
| `Save`, `FlushStep`, `NothingLeft`, `Join` | checkpoint, then flush and the next step; shutdown |
| `EvalWake`, `EvalDone` | `evaluation_loop` |

A policy is the set of groups it was trained on, each with the step its client came
from and the step it was trained at; a checkpoint stores that set. The archive is the
set of builders whose rollouts it has recorded; `PUCTSampler` has its detail. A rollout
group is `constant` or not, freely. Rollouts do not raise. Evaluations of the
synchronous loops change nothing and are left out.

### `Grading` - grading a rollout on the cluster

From `env.step` through `_safe_grade` (a thread pool with a timeout), `run_eval_code`
(a code file, a Ray task, a results file) and `run_program` to the CPU scheduler.
`env`/`answer`/`archive` are the event loop's side; `pool`, `thread`, `outcome` the
executor's; `task` the Ray task; `free` the scheduler's queues; `code`, `results` the
files. Ray is external and modelled by what the code relies on: a host runs tasks
while it has CPUs for them, a task whose worker dies is run again `MaxRetries` times,
and the workers of a dead job are killed. `Restart` kills the training process with
its job; the scheduler is detached and stays. The history variables `lost` and
`orphans` are the groups whose holder was killed and the programs that outlived it.

The scheduler partitions *its own* affinity for every host, so a host with more or
fewer CPUs than the actor's gets the actor's groups: the instance has such a host.
A rollout is graded once; what the program computes is any verdict.

### `TrainingData` - trajectories to what is trained on

`trajectory_to_data` as one action per transition, `assemble_training_data` around it,
and `datum_from_model_input_weights`. A log probability is the sampled token's
identity (group, trajectory, transition, position) and an advantage is its
trajectory's, so that a shift by one is visible; a weight is its position.

### `PipeTraining` - pipelined fine-tuning in mLoRA

The layers of the model are split over the ranks of a ring. An action is one handler of
a rank's polling loop:

| action | code |
|---|---|
| `AddTask` | `add_task`, called on the head |
| `ProcessInput` | `__process_input` with the dispatcher's `data`: admit tasks, attach their adapters, cut a batch of the first task that is not locked |
| `ProcessForward`, `ProcessOutput` | a rank's forward pass; the loss on the head |
| `HeadBackward`, `ProcessBackward` | `__process_backward`: the gradient goes on, the task steps; on the head it is unlocked, or ends (`DispatchTaskOut`) |
| `ProcessAdd`, `ProcessRunning`, `ProcessDone`, `ProcessUnknown` | `__process_comm`, by message; the last one is `find_the_task` raising |

A batch is its task and number; a tensor is not modelled. Each rank has its own
`progress` and `unapplied` (batches whose gradients wait for an optimizer step), as each
has its own `TrainTask`. Tensors pass through two swap queues, a thread and `rpc_async`
on each side and are matched by id, so they may arrive in any order. Whether the remote
calls of one control thread keep their order is up to `torch.distributed.rpc`
(`InOrder`): the properties are checked without it, the violation is shown with it. A
handler may run whenever its queue holds something, which stands for any delay of the
messages. The fixed order of the handlers in the loop is given up with this; it forbids
nothing, since a message not taken is a message not arrived.

`_dispatch_task_in` compares with `<=`: one task more than `concurrency_num_` runs, and
the comment above it ("pipeline only have one running task") is not what it does. The
batches of several running tasks are in the pipeline at once; one task has one at most
(`lock_set_`). "task finish we also need to step" (`train_task.py:269`) is true of every
batch from the last epoch on, not only of the last one, and the ranks that have no
dataset count an epoch for every batch: they step the optimizer after other batches than
the head does. `Applies` is the code's condition, and `SavedWhole` claims only that no
gradient is left over.

### `MCPUCTSampler`, `MCMloraTraining`, `MCTwoPhaseDecode`, `MCTinkerTraining`, `MCGrading`, `MCTrainingData`, `MCPipeTraining`

Values for the constants. Uuids are symmetric in the runs of the archive.

### Modules of proofs

| module | about | rests on |
|---|---|---|
| `PUCTSampler_proofs` | `PUCTSampler` | |
| `MloraTraining_proofs` | `MloraTraining`, and that it uses the archive as specified | `PUCTSampler_proofs` |
| `TwoPhaseDecode_proofs` | `TwoPhaseDecode`, and its steps against `DecodedSequences` | |
| `TinkerTraining_proofs` | `TinkerTraining`; its second half is about where each builder is | |
| `Grading_proofs` | `Grading` | `InjectiveSequences` |
| `TrainingData_proofs` | `TrainingData`, and what its recursive functions over sequences compute | |
| `PipeTraining_proofs` | `PipeTraining` | `InjectiveSequences` |
| `InjectiveSequences` | sequences that hold nothing twice: what the head, the tail, an append and a removal leave in them | |

Operators marked `fault:` beside a definition are plausible errors in that spot of
the code. No specification uses them: each property has one that breaks it, which
shows that the property and its bounds can tell right from wrong there.

## Runs

| run | question | bounds |
|---|---|---|
| `tree` | Does one tree stay consistent under all orders of sampling, updates with up to two children, failures, flush, resume, restart? `TypeOK`, `VisitsFollowLineage`, `QCoversChildren`, `DistinctConstructions`, `FilesBounded`, `BestChildKept` | 4 states, buffer 3, top 2, 3 rollouts, random refresh on |
| `forest` | Is a batch of two spread over unrelated states, and do the roots stay and share the visits? `RootsShareVisits`, `Rooted`, `PicksUnrelated`, `NoDominatedPick` | 5 states, 2 roots, buffer 3, top 1, 3 rollouts |
| `training` | Does the program survive crashes anywhere? `TrainTypeOK`, `InStep`, `CheckpointUsable`, `TrainingEnds`, and `Spec` (refinement) | 4 states, groups of 2 rollouts, 2 adapters, 3 epochs, checkpoint every 2, 2 crashes |
| `decode` | Is every sequence of a batch decoded as if alone? `DecodeTypeOK`, `CacheFollowsTokens`, `MaskIsSampled`, `AdapterKept`, `PrefillLocated`, and `EachAlone` (refinement) | 3 sequences, 2 adapters, 6 thinking tokens, checks at 2 and 4, prefill 3, wrap-up 1, 2 code tokens |
| `late` | Does a sequence stopped early always get the whole prefill? No. | 2 sequences, as `decode` |
| `tinker` | Do the three loops bound staleness, lose and repeat nothing, resume and end? `TinkerTypeOK`, `OffPolicyBounded`, `InOnePlace`, `InStep`, `SyncResumable`, `TrainingEnds` | 2 batches of 2 groups, staleness 0, checkpoint every step, 2 runs of the process; all five configurations of the loops |
| `starved` | Does every asynchronous batch get its groups? No. | asynchronous loop, 1 run |
| `resume` | Can the last checkpoint always be resumed? No. | loop with minibatches, 2 runs |
| `grading` | Do leases, retries and late answers leave each CPU one program, each rollout one answer, and nothing hanging? `GradingTypeOK`, `OneProgramPerCpu`, `WaitsOnlyForLost`, `AnswersCounted`, `FilesFollowTask`, `GradingSettles` | 3 rollouts, hosts of 3 and 4 CPUs, 2 CPUs a task, 2 threads, 1 retry, 1 kill |
| `data` | Is each sampled token trained once, in its context, and do weights stay aligned? `SampledOnce`, `WeightsOnTargets` | 1 token, 1 image of 2 tokens, 2 groups of 2, 3 transitions, observations and actions up to 2, examples up to 5 |
| `pipe` | Do ranks that learn of each other only by messages keep batches, weights and tasks straight? `PipeTypeOK`, `Accounted`, `UpToDate`, `SavedWhole`, `AllTasksEnd` | 3 ranks, 2 tasks of 3 and 1 data points, minibatches of 2, optimizer step every 3 batches, 2 epochs, control messages in any order |
| `attached` | Is a batch always computed with its adapter? No. | as `pipe`, control messages in order |

Why these bounds are enough for the cases that matter: four or five states with a buffer of
three make a tree of depth three whose inner state is pruned while its child stays,
fill and overflow the buffer, and let a restart leave older objects behind; two
children per call reach the top-k cut, ties and duplicates within a call; three
epochs with a checkpoint after the second have an epoch before the first
checkpoint, one after the last, and the final save that repeats nothing or a step;
two crashes reach a crash during recovery from a crash. `MaxStep = 0` in the archive
runs keeps one file that every flush overwrites; several files are exercised in
`training`. `MaxT` is not reached in the training runs.

In `decode` a stop at 2 leaves just room for prefill and wrap-up and a stop at 4 cuts
the prefill; three sequences on two adapters are decoded in another order than the
group's for every epoch, and put sequences of all stages beside each other. In `tinker`
the loops are short but every queue reaches its limit: a queue of two builders with two
workers, groups stale at the first step after their sampling, a requeue that waits for
room, a shutdown with a full house, a crash after every action. In `grading` one host
has as many groups as tasks and the other one more task than groups, there are fewer
threads than rollouts, and the one kill can be a worker's (with and without a retry
left) or the training process's. In `data` three transitions make two merged and one
separate datum, or data of several trajectories and groups. In `pipe` three ranks are a
head, a middle and a tail; one task has a short last batch and its epochs end between two
optimizer steps, the other ends while the first is running. Two tasks fill the admission
limit of `concurrency_num_` 1 exactly; a third one that waits is out of TLC's reach.

Deadlock checking is off where the system really stops: a training run that is done,
or stuck on a file torn by a crash, or starved of groups; gradings that have all
settled; a batch that is assembled; a pipeline whose tasks are done or that lost a rank. `decode` checks deadlock, with `Returned` as the
end of the call.

### Fairness

`TrainSpec` assumes weak fairness of `Process` (a process that can take its next step
and is not killed takes it: `main` is sequential and waits for nothing but the
machine) and of `Start` (whoever launched the program launches it again; without
this a crash is the end). None is assumed of `Crash`. `TrainingEnds` is conditional
in three ways that the module names: at most `MaxCrash` crashes, of which epochs
that lose every group to the filter are one kind, and no crash inside a write that
is not atomic and is needed for recovery (`DiedWriting`): the code has no answer to
a torn `last_epoch.txt` or to a torn file of the last checkpoint.

`TwoPhaseDecode`: the loops run in one thread (`WF_vars(Next)`).

`TinkerTraining`: weak fairness of each task: asyncio runs every ready task, the
service answers, and whoever launched the program launches it again. None of `Crash`.
`TrainingEnds` names what it does not promise: a process that failed, and the
asynchronous loop after a constant group was dropped (the `starved` run).

`Grading`: weak fairness of `Progress` as a whole, one conjunct for everything that
goes on by itself. That is weak: an unfair order of the tasks is allowed, and still
everything settles, because each task takes finitely many steps (a lease that was
refused is followed by its time limit). None of the kills or of `OrphanEnds`.

`PipeTraining`: weak fairness of each rank's loop, which polls for ever, and of the
adding of the tasks. `AllTasksEnd` names what it does not promise: a pipeline in which a
message overtook the `task_add` that its receiver needed, which ends that rank's process.
Nothing in the code prevents such a message, so of this hazard the property covers only
that tasks end as long as none comes.

`TrainingData` is sequential and claims no liveness.

### What the violation runs show

1. `late`: the first phase ends at its budget whatever a stopped sequence still has to
   get. It is then left with part of the prefill, is skipped while the others get
   theirs (dummy tokens take its place in the cache), and goes on generating in the
   second phase: `ensemble.py:1358-1365`, `1405-1440`, against the comments at 1359
   and 1459.
2. `starved`: a group dropped for constant rewards (`train.py:764`) is not replaced; the
   last batch of the asynchronous loop is never full and the program waits for ever.
3. `resume`: the loops with minibatches and the asynchronous one write the checkpoint
   row before the sampler's file of that step; a crash in between makes every later
   start raise FileNotFoundError. The synchronous loop flushes first
   (`SyncResumable`).
4. `attached`: activations and control messages come to a rank by different threads and
   queues, and its loop takes one control message before it computes the next batch. While
   it adds another task or saves one that is done, a batch may arrive whose `task_running`
   is still queued. The layers pass over an adapter that is not loaded
   (`linear.py:70`), so the rank computes the batch without it and its adapter gets no
   gradient from it.

Properties of the code that a reader may expect otherwise are not claimed:

- `m` of a state follows its children only, not better descendants further down
  (`sampler.py:518`), and a parent whose group was filtered gets no visit
  (`mlora_train.py:1978`).
- When every group of an epoch has constant rewards, `mlora_train.py:1881` keeps none,
  though its comment says "same as original" and the original keeps one group; `train_step`
  then reads a variable that only its loop assigns (line 1585) and the process dies.
  `MloraTraining` has this as one kind of crash.
- After a crash `metrics.jsonl` still holds the records of epochs that are run again, so the
  threshold of the early stop counts them twice. `InStep` claims that no epoch is missing.

## Proofs

Every theorem is proved for all values of the constants, under the assumption on the
constants that its component's module states and TLC evaluates in the component's run:
`SamplerAssumption`, `TrainingAssumption` (with `SamplerAssumption`), `DecodeAssumption`,
`TinkerAssumption`, `GradingAssumption`, `DataAssumption`, `PipeAssumption`. Each argument has the same
shape: an invariant that is inductive, one lemma per action or per part of it, and the
temporal steps by PTL.

### The archive

| theorem | statement |
|---|---|
| `SamplerTypeCorrect` | `Spec => []TypeOK` |
| `LineageSound` | `Spec => []LineageInv` |
| `VisitsSound` | `Spec => []VisitsFollowLineage` |
| `QSound` | `Spec => []QCoversChildren` |
| `DistinctSound` | `Spec => []DistinctConstructions` |
| `RootedSound` | `Spec => []Rooted` |
| `VisitsShared` | `Spec => []RootsShareVisits` |
| `PicksApart` | `Spec => []PicksUnrelated` |
| `FilesWithinBounds` | `Spec => []FilesBounded` |
| `ValuesKnown` | `Spec => []ValuedInv` |
| `BestChildNeverLost` | `Spec => BestChildKept` |
| `NoPickDominated` | `Spec => NoDominatedPick` |

The properties speak of the archive in memory, but `Resume` replaces
the memory by any file and `Update` reports on any parent ever handed out, whether
or not it is still archived. None of the properties is therefore inductive by
itself. `LineageInv` strengthens them in two directions: the same facts hold of
every file (a snapshot is judged by the predicates that judge the memory), and of
every object a process may still report on, not only of archived states. It says
that the ancestors of an object include the ancestors of each of them, that only
uuids already drawn have or are ancestors, that the initial states are archived and
have no parent, and that all other archived states have one. On it
rest the visit counts (a visit adds to a set closed under ancestors), Q (a child is
archived in the step that raises its parent's `m`, and `m` never falls within a
process) and rootedness (only initial states have no parent, and pruning keeps
them). Each action is a lemma; the temporal steps combine them by PTL.

The sum of the roots' visits is the number of `Marks`, one for each visit of a root
(`SumIsMarks`); a report adds one mark, since whoever is reported on has exactly one root.
`TreePath` follows parents for as many steps as there are uuids; `PathIsAncestors` shows
that it meets ancestors only, so that a scan which blocks ancestors and descendants
spreads the batch over the true tree. The induction theorems of the library cannot be used
here, so both of these give a recursive function in closed form and compare by a least
counterexample (`LeastNatural`, and the well-founded order of finite sets).
`FilesWithinBounds` and `BestChildNeverLost` rest on what a cut leaves (`CutBounded`,
`CutKeepsBest`): no more than its limit, and always something at least as good as what it
drops. The initial states fill no more than `BatchSize < MaxBuffer` places, so both cuts
leave a child. `NoPickDominated` is arithmetic on the squared score, under the same
conditions as in the code: at least as promising, better by value, no more visits.

### The training program

| theorem | statement |
|---|---|
| `TrainInvariant` | `TrainSpec => []TrainInv` |
| `TrainTypeCorrect` | `TrainSpec => []TrainTypeOK` |
| `TrainInStep` | `TrainSpec => []InStep` |
| `CheckpointsUsable` | `TrainSpec => []CheckpointUsable` |
| `ArchiveUsedAsSpecified` | `TrainSpec => Spec` |

`InStep` compares three things when an epoch begins; to keep it one has to know what the
files hold at any moment of the epoch before, because a crash may make any of them the
next beginning. `TrainInv` is the archive's `TypeOK` and `LineageInv` with:
`TrainFields` (types), `Reporting` (the groups kept are of parents that were given out,
and their children are fresh and apart), `Counting` (where `pc` may be at which epoch and
archive step), `Passed` (through which runs archive and adapters went, place by place of
the epoch), `Tracked` (the MI values of those epochs are in memory and those of every
file are logged), `Saving` (what the files written so far hold while the adapters are
saved) and `Resumable` (the step that `last_epoch.txt` names is complete, and the epochs to
come do not write over it; the final save of the last epoch may tear an adapter again,
which is why `CheckpointUsable` speaks of it).

`ArchiveUsedAsSpecified` is a refinement with the identity as mapping: every step of the
program is a step the archive allows to its callers, or none. With it the archive's six
theorems hold of the running program.

### Decoding

| theorem | statement |
|---|---|
| `DecodeInvariant` | `Spec => []DecodeInv` |
| `DecodeTypeCorrect` | `Spec => []DecodeTypeOK` |
| `OwnTokensOnly` | `Spec => []CacheFollowsTokens` |
| `TrainedOnSampled` | `Spec => []MaskIsSampled` |
| `OwnAdapter` | `Spec => []AdapterKept` |
| `PrefillFound` | `Spec => []PrefillLocated` |
| `BudgetsKept` | `Spec => []Budgeted` |
| `DecodesEachAlone` | `Spec => Alone!Init /\ [][Alone!Next]_(Alone!vars)` |

`DecodeInv` relates the one position that the batch shares to every sequence: `Paced` (how
many passes there were, by loop, and that no sequence has more tokens than that),
`Divided` (whom the second phase is for), `MadeUp` (a sequence is thinking, then the
prefill without a gap, then the rest, with the lengths that the cursors and counters say)
and `Built` (what is built of it), besides `DecodeTypeOK` and `CacheFollowsTokens`.
`CacheFollowsTokens` is kept because a sequence is fed its token at the shared position
exactly while it is not finished, which is where `Paced` is needed; the masks and
`prefill_info` follow from `MadeUp`.

`DecodesEachAlone` is the safety part of `EachAlone`. Under the mapping `Stage`, every pass
of the batch is, for each sequence, a step of the one-sequence decoder or none. `Budgeted`
is what it needs beyond `DecodeInv`: a stopped sequence has as many tokens to come as its
wrap-up has left, so the decoder of one sequence would stop where the batch does. That
each sequence also ends is liveness and is model-checked (`EachAlone`).

### The loops over the Tinker API

| theorem | statement |
|---|---|
| `TinkerInvariant` | `Spec => []IInv` |
| `TinkerTypeCorrect` | `Spec => []TinkerTypeOK` |
| `TrainsOnRecent` | `Spec => []OffPolicyBounded` |
| `ArchiveInStep` | `Spec => []InStep` |
| `SyncAlwaysResumable` | `Spec => []SyncResumable` |
| `NothingLostOrTwice` | `Spec => []InOnePlace` |

`IInv` is `Typed`, `Control` (which steps, queues and tasks go with which place of which
loop), `Gathered` (in the loops that gather, the groups taken, queued and being rolled out
make up a batch), `Aged` (how old the policy is that sampled a group, wherever the group
is), `Recent` (the same of what the policy and the last row were trained on), `Stepped`
(archive, files, rows and policy belong together: `Recorded`, `SavedRow`, `BestOfN`,
`Restarted`, `Unsaved`, `Flushes`) and `Separate` (in the loops that gather, archive and
files hold each batch of one run only). A group is labelled when its rollout begins and
judged after it, so `OffPolicyBounded` needs the age of every group in every queue and in
every task's hand; the archive outlives a crash only as a file, so `InStep` needs
`Recorded` of the file of the last row too.

`InOnePlace` counts. `Placed` is `OneEach` (of a builder loaded in this run there is one
copy, over both queues, the workers, the groups gathered, those put aside to be rolled out
again, the policy and those used up; of one not loaded there is none), with `Numbered` (no
builder is of a later run) and `Positions` (where the dataset stands). An action moves a
copy from one place to another, and the proof is the arithmetic of those moves.

### Grading

| theorem | statement |
|---|---|
| `GradingInvariant` | `Spec => [](IInv /\ AnswersCounted)` |
| `GradingTypeCorrect` | `Spec => []GradingTypeOK` |
| `ProgramsApart` | `Spec => []OneProgramPerCpu` |
| `NoWaitWithoutLoss` | `Spec => []WaitsOnlyForLost` |
| `OneAnswerEach` | `Spec => []AnswersCounted` |
| `FilesFollow` | `Spec => []FilesFollowTask` |

`IInv` is `Typed`, `Pooled`, `Bounded` (threads and tasks of a host), `Leased` and `Files`.
`Leased` is about *every* group of CPUs of every host: it is in the host's queue once, or
one task holds it, or it was lost with its holder, never two of these (`Exclusive`) and
never none (`Covered`). The first half gives `ProgramsApart`, since the groups themselves
are disjoint; the second half `NoWaitWithoutLoss`, by counting the groups of a host
against the tasks it may run.

### The pipeline

| theorem | statement |
|---|---|
| `PipeInvariant` | `PipeSpec => []PipeInv` |
| `PipeTypeCorrect` | `PipeSpec => []PipeTypeOK` |
| `BatchesAccounted` | `PipeSpec => []Accounted` |
| `NeverStale` | `PipeSpec => []UpToDate` |
| `SavedIsWhole` | `PipeSpec => []SavedWhole` |

`PipeInv` is `Fields`, `Queued` (the head's two queues), `InRing` (the batch of a locked
task is the last one cut, at one rank, on its way up or down, and the ranks behind it hold
its activations), `InPace` (the ranks its gradient has passed are one step ahead of the
others), `InEpoch` (on the head the step follows from epoch and place in the dataset, on
the others every step is an epoch), `Applied` (no more gradients wait than steps were taken
since the last that applied them, and none after the last step of a task), `Ended` (no rank
ends a task before the head) and `SavedWhole`. `InRing` does not depend on the order of the messages, which
is why the theorems hold for either value of `InOrder`; `SavedWhole` is kept because a
`done` message exists only when the head has taken the last step, and the ranks that
have no dataset have then applied everything, by `Applied` and `InPace`.

### Trajectories to training data

| theorem | statement |
|---|---|
| `BatchInvariant` | `Spec => []BatchInv` |
| `EverySampleOnce` | `Spec => []SampledOnce` |
| `WeightsAligned` | `Spec => []WeightsOnTargets` |

`Expand`, the tokens of a sequence of text and images, is `FlattenSeq` of the community
modules, and the two cuts of an example are recursive functions too. The library's
induction theorems cannot be used here, so their unfolding is derived: the recursion has a
solution (`JoinsExist`), two solutions agree where both are defined (`JoinsAgree`), and the
value is that of a solution (`FlattenSolves`); each by taking the least number for which it
would be false (`LeastNatural`). In the same way `Spread`, the form of `Expand` without an
operator argument (`ExpandIsSpread`), is shown to have at least as many tokens as elements
(`SpreadType`), to turn a concatenation into one (`SpreadConcat`) and a cut into a cut
(`SpreadCut`); with images the positions of elements and tokens differ, which is what both
properties are about.

`WeightsAligned` rests on what the two cuts return (`CutToProperties`,
`WithoutTrailingImagesProperties`, `KeptProperties`): the longest prefix that fits and
ends with text.

`BatchInv` says, unless the batch is given up with a `ValueError`: of the trajectory under
way (`UnderWay`), that the four lists of the accumulator have one length, with an advantage
where something was sampled, that its first token is not trained (`Started`, without which
shifting by one would lose a sample), and that what the trajectory drew is what the data
made of it and the accumulator would train, each once; of those before it (`Finished`), that
the data train what each drew, carry its numbers, and have nothing in common. A transition
adds what it drew to the accumulator (`GrownTakes`), whether it goes on from the last one
or begins a new datum, and a datum trains exactly what the accumulator held
(`DatumTrains`). Labels carry group, trajectory, transition and position, so samples of
different places are never the same sample.

### What is only model-checked

Every safety invariant and every action property of the passing runs is a theorem. What is left to
TLC:

- Liveness, which is out of the provers' reach: `TrainingEnds` of both training programs,
  `GradingSettles`, `AllTasksEnd`, and that every sequence ends (in `EachAlone`).

## Not modelled

- Numbers: losses, advantages, uncertainty scores, the percentile of the MI threshold,
  rewards and verifiers. The models let them take any value their control reads.
- `IsolatedWorker` (`single_process_pool.py`) is imported nowhere; the best-sequence
  store is written by nobody (`try_save`, `get_best` are imported and never called);
  `GreedySampler` is an option that no script chooses.
- `supervised`, `preference`, `eval` (the cookbook the package grew out of), plots, results.
- Of the vendored `mLoRA/`: tensor functions, the tasks with other objectives, and the
  executor of a single process, a sequential loop. The program uses it as a library of
  model and adapter classes. In `PipeTraining`: termination of a task, which nothing asks
  of a pipeline, and the checkpoints on the way. All ranks write those into one folder
  named by their own counters, and a restarted rank takes the one with the most steps,
  whichever rank's it is.
- In `TinkerTraining`: a rollout that raises. In the loop with minibatches its task's
  exception is never retrieved and the step waits for ever; in the others the program
  ends. Datasets whose batch is not `groups_per_batch` (see `TinkerAssumption`).
- In `Grading`: a scheduler that outlives a run with another `num_cpus_per_task`; nodes
  that fail as a whole; the copies of standard output, and the program's own temporary
  file, which `run_program` leaves behind when the lease times out.

## Plan

1. `PUCTSampler` - done, all invariants and action properties proved.
2. `MloraTraining` - done, with the refinement of the archive's `Spec` and all invariants
   proved.
3. `TwoPhaseDecode` with `DecodedSequences` - done, all invariants and the safety part of
   the refinement proved.
4. `TinkerTraining` - done, all invariants proved.
5. `Grading` - done, all invariants proved.
6. `TrainingData` - done, all invariants proved.
7. `PipeTraining` - done, all invariants proved.
