---------------------------- MODULE PipeTraining ----------------------------
(***************************************************************************)
(* Pipelined fine-tuning in mLoRA (mlora/executor): PipeExecutor with its   *)
(* PipeDispatcher, TrainTask and RpcTransport.                              *)
(*                                                                          *)
(* The layers of the model are split over the ranks 0 .. LastRank, one      *)
(* process each, in a ring.  Rank 0 (the head) dispatches the tasks, cuts   *)
(* their batches, gets the output of the last rank and computes the loss;   *)
(* activations go up the ranks and gradients come down again.  Every rank   *)
(* holds its own part of a task's adapter, its own optimizer and its own    *)
(* count of the task's progress, which the others cannot see; messages tell *)
(* it to add a task, to attach its adapter, and to detach and save it.      *)
(*                                                                          *)
(* A worker polls its three queues in a loop.  A message not yet taken is a *)
(* message not yet arrived, so a handler may run whenever its queue holds   *)
(* something, and is one action: between two messages a process shares      *)
(* nothing.  Tensors are left out; a batch is its task and its number.      *)
(* Also left out: termination, which nothing in the repository asks of a    *)
(* pipeline, and the checkpoints a task writes on the way, which only a     *)
(* restarted process reads.                                                 *)
(***************************************************************************)
EXTENDS Integers, Sequences, FiniteSets, SequencesExt

CONSTANTS
  Tasks,        \* names of the tasks, each with one adapter of its own
  LastRank,     \* world_size_ - 1
  Concurrency,  \* concurrency_num_ of the dispatcher's configuration
  DataLen,      \* number of data points of each task
  MiniBatch,    \* mini_batch_size_
  Accumulate,   \* accumulate_step_
  NumEpochs,    \* num_epochs_
  InOrder       \* do control messages between two ranks keep their order?

ASSUME PipeAssumption ==
  /\ IsFiniteSet(Tasks)
  /\ LastRank \in Nat \ {0} /\ Concurrency \in Nat \ {0}
  /\ DataLen \in [Tasks -> Nat \ {0}]
  /\ MiniBatch \in Nat \ {0} /\ Accumulate \in Nat \ {0} /\ NumEpochs \in Nat \ {0}
  /\ InOrder \in BOOLEAN

VARIABLES
  ready, running, locked,   \* the head's dispatcher: ready_, running_, lock_set_
  known,        \* known[r]: the tasks in rank r's dispatcher
  attached,     \* attached[r]: the tasks whose adapter is in r's layers
  progress,     \* progress[r][t]: now_step_, now_epoch_, now_data_idx_
  unapplied,    \* unapplied[r][t]: batches whose gradients wait for a step
  saved,        \* saved[r]: the tasks whose adapter r has saved and released
  inputs,       \* input_cache_ of the head
  cached,       \* cached[r]: backward_cache_, the batches r must go back through
  failed,       \* the ranks that an exception has ended
  acts, grads, comm,  \* what is on its way to each rank, by message type
  cut,          \* history: the number of batches cut of each task
  bare          \* history: <<r, b>> if r computed b without b's adapter

dispatcher == <<ready, running, locked>>
tasksAt == <<known, attached, progress, unapplied, saved>>
pvars == <<dispatcher, tasksAt, inputs, cached, failed, acts, grads, comm, cut, bare>>

Ranks == 0 .. LastRank
Next1(r) == (r + 1) % (LastRank + 1)   \* next_worker_name
Prev1(r) == (r + LastRank) % (LastRank + 1)   \* prev_worker_name

FirstProgress == [step |-> 1, epoch |-> 1, idx |-> 0]

-----------------------------------------------------------------------------
(* Messages *)

\* Tensors go through swap queues and threads of their own and are matched by id:
\* they may arrive in any order.
Send(channel, to, b) == [channel EXCEPT ![to] = @ \cup {b}]

\* Control messages go up the ranks; the last one passes nothing on.
Tell(r, msgs) == IF r = LastRank THEN comm ELSE [comm EXCEPT ![r + 1] = @ \o msgs]

Arrivable(r) == IF InOrder /\ comm[r] # <<>> THEN {1} ELSE DOMAIN comm[r]

-----------------------------------------------------------------------------
(* A task on one rank *)

\* Only the head loads the dataset: len(data_) is 0 on the others.
Points(r, t) == IF r = 0 THEN DataLen[t] ELSE 0

AdvancedOn(r, t) ==   \* fault: the index is not reset
  LET p == progress[r][t]
  IN  [ step |-> p.step + 1,
        epoch |-> IF p.idx + MiniBatch >= Points(r, t) THEN p.epoch + 1 ELSE p.epoch,
        idx |-> p.idx + MiniBatch ]

Advanced(r, t) ==
  LET p == progress[r][t]
      over == p.idx + MiniBatch >= Points(r, t)
  IN  [ step |-> p.step + 1,
        epoch |-> IF over THEN p.epoch + 1 ELSE p.epoch,
        idx |-> IF over THEN 0 ELSE p.idx + MiniBatch ]

AppliesAtBoundary(r, t) ==   \* fault: "task finish we also need to step" left out
  progress[r][t].step % Accumulate = 0

\* context_.step() at every accumulate_step_-th batch, and at every batch from
\* the last epoch on.
Applies(r, t) ==
  \/ progress[r][t].step % Accumulate = 0
  \/ Advanced(r, t).epoch >= NumEpochs

\* TrainTask.step after the backward pass of b, whose gradients the optimizer
\* sees if the adapter took part in the forward pass.
TaskStep(r, b) ==
  LET t == b[1]
      held == unapplied[r][t] + (IF <<r, b>> \in bare THEN 0 ELSE 1)
  IN  /\ progress' = [progress EXCEPT ![r][t] = Advanced(r, t)]
      /\ unapplied' = [unapplied EXCEPT ![r][t] = IF Applies(r, t) THEN 0 ELSE held]

IsDone(p) == p.epoch > NumEpochs

\* __task_to_done_hook: rank r detaches the adapter, saves it and drops the context.
EndTask(r, t) ==
  /\ attached' = [attached EXCEPT ![r] = @ \ {t}]
  /\ saved' = [saved EXCEPT ![r] = @ \cup {t}]

-----------------------------------------------------------------------------
(* The head *)

\* add_task, called on the head: the others are told before the task is prepared.
AddTask(t) ==
  /\ 0 \notin failed /\ t \notin known[0]
  /\ known' = [known EXCEPT ![0] = @ \cup {t}]
  /\ ready' = Append(ready, t)
  /\ comm' = Tell(0, <<[do |-> "add", task |-> t]>>)
  /\ UNCHANGED <<running, locked, attached, progress, unapplied, saved, inputs,
                 cached, failed, acts, grads, cut, bare>>

\* _dispatch_task_in runs one task more than concurrency_num_.
Admitted ==
  LET room == Concurrency + 1 - Len(running)
  IN  SubSeq(ready, 1, IF room < Len(ready) THEN room ELSE Len(ready))

CanRunLocked(ts, t) == ts[1] = t   \* fault: the lock is not looked at
CanRun(ts, t) ==
  /\ t \notin locked
  /\ \E i \in DOMAIN ts : ts[i] = t /\ \A j \in 1 .. i - 1 : ts[j] \in locked

\* __process_input: admit tasks, then cut a batch of the first running task that
\* has none on its way.
Cut(t) ==
  LET b == <<t, cut[t] + 1>>
  IN  /\ locked' = locked \cup {t}
      /\ cut' = [cut EXCEPT ![t] = @ + 1]
      /\ inputs' = inputs \cup {b}
      /\ cached' = Send(cached, 0, b)
      /\ acts' = Send(acts, 1, b)

ProcessInput ==
  LET now == running \o Admitted IN
  /\ running' = now
  /\ ready' = SubSeq(ready, Len(Admitted) + 1, Len(ready))
  /\ attached' = [attached EXCEPT ![0] = @ \cup ToSet(Admitted)]
  /\ comm' = Tell(0, [i \in DOMAIN Admitted |-> [do |-> "running", task |-> Admitted[i]]])
  /\ \/ \E t \in ToSet(now) : CanRun(now, t) /\ Cut(t)
     \/ /\ Admitted # <<>> /\ \A t \in ToSet(now) : ~CanRun(now, t)
        /\ UNCHANGED <<locked, cut, inputs, cached, acts>>
  /\ UNCHANGED <<known, progress, unapplied, saved, failed, grads, bare>>

\* __process_output: the loss of what the last rank computed; its gradient goes
\* back there.
ProcessOutput(b) ==
  /\ b \in acts[0]
  /\ acts' = [acts EXCEPT ![0] = @ \ {b}]
  /\ grads' = Send(grads, Prev1(0), b)
  /\ UNCHANGED <<dispatcher, tasksAt, inputs, cached, failed, comm, cut, bare>>

KeptLocked(t) == locked   \* fault: unlock_task left out
Released(t) == locked \ {t}

\* _dispatch_task_out after the step of t.
DispatchTaskOut(t) ==
  IF ~IsDone(Advanced(0, t)) THEN UNCHANGED <<running, attached, saved, comm>>
  ELSE /\ \E i \in DOMAIN running : running[i] = t /\ running' = RemoveAt(running, i)
       /\ EndTask(0, t)
       /\ comm' = Tell(0, <<[do |-> "done", task |-> t]>>)

\* __process_backward on the head, with __head_process_step: the step of the
\* task, its end if that was its last, and the lock.
HeadBackward(b) ==
  LET t == b[1] IN
  /\ b \in grads[0]
  /\ grads' = [grads EXCEPT ![0] = @ \ {b}]
  /\ cached' = [cached EXCEPT ![0] = @ \ {b}]
  /\ TaskStep(0, b)
  /\ DispatchTaskOut(t)
  /\ locked' = Released(t)
  /\ inputs' = inputs \ {b}
  /\ UNCHANGED <<ready, known, failed, acts, cut, bare>>

-----------------------------------------------------------------------------
(* The other ranks *)

\* __process_forward: an adapter that is not attached is skipped by every layer.
ProcessForward(r, b) ==
  /\ b \in acts[r]
  /\ bare' = IF b[1] \in attached[r] THEN bare ELSE bare \cup {<<r, b>>}
  /\ cached' = Send(cached, r, b)
  /\ acts' = [acts EXCEPT ![r] = @ \ {b}, ![Next1(r)] = @ \cup {b}]
  /\ UNCHANGED <<dispatcher, tasksAt, inputs, failed, grads, comm, cut>>

\* __process_backward: RecvOperator.backward sends the gradient on, then the rank
\* steps the task; find_the_task raises if it does not know it.
ProcessBackward(r, b) ==
  /\ b \in grads[r]
  /\ cached' = [cached EXCEPT ![r] = @ \ {b}]
  /\ grads' = [grads EXCEPT ![r] = @ \ {b}, ![Prev1(r)] = @ \cup {b}]
  /\ IF b[1] \in known[r] THEN TaskStep(r, b) /\ UNCHANGED failed
     ELSE failed' = failed \cup {r} /\ UNCHANGED <<progress, unapplied>>
  /\ UNCHANGED <<dispatcher, known, attached, saved, inputs, acts, comm, cut, bare>>

\* Takes the i-th of rank r's control messages off the queue and passes it on.
PassOn(r, i) ==
  comm' = [Tell(r, <<comm[r][i]>>) EXCEPT ![r] = RemoveAt(@, i)]

ProcessAdd(r, i) ==
  /\ comm[r][i].do = "add"
  /\ known' = [known EXCEPT ![r] = @ \cup {comm[r][i].task}]
  /\ PassOn(r, i)
  /\ UNCHANGED <<dispatcher, attached, progress, unapplied, saved, inputs, cached,
                 failed, acts, grads, cut, bare>>

\* dispatch_task_to_run and dispatch_task_to_done find the task first.
ProcessUnknown(r, i) ==
  /\ comm[r][i].do \in {"running", "done"} /\ comm[r][i].task \notin known[r]
  /\ failed' = failed \cup {r}
  /\ comm' = [comm EXCEPT ![r] = RemoveAt(@, i)]
  /\ UNCHANGED <<dispatcher, tasksAt, inputs, cached, acts, grads, cut, bare>>

\* switch_device raises if the task is done, for its context is gone.
ProcessRunning(r, i) ==
  LET t == comm[r][i].task IN
  /\ comm[r][i].do = "running" /\ t \in known[r]
  /\ PassOn(r, i)
  /\ IF t \in saved[r] THEN failed' = failed \cup {r} /\ UNCHANGED attached
     ELSE attached' = [attached EXCEPT ![r] = @ \cup {t}] /\ UNCHANGED failed
  /\ UNCHANGED <<dispatcher, known, progress, unapplied, saved, inputs, cached,
                 acts, grads, cut, bare>>

\* The task stays in the rank's ready_.
ProcessDone(r, i) ==
  LET t == comm[r][i].task IN
  /\ comm[r][i].do = "done" /\ t \in known[r]
  /\ PassOn(r, i)
  /\ EndTask(r, t)
  /\ UNCHANGED <<dispatcher, known, progress, unapplied, inputs, cached, failed,
                 acts, grads, cut, bare>>

-----------------------------------------------------------------------------

PipeInit ==
  /\ ready = <<>> /\ running = <<>> /\ locked = {}
  /\ known = [r \in Ranks |-> {}] /\ attached = [r \in Ranks |-> {}]
  /\ progress = [r \in Ranks |-> [t \in Tasks |-> FirstProgress]]
  /\ unapplied = [r \in Ranks |-> [t \in Tasks |-> 0]]
  /\ saved = [r \in Ranks |-> {}]
  /\ inputs = {} /\ cached = [r \in Ranks |-> {}] /\ failed = {}
  /\ acts = [r \in Ranks |-> {}] /\ grads = [r \in Ranks |-> {}]
  /\ comm = [r \in Ranks |-> <<>>]
  /\ cut = [t \in Tasks |-> 0] /\ bare = {}

HeadWorker ==
  /\ 0 \notin failed
  /\ \/ \E b \in grads[0] : HeadBackward(b)
     \/ \E b \in acts[0] : ProcessOutput(b)
     \/ ProcessInput

Worker(r) ==
  /\ r \notin failed
  /\ \/ \E i \in Arrivable(r) :
          ProcessAdd(r, i) \/ ProcessUnknown(r, i) \/ ProcessRunning(r, i) \/ ProcessDone(r, i)
     \/ \E b \in grads[r] : ProcessBackward(r, b)
     \/ \E b \in acts[r] : ProcessForward(r, b)

PipeNext ==
  \/ \E t \in Tasks : AddTask(t)
  \/ HeadWorker
  \/ \E r \in Ranks \ {0} : Worker(r)

\* The loops poll for ever, the transport delivers, and the tasks get added.
PipeSpec ==
  /\ PipeInit /\ [][PipeNext]_pvars
  /\ \A t \in Tasks : WF_pvars(AddTask(t))
  /\ WF_pvars(HeadWorker)
  /\ \A r \in Ranks \ {0} : WF_pvars(Worker(r))

-----------------------------------------------------------------------------
(* Properties *)

\* The number of batches in a task's epochs.
Total(t) == NumEpochs * ((DataLen[t] + MiniBatch - 1) \div MiniBatch)

Batches == UNION {{t} \X (1 .. Total(t)) : t \in Tasks}
Message == [do : {"add", "running", "done"}, task : Tasks]

\* Types of the dispatcher, of the tasks on each rank and of the channels.
PipeTypeOK ==
  /\ ready \in Seq(Tasks) /\ running \in Seq(Tasks) /\ locked \subseteq Tasks
  /\ known \in [Ranks -> SUBSET Tasks] /\ attached \in [Ranks -> SUBSET Tasks]
  /\ \A r \in Ranks, t \in Tasks :
       /\ progress[r][t].step \in 1 .. Total(t) + 1
       /\ progress[r][t].epoch \in 1 .. Total(t) + 1
       /\ progress[r][t].idx \in 0 .. DataLen[t]
       /\ unapplied[r][t] \in 0 .. Accumulate
  /\ saved \in [Ranks -> SUBSET Tasks] /\ failed \subseteq Ranks
  /\ \A r \in Ranks : cached[r] \cup acts[r] \cup grads[r] \cup inputs \subseteq Batches
  /\ comm \in [Ranks -> Seq(Message)]

\* Where a batch is, and the ranks that must still go back through it there.
Places(b) == {<<"acts", r>> : r \in {q \in Ranks : b \in acts[q]}} \cup
             {<<"grads", r>> : r \in {q \in Ranks : b \in grads[q]}}
Behind(place) ==
  IF place[1] = "grads" THEN 0 .. place[2]
  ELSE IF place[2] = 0 THEN Ranks ELSE 0 .. place[2] - 1

\* A task has at most one batch in the pipeline, exactly while it is locked; the
\* batch is in one place, and the ranks it has gone up through and not yet down
\* are the ones that keep its activations: no gradient comes to a rank that cannot
\* use it (the assertion of __process_backward), and no activations are left behind.
Accounted ==
  /\ \A t \in Tasks :
       Cardinality({b \in inputs : b[1] = t}) = IF t \in locked THEN 1 ELSE 0
  /\ \A b \in inputs : \E p \in Places(b) :
       Places(b) = {p} /\ {r \in Ranks : b \in cached[r]} = Behind(p)
  /\ \A r \in Ranks : cached[r] \cup acts[r] \cup grads[r] \subseteq inputs

\* No rank computes a batch before it has taken the step of the batch before it,
\* though the head sends a batch as soon as it has taken that step itself: the
\* weights of a pipeline are never stale.
UpToDate ==
  \A r \in Ranks \ ({0} \cup failed) : \A b \in acts[r] :
    progress[r][b[1]].step = b[2]

\* What a rank saves as a task's adapter has been through all the task's batches
\* and all their gradients, though a rank does not know the size of the dataset
\* and the message that ends the task has its own way there.
SavedWhole ==
  \A r \in Ranks : \A t \in saved[r] :
    /\ progress[r][t].step = Total(t) + 1 /\ unapplied[r][t] = 0
    /\ t \notin attached[r]

\* Every task ends on every rank, unless a message overtook the one a rank needed
\* to know the task.
AllTasksEnd == <>((\A r \in Ranks : saved[r] = Tasks) \/ failed # {})

\* "Task to running, need to load adapters": a rank computes a task's batch with
\* the task's adapter.
AdapterAttached == bare = {}

=============================================================================
