------------------------------- MODULE Grading -------------------------------
(***************************************************************************)
(* Grading a rollout: env.step and _safe_grade of recipes/ttt/env_ttt.py,    *)
(* compute_score, run_eval_code and run_program of tasks/base_reward_task.py *)
(* and the CPU scheduler of utils/cpu_scheduler.py.                          *)
(*                                                                          *)
(* A rollout's step hands the grading to a thread pool and waits for it for a *)
(* limited time.  The thread writes the code to a file, submits a Ray task   *)
(* and waits for it without a limit.  The task leases a group of CPUs from   *)
(* the scheduler, runs the program on them, writes the results to a file and *)
(* gives the group back.  An answer that comes too late is dropped, but its   *)
(* thread, its task and its lease live on.                                   *)
(*                                                                          *)
(* Workers of Ray may be killed at any point: Ray runs the task again, and   *)
(* the program, in a session of its own, survives.  So may the training       *)
(* process: the scheduler, a detached actor, serves the next one as it is.   *)
(***************************************************************************)
EXTENDS Integers, FiniteSets, SequencesExt

CONSTANTS
  Rollouts,     \* the rollouts of the batches in flight
  Hosts,        \* hosts of the Ray cluster
  ActorHost,    \* the one the scheduler runs on
  Cpus,         \* CPUs of each host
  CpusPerTask,  \* num_cpus_per_task
  Persistent,   \* num_persistent_workers
  Threads,      \* SAFE_GRADE_MAX_WORKERS
  MaxRetries,   \* times Ray runs a task again whose worker was killed
  MaxKills      \* bound: times a worker or the training process is killed

\* Groups the CPUs of the scheduler's host give: the partial last one is dropped.
NumGroups == (Cpus[ActorHost] - Persistent) \div CpusPerTask

\* A scheduler without a group raises at every request.
ASSUME GradingAssumption ==
  /\ IsFiniteSet(Rollouts) /\ ActorHost \in Hosts /\ Cpus \in [Hosts -> Nat]
  /\ {CpusPerTask, Threads} \subseteq Nat \ {0}
  /\ {Persistent, MaxRetries, MaxKills} \subseteq Nat
  /\ NumGroups > 0

VARIABLES
  env,      \* where env.step of each rollout is
  answer,   \* what it took for the grading's answer
  pool,     \* SAFE_GRADE_EXECUTOR: rollouts whose grading waits for a thread
  thread,   \* the grading of each rollout
  outcome,  \* what it came to
  task,     \* the Ray task of each rollout
  free,     \* host_to_cpu_groups
  code,     \* rollouts whose code file exists
  results,  \* rollouts whose results file exists
  archive,  \* the sampler: the children and the visits of this batch
  kills,    \* workers and processes killed so far
  lost,     \* history: groups whose holder was killed
  orphans   \* programs that outlived their worker

episode == <<env, answer, archive>>
grading == <<pool, thread, outcome>>
disk == <<code, results>>
killed == <<kills, lost, orphans>>
vars == <<episode, grading, task, free, disk, killed>>

-----------------------------------------------------------------------------
(* The CPU scheduler *)

\* _initialize_cpu_group_for_host, whatever the host: the scheduler reads its own
\* affinity.
FirstCpu(i) == Persistent + (i - 1) * CpusPerTask
Groups == [i \in 1 .. NumGroups |-> FirstCpu(i) .. FirstCpu(i) + CpusPerTask - 1]

Queue(h) == IF h \in DOMAIN free THEN free[h] ELSE Groups
RestPeeked(q) == q  \* fault: the group stays in the queue
Rest(q) == Tail(q)  \* popleft
SetQueue(h, q) == free' = [k \in DOMAIN free \cup {h} |-> IF k = h THEN q ELSE free[k]]

-----------------------------------------------------------------------------
(* Ray *)

NoTask == [at |-> "none", host |-> ActorHost, group |-> {}, tries |-> 0, ok |-> FALSE]
Waiting == {"first", "polling"}              \* in get_cpu_group
Holding == {"running", "saving", "leaving"}  \* holds a group
Working == Waiting \cup Holding \cup {"returning"}
Over == {"returned", "raised"}

On(h) == {r \in Rollouts : task[r].at \in Working /\ task[r].host = h}

\* Tasks a host takes at a time.
Slots(h) == Cpus[h] \div CpusPerTask

To(r, at) == task' = [task EXCEPT ![r].at = at]
Reset(r, at) == task' = [task EXCEPT ![r] = [NoTask EXCEPT !.at = at]]

Admit(r, h) ==
  /\ task[r].at = "pending" /\ Cardinality(On(h)) < Slots(h)
  /\ task' = [task EXCEPT ![r].at = "first", ![r].host = h]
  /\ UNCHANGED <<episode, grading, free, disk, killed>>

\* The worker of a task is killed: the finally clauses do not run.
KilledWorker(r) ==
  IF task[r].tries < MaxRetries
    THEN [NoTask EXCEPT !.at = "pending", !.tries = task[r].tries + 1]
    ELSE [NoTask EXCEPT !.at = "raised"]

Lose(rs) ==
  /\ kills < MaxKills /\ kills' = kills + 1
  /\ lost' = lost \cup {<<task[r].host, task[r].group>> : r \in {s \in rs : task[s].at \in Holding}}
  /\ orphans' = orphans \cup
       {[host |-> task[r].host, cpus |-> task[r].group, kill |-> kills]
          : r \in {s \in rs : task[s].at = "running"}}

WorkerKilled(r) ==
  /\ task[r].at \in Working
  /\ Lose({r})
  /\ task' = [task EXCEPT ![r] = KilledWorker(r)]
  /\ UNCHANGED <<episode, grading, free, disk>>

OrphanEnds ==
  /\ \E o \in orphans : orphans' = orphans \ {o}
  /\ UNCHANGED <<episode, grading, task, free, disk, kills, lost>>

-----------------------------------------------------------------------------
(* run_program, on a worker *)

\* get_cpu_group: a request to the scheduler
Lease(r) ==
  LET h == task[r].host IN
  /\ task[r].at \in Waiting
  /\ IF Queue(h) = <<>>
       THEN /\ task[r].at = "first"  \* to try again every second
            /\ To(r, "polling") /\ SetQueue(h, <<>>)
       ELSE /\ SetQueue(h, Rest(Queue(h)))
            /\ task' = [task EXCEPT ![r].at = "running", ![r].group = Head(Queue(h))]
  /\ UNCHANGED <<episode, grading, disk, killed>>

\* The limit is looked at after a request that found no group; the group that was
\* never leased is not given back.
LimitNone(r) == FALSE  \* fault: called without timeout_s
LimitReached(r) == task[r].at = "polling"

LeaseTimesOut(r) ==
  /\ LimitReached(r)
  /\ Reset(r, "raised")
  /\ UNCHANGED <<episode, grading, free, disk, killed>>

\* run_with_timeout: the program ends or is out of time, and its processes are
\* killed.
ProgramEnds(r, ok) ==
  /\ task[r].at = "running"
  /\ task' = [task EXCEPT ![r].at = IF ok THEN "saving" ELSE "leaving", ![r].ok = ok]
  /\ UNCHANGED <<episode, grading, free, disk, killed>>

SaveResults(r) ==
  /\ task[r].at = "saving"
  /\ results' = results \cup {r}
  /\ To(r, "leaving")
  /\ UNCHANGED <<episode, grading, free, code, killed>>

\* The finally clause of run_program: release_cpu_group.
GivenBackIfOk(r) ==  \* fault: not in a finally clause
  IF task[r].ok THEN Append(Queue(task[r].host), task[r].group) ELSE Queue(task[r].host)
GivenBack(r) == Append(Queue(task[r].host), task[r].group)

Release(r) ==
  /\ task[r].at = "leaving"
  /\ SetQueue(task[r].host, GivenBack(r))
  /\ task' = [task EXCEPT ![r].at = "returning", ![r].group = {}]
  /\ UNCHANGED <<episode, grading, disk, killed>>

Return(r) ==
  /\ task[r].at = "returning"
  /\ Reset(r, IF task[r].ok THEN "returned" ELSE "raised")
  /\ UNCHANGED <<episode, grading, free, disk, killed>>

-----------------------------------------------------------------------------
(* The grading thread: verify, compute_score and run_eval_code *)

InThreads == {r \in Rollouts : thread[r] = "waiting"}

\* Up to the submission: without code in the response, or without a construction
\* to improve, the grading is over at once.
Begin(r) ==
  /\ pool # <<>> /\ r = Head(pool) /\ Cardinality(InThreads) < Threads
  /\ pool' = Tail(pool)
  /\ \/ /\ thread' = [thread EXCEPT ![r] = "ended"]
        /\ outcome' = [outcome EXCEPT ![r] = "failed"]
        /\ UNCHANGED <<task, code>>
     \/ /\ thread' = [thread EXCEPT ![r] = "waiting"]
        /\ code' = code \cup {r}
        /\ Reset(r, "pending")
        /\ UNCHANGED outcome
  /\ UNCHANGED <<episode, free, results, killed>>

\* The results are read before the files are removed; only a path that was
\* returned is removed.
ResultsKept(r) == results  \* fault: only the code file is removed
ResultsRemoved(r) == IF task[r].at = "returned" THEN results \ {r} ELSE results

Verdicts(r) ==
  IF task[r].at = "returned" /\ r \in results THEN {"valid", "failed"} ELSE {"failed"}

Collect(r) ==
  /\ thread[r] = "waiting" /\ task[r].at \in Over
  /\ \E v \in Verdicts(r) : outcome' = [outcome EXCEPT ![r] = v]
  /\ thread' = [thread EXCEPT ![r] = "ended"]
  /\ code' = code \ {r}
  /\ results' = ResultsRemoved(r)
  /\ Reset(r, "none")
  /\ UNCHANGED <<episode, pool, free, killed>>

-----------------------------------------------------------------------------
(* env.step, in the event loop of the training process *)

\* The answer's reward is the rollout's, and the sampler is told of it at once;
\* making the next state may fail.
Answered(r, a) ==
  /\ env' = [env EXCEPT ![r] = "done"]
  /\ answer' = [answer EXCEPT ![r] = a]
  /\ \E made \in BOOLEAN :
       archive' = [children |-> IF a = "valid" /\ made THEN archive.children \cup {r}
                                ELSE archive.children,
                   visits |-> archive.visits + 1]

\* A response without code is not graded.
Step(r) ==
  /\ env[r] = "none"
  /\ \/ Answered(r, "failed") /\ UNCHANGED grading
     \/ /\ env' = [env EXCEPT ![r] = "grading"]
        /\ thread' = [thread EXCEPT ![r] = "queued"] /\ pool' = Append(pool, r)
        /\ UNCHANGED <<answer, archive, outcome>>
  /\ UNCHANGED <<task, free, disk, killed>>

AwaitedOrLate(r) ==  \* fault: a late answer is taken too
  env[r] = "grading" \/ (env[r] = "done" /\ answer[r] = "timeout")
Awaited(r) == env[r] = "grading"

Deliver(r) ==
  /\ Awaited(r) /\ thread[r] = "ended"
  /\ Answered(r, outcome[r])
  /\ UNCHANGED <<grading, task, free, disk, killed>>

PoolWithCancelled(r) == pool  \* fault: a cancelled grading keeps its place
PoolWithout(r) == RemoveAt(pool, CHOOSE i \in DOMAIN pool : pool[i] = r)

\* asyncio.wait_for cancels a grading that waits for a thread, and leaves alone
\* one that has one.
Expire(r) ==
  /\ env[r] = "grading"
  /\ Answered(r, "timeout")
  /\ IF thread[r] = "queued"
       THEN /\ thread' = [thread EXCEPT ![r] = "cancelled"]
            /\ pool' = PoolWithout(r)
       ELSE UNCHANGED <<thread, pool>>
  /\ UNCHANGED <<outcome, task, free, disk, killed>>

Idle(v) == [r \in Rollouts |-> v]
NewArchive == [children |-> {}, visits |-> 0]

\* The training process is killed, Ray kills the workers of its job, and the
\* process is started again: it rolls everything out anew, in files of other
\* names.
Restart ==
  /\ \E r \in Rollouts : env[r] # "none"
  /\ Lose(Rollouts)
  /\ env' = Idle("none") /\ answer' = Idle("none") /\ archive' = NewArchive
  /\ pool' = <<>> /\ thread' = Idle("none") /\ outcome' = Idle("none")
  /\ task' = Idle(NoTask) /\ code' = {} /\ results' = {}
  /\ UNCHANGED free

-----------------------------------------------------------------------------
Init ==
  /\ env = Idle("none") /\ answer = Idle("none") /\ archive = NewArchive
  /\ pool = <<>> /\ thread = Idle("none") /\ outcome = Idle("none")
  /\ task = Idle(NoTask) /\ free = [h \in {} |-> <<>>]
  /\ code = {} /\ results = {} /\ kills = 0 /\ lost = {} /\ orphans = {}

RunProgram(r) ==
  \/ Lease(r) \/ LeaseTimesOut(r) \/ \E ok \in BOOLEAN : ProgramEnds(r, ok)
  \/ SaveResults(r) \/ Release(r) \/ Return(r)

\* What goes on by itself: the event loop, the threads, Ray and the programs,
\* which have a time limit.
Progress ==
  \E r \in Rollouts :
    \/ Step(r) \/ Deliver(r) \/ Expire(r) \/ Begin(r) \/ Collect(r)
    \/ \E h \in Hosts : Admit(r, h)
    \/ RunProgram(r)

Next == Progress \/ (\E r \in Rollouts : WorkerKilled(r)) \/ Restart \/ OrphanEnds

Spec == Init /\ [][Next]_vars /\ WF_vars(Progress)

-----------------------------------------------------------------------------
(* Properties *)

TaskStates == Working \cup Over \cup {"none", "pending"}

\* The state is well formed: a pool never has more gradings in it than rollouts
\* wait for a thread, nor more threads than it may start, and a host never runs
\* more tasks than it has CPUs for.
GradingTypeOK ==
  /\ env \in [Rollouts -> {"none", "grading", "done"}]
  /\ answer \in [Rollouts -> {"none", "valid", "failed", "timeout"}]
  /\ ToSet(pool) = {r \in Rollouts : thread[r] = "queued"} /\ IsInjective(pool)
  /\ thread \in [Rollouts -> {"none", "queued", "waiting", "ended", "cancelled"}]
  /\ outcome \in [Rollouts -> {"none", "valid", "failed"}]
  /\ \A r \in Rollouts :
       /\ task[r].at \in TaskStates /\ task[r].host \in Hosts /\ task[r].ok \in BOOLEAN
       /\ task[r].tries \in 0 .. MaxRetries
       /\ task[r].group \in Range(Groups) \cup {{}}
  /\ DOMAIN free \subseteq Hosts
  /\ code \cup results \cup archive.children \subseteq Rollouts
  /\ kills \in 0 .. MaxKills
  /\ Cardinality(InThreads) <= Threads
  /\ \A h \in Hosts : Cardinality(On(h)) <= Slots(h)

Programs ==
  {[host |-> task[r].host, cpus |-> task[r].group, kill |-> r]
     : r \in {s \in Rollouts : task[s].at = "running"}}

\* Two programs never run on the same CPU, those included that go on after their
\* worker or the training process was killed: get_cpu_group, release_cpu_group.
OneProgramPerCpu ==
  \A p, q \in Programs \cup orphans :
    (p # q /\ p.host = q.host) => p.cpus \cap q.cpus = {}

\* A task that Ray has started finds a group at once, unless groups were lost with
\* their holders or the host has more CPUs than the scheduler's own: whatever
\* programs do, and however late they are, a grading does not wait for CPUs in
\* get_cpu_group, where its time runs out.
WaitsOnlyForLost ==
  \A h \in Hosts :
    LET waiting == {r \in On(h) : task[r].at \in Waiting}
        gone == {l \in lost : l[1] = h}
        excess == IF Slots(h) > NumGroups THEN Slots(h) - NumGroups ELSE 0
    IN Cardinality(waiting) <= Len(Queue(h)) + Cardinality(gone) + excess

\* Every rollout is reported to the sampler once, and is a parent's child only if
\* its answer was valid and in time: a late result changes nothing.
AnswersCounted ==
  /\ archive.visits = Cardinality({r \in Rollouts : env[r] = "done"})
  /\ \A r \in archive.children : env[r] = "done" /\ answer[r] = "valid"

\* The code file is there whenever Ray may still start the program, also after the
\* rollout itself was answered; and a results file is left behind only if a worker
\* was killed: the finally clauses of run_eval_code and run_program.
FilesFollowTask ==
  /\ \A r \in Rollouts : task[r].at \in Working \cup {"pending"} => r \in code
  /\ \A r \in code : thread[r] = "waiting"
  /\ \A r \in results : thread[r] = "ended" => kills > 0

\* In the end every rollout has its answer, no thread hangs on in run_eval_code
\* and every group is free again that was not lost with its holder.
Settled ==
  /\ \A r \in Rollouts : env[r] = "done" /\ thread[r] \in {"none", "ended", "cancelled"}
  /\ \A h \in Hosts : Len(Queue(h)) + Cardinality({l \in lost : l[1] = h}) = NumGroups
GradingSettles == <>[]Settled
=============================================================================
