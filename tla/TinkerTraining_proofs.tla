------------------------ MODULE TinkerTraining_proofs ------------------------
(* Proofs about the training program over the Tinker API, for every value of the *)
(* constants: staleness, archive and checkpoints first, then that it neither     *)
(* loses what the dataset gave it nor uses it twice.                             *)
EXTENDS TinkerTraining, TLAPS, FiniteSetTheorems, SequenceTheorems

-----------------------------------------------------------------------------
(* The inductive invariant *)

Items == [batch : Nat, slot : Nat, run : Nat]
Points == [builder : Items, client : Nat, at : Nat]
Tasks == [at : {"idle", "rolling", "exited"}, builder : Items \cup {Pill},
          label : Nat, client : Nat]
Rows == [batch : 0 .. NumBatches, state : SUBSET Points]

Rolled == {w \in Workers : workers[w].at = "rolling"}

ProcessOK ==
  /\ config \in Configs
  /\ pc \in {"down", "open", "begin", "collect", "stream", "train", "save", "flush", "join",
            "final", "closed", "failed"}
  /\ cause \in {"none", "no sampler file", "no group", "queue full"}
  /\ run \in 0 .. MaxRuns /\ start \in 0 .. NumBatches /\ batch \in 0 .. NumBatches
  /\ mini \in 0 .. Minibatches - 1
  /\ client \in 0 .. NumBatches /\ shutdown \in BOOLEAN /\ updated \in BOOLEAN
  /\ evaluator \in {"waiting", "evaluating", "exited"}

LoaderOK ==
  /\ next \in [batch : 0 .. NumBatches, slot : 1 .. BatchSize]
  /\ builders \in Seq(Items \cup {Pill}) /\ Len(builders) <= GroupsPerBatch
  /\ requeue \subseteq Items

RollingOK ==
  /\ workers \in [Workers -> Tasks]
  /\ \A w \in Rolled : workers[w].builder \in Items
  /\ groups \in Seq(Groups) /\ wrapped \in Seq(Groups) /\ Len(wrapped) <= GroupsPerBatch

StoredOK ==
  /\ weights \subseteq Points /\ archive \subseteq Items
  /\ rows \in Seq(Rows)
  /\ DOMAIN files \subseteq 0 .. NumBatches /\ \A k \in DOMAIN files : files[k] \subseteq Items

Typed == ProcessOK /\ LoaderOK /\ RollingOK /\ StoredOK

\* Where the loops are, and what is left of a batch there.
Control ==
  /\ start <= batch /\ client <= batch
  /\ pc = "open" => start = batch
  /\ next.slot # 1 => next.batch < NumBatches
  /\ pc \in {"train", "save", "flush", "stream"} => batch < NumBatches
  /\ pc \in {"join", "final"} => batch = NumBatches
  /\ pc = "collect" /\ batch >= NumBatches => IsAsync /\ start = batch /\ wrapped = <<>> /\ mini = 0
  /\ pc = "flush" => config.loop # "sync"
  /\ pc \in {"join", "stream"} => IsAsync
  /\ pc = "begin" => ~IsAsync
  /\ pc = "train" => ~Streams
  /\ pc \in {"open", "begin", "save", "flush", "join", "final", "closed"} =>
       wrapped = <<>> /\ mini = 0
  /\ Streams => Len(wrapped) < GroupsPerMinibatch
  /\ ~Streams => mini = 0
  /\ config.loop = "sync" => wrapped = <<>>
  /\ IsAsync /\ ~config.stream /\ pc = "collect" => Len(wrapped) < GroupsPerBatch

\* In the loops that gather a batch, its groups are rolled out, waiting or taken:
\* nothing of it is left when the batch is over.
Gathered ==
  ~IsAsync =>
    /\ builders = <<>> /\ requeue = {}
    /\ pc = "collect" =>
         mini * GroupsPerMinibatch + Len(wrapped) + Len(groups) + Cardinality(Rolled) = BatchSize
    /\ pc # "collect" /\ pc # "failed" => Rolled = {} /\ (pc # "train" => groups = <<>>)
    /\ pc \notin {"down", "failed"} => client = batch

\* How old the policy is that sampled a group, wherever the group is.
AgedTasks ==
  \A w \in Rolled :
    IF IsAsync THEN workers[w].label = workers[w].client /\ workers[w].client <= batch
    ELSE workers[w].client = batch
AgedQueued ==
  \A g \in ToSet(groups) :
    IF IsAsync THEN g.label = g.client /\ g.client <= batch ELSE g.client = batch
IsRecent(g) == batch - g.client \in 0 .. (IF IsAsync THEN MaxOffPolicy ELSE 0)
Aged == AgedTasks /\ AgedQueued /\ \A g \in ToSet(wrapped) : IsRecent(g)

OnPolicy(W) == \A w \in W : w.at - w.client \in 0 .. (IF IsAsync THEN MaxOffPolicy ELSE 0)
Recent == OnPolicy(weights) /\ OnPolicy(LastRow.state)

\* What the policy was trained on, and will be, is in the archive.
Building(W) == {w.builder : w \in W}
Recorded ==
  /\ pc # "failed" => Building(weights) \subseteq archive
  /\ BuildersOf(ToSet(groups)) \cup BuildersOf(ToSet(wrapped)) \subseteq archive

\* So it is on disk: the file of the last row, when it is there, holds what the
\* policy of the row was trained on.
SavedRow ==
  /\ LastRow.batch \in DOMAIN files => Building(LastRow.state) \subseteq files[LastRow.batch]
  /\ LastRow.batch = 0 => LastRow.state = {}
  /\ config.loop = "sync" /\ LastRow.batch > 0 => LastRow.batch \in DOMAIN files

\* With eval_BoN nothing is ever trained.
BestOfN == config.bon => weights = {} /\ LastRow.state = {}

\* The last row is never ahead of the training loop, but between save and flush.
Restarted ==
  /\ pc = "open" => LastRow.batch = start /\ weights = LastRow.state
  /\ pc \in {"open", "begin", "collect", "stream", "train", "save", "join", "final"} =>
       LastRow.batch <= batch
  /\ pc = "flush" =>
       /\ LastRow.batch <= batch + 1
       /\ LastRow.batch = batch + 1 => LastRow.state = weights
       /\ SaveEvery > 0 /\ (batch + 1) % SaveEvery = 0 => LastRow.batch = batch + 1

\* The loops that save before they flush leave no file of a step that was not
\* saved though it should have been, which a row could later pick up.
Unsaved ==
  config.loop # "sync" =>
    \A k \in DOMAIN files : k > 0 /\ SaveEvery > 0 /\ k % SaveEvery = 0 => k <= LastRow.batch

\* The file a row will need is there before the row is.
Flushes ==
  /\ config.loop = "sync" /\ pc \in {"train", "save"} =>
       /\ batch + 1 \in DOMAIN files
       /\ Building(weights) \cup BuildersOf(ToSet(groups)) \subseteq files[batch + 1]
  /\ pc \in {"begin", "join", "final"} /\ start < batch =>
       batch \in DOMAIN files /\ Building(weights) \subseteq files[batch]
  /\ config.loop = "sync" /\ pc \notin {"down", "failed"} /\ batch > 0 => batch \in DOMAIN files

Stepped == Recorded /\ SavedRow /\ BestOfN /\ Restarted /\ Unsaved /\ Flushes

\* In the loops that gather a batch, the archive and its files hold each batch of
\* one run only, and this run adds to the batches from its start on.
OneRun(A) == \A x, y \in A : x.batch = y.batch => x.run = y.run
Separate ==
  ~IsAsync =>
    /\ OneRun(archive)
    /\ \A x \in archive : x.batch <= batch /\ (x.batch >= start => x.run = run)
    /\ \A w \in Rolled : workers[w].builder.batch = batch /\ workers[w].builder.run = run
    /\ \A k \in DOMAIN files : OneRun(files[k]) /\ \A x \in files[k] : x.batch < k

IInv == Typed /\ Control /\ Gathered /\ Aged /\ Recent /\ Stepped /\ Separate

-----------------------------------------------------------------------------
(* The constants *)

(* The substeps divide a batch into minibatches of the same size. *)
LEMMA Constants ==
  /\ NumBatches \in Nat \ {0} /\ BatchSize \in Nat \ {0} /\ GroupsPerBatch = BatchSize
  /\ NumSubsteps \in Nat \ {0} /\ MaxRuns \in Nat \ {0}
  /\ MaxOffPolicy \in Nat /\ SaveEvery \in Nat /\ EvalEvery \in Nat
BY TinkerAssumption

(* ... and every minibatch has at least one group. *)
LEMMA Division ==
  ASSUME config \in Configs
  PROVE  /\ config \in Config /\ (config.bon => config.loop = "sync")
         /\ Minibatches \in Nat \ {0} /\ GroupsPerMinibatch \in Nat \ {0}
         /\ Minibatches * GroupsPerMinibatch = GroupsPerBatch
         /\ GroupsPerMinibatch <= GroupsPerBatch
<1>1. /\ config \in Config /\ (config.bon => config.loop = "sync")
      /\ GroupsPerBatch % Minibatches = 0
  BY TinkerAssumption DEF Minibatches
<1>2. Minibatches \in Nat \ {0}
  BY <1>1, Constants DEF Config, Minibatches
<1>3. \A m \in Nat \ {0}, n \in Nat \ {0} :
        m % n = 0 => m \div n \in Nat \ {0} /\ n * (m \div n) = m /\ m \div n <= m
  OBVIOUS
<1> QED BY <1>1, <1>2, <1>3, Constants DEF GroupsPerMinibatch

(* The rows of checkpoints.jsonl: the last one counts. *)
LEMMA LastRowType ==
  ASSUME rows \in Seq(Rows)
  PROVE  LastRow.batch \in 0 .. NumBatches /\ LastRow.state \in SUBSET Points
<1>1. CASE rows = <<>>
  BY <1>1, Constants DEF LastRow
<1>2. CASE rows # <<>>
  <2>1. Len(rows) \in 1 .. Len(rows)
    BY <1>2, EmptySeq
  <2>2. rows[Len(rows)] \in Rows
    BY <2>1, ElementOfSeq
  <2> QED BY <1>2, <2>2 DEF LastRow, Last, Rows
<1> QED BY <1>1, <1>2

(* A row that is appended is the last one. *)
LEMMA NewLastRow ==
  ASSUME rows \in Seq(Rows), NEW r \in Rows, rows' = Append(rows, r)
  PROVE  rows' \in Seq(Rows) /\ (LastRow)' = r
<1>1. rows' \in Seq(Rows) /\ rows' # <<>> /\ Len(rows') = Len(rows) + 1
      /\ rows'[Len(rows) + 1] = r
  BY AppendProperties
<1> QED BY <1>1 DEF LastRow, Last

-----------------------------------------------------------------------------
(* Initially, and at every start of the process *)

(* A program that was never started satisfies the inductive invariant. *)
LEMMA InitIInv == Init => IInv
<1> SUFFICES ASSUME Init PROVE IInv
  OBVIOUS
<1> USE DEF Init
<1>0. config \in Configs
  OBVIOUS
<1>1. Exited \in Tasks /\ Exited.at = "exited"
  BY DEF Exited, Idle, Pill, Tasks
<1>2. Rolled = {} /\ ToSet(groups) = {} /\ ToSet(wrapped) = {}
  BY <1>1 DEF Rolled, ToSet
<1>3. LastRow = [batch |-> 0, state |-> {}]
  BY DEF LastRow
<1>4. Typed
  <2>1. ProcessOK
    <3>1. 0 \in 0 .. MaxRuns /\ 0 \in 0 .. NumBatches
      BY Constants
    <3>2. 0 \in 0 .. Minibatches - 1
      BY <1>0, Division
    <3> QED BY <1>0, <3>1, <3>2 DEF ProcessOK
  <2>2. LoaderOK
    BY Constants, EmptySeq DEF LoaderOK
  <2>3. RollingOK
    BY <1>0, <1>1, <1>2, Constants, EmptySeq DEF RollingOK
  <2>4. StoredOK
    BY EmptySeq DEF StoredOK, NoFiles
  <2> QED BY <2>1, <2>2, <2>3, <2>4 DEF Typed
<1>5. Control
  BY <1>0, Constants, Division DEF Control
<1>6. Gathered /\ Aged /\ Recent
  BY <1>2, <1>3 DEF Gathered, Aged, AgedTasks, AgedQueued, Recent, OnPolicy
<1>7. Stepped
  BY <1>2, <1>3 DEF Stepped, Recorded, SavedRow, BestOfN, Restarted, Unsaved, Flushes, Building,
     BuildersOf, NoFiles
<1>8. Separate
  BY <1>2 DEF Separate, OneRun, NoFiles
<1> QED BY <1>4, <1>5, <1>6, <1>7, <1>8 DEF IInv

-----------------------------------------------------------------------------
(* Type correctness of a step *)

(* What the process and its loops count stays within its bounds. *)
LEMMA ProcessStep == Typed /\ Control /\ Next => ProcessOK'
<1> SUFFICES ASSUME Typed, Control, Next PROVE ProcessOK'
  OBVIOUS
<1> USE DEF process, loop, eval
<1>0. ProcessOK /\ StoredOK
  BY DEF Typed
<1>c. /\ config' = config /\ Minibatches' = Minibatches
      /\ config \in Configs /\ Minibatches \in Nat \ {0}
  BY <1>0, Division DEF Next, Start, Crash, Dataloading, DataloaderStep, RequeueStep, Working,
     TakeBuilder, FinishRollout, Training, Open, BeginBatch, Gather, SyncTrain, Collect,
     AsyncTrain, Peek, StreamTake, Save, FlushStep, NothingLeft, Join, Close, Evaluating,
     EvalWake, EvalDone, Minibatches, ProcessOK
<1>n. /\ run \in 0 .. MaxRuns /\ batch \in 0 .. NumBatches /\ mini \in 0 .. Minibatches - 1
      /\ 0 \in 0 .. NumBatches /\ 0 \in 0 .. Minibatches - 1
  <2>1. run \in 0 .. MaxRuns /\ batch \in 0 .. NumBatches /\ mini \in 0 .. Minibatches - 1
    BY <1>0 DEF ProcessOK
  <2> QED BY <1>c, <2>1, Constants
<1>1. CASE Start
  <2>1. LastRow.batch \in 0 .. NumBatches
    BY <1>0, LastRowType DEF StoredOK
  <2>2. /\ run < MaxRuns /\ run' = run + 1 /\ pc' \in {"open", "failed"}
        /\ cause' \in {"none", "no sampler file"}
        /\ start' = LastRow.batch /\ batch' = LastRow.batch /\ client' = LastRow.batch
        /\ mini' = 0 /\ shutdown' = FALSE /\ updated' = FALSE /\ evaluator' = "exited"
    BY <1>1 DEF Start, Quiet
  <2>3. run' \in 0 .. MaxRuns
    <3>1. run < MaxRuns /\ run' = run + 1
      BY <2>2
    <3>2. run \in 0 .. MaxRuns
      BY <1>n
    <3> QED BY <3>1, <3>2, Constants
  <2>4. start' \in 0 .. NumBatches /\ batch' \in 0 .. NumBatches /\ client' \in 0 .. NumBatches
    <3>1. start' = LastRow.batch /\ batch' = LastRow.batch /\ client' = LastRow.batch
      BY <2>2
    <3> QED BY <2>1, <3>1
  <2>5. mini' \in 0 .. Minibatches - 1
    BY <1>n, <2>2
  <2> QED BY <1>c, <2>2, <2>3, <2>4, <2>5 DEF ProcessOK
<1>2. CASE Open
  BY <1>0, <1>2, <1>c DEF Open, ProcessOK
<1>3. CASE Crash
  <2>1. /\ UNCHANGED <<run, start, batch, cause>> /\ pc' = "down" /\ mini' = 0 /\ client' = 0
        /\ shutdown' = FALSE /\ updated' = FALSE /\ evaluator' = "exited"
    BY <1>3 DEF Crash, Quiet
  <2> QED BY <1>0, <1>c, <1>n, <2>1 DEF ProcessOK
<1>4. CASE Dataloading \/ \E w \in Workers : Working(w)
  <2>1. UNCHANGED <<process, loop, eval>>
    BY <1>4 DEF Dataloading, DataloaderStep, RequeueStep, Working, TakeBuilder, FinishRollout
  <2> QED BY <1>0, <1>c, <2>1 DEF ProcessOK
<1>5. CASE BeginBatch \/ Gather \/ SyncTrain \/ Collect \/ AsyncTrain \/ Peek
  BY <1>0, <1>5, <1>c DEF BeginBatch, Gather, SyncTrain, Collect, AsyncTrain, Peek, ProcessOK
<1>6. CASE StreamTake
  <2>1. mini' \in 0 .. Minibatches - 1
    <3>1. mini' = mini \/ mini' = IF mini + 1 = Minibatches THEN 0 ELSE mini + 1
      BY <1>6 DEF StreamTake, Minibatch
    <3> QED BY <1>c, <1>n, <3>1
  <2>2. pc' \in {pc, "save", "failed"} /\ cause' \in {cause, "no group"}
    BY <1>6 DEF StreamTake, Minibatch
  <2> QED BY <1>0, <1>6, <1>c, <2>1, <2>2 DEF StreamTake, ProcessOK
<1>7. CASE Save
  <2>1. batch + 1 \in 0 .. NumBatches
    <3>1. batch < NumBatches
      BY <1>7 DEF Save, Control
    <3> QED BY <1>n, <3>1, Constants
  <2> QED BY <1>0, <1>7, <1>c, <2>1 DEF Save, ProcessOK
<1>8. CASE FlushStep
  <2>1. batch + 1 \in 0 .. NumBatches
    <3>1. batch < NumBatches
      BY <1>8 DEF FlushStep, Control
    <3> QED BY <1>n, <3>1, Constants
  <2> QED BY <1>0, <1>8, <1>c, <2>1 DEF FlushStep, EndLoop, ProcessOK
<1>9. CASE NothingLeft
  BY <1>0, <1>9, <1>c DEF NothingLeft, EndLoop, ProcessOK
<1>10. CASE Join \/ Close \/ Evaluating
  BY <1>0, <1>10, <1>c DEF Join, Close, Evaluating, EvalWake, EvalDone, ProcessOK
<1> QED BY <1>1, <1>2, <1>3, <1>4, <1>5, <1>6, <1>7, <1>8, <1>9, <1>10 DEF Next, Training

(* The queue of builders never overflows, and the dataloader stays in the dataset. *)
LEMMA LoaderStep == Typed /\ Control /\ Next => LoaderOK'
<1> SUFFICES ASSUME Typed, Control, Next PROVE LoaderOK'
  OBVIOUS
<1> USE DEF loader
<1> DEFINE BuildersOK == builders' \in Seq(Items \cup {Pill}) /\ Len(builders') <= GroupsPerBatch
<1>0. LoaderOK /\ ProcessOK /\ RollingOK /\ StoredOK
  BY DEF Typed
<1>t. builders \in Seq(Items \cup {Pill}) /\ Len(builders) \in Nat /\ run \in Nat
  <2>1. run \in 0 .. MaxRuns
    BY <1>0 DEF ProcessOK
  <2>2. builders \in Seq(Items \cup {Pill})
    BY <1>0 DEF LoaderOK
  <2> QED BY <2>1, <2>2, LenProperties, Constants
<1>1. CASE Start
  <2>1. LastRow.batch \in 0 .. NumBatches
    BY <1>0, LastRowType DEF StoredOK
  <2>2. /\ next' = [batch |-> LastRow.batch, slot |-> 1] /\ builders' = <<>> /\ requeue' = {}
    BY <1>1 DEF Start, Quiet
  <2>3. next' \in [batch : 0 .. NumBatches, slot : 1 .. BatchSize]
    BY <2>1, <2>2, Constants
  <2>4. BuildersOK
    BY <2>2, EmptySeq, Constants
  <2> QED BY <2>2, <2>3, <2>4 DEF LoaderOK
<1>2. CASE Crash
  BY <1>0, <1>2, EmptySeq, Constants DEF Crash, Quiet, LoaderOK
<1>3. CASE DataloaderStep
  <2>1. Builder(next.batch, next.slot) \in Items
    BY <1>0, <1>t, Constants DEF Builder, Items, LoaderOK
  <2>2. BuildersOK
    BY <1>3, <1>t, <2>1, AppendProperties, Constants DEF DataloaderStep
  <2>3. next.batch < NumBatches
    BY <1>0, <1>3 DEF DataloaderStep, DataloaderEnded, Loads, Control
  <2>4. next' \in [batch : 0 .. NumBatches, slot : 1 .. BatchSize]
    <3>1. next \in [batch : 0 .. NumBatches, slot : 1 .. BatchSize]
      BY <1>0 DEF LoaderOK
    <3>2. next' = IF next.slot < BatchSize THEN [next EXCEPT !.slot = @ + 1]
                                           ELSE [batch |-> next.batch + 1, slot |-> 1]
      BY <1>3 DEF DataloaderStep
    <3>3. next.batch + 1 \in 0 .. NumBatches /\ 1 \in 1 .. BatchSize
          /\ (next.slot < BatchSize => next.slot + 1 \in 1 .. BatchSize)
      BY <2>3, <3>1, Constants
    <3> QED BY <3>1, <3>2, <3>3
  <2> QED BY <1>0, <1>3, <2>2, <2>4 DEF DataloaderStep, LoaderOK
<1>4. ASSUME NEW b \in requeue, RequeueStep(b) PROVE LoaderOK'
  <2>1. b \in Items
    BY <1>0 DEF LoaderOK
  <2>2. BuildersOK
    BY <1>4, <1>t, <2>1, AppendProperties, Constants DEF RequeueStep
  <2> QED BY <1>0, <1>4, <2>2 DEF RequeueStep, LoaderOK
<1>5. ASSUME NEW w \in Workers, TakeBuilder(w) PROVE LoaderOK'
  <2>1. BuildersOK
    BY <1>0, <1>5, <1>t, HeadTailProperties, Constants DEF TakeBuilder, LoaderOK
  <2> QED BY <1>0, <1>5, <2>1 DEF TakeBuilder, LoaderOK
<1>6. CASE BeginBatch
  <2>1. next' \in [batch : 0 .. NumBatches, slot : 1 .. BatchSize]
    <3>1. \/ UNCHANGED next
          \/ batch < NumBatches /\ next' = [batch |-> batch + 1, slot |-> 1]
      BY <1>6 DEF BeginBatch
    <3>2. batch \in 0 .. NumBatches /\ next \in [batch : 0 .. NumBatches, slot : 1 .. BatchSize]
      BY <1>0 DEF LoaderOK, ProcessOK
    <3> QED BY <3>1, <3>2, Constants
  <2> QED BY <1>0, <1>6, <2>1 DEF BeginBatch, LoaderOK
<1>7. CASE Collect \/ StreamTake
  <2>1. UNCHANGED <<next, builders>> /\ groups # <<>>
        /\ requeue' \subseteq requeue \cup {Head(groups).builder}
    BY <1>7 DEF Collect, StreamTake, Drop, PutBack, Minibatch
  <2>2. Head(groups).builder \in Items
    <3>1. Head(groups) \in Groups
      BY <1>0, <2>1, HeadTailProperties DEF RollingOK
    <3> QED BY <3>1 DEF Groups, Items
  <2> QED BY <1>0, <2>1, <2>2 DEF LoaderOK
<1>8. CASE FlushStep \/ NothingLeft
  <2>1. UNCHANGED <<next, requeue>> /\ (EndLoop \/ UNCHANGED builders)
    BY <1>8 DEF FlushStep, NothingLeft
  <2>2. CASE UNCHANGED builders
    BY <1>0, <2>1, <2>2 DEF LoaderOK
  <2>3. CASE builders' = builders \o Pills /\ ~Overflows
    <3>1. Pills \in Seq(Items \cup {Pill}) /\ Len(Pills) = GroupsPerBatch
      BY Constants DEF Pills
    <3>2. Len(builders) = 0
      BY <2>3, <1>t, Constants DEF Overflows
    <3>3. BuildersOK
      BY <1>t, <2>3, <3>1, <3>2, ConcatProperties, Constants
    <3> QED BY <1>0, <2>1, <3>3 DEF LoaderOK
  <2> QED BY <2>1, <2>2, <2>3 DEF EndLoop
<1>9. CASE Open \/ (\E w \in Workers : FinishRollout(w)) \/ Gather \/ SyncTrain \/ AsyncTrain
           \/ Peek \/ Save \/ Join \/ Close \/ Evaluating
  <2>1. UNCHANGED loader
    BY <1>9 DEF Open, FinishRollout, Gather, SyncTrain, AsyncTrain, Peek, Drop, Save, Join, Close,
       Evaluating, EvalWake, EvalDone
  <2> QED BY <1>0, <2>1 DEF LoaderOK
<1> QED BY <1>1, <1>2, <1>3, <1>4, <1>5, <1>6, <1>7, <1>8, <1>9
        DEF Next, Dataloading, Working, Training

(* The configuration, and all that is computed from it, never changes. *)
LEMMA SameConfig ==
  Next => /\ config' = config /\ Workers' = Workers /\ IsAsync' = IsAsync /\ Streams' = Streams
          /\ Minibatches' = Minibatches /\ GroupsPerMinibatch' = GroupsPerMinibatch
<1> SUFFICES ASSUME Next PROVE config' = config
  BY DEF Workers, IsAsync, Streams, Minibatches, GroupsPerMinibatch
<1> QED BY DEF Next, Start, Crash, Dataloading, DataloaderStep, RequeueStep, Working,
        TakeBuilder, FinishRollout, Training, Open, BeginBatch, Gather, SyncTrain, Collect,
        AsyncTrain, Peek, StreamTake, Save, FlushStep, NothingLeft, Join, Close, Evaluating,
        EvalWake, EvalDone, process, loop, vars

(* A worker is one of the tasks that may run. *)
LEMMA WorkerRange == config \in Configs => Workers = 1 .. BatchSize
BY Constants DEF Workers

(* What the tasks of this loop do to the workers that roll out. *)
LEMMA RolledBegin ==
  ASSUME RollingOK, config' = config, NEW f \in [Workers -> Items],
         workers' = [w \in Workers |-> Rolling(f[w])], client \in Nat
  PROVE  workers' \in [Workers -> Tasks] /\ Rolled' = Workers
<1>1. Workers' = Workers
  BY DEF Workers, IsAsync
<1>2. \A w \in Workers : Rolling(f[w]) \in Tasks /\ Rolling(f[w]).at = "rolling"
  BY DEF Rolling, Tasks
<1> QED BY <1>1, <1>2 DEF Rolled

(* A worker that takes a builder rolls it out; a None ends it. *)
LEMMA RolledTake ==
  ASSUME RollingOK, LoaderOK, config' = config, client \in Nat, NEW w \in Workers, TakeBuilder(w)
  PROVE  /\ workers' \in [Workers -> Tasks] /\ w \notin Rolled
         /\ IF Head(builders) = Pill THEN Rolled' = Rolled
            ELSE /\ Rolled' = Rolled \cup {w} /\ Head(builders) \in Items
                 /\ workers'[w] = Rolling(Head(builders))
         /\ \A v \in Workers \ {w} : workers'[v] = workers[v]
<1>1. Workers' = Workers
  BY DEF Workers, IsAsync
<1>2. Exited \in Tasks /\ Exited.at = "exited"
  BY DEF Exited, Idle, Pill, Tasks
<1>3. Head(builders) \in Items \cup {Pill}
  BY HeadTailProperties DEF TakeBuilder, LoaderOK
<1>4. Rolling(Head(builders)) \in Tasks /\ Rolling(Head(builders)).at = "rolling"
  BY <1>3 DEF Rolling, Tasks
<1> DEFINE t == IF Head(builders) = Pill THEN Exited ELSE Rolling(Head(builders))
<1>5. workers' = [workers EXCEPT ![w] = t] /\ workers[w].at = "idle"
  BY DEF TakeBuilder
<1>6. t \in Tasks /\ (t.at = "rolling" <=> Head(builders) # Pill)
  BY <1>2, <1>4
<1>7. Head(builders) # Pill => t = Rolling(Head(builders))
  OBVIOUS
<1> HIDE DEF t
<1> QED BY <1>1, <1>3, <1>5, <1>6, <1>7 DEF Rolled, RollingOK

(* A worker that hands its group over is not rolling any more. *)
LEMMA RolledFinish ==
  ASSUME RollingOK, config' = config, NEW w \in Workers, FinishRollout(w)
  PROVE  /\ workers' \in [Workers -> Tasks] /\ w \in Rolled /\ Rolled' = Rolled \ {w}
         /\ \A v \in Workers \ {w} : workers'[v] = workers[v]
<1>1. Workers' = Workers
  BY DEF Workers, IsAsync
<1>2. Exited \in Tasks /\ Exited.at = "exited" /\ Idle \in Tasks /\ Idle.at = "idle"
  BY DEF Exited, Idle, Pill, Tasks
<1>3. PICK t \in {Idle, Exited} : workers' = [workers EXCEPT ![w] = t]
  BY DEF FinishRollout
<1>4. workers[w].at = "rolling"
  BY DEF FinishRollout
<1>5. t \in Tasks /\ t.at # "rolling"
  BY <1>2
<1> QED BY <1>1, <1>3, <1>4, <1>5 DEF Rolled, RollingOK

(* ... and every other step either leaves them alone or stops them all. *)
LEMMA RolledQuiet ==
  ASSUME RollingOK, config' = config,
         \/ workers' = [w \in Workers |-> Exited] \/ workers' = [w \in Workers |-> Idle]
  PROVE  workers' \in [Workers -> Tasks] /\ Rolled' = {}
<1>1. Workers' = Workers
  BY DEF Workers, IsAsync
<1>2. Exited \in Tasks /\ Exited.at = "exited" /\ Idle \in Tasks /\ Idle.at = "idle"
  BY DEF Exited, Idle, Pill, Tasks
<1> QED BY <1>1, <1>2 DEF Rolled

(* The workers that roll out are those that did, as long as no task runs. *)
LEMMA RolledSame ==
  ASSUME config' = config, workers' = workers
  PROVE  Rolled' = Rolled
BY DEF Rolled, Workers, IsAsync

(* The groups in the queue and those collected are groups. *)
LEMMA QueueTail ==
  ASSUME groups \in Seq(Groups), groups # <<>>
  PROVE  /\ Head(groups) \in Groups /\ Tail(groups) \in Seq(Groups)
         /\ Len(Tail(groups)) = Len(groups) - 1 /\ Len(groups) \in Nat
         /\ ToSet(groups) = {Head(groups)} \cup ToSet(Tail(groups))
<1>1. /\ Head(groups) \in Groups /\ Tail(groups) \in Seq(Groups)
      /\ Len(Tail(groups)) = Len(groups) - 1 /\ Head(groups) = groups[1]
      /\ \A i \in 1 .. Len(Tail(groups)) : Tail(groups)[i] = groups[i + 1]
  BY HeadTailProperties
<1>2. Len(groups) \in Nat /\ Len(groups) > 0 /\ DOMAIN groups = 1 .. Len(groups)
      /\ DOMAIN Tail(groups) = 1 .. Len(groups) - 1
  BY <1>1, LenProperties, EmptySeq
<1>3. ASSUME NEW i \in DOMAIN groups PROVE groups[i] \in {Head(groups)} \cup ToSet(Tail(groups))
  <2>1. CASE i = 1
    BY <1>1, <2>1
  <2>2. CASE i # 1
    <3>1. i - 1 \in DOMAIN Tail(groups) /\ Tail(groups)[i - 1] = groups[i]
      BY <1>1, <1>2, <2>2
    <3> QED BY <3>1 DEF ToSet
  <2> QED BY <2>1, <2>2
<1>4. ASSUME NEW i \in DOMAIN Tail(groups) PROVE Tail(groups)[i] \in ToSet(groups)
  <2>1. i + 1 \in DOMAIN groups /\ Tail(groups)[i] = groups[i + 1]
    BY <1>1, <1>2
  <2> QED BY <2>1 DEF ToSet
<1>5. Head(groups) \in ToSet(groups)
  BY <1>1, <1>2 DEF ToSet
<1> QED BY <1>1, <1>2, <1>3, <1>4, <1>5 DEF ToSet

(* One more at the end of a queue. *)
LEMMA OneAppended ==
  ASSUME NEW S, NEW s \in Seq(S), NEW x \in S
  PROVE  /\ Append(s, x) \in Seq(S) /\ Len(Append(s, x)) = Len(s) + 1 /\ Len(s) \in Nat
         /\ ToSet(Append(s, x)) = ToSet(s) \cup {x}
<1>1. /\ Append(s, x) \in Seq(S) /\ Len(Append(s, x)) = Len(s) + 1
      /\ \A i \in 1 .. Len(s) : Append(s, x)[i] = s[i]
      /\ Append(s, x)[Len(s) + 1] = x
  BY AppendProperties
<1>2. Len(s) \in Nat /\ DOMAIN s = 1 .. Len(s) /\ DOMAIN Append(s, x) = 1 .. Len(s) + 1
  BY <1>1, LenProperties
<1>3. ASSUME NEW i \in DOMAIN s PROVE s[i] \in ToSet(Append(s, x))
  <2>1. i \in DOMAIN Append(s, x) /\ Append(s, x)[i] = s[i]
    BY <1>1, <1>2
  <2> QED BY <2>1 DEF ToSet
<1>4. x \in ToSet(Append(s, x))
  <2>1. Len(s) + 1 \in DOMAIN Append(s, x)
    BY <1>2
  <2> QED BY <1>1, <2>1 DEF ToSet
<1>5. ASSUME NEW i \in DOMAIN Append(s, x) PROVE Append(s, x)[i] \in ToSet(s) \cup {x}
  <2>1. i = Len(s) + 1 \/ i \in DOMAIN s
    BY <1>2
  <2>2. i \in DOMAIN s => Append(s, x)[i] = s[i]
    BY <1>1, <1>2
  <2> QED BY <1>1, <2>1, <2>2 DEF ToSet
<1> QED BY <1>1, <1>2, <1>3, <1>4, <1>5 DEF ToSet

-----------------------------------------------------------------------------
(* Type correctness of a step, continued: the tasks and the queue of groups *)

(* Every step keeps the types of the tasks and of the queues of groups. *)
LEMMA RollingStep == Typed /\ Control /\ Next => RollingOK'
<1> SUFFICES ASSUME Typed, Control, Next PROVE RollingOK'
  OBVIOUS
<1> USE DEF process, loop, loader, rolling, eval
<1> DEFINE
      GoodWorkers == workers' \in [Workers -> Tasks] /\ \A w \in Rolled' : workers'[w].builder \in Items
      GoodGroups == groups' \in Seq(Groups)
      GoodWrapped == wrapped' \in Seq(Groups) /\ Len(wrapped') <= GroupsPerBatch
<1>0. ProcessOK /\ LoaderOK /\ RollingOK /\ StoredOK
  BY DEF Typed
<1>c. config' = config /\ Workers' = Workers /\ IsAsync' = IsAsync /\ config \in Configs
  BY <1>0, SameConfig DEF ProcessOK
<1>n. client \in Nat /\ batch \in Nat /\ run \in Nat
  <2>1. client \in 0 .. NumBatches /\ batch \in 0 .. NumBatches /\ run \in 0 .. MaxRuns
    BY <1>0 DEF ProcessOK
  <2> QED BY <2>1, Constants
<1>e. wrapped' = <<>> => GoodWrapped
  BY EmptySeq, Constants
<1>s. /\ UNCHANGED workers => GoodWorkers
      /\ UNCHANGED groups => GoodGroups
      /\ UNCHANGED wrapped => GoodWrapped
  BY <1>0, <1>c, RolledSame DEF RollingOK
<1>q. GoodWorkers /\ GoodGroups /\ GoodWrapped => RollingOK'
  BY <1>c DEF RollingOK
<1> HIDE DEF GoodWrapped
<1>1. CASE Start \/ Crash
  <2>1. workers' = [w \in Workers |-> Exited] /\ groups' = <<>> /\ wrapped' = <<>>
    BY <1>1 DEF Start, Crash, Quiet
  <2>2. GoodWorkers
    BY <1>0, <1>c, <2>1, RolledQuiet
  <2> QED BY <1>e, <1>q, <2>1, <2>2, EmptySeq
<1>2. CASE Open
  <2>1. UNCHANGED <<groups, wrapped>> /\ (UNCHANGED workers \/ workers' = [w \in Workers |-> Idle])
    BY <1>2 DEF Open
  <2>2. GoodWorkers
    BY <1>0, <1>c, <1>s, <2>1, RolledQuiet
  <2> QED BY <1>s, <1>q, <2>1, <2>2
<1>3. ASSUME NEW w \in Workers, TakeBuilder(w) PROVE RollingOK'
  <2>1. UNCHANGED <<groups, wrapped>>
    BY <1>3 DEF TakeBuilder
  <2>2. GoodWorkers
    BY <1>0, <1>c, <1>n, <1>3, RolledTake DEF Rolling, RollingOK, Rolled
  <2> QED BY <1>s, <1>q, <2>1, <2>2
<1>4. ASSUME NEW w \in Workers, FinishRollout(w) PROVE RollingOK'
  <2>1. UNCHANGED wrapped
    BY <1>4 DEF FinishRollout
  <2>2. /\ workers' \in [Workers -> Tasks] /\ w \in Rolled /\ Rolled' = Rolled \ {w}
        /\ \A v \in Workers \ {w} : workers'[v] = workers[v]
    BY <1>0, <1>c, <1>4, RolledFinish
  <2>3. GoodWorkers
    BY <1>0, <2>2 DEF RollingOK, Rolled
  <2>4. PICK constant \in BOOLEAN : groups' = Append(groups, Group(w, constant))
    BY <1>4 DEF FinishRollout
  <2>5. Group(w, constant) \in Groups
    BY <1>0, <2>2 DEF Group, Groups, RollingOK, Tasks, Items
  <2>6. GoodGroups
    BY <1>0, <2>4, <2>5, OneAppended DEF RollingOK
  <2> QED BY <1>s, <1>q, <2>1, <2>3, <2>6
<1>5. CASE BeginBatch
  <2>1. UNCHANGED <<groups, wrapped>>
    BY <1>5 DEF BeginBatch
  <2>2. CASE UNCHANGED workers
    BY <1>s, <1>q, <2>1, <2>2
  <2>3. CASE workers' = [w \in Workers |-> Rolling(Builder(batch, w))]
    <3> DEFINE f == [w \in Workers |-> Builder(batch, w)]
    <3>1. f \in [Workers -> Items]
      BY <1>c, <1>n, WorkerRange DEF Builder, Items
    <3>2. workers' = [w \in Workers |-> Rolling(f[w])] /\ \A w \in Workers : f[w] \in Items
      BY <2>3, <3>1
    <3>3. workers' \in [Workers -> Tasks] /\ Rolled' = Workers
      <4> HIDE DEF f
      <4> QED BY <1>0, <1>c, <1>n, <3>1, <3>2, RolledBegin
    <3>4. GoodWorkers
      <4> HIDE DEF f
      <4> QED BY <3>2, <3>3 DEF Rolling
    <3> QED BY <1>s, <1>q, <2>1, <3>4
  <2> QED BY <1>5, <2>2, <2>3 DEF BeginBatch
<1>6. CASE SyncTrain \/ AsyncTrain
  <2>1. /\ UNCHANGED workers /\ (UNCHANGED groups \/ groups' = <<>>)
        /\ (UNCHANGED wrapped \/ wrapped' = <<>>)
    BY <1>6 DEF SyncTrain, AsyncTrain
  <2> QED BY <1>e, <1>s, <1>q, <2>1, EmptySeq
<1>7. CASE Collect \/ Peek \/ StreamTake
  <2>1. UNCHANGED workers /\ groups # <<>>
    BY <1>7 DEF Collect, Peek, StreamTake
  <2>2. Head(groups) \in Groups /\ Tail(groups) \in Seq(Groups)
    BY <1>0, <2>1, QueueTail DEF RollingOK
  <2>3. GoodGroups
    <3>1. groups' \in {Tail(groups), Append(Tail(groups), Head(groups))}
      BY <1>7 DEF Collect, Peek, StreamTake
    <3> QED BY <2>2, <3>1, AppendProperties
  <2>4. GoodWrapped
    <3>1. \/ UNCHANGED wrapped \/ wrapped' = <<>>
          \/ Collect /\ wrapped' = Append(wrapped, Head(groups))
          \/ /\ StreamTake /\ wrapped' = Append(wrapped, Head(groups))
             /\ Len(wrapped) + 1 < GroupsPerMinibatch
      BY <1>7 DEF Collect, Peek, StreamTake, Drop, PutBack, Minibatch
    <3>2. wrapped \in Seq(Groups) /\ Len(wrapped) \in Nat
      BY <1>0, LenProperties DEF RollingOK
    <3>3. Collect => Len(wrapped) < GroupsPerBatch
      BY DEF Collect, Control
    <3>4. GroupsPerMinibatch <= GroupsPerBatch /\ GroupsPerMinibatch \in Nat
      BY <1>c, Division
    <3>5. wrapped' = Append(wrapped, Head(groups)) /\ Len(wrapped) + 1 <= GroupsPerBatch
            => GoodWrapped
      BY <2>2, <3>2, AppendProperties DEF GoodWrapped
    <3>6. CASE Collect /\ wrapped' = Append(wrapped, Head(groups))
      BY <3>2, <3>3, <3>5, <3>6, Constants
    <3>7. CASE wrapped' = Append(wrapped, Head(groups)) /\ Len(wrapped) + 1 < GroupsPerMinibatch
      BY <3>2, <3>4, <3>5, <3>7, Constants
    <3> QED BY <1>e, <1>s, <3>1, <3>6, <3>7
  <2> QED BY <1>s, <1>q, <2>1, <2>3, <2>4
<1>8. CASE Dataloading \/ Gather \/ Save \/ FlushStep \/ NothingLeft \/ Join \/ Close \/ Evaluating
  <2>1. UNCHANGED <<workers, groups, wrapped>>
    BY <1>8 DEF Dataloading, DataloaderStep, RequeueStep, Gather, Save, FlushStep, NothingLeft,
       Join, Close, Evaluating, EvalWake, EvalDone
  <2> QED BY <1>s, <1>q, <2>1
<1> QED BY <1>1, <1>2, <1>3, <1>4, <1>5, <1>6, <1>7, <1>8 DEF Next, Working, Training

-----------------------------------------------------------------------------
(* ... the policy, the archive and what is on disk *)

(* A group gives the policy one point of training, at the step of the loop. *)
LEMMA TrainedPoints ==
  ASSUME NEW G \in SUBSET Groups, batch \in Nat
  PROVE  Trained(G) \subseteq Points /\ Building(Trained(G)) = BuildersOf(G)
<1>1. \A g \in G : g.builder \in Items /\ g.client \in Nat
  BY DEF Groups, Items
<1>2. Trained(G) \subseteq Points
  BY <1>1 DEF Trained, Points
<1>3. ASSUME NEW b \in Building(Trained(G)) PROVE b \in BuildersOf(G)
  BY DEF Building, Trained, BuildersOf
<1>4. ASSUME NEW g \in G PROVE g.builder \in Building(Trained(G))
  <2> DEFINE w == [builder |-> g.builder, client |-> g.client, at |-> batch]
  <2>1. w \in Trained(G) /\ w.builder = g.builder
    BY DEF Trained
  <2> HIDE DEF w
  <2> QED BY <2>1 DEF Building
<1> QED BY <1>2, <1>3, <1>4 DEF BuildersOf

(* A file is written over the one of the same step. *)
LEMMA FlushedFiles ==
  ASSUME NEW i \in 0 .. NumBatches, NEW A \in SUBSET Items, StoredOK,
         files' = [j \in DOMAIN files \cup {i} |-> IF j = i THEN A ELSE files[j]]
  PROVE  /\ DOMAIN files' = DOMAIN files \cup {i} /\ DOMAIN files' \subseteq 0 .. NumBatches
         /\ \A k \in DOMAIN files' : files'[k] \subseteq Items
         /\ files'[i] = A /\ \A k \in DOMAIN files \ {i} : files'[k] = files[k]
BY DEF StoredOK

(* What Save, Open and Close append to checkpoints.jsonl. *)
LEMMA NextRow ==
  ASSUME ProcessOK, StoredOK, Control, Next
  PROVE  \/ UNCHANGED rows
         \/ Open /\ IsAsync /\ rows' = Append(rows, Row(start)) /\ Row(start) \in Rows
         \/ /\ Save /\ rows' = Append(rows, Row(SavedBatch)) /\ Row(SavedBatch) \in Rows
            /\ SaveEvery > 0 /\ SavedBatch > 0 /\ SavedBatch % SaveEvery = 0
         \/ /\ Close /\ start < NumBatches
            /\ rows' = Append(rows, Row(NumBatches)) /\ Row(NumBatches) \in Rows
<1>1. \A b \in 0 .. NumBatches : Row(b) \in Rows
  BY DEF Row, Rows, StoredOK
<1>2. start \in 0 .. NumBatches /\ batch \in 0 .. NumBatches /\ NumBatches \in 0 .. NumBatches
  <2>1. start \in 0 .. NumBatches /\ batch \in 0 .. NumBatches
    BY DEF ProcessOK
  <2> QED BY <2>1, Constants
<1>3. CASE Save
  <2>1. batch < NumBatches
    BY <1>3 DEF Save, Control
  <2>2. SavedBatch \in 0 .. NumBatches
    <3>1. batch + 1 \in 0 .. NumBatches
      BY <1>2, <2>1, Constants
    <3> QED BY <1>2, <3>1 DEF SavedBatch
  <2> QED BY <1>1, <1>3, <2>2 DEF Save, SavedRows
<1>4. CASE Open
  BY <1>1, <1>2, <1>4 DEF Open
<1>5. CASE Close
  BY <1>1, <1>2, <1>5 DEF Close
<1>6. CASE ~Save /\ ~Open /\ ~Close
  BY <1>6 DEF Next, Start, Crash, Dataloading, DataloaderStep, RequeueStep, Working,
     TakeBuilder, FinishRollout, Training, BeginBatch, Gather, SyncTrain, Collect,
     AsyncTrain, Peek, StreamTake, FlushStep, NothingLeft, Join, Evaluating,
     EvalWake, EvalDone, disk
<1> QED BY <1>3, <1>4, <1>5, <1>6

(* What a step does to the files of the sampler. *)
LEMMA NextFiles ==
  ASSUME ProcessOK, StoredOK, Control, Next
  PROVE  \/ UNCHANGED files
         \/ Start /\ files' = [j \in DOMAIN files \cup {0} |-> IF j = 0 THEN {} ELSE files[j]]
         \/ (Gather \/ FlushStep) /\ batch < NumBatches /\ batch + 1 \in 1 .. NumBatches
            /\ files' = [j \in DOMAIN files \cup {batch + 1} |->
                           IF j = batch + 1 THEN archive ELSE files[j]]
<1>1. CASE Gather \/ FlushStep
  <2>2. batch \in 0 .. NumBatches
    BY DEF ProcessOK
  <2>1. batch < NumBatches
    <3>1. batch < NumBatches \/ ~(batch >= NumBatches)
      BY <1>1 DEF Gather, FlushStep, Control, IsAsync
    <3> QED BY <2>2, <3>1, Constants
  <2>3. batch + 1 \in 1 .. NumBatches
    BY <2>1, <2>2, Constants
  <2> QED BY <1>1, <2>1, <2>3 DEF Gather, FlushStep, Flushed
<1>2. CASE Start
  BY <1>2 DEF Start
<1>3. CASE ~Gather /\ ~FlushStep /\ ~Start
  BY <1>3 DEF Next, Open, Crash, Dataloading, DataloaderStep, RequeueStep, Working,
     TakeBuilder, FinishRollout, Training, BeginBatch, SyncTrain, Collect,
     AsyncTrain, Peek, StreamTake, Save, NothingLeft, Join, Close, Evaluating,
     EvalWake, EvalDone, disk
<1> QED BY <1>1, <1>2, <1>3

(* What a step does to the policy. *)
LEMMA NextWeights ==
  ASSUME RollingOK, Next
  PROVE  \/ UNCHANGED weights
         \/ Start /\ weights' = LastRow.state
         \/ Crash /\ weights' = {}
         \/ \E G \in SUBSET Groups :
              /\ weights' = weights \cup Trained(G)
              /\ \/ SyncTrain /\ G \subseteq ToSet(groups) /\ (config.bon => G = {})
                 \/ AsyncTrain /\ G = ToSet(wrapped)
                 \/ StreamTake /\ groups # <<>> /\ G \subseteq ToSet(Append(wrapped, Head(groups)))
                    /\ (IsAsync => ~IsStale(Head(groups)))
<1>1. ToSet(groups) \in SUBSET Groups /\ ToSet(wrapped) \in SUBSET Groups
  BY DEF RollingOK, ToSet
<1>2. CASE SyncTrain
  <2>1. PICK G : /\ G = IF config.bon THEN {} ELSE Remaining
                 /\ weights' = weights \cup Trained(G)
    BY <1>2 DEF SyncTrain
  <2>2. G \subseteq ToSet(groups)
    BY <2>1 DEF Remaining
  <2> QED BY <1>1, <1>2, <2>1, <2>2
<1>3. CASE AsyncTrain
  BY <1>1, <1>3 DEF AsyncTrain
<1>4. CASE StreamTake
  <2>1. CASE Minibatch(Append(wrapped, Head(groups)))
    <3>1. groups # <<>> /\ Head(groups) \in Groups
      BY <1>4, QueueTail DEF StreamTake, RollingOK
    <3> DEFINE full == Append(wrapped, Head(groups))
               G == {g \in ToSet(full) : ~g.constant}
    <3>2. G \in SUBSET ToSet(full) /\ weights' = weights \cup Trained(G)
      BY <2>1 DEF Minibatch
    <3>3. ToSet(full) \in SUBSET Groups
      BY <1>1, <3>1, OneAppended DEF RollingOK
    <3>4. UNCHANGED weights \/ (IsAsync => ~IsStale(Head(groups)))
      BY <1>4 DEF StreamTake
    <3> HIDE DEF G
    <3> QED BY <1>4, <3>1, <3>2, <3>3, <3>4
  <2> QED BY <1>4, <2>1 DEF StreamTake, Drop
<1>5. CASE Start \/ Crash
  BY <1>5 DEF Start, Crash
<1>6. CASE ~SyncTrain /\ ~AsyncTrain /\ ~StreamTake /\ ~Start /\ ~Crash
  BY <1>6 DEF Next, Open, Dataloading, DataloaderStep, RequeueStep, Working,
     TakeBuilder, FinishRollout, Training, BeginBatch, Gather, Collect,
     Peek, Save, FlushStep, NothingLeft, Join, Close, Evaluating, EvalWake, EvalDone
<1> QED BY <1>2, <1>3, <1>4, <1>5, <1>6

(* What a step does to the archive. *)
LEMMA NextArchive ==
  ASSUME Next
  PROVE  \/ UNCHANGED archive
         \/ Start /\ IF StartFails(LastRow.batch) THEN archive' = {} /\ pc' = "failed"
                     ELSE archive' = Reloaded(LastRow.batch) /\ pc' = "open"
         \/ Crash /\ archive' = {}
         \/ \E w \in Workers : FinishRollout(w) /\ archive' = archive \cup {workers[w].builder}
<1>1. CASE Start \/ Crash \/ \E w \in Workers : FinishRollout(w)
  BY <1>1 DEF Start, Crash, FinishRollout
<1>2. CASE ~Start /\ ~Crash /\ ~\E w \in Workers : FinishRollout(w)
  BY <1>2 DEF Next, Open, Dataloading, DataloaderStep, RequeueStep, Working,
     TakeBuilder, Training, BeginBatch, Gather, SyncTrain, Collect,
     AsyncTrain, Peek, StreamTake, Save, FlushStep, NothingLeft, Join, Close, Evaluating,
     EvalWake, EvalDone
<1> QED BY <1>1, <1>2

(* Every step keeps the types of the policy, the archive and the files. *)
LEMMA StoredStep == Typed /\ Control /\ Next => StoredOK'
<1> SUFFICES ASSUME Typed, Control, Next PROVE StoredOK'
  OBVIOUS
<1>0. ProcessOK /\ RollingOK /\ StoredOK
  BY DEF Typed
<1>n. batch \in Nat
  <2>1. batch \in 0 .. NumBatches
    BY <1>0 DEF ProcessOK
  <2> QED BY <2>1, Constants
<1>l. LastRow.batch \in 0 .. NumBatches /\ LastRow.state \in SUBSET Points
  BY <1>0, LastRowType DEF StoredOK
<1>1. weights' \subseteq Points
  BY <1>0, <1>l, <1>n, NextWeights, TrainedPoints DEF StoredOK
<1>2. archive' \subseteq Items
  <2>1. \A w \in Workers : FinishRollout(w) => workers[w].builder \in Items
    BY <1>0 DEF FinishRollout, RollingOK, Rolled
  <2>2. ~StartFails(LastRow.batch) => Reloaded(LastRow.batch) \subseteq Items
    BY <1>0, <1>l DEF StartFails, Reloaded, StoredOK
  <2> QED BY <1>0, <2>1, <2>2, NextArchive DEF StoredOK
<1>3. rows' \in Seq(Rows)
  BY <1>0, NextRow, NewLastRow DEF StoredOK
<1>4. DOMAIN files' \subseteq 0 .. NumBatches /\ \A k \in DOMAIN files' : files'[k] \subseteq Items
  <2>1. CASE Start /\ files' = [j \in DOMAIN files \cup {0} |-> IF j = 0 THEN {} ELSE files[j]]
    <3>1. 0 \in 0 .. NumBatches /\ {} \in SUBSET Items
      BY Constants
    <3> QED BY <1>0, <2>1, <3>1, FlushedFiles
  <2>2. CASE /\ batch + 1 \in 1 .. NumBatches
             /\ files' = [j \in DOMAIN files \cup {batch + 1} |->
                           IF j = batch + 1 THEN archive ELSE files[j]]
    <3>1. batch + 1 \in 0 .. NumBatches /\ archive \in SUBSET Items
      BY <1>0, <1>n, <2>2, Constants DEF StoredOK
    <3> QED BY <1>0, <2>2, <3>1, FlushedFiles
  <2> QED BY <1>0, <2>1, <2>2, NextFiles DEF StoredOK
<1> QED BY <1>1, <1>2, <1>3, <1>4 DEF StoredOK

(* Every step keeps the types. *)
LEMMA TypedStep == Typed /\ Control /\ Next => Typed'
BY ProcessStep, LoaderStep, RollingStep, StoredStep DEF Typed

-----------------------------------------------------------------------------
(* Where the loops are *)

(* Which loop it is, and whether it streams. *)
LEMMA Loops ==
  ASSUME config \in Configs
  PROVE  /\ config.loop \in {"sync", "stream", "async"} /\ (IsAsync <=> config.loop = "async")
         /\ (config.loop = "sync" => ~Streams) /\ (config.loop = "stream" => Streams)
         /\ (IsAsync => (Streams <=> config.stream)) /\ (config.bon => config.loop = "sync")
BY TinkerAssumption DEF Config, IsAsync, Streams

(* Every step keeps what the place of the training loop says of its variables. *)
LEMMA ControlStep == Typed /\ Control /\ Next => Control'
<1> SUFFICES ASSUME Typed, Control, Next PROVE Control'
  OBVIOUS
<1> USE DEF process, loop, loader
<1>0. ProcessOK /\ LoaderOK /\ RollingOK /\ StoredOK
  BY DEF Typed
<1>c. /\ config' = config /\ IsAsync' = IsAsync /\ Streams' = Streams
      /\ GroupsPerMinibatch' = GroupsPerMinibatch
  BY SameConfig
<1>l. /\ config.loop \in {"sync", "stream", "async"} /\ (IsAsync <=> config.loop = "async")
      /\ (config.loop = "sync" => ~Streams) /\ (config.loop = "stream" => Streams)
      /\ (IsAsync => (Streams <=> config.stream))
  BY <1>0, Loops DEF ProcessOK
<1>n. /\ start \in Nat /\ batch \in Nat /\ client \in Nat /\ batch <= NumBatches
      /\ Len(wrapped) \in Nat /\ GroupsPerMinibatch \in Nat \ {0} /\ Len(<<>>) = 0
      /\ NumBatches \in Nat \ {0} /\ GroupsPerBatch \in Nat \ {0}
  <2>1. start \in 0 .. NumBatches /\ batch \in 0 .. NumBatches /\ client \in 0 .. NumBatches
    BY <1>0 DEF ProcessOK
  <2>2. wrapped \in Seq(Groups) /\ config \in Configs
    BY <1>0 DEF RollingOK, ProcessOK
  <2> QED BY <2>1, <2>2, Constants, Division, LenProperties
<1>e. wrapped = <<>> => Len(wrapped) = 0
  BY <1>n
<1>1. CASE Start
  <2>1. /\ pc' \in {"open", "failed"} /\ wrapped' = <<>> /\ mini' = 0
        /\ start' = LastRow.batch /\ batch' = LastRow.batch /\ client' = LastRow.batch
        /\ next' = [batch |-> LastRow.batch, slot |-> 1]
    BY <1>1 DEF Start, Quiet
  <2>2. LastRow.batch \in Nat
    <3>1. LastRow.batch \in 0 .. NumBatches
      BY <1>0, LastRowType DEF StoredOK
    <3> QED BY <3>1, <1>n
  <2> QED BY <1>c, <1>l, <1>n, <2>1, <2>2 DEF Control
<1>2. CASE Crash
  <2>1. /\ pc' = "down" /\ wrapped' = <<>> /\ mini' = 0
        /\ UNCHANGED <<start, batch, next>> /\ client' = 0
    BY <1>2 DEF Crash, Quiet
  <2> QED BY <1>c, <1>l, <1>n, <2>1 DEF Control
<1>3. CASE \/ \E b \in requeue : RequeueStep(b)
           \/ \E w \in Workers : Working(w)
           \/ Evaluating
  <2>1. UNCHANGED <<process, loop, next>>
    BY <1>3 DEF RequeueStep, Working, TakeBuilder, FinishRollout, Evaluating, EvalWake, EvalDone
  <2> QED BY <1>c, <2>1 DEF Control
<1>4. CASE DataloaderStep
  <2>1. UNCHANGED <<process, loop>>
    BY <1>4 DEF DataloaderStep
  <2>2. next'.slot # 1 => next'.batch < NumBatches
    <3>1. next.batch < NumBatches
      BY <1>4 DEF DataloaderStep, DataloaderEnded, Loads, Control
    <3>2. next \in [batch : 0 .. NumBatches, slot : 1 .. BatchSize]
      BY <1>0 DEF LoaderOK
    <3>3. next' = IF next.slot < BatchSize THEN [next EXCEPT !.slot = @ + 1]
                                           ELSE [batch |-> next.batch + 1, slot |-> 1]
      BY <1>4 DEF DataloaderStep
    <3> QED BY <3>1, <3>2, <3>3
  <2> QED BY <1>c, <2>1, <2>2 DEF Control
<1>5. CASE Open
  BY <1>c, <1>e, <1>l, <1>n, <1>5 DEF Open, Control
<1>6. CASE BeginBatch
  <2>1. UNCHANGED <<start, batch, mini, wrapped, client>> /\ pc = "begin"
        /\ \/ batch < NumBatches /\ next' = [batch |-> batch + 1, slot |-> 1] /\ pc' = "collect"
           \/ ~(batch < NumBatches) /\ UNCHANGED next /\ pc' = "final"
    BY <1>6 DEF BeginBatch
  <2> QED BY <1>c, <1>e, <1>l, <1>n, <2>1 DEF Control
<1>7. CASE Gather \/ SyncTrain
  <2>1. /\ UNCHANGED <<start, batch, mini, wrapped, client, next>> /\ config.loop = "sync"
        /\ pc \in {"collect", "train"} /\ pc' \in {"train", "save"}
    BY <1>7 DEF Gather, SyncTrain
  <2>2. batch < NumBatches
    BY <1>l, <1>n, <2>1 DEF Control
  <2>3. wrapped = <<>>
    BY <2>1 DEF Control
  <2> QED BY <1>c, <1>l, <1>n, <2>1, <2>2, <2>3 DEF Control
<1>8. CASE AsyncTrain
  <2>1. /\ UNCHANGED <<start, batch, mini, client, next>> /\ IsAsync /\ wrapped' = <<>>
        /\ pc = "train" /\ pc' = "save"
    BY <1>8 DEF AsyncTrain
  <2> QED BY <1>c, <1>l, <1>n, <2>1 DEF Control
<1>9. CASE Collect
  <2>1. /\ UNCHANGED <<start, batch, mini, client, next>> /\ IsAsync /\ ~config.stream
        /\ pc = "collect" /\ batch < NumBatches
    BY <1>9 DEF Collect
  <2>2. \/ pc' = pc /\ UNCHANGED wrapped
        \/ pc' = pc /\ ~IsFull(wrapped')
        \/ pc' = "train"
    BY <1>9 DEF Collect, Drop, PutBack
  <2>3. pc' \in {"collect", "train"} /\ (pc' = "collect" => Len(wrapped') < GroupsPerBatch)
    <3>1. wrapped' \in Seq(Groups)
      BY RollingStep DEF RollingOK
    <3>2. Len(wrapped') \in Nat
      BY <3>1, LenProperties
    <3>3. ~IsFull(wrapped') => Len(wrapped') < GroupsPerBatch
      BY <1>n, <3>2 DEF IsFull
    <3>4. Len(wrapped) < GroupsPerBatch
      BY <2>1 DEF Control
    <3> QED BY <2>1, <2>2, <3>3, <3>4
  <2> QED BY <1>c, <1>l, <1>n, <2>1, <2>3 DEF Control
<1>10. CASE Peek
  <2>1. /\ UNCHANGED <<start, batch, mini, wrapped, client, next>> /\ IsAsync /\ config.stream
        /\ pc = "collect" /\ batch < NumBatches /\ pc' \in {"collect", "stream"}
    BY <1>10 DEF Peek, Drop
  <2> QED BY <1>c, <1>l, <1>n, <2>1 DEF Control
<1>11. CASE StreamTake
  <2>1. /\ UNCHANGED <<start, batch, client, next>> /\ Streams
        /\ pc = IF IsAsync THEN "stream" ELSE "collect"
    BY <1>11 DEF StreamTake
  <2>2. batch < NumBatches
    BY <1>l, <1>n, <2>1 DEF Control
  <2>3. \/ pc' = pc /\ UNCHANGED wrapped
        \/ pc' = pc /\ Len(wrapped) + 1 < GroupsPerMinibatch /\ wrapped' = Append(wrapped, Head(groups))
        \/ pc' \in {pc, "save", "failed"} /\ wrapped' = <<>>
    BY <1>11 DEF StreamTake, Drop, PutBack, Minibatch
  <2>4. Len(wrapped') < GroupsPerMinibatch
    <3>1. groups # <<>> /\ wrapped \in Seq(Groups) /\ groups \in Seq(Groups)
      BY <1>0, <1>11 DEF StreamTake, RollingOK
    <3>2. Len(Append(wrapped, Head(groups))) = Len(wrapped) + 1
      BY <3>1, QueueTail, OneAppended
    <3>3. Len(wrapped) < GroupsPerMinibatch
      BY <2>1 DEF Control
    <3> QED BY <1>n, <2>3, <3>2, <3>3
  <2>5. pc' = "save" => wrapped' = <<>> /\ mini' = 0
    BY <1>11, <2>1 DEF StreamTake, Drop, Minibatch
  <2>6. pc' \in {pc, "save", "failed"} /\ config.loop # "sync"
    BY <1>l, <2>1, <2>3
  <2> QED BY <1>c, <1>l, <1>n, <2>1, <2>2, <2>4, <2>5, <2>6 DEF Control
<1>12. CASE Save
  <2>1. /\ UNCHANGED <<start, mini, wrapped, next>> /\ pc = "save"
        /\ \/ config.loop = "sync" /\ pc' = "begin" /\ batch' = batch + 1 /\ client' = batch + 1
           \/ config.loop # "sync" /\ pc' = "flush" /\ UNCHANGED <<batch, client>>
    BY <1>12 DEF Save
  <2>2. batch < NumBatches /\ wrapped = <<>> /\ start <= batch /\ client <= batch
    BY <2>1 DEF Control
  <2>3. start' <= batch' /\ client' <= batch' /\ batch' <= NumBatches
    BY <1>n, <2>1, <2>2
  <2> QED BY <1>c, <1>l, <1>n, <2>1, <2>2, <2>3 DEF Control
<1>13. CASE FlushStep
  <2>1. /\ UNCHANGED <<start, mini, wrapped, next>> /\ pc = "flush"
        /\ batch' = batch + 1 /\ client' = batch + 1
        /\ \/ ~IsAsync /\ pc' = "begin"
           \/ IsAsync /\ batch + 1 < NumBatches /\ pc' = "collect"
           \/ IsAsync /\ ~(batch + 1 < NumBatches) /\ pc' \in {"failed", "join"}
    BY <1>13 DEF FlushStep, EndLoop
  <2>2. batch < NumBatches /\ wrapped = <<>> /\ start <= batch /\ client <= batch
    BY <2>1 DEF Control
  <2>3. start' <= batch' /\ client' <= batch'
    BY <1>n, <2>1, <2>2
  <2>4. pc' = "join" => batch' = NumBatches
    BY <1>n, <2>1, <2>2
  <2>5. pc' = "collect" => ~(batch' >= NumBatches)
    BY <1>n, <2>1
  <2>6. pc' \in {"begin", "failed", "join", "collect"} /\ (pc' = "join" => IsAsync)
    BY <2>1
  <2> QED BY <1>c, <1>l, <1>n, <2>1, <2>2, <2>3, <2>4, <2>5, <2>6 DEF Control
<1>14. CASE NothingLeft
  <2>1. /\ UNCHANGED <<start, batch, mini, wrapped, client, next>> /\ IsAsync
        /\ pc = "collect" /\ batch >= NumBatches /\ pc' \in {"failed", "join"}
    BY <1>14 DEF NothingLeft, EndLoop
  <2>2. wrapped = <<>> /\ mini = 0 /\ batch = NumBatches
    BY <1>n, <2>1 DEF Control
  <2> QED BY <1>c, <1>l, <1>n, <2>1, <2>2 DEF Control
<1>15. CASE Join \/ Close
  <2>1. /\ UNCHANGED <<start, batch, mini, wrapped, client, next>>
        /\ \/ pc = "join" /\ pc' = "final"
           \/ pc = "final" /\ pc' = "closed"
    BY <1>15 DEF Join, Close
  <2> QED BY <1>c, <1>l, <1>n, <2>1 DEF Control
<1> QED BY <1>1, <1>2, <1>3, <1>4, <1>5, <1>6, <1>7, <1>8, <1>9, <1>10, <1>11, <1>12, <1>13,
           <1>14, <1>15 DEF Next, Dataloading, Training

-----------------------------------------------------------------------------
(* What is left of a batch, in the loops that gather it *)

(* No more workers are rolling than there are groups in a batch. *)
LEMMA RolledFinite ==
  ASSUME config \in Configs
  PROVE  IsFiniteSet(Rolled) /\ Cardinality(Rolled) \in Nat
         /\ (Cardinality(Rolled) = 0 => Rolled = {})
<1>1. IsFiniteSet(Workers)
  BY WorkerRange, FS_Interval, Constants
<1>2. IsFiniteSet(Rolled)
  BY <1>1, FS_Subset DEF Rolled
<1> QED BY <1>2, FS_CardinalityType, FS_EmptySet

(* In the loops that gather a batch every step keeps the count of its groups. *)
LEMMA GatheredStep == Typed /\ Control /\ Gathered /\ Next => Gathered'
<1> SUFFICES ASSUME Typed, Control, Gathered, Next, ~IsAsync PROVE Gathered'
  BY SameConfig DEF Gathered
<1> USE DEF process, loop, loader, rolling
<1>0. ProcessOK /\ LoaderOK /\ RollingOK /\ StoredOK
  BY DEF Typed
<1>c. /\ config' = config /\ IsAsync' = IsAsync /\ config \in Configs
      /\ GroupsPerMinibatch' = GroupsPerMinibatch
  BY <1>0, SameConfig DEF ProcessOK
<1>l. config.loop \in {"sync", "stream"} /\ (config.loop = "sync" <=> ~Streams)
  BY <1>0, Loops DEF ProcessOK
<1>n. /\ batch \in Nat /\ mini \in Nat /\ Len(wrapped) \in Nat /\ Len(groups) \in Nat
      /\ GroupsPerMinibatch \in Nat \ {0} /\ BatchSize \in Nat \ {0}
      /\ Len(<<>>) = 0 /\ (Len(groups) = 0 => groups = <<>>)
  <2>1. batch \in 0 .. NumBatches /\ mini \in 0 .. Minibatches - 1 /\ config \in Configs
    BY <1>0 DEF ProcessOK
  <2>2. wrapped \in Seq(Groups) /\ groups \in Seq(Groups)
    BY <1>0 DEF RollingOK
  <2>3. Minibatches \in Nat \ {0} /\ GroupsPerMinibatch \in Nat \ {0}
    BY <1>c, Division
  <2> QED BY <2>1, <2>2, <2>3, Constants, LenProperties, EmptySeq
<1>r. /\ IsFiniteSet(Rolled) /\ Cardinality(Rolled) \in Nat
      /\ (Cardinality(Rolled) = 0 => Rolled = {})
  BY <1>c, RolledFinite
<1>b. builders = <<>> /\ requeue = {}
  BY DEF Gathered
<1>s. workers' = workers => Rolled' = Rolled
  BY <1>c, RolledSame
<1>1. CASE Start \/ Crash
  <2>1. /\ workers' = [w \in Workers |-> Exited] /\ builders' = <<>> /\ requeue' = {}
        /\ groups' = <<>> /\ pc' \in {"open", "down", "failed"}
        /\ pc' \notin {"down", "failed"} => client' = batch'
    BY <1>1 DEF Start, Crash, Quiet
  <2>2. Rolled' = {}
    BY <1>0, <1>c, <2>1, RolledQuiet
  <2> QED BY <2>1, <2>2 DEF Gathered
<1>2. CASE Open
  <2>1. UNCHANGED <<builders, requeue, workers, groups, batch, client>> /\ pc = "open" /\ pc' = "begin"
    BY <1>2 DEF Open
  <2> QED BY <1>s, <2>1 DEF Gathered
<1>3. CASE Dataloading \/ (\E w \in Workers : TakeBuilder(w)) \/ Collect \/ AsyncTrain \/ Peek
           \/ NothingLeft
  BY <1>3, <1>b DEF Dataloading, DataloaderStep, TakeBuilder, Collect, AsyncTrain, Peek,
     NothingLeft
<1>4. ASSUME NEW w \in Workers, FinishRollout(w) PROVE Gathered'
  <2>1. UNCHANGED <<pc, mini, wrapped, builders, requeue, batch, client>>
    BY <1>4 DEF FinishRollout
  <2>2. w \in Rolled /\ Rolled' = Rolled \ {w}
    BY <1>0, <1>c, <1>4, RolledFinish
  <2>3. Cardinality(Rolled') = Cardinality(Rolled) - 1
    BY <1>r, <2>2, FS_RemoveElement
  <2>4. Len(groups') = Len(groups) + 1
    <3>1. PICK g : groups' = Append(groups, g)
      BY <1>4 DEF FinishRollout
    <3> QED BY <1>0, <3>1 DEF RollingOK
  <2>5. pc \in {"collect", "failed"}
    BY <2>2 DEF Gathered
  <2>6. ASSUME pc = "collect"
        PROVE  mini * GroupsPerMinibatch + Len(wrapped) + Len(groups') + Cardinality(Rolled')
                 = BatchSize
    <3>1. mini * GroupsPerMinibatch \in Nat
      BY <1>n
    <3>2. mini * GroupsPerMinibatch + Len(wrapped) + Len(groups) + Cardinality(Rolled) = BatchSize
      BY <2>6 DEF Gathered
    <3> QED BY <1>n, <1>r, <2>3, <2>4, <3>1, <3>2
  <2> QED BY <1>c, <2>1, <2>5, <2>6 DEF Gathered
<1>5. CASE BeginBatch
  <2>1. pc = "begin" /\ UNCHANGED <<mini, wrapped, builders, requeue, groups, batch, client>>
    BY <1>5 DEF BeginBatch
  <2>2. mini = 0 /\ wrapped = <<>> /\ groups = <<>> /\ Rolled = {}
    BY <2>1 DEF Control, Gathered
  <2>3. CASE pc' = "final" /\ UNCHANGED workers
    BY <1>s, <2>1, <2>2, <2>3 DEF Gathered
  <2>4. CASE pc' = "collect" /\ workers' = [w \in Workers |-> Rolling(Builder(batch, w))]
    <3> DEFINE f == [w \in Workers |-> Builder(batch, w)]
    <3>1. f \in [Workers -> Items]
      <4>1. run \in Nat
        <5>1. run \in 0 .. MaxRuns
          BY <1>0 DEF ProcessOK
        <5> QED BY <5>1, Constants
      <4> QED BY <1>c, <1>n, <4>1, WorkerRange DEF Builder, Items
    <3>2. workers' = [w \in Workers |-> Rolling(f[w])]
      BY <2>4
    <3>3. client \in Nat
      BY <1>n, <2>1 DEF Gathered
    <3>4. Rolled' = Workers
      <4> HIDE DEF f
      <4> QED BY <1>0, <1>c, <3>1, <3>2, <3>3, RolledBegin
    <3>5. Cardinality(Rolled') = BatchSize
      <4>1. Cardinality(1 .. BatchSize) = BatchSize
        BY <1>n, FS_Interval
      <4> QED BY <1>c, <3>4, <4>1, WorkerRange
    <3>6. mini * GroupsPerMinibatch + Len(wrapped) + Len(groups) + Cardinality(Rolled') = BatchSize
      BY <1>n, <2>2, <3>5
    <3> QED BY <1>c, <2>1, <2>4, <3>6 DEF Gathered
  <2> QED BY <1>5, <2>3, <2>4 DEF BeginBatch
<1>6. CASE Gather
  <2>1. /\ UNCHANGED <<builders, requeue, workers, groups, batch, client>>
        /\ config.loop = "sync" /\ pc = "collect" /\ pc' = "train" /\ Len(groups) = BatchSize
    BY <1>6 DEF Gather
  <2>2. mini * GroupsPerMinibatch + Len(wrapped) + Len(groups) + Cardinality(Rolled) = BatchSize
    BY <2>1 DEF Gathered
  <2>3. Cardinality(Rolled) = 0
    <3>1. mini * GroupsPerMinibatch \in Nat
      BY <1>n
    <3> QED BY <1>n, <1>r, <2>1, <2>2, <3>1
  <2> QED BY <1>r, <1>s, <2>1, <2>3 DEF Gathered
<1>7. CASE SyncTrain
  <2>1. /\ UNCHANGED <<builders, requeue, workers, batch, client>> /\ groups' = <<>>
        /\ pc = "train" /\ pc' = "save"
    BY <1>7 DEF SyncTrain
  <2> QED BY <1>s, <2>1 DEF Gathered
<1>8. CASE StreamTake
  <2>1. /\ UNCHANGED <<builders, workers, batch, client>> /\ pc = "collect" /\ Streams
        /\ groups # <<>> /\ groups' = Tail(groups)
    BY <1>8 DEF StreamTake
  <2>2. Len(wrapped) < GroupsPerMinibatch
    BY <2>1 DEF Control
  <2>3. mini * GroupsPerMinibatch + Len(wrapped) + Len(groups) + Cardinality(Rolled) = BatchSize
    BY <2>1 DEF Gathered
  <2>4. Len(groups') = Len(groups) - 1 /\ Rolled' = Rolled
        /\ groups \in Seq(Groups) /\ Head(groups) \in Groups /\ wrapped \in Seq(Groups)
    BY <1>0, <1>s, <2>1, QueueTail DEF RollingOK
  <2>5. mini * GroupsPerMinibatch \in Nat
        /\ (mini + 1) * GroupsPerMinibatch = mini * GroupsPerMinibatch + GroupsPerMinibatch
    BY <1>n
  <2>6. CASE /\ Len(wrapped) + 1 < GroupsPerMinibatch
             /\ wrapped' = Append(wrapped, Head(groups)) /\ UNCHANGED <<pc, mini, requeue>>
    <3>1. Len(wrapped') = Len(wrapped) + 1
      BY <2>4, <2>6, OneAppended
    <3>2. mini * GroupsPerMinibatch + Len(wrapped') + Len(groups') + Cardinality(Rolled') = BatchSize
      <4>1. Cardinality(Rolled') = Cardinality(Rolled)
        BY <2>4
      <4>2. Len(groups') = Len(groups) - 1
        BY <2>4
      <4> QED BY <1>n, <1>r, <2>3, <2>5, <3>1, <4>1, <4>2
    <3> QED BY <1>c, <2>1, <2>6, <3>2 DEF Gathered
  <2>7. CASE /\ ~(Len(wrapped) + 1 < GroupsPerMinibatch) /\ UNCHANGED requeue
             /\ Minibatch(Append(wrapped, Head(groups)))
    <3>1. Len(wrapped) + 1 = GroupsPerMinibatch
      BY <1>n, <2>2, <2>7
    <3>2. wrapped' = <<>>
      BY <2>7 DEF Minibatch
    <3>3. CASE mini + 1 # Minibatches
      <4>1. mini' = mini + 1 /\ pc' = pc
        BY <2>7, <3>3 DEF Minibatch
      <4>2. mini' * GroupsPerMinibatch + Len(wrapped') + Len(groups') + Cardinality(Rolled') = BatchSize
        <5>1. Cardinality(Rolled') = Cardinality(Rolled) /\ Len(groups') = Len(groups) - 1
          BY <2>4
        <5>2. mini' * GroupsPerMinibatch = mini * GroupsPerMinibatch + GroupsPerMinibatch
          BY <2>5, <4>1
        <5> QED BY <1>n, <1>r, <2>3, <2>5, <3>1, <3>2, <5>1, <5>2
      <4> QED BY <1>c, <2>1, <2>7, <4>1, <4>2 DEF Gathered
    <3>4. CASE mini + 1 = Minibatches
      <4>1. pc' \in {"save", "failed"}
        BY <2>7, <3>4 DEF Minibatch
      <4>2. mini * GroupsPerMinibatch + GroupsPerMinibatch = BatchSize
        BY <1>c, <2>5, <3>4, Division, Constants
      <4>3. Len(groups') = 0 /\ Cardinality(Rolled) = 0
        <5>1. Len(groups') = Len(groups) - 1 /\ Len(groups) > 0
          BY <1>n, <2>1, <2>4
        <5> QED BY <1>n, <1>r, <2>3, <2>5, <3>1, <4>2, <5>1
      <4>4. groups' = <<>> /\ Rolled' = {}
        <5>1. groups' \in Seq(Groups)
          BY <1>0, <2>1, QueueTail DEF RollingOK
        <5> QED BY <1>r, <2>4, <4>3, <5>1, EmptySeq
      <4> QED BY <1>b, <2>1, <2>7, <4>1, <4>4 DEF Gathered
    <3> QED BY <3>3, <3>4
  <2> QED BY <1>8, <2>6, <2>7 DEF StreamTake
<1>9. CASE Save
  <2>1. /\ UNCHANGED <<builders, requeue, workers, groups>> /\ pc = "save"
        /\ pc' \in {"begin", "flush"} /\ (client = batch => client' = batch')
    BY <1>9 DEF Save
  <2> QED BY <1>s, <2>1 DEF Gathered
<1>10. CASE FlushStep
  <2>1. /\ UNCHANGED <<builders, requeue, workers, groups>> /\ pc = "flush" /\ pc' = "begin"
        /\ client' = batch'
    BY <1>10 DEF FlushStep
  <2> QED BY <1>s, <2>1 DEF Gathered
<1>11. CASE Join \/ Close
  <2>1. /\ UNCHANGED <<builders, requeue, workers, groups, batch, client>>
        /\ pc \in {"join", "final"} /\ pc' \in {"final", "closed"}
    BY <1>11 DEF Join, Close
  <2> QED BY <1>s, <2>1 DEF Gathered
<1>12. CASE Evaluating
  <2>1. UNCHANGED <<builders, requeue, workers, groups, batch, client, pc, mini, wrapped>>
    BY <1>12 DEF Evaluating, EvalWake, EvalDone
  <2> QED BY <1>c, <1>s, <2>1 DEF Gathered
<1> QED BY <1>1, <1>2, <1>3, <1>4, <1>5, <1>6, <1>7, <1>8, <1>9, <1>10, <1>11, <1>12
        DEF Next, Working, Training

-----------------------------------------------------------------------------
(* How old the policy is that sampled a group *)

(* The label of a group is what filter_stale_trajectory_group looks at. *)
LEMMA NotStale ==
  ASSUME Typed, AgedQueued, NEW g \in ToSet(groups), IsAsync => ~IsStale(g)
  PROVE  IsRecent(g)
<1>1. g \in Groups
  BY DEF Typed, RollingOK, ToSet
<1>2. g.client \in Nat /\ g.label \in Nat
  BY <1>1 DEF Groups
<1>3. batch \in Nat
  <2>1. batch \in 0 .. NumBatches
    BY DEF Typed, ProcessOK
  <2> QED BY <2>1, Constants
<1>4. CASE IsAsync
  <2>1. g.label = g.client /\ g.client <= batch /\ ~(batch - g.label > MaxOffPolicy)
    BY <1>4 DEF AgedQueued, IsStale
  <2> QED BY <1>2, <1>3, <1>4, <2>1, Constants DEF IsRecent
<1>5. CASE ~IsAsync
  <2>1. g.client = batch
    BY <1>5 DEF AgedQueued
  <2> QED BY <1>2, <1>3, <1>5, <2>1 DEF IsRecent
<1> QED BY <1>4, <1>5

(* Every step keeps the groups within the age their place allows. *)
LEMMA AgedStep == Typed /\ Control /\ Gathered /\ Aged /\ Next => Aged'
<1> SUFFICES ASSUME Typed, Control, Gathered, Aged, Next PROVE Aged'
  OBVIOUS
<1> USE DEF process, loop, loader, rolling
<1> DEFINE Fresh == \A g \in ToSet(wrapped') : (IsRecent(g))'
<1>0. ProcessOK /\ LoaderOK /\ RollingOK /\ StoredOK
  BY DEF Typed
<1>c. config' = config /\ IsAsync' = IsAsync /\ config \in Configs
  BY <1>0, SameConfig DEF ProcessOK
<1>l. /\ config.loop \in {"sync", "stream", "async"} /\ (IsAsync <=> config.loop = "async")
      /\ (config.loop = "sync" => ~Streams)
  BY <1>0, Loops DEF ProcessOK
<1>n. batch \in Nat /\ client \in Nat /\ client <= batch
  <2>1. batch \in 0 .. NumBatches /\ client \in 0 .. NumBatches
    BY <1>0 DEF ProcessOK
  <2> QED BY <2>1, Constants DEF Control
<1>s. /\ Rolled' = {} => AgedTasks'
      /\ UNCHANGED <<workers, batch>> => AgedTasks'
      /\ batch' = batch /\ ToSet(groups') \subseteq ToSet(groups) => AgedQueued'
      /\ batch' = batch /\ ToSet(wrapped') \subseteq ToSet(wrapped) => Fresh
      /\ AgedTasks' /\ AgedQueued' /\ Fresh => Aged'
  <2>1. UNCHANGED workers => Rolled' = Rolled
    BY <1>c, RolledSame
  <2> QED BY <1>c, <2>1 DEF Aged, AgedTasks, AgedQueued, IsRecent
<1>t. ToSet(<<>>) = {}
  BY DEF ToSet
<1> HIDE DEF Fresh
<1>1. CASE Start \/ Crash
  <2>1. workers' = [w \in Workers |-> Exited] /\ groups' = <<>> /\ wrapped' = <<>>
    BY <1>1 DEF Start, Crash, Quiet
  <2>2. Rolled' = {}
    BY <1>0, <1>c, <2>1, RolledQuiet
  <2>3. AgedQueued' /\ Fresh
    BY <1>t, <2>1 DEF AgedQueued, Fresh
  <2> QED BY <1>s, <2>2, <2>3
<1>2. CASE Open
  <2>1. /\ UNCHANGED <<batch, groups, wrapped>>
        /\ UNCHANGED workers \/ workers' = [w \in Workers |-> Idle]
    BY <1>2 DEF Open
  <2>2. workers' = [w \in Workers |-> Idle] => Rolled' = {}
    BY <1>0, <1>c, RolledQuiet
  <2> QED BY <1>s, <2>1, <2>2
<1>3. ASSUME NEW w \in Workers, TakeBuilder(w) PROVE Aged'
  <2>1. UNCHANGED <<batch, groups, wrapped>> /\ builders # <<>>
    BY <1>3 DEF TakeBuilder
  <2>2. IsAsync
    BY <2>1 DEF Gathered
  <2>3. AgedTasks'
    BY <1>0, <1>c, <1>n, <1>3, <2>1, <2>2, RolledTake DEF Aged, AgedTasks, Rolling, Rolled
  <2> QED BY <1>s, <2>1, <2>3
<1>4. ASSUME NEW w \in Workers, FinishRollout(w) PROVE Aged'
  <2>1. UNCHANGED <<batch, wrapped>>
    BY <1>4 DEF FinishRollout
  <2>2. /\ w \in Rolled /\ Rolled' = Rolled \ {w}
        /\ \A v \in Workers \ {w} : workers'[v] = workers[v]
    BY <1>0, <1>c, <1>4, RolledFinish
  <2>3. AgedTasks'
    BY <1>c, <2>1, <2>2 DEF Aged, AgedTasks, Rolled
  <2>4. PICK constant \in BOOLEAN : groups' = Append(groups, Group(w, constant))
    BY <1>4 DEF FinishRollout
  <2>5. Group(w, constant) \in Groups /\ groups \in Seq(Groups)
    BY <1>0, <2>2 DEF Group, Groups, RollingOK, Tasks, Items
  <2>6. ToSet(groups') = ToSet(groups) \cup {Group(w, constant)}
    BY <2>4, <2>5, OneAppended
  <2>7. AgedQueued'
    BY <1>c, <2>1, <2>2, <2>6 DEF Aged, AgedTasks, AgedQueued, Group
  <2> QED BY <1>s, <2>1, <2>3, <2>7
<1>5. CASE BeginBatch
  <2>1. UNCHANGED <<batch, groups, wrapped>> /\ pc = "begin"
    BY <1>5 DEF BeginBatch
  <2>2. ~IsAsync /\ client = batch
    BY <2>1 DEF Control, Gathered
  <2>3. CASE workers' = [w \in Workers |-> Rolling(Builder(batch, w))]
    <3>1. \A w \in Workers : workers'[w].client = batch
      BY <2>2, <2>3 DEF Rolling
    <3>2. AgedTasks'
      BY <1>c, <2>1, <2>2, <3>1, SameConfig DEF AgedTasks, Rolled
    <3> QED BY <1>s, <2>1, <3>2
  <2> QED BY <1>5, <1>s, <2>1, <2>3 DEF BeginBatch
<1>6. CASE SyncTrain \/ AsyncTrain
  <2>1. /\ UNCHANGED <<batch, workers>> /\ (UNCHANGED groups \/ groups' = <<>>)
        /\ (UNCHANGED wrapped \/ wrapped' = <<>>)
    BY <1>6 DEF SyncTrain, AsyncTrain
  <2>2. ToSet(groups') \subseteq ToSet(groups) /\ ToSet(wrapped') \subseteq ToSet(wrapped)
    BY <1>t, <2>1
  <2> QED BY <1>s, <2>1, <2>2
<1>7. CASE Collect \/ Peek \/ StreamTake
  <2>1. UNCHANGED <<batch, workers>> /\ groups # <<>>
    BY <1>7 DEF Collect, Peek, StreamTake
  <2>2. /\ Head(groups) \in Groups /\ Tail(groups) \in Seq(Groups)
        /\ ToSet(groups) = {Head(groups)} \cup ToSet(Tail(groups))
    BY <1>0, <2>1, QueueTail DEF RollingOK
  <2>3. ToSet(groups') \subseteq ToSet(groups)
    <3>1. groups' = Tail(groups) \/ groups' = Append(Tail(groups), Head(groups))
      BY <1>7 DEF Collect, Peek, StreamTake
    <3>2. ToSet(Append(Tail(groups), Head(groups))) = ToSet(Tail(groups)) \cup {Head(groups)}
      <4>1. PICK h, t : h = Head(groups) /\ t = Tail(groups)
        OBVIOUS
      <4>2. h \in Groups /\ t \in Seq(Groups)
        BY <2>2, <4>1
      <4>3. ToSet(Append(t, h)) = ToSet(t) \cup {h}
        BY <4>2, OneAppended
      <4> QED BY <4>1, <4>3
    <3>3. CASE groups' = Tail(groups)
      BY <2>2, <3>3
    <3>4. CASE groups' = Append(Tail(groups), Head(groups))
      BY <2>2, <3>2, <3>4
    <3> QED BY <3>1, <3>3, <3>4
  <2>4. \/ UNCHANGED wrapped \/ wrapped' = <<>>
        \/ wrapped' = Append(wrapped, Head(groups)) /\ (IsAsync => ~IsStale(Head(groups)))
    BY <1>7 DEF Collect, Peek, StreamTake, Drop, PutBack, Minibatch
  <2>5. Fresh
    <3>1. CASE wrapped' = Append(wrapped, Head(groups)) /\ (IsAsync => ~IsStale(Head(groups)))
      <4>1. IsRecent(Head(groups))
        BY <2>2, <3>1, NotStale DEF Aged
      <4>2. ToSet(wrapped') = ToSet(wrapped) \cup {Head(groups)}
        BY <1>0, <2>2, <3>1, OneAppended DEF RollingOK
      <4> QED BY <1>c, <2>1, <4>1, <4>2 DEF Fresh, Aged, IsRecent
    <3>2. CASE UNCHANGED wrapped \/ wrapped' = <<>>
      <4>1. ToSet(wrapped') \subseteq ToSet(wrapped)
        BY <1>t, <3>2
      <4> QED BY <1>s, <2>1, <4>1
    <3> QED BY <2>4, <3>1, <3>2
  <2> QED BY <1>s, <2>1, <2>3, <2>5
<1>8. CASE Save \/ FlushStep
  <2>1. /\ UNCHANGED <<workers, groups, wrapped>> /\ pc \in {"save", "flush"}
        /\ \/ UNCHANGED batch
           \/ batch' = batch + 1 /\ (Save => ~IsAsync)
    BY <1>8, <1>l DEF Save, FlushStep
  <2>2. wrapped = <<>> /\ (~IsAsync => Rolled = {} /\ groups = <<>>)
    BY <2>1 DEF Control, Gathered
  <2>3. CASE UNCHANGED batch
    BY <1>s, <2>1, <2>3
  <2>4. CASE ~IsAsync
    <3>1. Rolled' = {} /\ ToSet(groups') = {} /\ ToSet(wrapped') = {}
      BY <1>c, <1>t, <2>1, <2>2, <2>4, RolledSame
    <3>2. AgedQueued' /\ Fresh
      BY <3>1 DEF AgedQueued, Fresh
    <3> QED BY <1>s, <3>1, <3>2
  <2>5. CASE IsAsync /\ batch' = batch + 1
    <3>1. Rolled' = Rolled
      BY <1>c, <2>1, RolledSame
    <3>2. \A i \in Nat : i <= batch => i <= batch'
      BY <1>n, <2>5
    <3>3. ToSet(groups) \subseteq Groups /\ \A w \in Rolled : workers[w].client \in Nat
      BY <1>0 DEF RollingOK, ToSet, Rolled, Tasks
    <3>4. AgedTasks'
      BY <1>c, <2>1, <2>5, <3>1, <3>2, <3>3 DEF Aged, AgedTasks
    <3>5. AgedQueued'
      <4>1. groups' = groups /\ \A g \in ToSet(groups) : g.client \in Nat
        BY <2>1, <3>3 DEF Groups
      <4>2. \A g \in ToSet(groups) : g.label = g.client /\ g.client <= batch
        BY <2>5 DEF Aged, AgedQueued
      <4> QED BY <1>c, <2>5, <3>2, <4>1, <4>2 DEF AgedQueued
    <3>6. Fresh
      BY <1>t, <2>1, <2>2 DEF Fresh
    <3> QED BY <1>s, <3>4, <3>5, <3>6
  <2> QED BY <2>1, <2>3, <2>4, <2>5
<1>9. CASE Dataloading \/ Gather \/ NothingLeft \/ Join \/ Close \/ Evaluating
  <2>1. UNCHANGED <<batch, workers, groups, wrapped>>
    BY <1>9 DEF Dataloading, DataloaderStep, RequeueStep, Gather, NothingLeft,
       Join, Close, Evaluating, EvalWake, EvalDone
  <2> QED BY <1>s, <2>1
<1> QED BY <1>1, <1>2, <1>3, <1>4, <1>5, <1>6, <1>7, <1>8, <1>9 DEF Next, Working, Training

(* Training on groups that are recent keeps the policy so. *)
LEMMA OnPolicyTrained ==
  ASSUME NEW G, OnPolicy(weights), \A g \in G : IsRecent(g)
  PROVE  OnPolicy(weights \cup Trained(G))
BY DEF OnPolicy, Trained, IsRecent

(* The row that is appended holds the policy; the last row is kept otherwise. *)
LEMMA LastRowStep ==
  ASSUME ProcessOK, StoredOK, Control, Next
  PROVE  \/ (LastRow)' = LastRow
         \/ /\ (LastRow)'.state = weights
            /\ \/ Open /\ IsAsync /\ (LastRow)'.batch = start
               \/ /\ Save /\ (LastRow)'.batch = SavedBatch
                  /\ SaveEvery > 0 /\ SavedBatch > 0 /\ SavedBatch % SaveEvery = 0
               \/ Close /\ start < NumBatches /\ (LastRow)'.batch = NumBatches
<1>1. \A b : Row(b).state = weights /\ Row(b).batch = b
  BY DEF Row
<1>2. CASE UNCHANGED rows
  BY <1>2 DEF LastRow
<1>3. CASE Open /\ IsAsync /\ rows' = Append(rows, Row(start)) /\ Row(start) \in Rows
  <2>1. (LastRow)' = Row(start)
    BY <1>3, NewLastRow DEF StoredOK
  <2> QED BY <1>1, <1>3, <2>1
<1>4. CASE /\ Save /\ rows' = Append(rows, Row(SavedBatch)) /\ Row(SavedBatch) \in Rows
           /\ SaveEvery > 0 /\ SavedBatch > 0 /\ SavedBatch % SaveEvery = 0
  <2>1. (LastRow)' = Row(SavedBatch)
    BY <1>4, NewLastRow DEF StoredOK
  <2> QED BY <1>1, <1>4, <2>1
<1>5. CASE /\ Close /\ start < NumBatches
           /\ rows' = Append(rows, Row(NumBatches)) /\ Row(NumBatches) \in Rows
  <2>1. (LastRow)' = Row(NumBatches)
    BY <1>5, NewLastRow DEF StoredOK
  <2> QED BY <1>1, <1>5, <2>1
<1> QED BY <1>2, <1>3, <1>4, <1>5, NextRow

(* Every step keeps the policy, and the one last saved, trained on recent groups only. *)
LEMMA RecentStep == Typed /\ Control /\ Aged /\ Recent /\ Next => Recent'
<1> SUFFICES ASSUME Typed, Control, Aged, Recent, Next PROVE Recent'
  OBVIOUS
<1>0. ProcessOK /\ LoaderOK /\ RollingOK /\ StoredOK
  BY DEF Typed
<1>1. \A W : OnPolicy(W)' <=> OnPolicy(W)
  BY SameConfig DEF OnPolicy
<1>2. OnPolicy(weights')
  <2>1. ASSUME NEW G \in SUBSET Groups, weights' = weights \cup Trained(G), \A g \in G : IsRecent(g)
        PROVE  OnPolicy(weights')
    BY <2>1, OnPolicyTrained DEF Recent
  <2>2. ASSUME NEW G \in SUBSET Groups, weights' = weights \cup Trained(G),
               SyncTrain, G \subseteq ToSet(groups)
        PROVE  OnPolicy(weights')
    <3>1. ~IsAsync
      BY <2>2 DEF SyncTrain, IsAsync
    <3>2. \A g \in G : IsRecent(g)
      BY <2>2, <3>1, NotStale DEF Aged
    <3> QED BY <2>1, <2>2, <3>2
  <2>3. ASSUME NEW G \in SUBSET Groups, weights' = weights \cup Trained(G),
               G = ToSet(wrapped)
        PROVE  OnPolicy(weights')
    BY <2>1, <2>3 DEF Aged
  <2>4. ASSUME NEW G \in SUBSET Groups, weights' = weights \cup Trained(G), groups # <<>>,
               G \subseteq ToSet(Append(wrapped, Head(groups))), IsAsync => ~IsStale(Head(groups))
        PROVE  OnPolicy(weights')
    <3>1. Head(groups) \in Groups /\ Head(groups) \in ToSet(groups)
      BY <1>0, <2>4, QueueTail DEF RollingOK
    <3>2. IsRecent(Head(groups))
      BY <2>4, <3>1, NotStale DEF Aged
    <3>3. ToSet(Append(wrapped, Head(groups))) = ToSet(wrapped) \cup {Head(groups)}
      BY <1>0, <3>1, OneAppended DEF RollingOK
    <3>4. \A g \in G : IsRecent(g)
      BY <2>4, <3>2, <3>3 DEF Aged
    <3> QED BY <2>1, <2>4, <3>4
  <2>5. OnPolicy(LastRow.state) /\ OnPolicy(weights) /\ OnPolicy({})
    BY DEF Recent, OnPolicy
  <2> QED BY <1>0, <2>2, <2>3, <2>4, <2>5, NextWeights
<1>3. OnPolicy((LastRow)'.state)
  BY <1>0, LastRowStep DEF Recent
<1> QED BY <1>1, <1>2, <1>3 DEF Recent

-----------------------------------------------------------------------------
(* Policy, archive and checkpoints *)

(* A group that is queued or collected was so before, or its rollout has ended. *)
LEMMA QueuedStep ==
  ASSUME Typed, Control, Next,
         NEW g \in ToSet(groups') \cup ToSet(wrapped')
  PROVE  \/ g \in ToSet(groups) \cup ToSet(wrapped)
         \/ \E w \in Workers : FinishRollout(w) /\ g.builder = workers[w].builder
<1> USE DEF process, loop, loader, rolling
<1>0. RollingOK
  BY DEF Typed
<1>t. ToSet(<<>>) = {}
  BY DEF ToSet
<1>1. CASE Start \/ Crash
  BY <1>1, <1>t DEF Start, Crash, Quiet
<1>2. CASE SyncTrain \/ AsyncTrain
  BY <1>2, <1>t DEF SyncTrain, AsyncTrain
<1>3. CASE Collect \/ Peek \/ StreamTake
  <2>1. groups # <<>> /\ groups \in Seq(Groups) /\ wrapped \in Seq(Groups)
    BY <1>0, <1>3 DEF Collect, Peek, StreamTake, RollingOK
  <2>2. Head(groups) \in Groups /\ Tail(groups) \in Seq(Groups)
    BY <2>1, QueueTail
  <2>3. ToSet(groups) = {Head(groups)} \cup ToSet(Tail(groups))
    BY <2>1, QueueTail
  <2>4. /\ ToSet(Append(Tail(groups), Head(groups))) = ToSet(Tail(groups)) \cup {Head(groups)}
        /\ ToSet(Append(wrapped, Head(groups))) = ToSet(wrapped) \cup {Head(groups)}
    <3>1. ASSUME NEW s \in Seq(Groups)
          PROVE  ToSet(Append(s, Head(groups))) = ToSet(s) \cup {Head(groups)}
      <4>1. Head(groups) \in Groups
        BY <2>2
      <4> HIDE <2>2
      <4> QED BY <4>1, OneAppended
    <3> QED BY <2>1, <2>2, <3>1
  <2>5. groups' \in {Tail(groups), Append(Tail(groups), Head(groups))}
    BY <1>3 DEF Collect, Peek, StreamTake
  <2>6. wrapped' \in {wrapped, <<>>, Append(wrapped, Head(groups))}
    BY <1>3 DEF Collect, Peek, StreamTake, Drop, PutBack, Minibatch
  <2>7. ToSet(groups') \subseteq ToSet(groups)
    BY <2>3, <2>4, <2>5
  <2>8. ToSet(wrapped') \subseteq ToSet(groups) \cup ToSet(wrapped)
    <3>1. Head(groups) \in ToSet(groups)
      BY <2>3
    <3>2. CASE wrapped' = Append(wrapped, Head(groups))
      BY <2>4, <3>1, <3>2
    <3> QED BY <1>t, <2>6, <3>2
  <2> QED BY <2>7, <2>8
<1>4. ASSUME NEW w \in Workers, FinishRollout(w)
      PROVE  g \in ToSet(groups) \cup ToSet(wrapped) \/ g.builder = workers[w].builder
  <2>1. UNCHANGED wrapped
    BY <1>4 DEF FinishRollout
  <2>2. PICK constant \in BOOLEAN : groups' = Append(groups, Group(w, constant))
    BY <1>4 DEF FinishRollout
  <2>3. w \in Rolled
    BY <1>4 DEF FinishRollout, Rolled
  <2>4. Group(w, constant) \in Groups /\ groups \in Seq(Groups)
    BY <1>0, <2>3 DEF Group, Groups, RollingOK, Tasks, Items
  <2>5. ToSet(groups') = ToSet(groups) \cup {Group(w, constant)}
    BY <2>2, <2>4, OneAppended
  <2>6. Group(w, constant).builder = workers[w].builder
    BY DEF Group
  <2> QED BY <2>1, <2>5, <2>6
<1>5. CASE \/ Dataloading \/ (\E w \in Workers : TakeBuilder(w)) \/ Open \/ BeginBatch \/ Gather
           \/ Save \/ FlushStep \/ NothingLeft \/ Join \/ Close \/ Evaluating
  <2>1. UNCHANGED <<groups, wrapped>>
    BY <1>5 DEF Dataloading, DataloaderStep, RequeueStep, TakeBuilder, Open, BeginBatch, Gather,
       Save, FlushStep, NothingLeft, Join, Close, Evaluating, EvalWake, EvalDone
  <2> QED BY <2>1
<1> QED BY <1>1, <1>2, <1>3, <1>4, <1>5 DEF Next, Working, Training

(* What is trained was queued or collected. *)
LEMMA TrainedQueued ==
  ASSUME RollingOK, NEW G \in SUBSET Groups,
         \/ G \subseteq ToSet(groups) \/ G = ToSet(wrapped)
         \/ groups # <<>> /\ G \subseteq ToSet(Append(wrapped, Head(groups)))
  PROVE  G \subseteq ToSet(groups) \cup ToSet(wrapped)
<1>1. CASE groups # <<>> /\ G \subseteq ToSet(Append(wrapped, Head(groups)))
  <2>1. groups \in Seq(Groups) /\ wrapped \in Seq(Groups)
    BY DEF RollingOK
  <2>2. Head(groups) \in Groups /\ Head(groups) \in ToSet(groups)
    BY <1>1, <2>1, QueueTail
  <2>3. ToSet(Append(wrapped, Head(groups))) = ToSet(wrapped) \cup {Head(groups)}
    BY <2>1, <2>2, OneAppended
  <2> QED BY <1>1, <2>2, <2>3
<1> QED BY <1>1

(* The builders of two sets of points are those of one or the other. *)
LEMMA BuildingUnion ==
  ASSUME NEW V, NEW W
  PROVE  Building(V \cup W) = Building(V) \cup Building(W) /\ Building({}) = {}
BY DEF Building

(* Every step keeps the archive ahead of the policy and of the queues. *)
LEMMA RecordedStep == Typed /\ Control /\ Recorded /\ SavedRow /\ Next => Recorded'
<1> SUFFICES ASSUME Typed, Control, Recorded, SavedRow, Next PROVE Recorded'
  OBVIOUS
<1>0. ProcessOK /\ LoaderOK /\ RollingOK /\ StoredOK
  BY DEF Typed
<1>n. batch \in Nat
  <2>1. batch \in 0 .. NumBatches
    BY <1>0 DEF ProcessOK
  <2> QED BY <2>1, Constants
<1>1. CASE Start
  <2>1. weights' = LastRow.state /\ groups' = <<>> /\ wrapped' = <<>> /\ pc' \in {"open", "failed"}
    BY <1>1 DEF Start, Quiet
  <2>2. pc' = "open" => Building(LastRow.state) \subseteq archive'
    <3>1. pc' = "open" => ~StartFails(LastRow.batch) /\ archive' = Reloaded(LastRow.batch)
      BY <1>1 DEF Start
    <3>2. LastRow.batch \in 0 .. NumBatches
      BY <1>0, LastRowType DEF StoredOK
    <3>3. LastRow.batch = 0 => Building(LastRow.state) = {}
      BY DEF SavedRow, Building
    <3>4. LastRow.batch \in DOMAIN files => Building(LastRow.state) \subseteq files[LastRow.batch]
      BY DEF SavedRow
    <3> QED BY <3>1, <3>2, <3>3, <3>4, Constants DEF StartFails, Reloaded
  <2>3. BuildersOf(ToSet(groups')) \cup BuildersOf(ToSet(wrapped')) = {}
    BY <2>1 DEF BuildersOf, ToSet
  <2> QED BY <2>1, <2>2, <2>3 DEF Recorded, Building, BuildersOf
<1>2. CASE Crash
  <2>1. weights' = {} /\ groups' = <<>> /\ wrapped' = <<>>
    BY <1>2 DEF Crash, Quiet
  <2>2. /\ Building(weights') = {}
        /\ BuildersOf(ToSet(groups')) \cup BuildersOf(ToSet(wrapped')) = {}
    BY <2>1 DEF BuildersOf, ToSet, Building
  <2> QED BY <2>1, <2>2 DEF Recorded, Building, BuildersOf
<1>3. CASE ~Start /\ ~Crash
  <2>1. archive \subseteq archive'
        /\ \A w \in Workers : FinishRollout(w) => workers[w].builder \in archive'
    BY <1>3, NextArchive DEF FinishRollout
  <2>2. \A g \in ToSet(groups') \cup ToSet(wrapped') : g.builder \in archive'
    <3>1. \A g \in ToSet(groups) \cup ToSet(wrapped) : g.builder \in archive
      BY DEF Recorded, BuildersOf
    <3> QED BY <2>1, <3>1, QueuedStep
  <2>3. pc' # "failed" => Building(weights') \subseteq archive'
    <3>1. pc = "failed" => pc' = "failed"
      BY <1>3 DEF Next, Dataloading, DataloaderStep, RequeueStep, Working, TakeBuilder,
         FinishRollout, Training, Open, BeginBatch, Gather, SyncTrain, Collect, AsyncTrain, Peek,
         StreamTake, Save, FlushStep, NothingLeft, Join, Close, Evaluating, EvalWake, EvalDone,
         loop, Alive
    <3>2. CASE UNCHANGED weights
      BY <2>1, <3>1, <3>2 DEF Recorded
    <3>3. ASSUME NEW G \in SUBSET Groups, weights' = weights \cup Trained(G),
                 G \subseteq ToSet(groups) \cup ToSet(wrapped), pc # "failed"
          PROVE  Building(weights') \subseteq archive'
      <4>1. BuildersOf(G) \subseteq archive
        BY <3>3 DEF Recorded, BuildersOf
      <4>2. Building(weights') = Building(weights) \cup BuildersOf(G)
        BY <1>n, <3>3, BuildingUnion, TrainedPoints
      <4> QED BY <2>1, <3>3, <4>1, <4>2 DEF Recorded
    <3> QED BY <1>0, <1>3, <3>1, <3>2, <3>3, NextWeights, TrainedQueued
  <2> QED BY <2>2, <2>3 DEF Recorded, Building, BuildersOf
<1> QED BY <1>1, <1>2, <1>3

(* With eval_BoN no step trains, nor saves a trained policy. *)
LEMMA BestOfNStep == Typed /\ Control /\ BestOfN /\ Next => BestOfN'
<1> SUFFICES ASSUME Typed, Control, BestOfN, Next, config.bon PROVE BestOfN'
  BY SameConfig DEF BestOfN
<1>0. ProcessOK /\ RollingOK /\ StoredOK
  BY DEF Typed
<1>1. ~Streams /\ ~IsAsync
  BY <1>0, Loops DEF ProcessOK
<1>2. weights = {} /\ LastRow.state = {} /\ Trained({}) = {}
  BY DEF BestOfN, Trained
<1>3. weights' = {}
  BY <1>0, <1>1, <1>2, NextWeights DEF AsyncTrain, StreamTake
<1>4. (LastRow)'.state = {}
  BY <1>0, <1>2, LastRowStep
<1> QED BY <1>3, <1>4 DEF BestOfN

(* No step lets the last row run ahead of the training loop, but between save and flush. *)
LEMMA RestartedStep == Typed /\ Control /\ Restarted /\ Next => Restarted'
<1> SUFFICES ASSUME Typed, Control, Restarted, Next PROVE Restarted'
  OBVIOUS
<1> USE DEF process, loop, disk
<1>0. ProcessOK /\ RollingOK /\ StoredOK
  BY DEF Typed
<1>l. /\ config.loop \in {"sync", "stream", "async"} /\ (config.bon => config.loop = "sync")
      /\ (IsAsync <=> config.loop = "async")
  BY <1>0, Loops DEF ProcessOK
<1>n. batch \in Nat /\ LastRow.batch \in Nat /\ NumBatches \in Nat /\ SaveEvery \in Nat
  <2>1. batch \in 0 .. NumBatches
    BY <1>0 DEF ProcessOK
  <2>2. LastRow.batch \in 0 .. NumBatches
    BY <1>0, LastRowType DEF StoredOK
  <2> QED BY <2>1, <2>2, Constants
<1>r. UNCHANGED rows => (LastRow)' = LastRow
  BY DEF LastRow
<1>1. CASE Start
  <2>1. /\ UNCHANGED rows /\ start' = LastRow.batch /\ batch' = LastRow.batch
        /\ weights' = LastRow.state /\ pc' \in {"open", "failed"}
    BY <1>1 DEF Start
  <2> QED BY <1>n, <1>r, <2>1 DEF Restarted
<1>2. CASE Crash \/ FlushStep
  <2>1. UNCHANGED rows /\ \/ pc' = "down"
                          \/ pc = "flush" /\ batch' = batch + 1
                             /\ pc' \in {"begin", "collect", "join", "failed"}
    BY <1>2 DEF Crash, FlushStep, EndLoop
  <2> QED BY <1>n, <1>r, <2>1 DEF Restarted
<1>3. CASE Open
  <2>1. UNCHANGED batch /\ pc = "open" /\ pc' \in {"collect", "begin"}
    BY <1>3 DEF Open
  <2>2. LastRow.batch = start /\ start = batch
    BY <2>1 DEF Control, Restarted
  <2>3. (LastRow)'.batch = batch
    BY <1>0, <1>3, <2>1, <2>2, LastRowStep DEF Save, Close
  <2> QED BY <1>n, <2>1, <2>3 DEF Restarted
<1>4. CASE Save
  <2>1. /\ UNCHANGED weights /\ pc = "save"
        /\ \/ config.loop = "sync" /\ pc' = "begin" /\ batch' = batch + 1
           \/ config.loop # "sync" /\ pc' = "flush" /\ UNCHANGED batch
    BY <1>4 DEF Save
  <2>2. LastRow.batch <= batch
    BY <2>1 DEF Restarted
  <2>3. SavedBatch \in {batch, batch + 1} /\ (config.loop # "sync" => SavedBatch = batch + 1)
    BY <1>l DEF SavedBatch
  <2>4. \/ (LastRow)' = LastRow
        \/ (LastRow)'.batch = SavedBatch /\ (LastRow)'.state = weights
    BY <1>0, <2>1, LastRowStep DEF Open, Close
  <2>5. (LastRow)'.batch <= batch + 1
    BY <1>n, <2>2, <2>3, <2>4
  <2>6. ASSUME config.loop # "sync", SaveEvery > 0, (batch + 1) % SaveEvery = 0
        PROVE  (LastRow)'.batch = batch + 1
    <3>1. SavedBatch = batch + 1 /\ batch + 1 > 0
      BY <1>n, <2>3, <2>6
    <3>2. rows' = Append(rows, Row(SavedBatch))
      BY <1>4, <2>6, <3>1 DEF Save, SavedRows
    <3>3. batch + 1 \in 0 .. NumBatches
      <4>1. batch < NumBatches
        BY <2>1 DEF Control
      <4> QED BY <1>n, <4>1
    <3>4. Row(batch + 1) \in Rows /\ Row(batch + 1).batch = batch + 1
      BY <1>0, <3>3 DEF Row, Rows, StoredOK
    <3> QED BY <1>0, <3>1, <3>2, <3>4, NewLastRow DEF StoredOK
  <2>7. (LastRow)'.batch = batch + 1 => (LastRow)'.state = weights
    BY <1>n, <2>2, <2>4
  <2> QED BY <1>n, <2>1, <2>5, <2>6, <2>7 DEF Restarted
<1>5. CASE Close
  <2>1. pc' = "closed"
    BY <1>5 DEF Close
  <2> QED BY <2>1 DEF Restarted
<1>6. CASE BeginBatch \/ Gather \/ SyncTrain \/ Collect \/ AsyncTrain \/ Peek \/ StreamTake
           \/ NothingLeft \/ Join
  <2>1. /\ UNCHANGED <<rows, batch, start>> /\ pc \in {"begin", "collect", "stream", "train", "join"}
        /\ pc' \in {"begin", "collect", "stream", "train", "save", "join", "final", "failed"}
    BY <1>6 DEF BeginBatch, Gather, SyncTrain, Collect, AsyncTrain, Peek, StreamTake, Minibatch,
       NothingLeft, Join, EndLoop
  <2> QED BY <1>r, <2>1 DEF Restarted
<1>7. CASE Dataloading \/ (\E w \in Workers : Working(w)) \/ Evaluating
  <2>1. UNCHANGED <<rows, batch, start, pc, weights>>
    BY <1>7 DEF Dataloading, DataloaderStep, RequeueStep, Working, TakeBuilder, FinishRollout,
       Evaluating, EvalWake, EvalDone
  <2> QED BY <1>r, <2>1 DEF Restarted
<1> QED BY <1>1, <1>2, <1>3, <1>4, <1>5, <1>6, <1>7 DEF Next, Training

(* The sampler's file of a row is written before the row in the synchronous loop,
   after it in the others, and with the same archive or a larger one. *)
LEMMA SavedRowStep ==
  Typed /\ Control /\ Recorded /\ SavedRow /\ BestOfN /\ Restarted /\ Unsaved /\ Flushes /\ Next
    => SavedRow'
<1> SUFFICES ASSUME Typed, Control, Recorded, SavedRow, BestOfN, Restarted, Unsaved, Flushes, Next
             PROVE  SavedRow'
  OBVIOUS
<1>0. ProcessOK /\ RollingOK /\ StoredOK
  BY DEF Typed
<1>c. config' = config
  BY SameConfig
<1>l. config.bon => config.loop = "sync"
  BY <1>0, Loops DEF ProcessOK
<1>n. batch \in Nat /\ LastRow.batch \in Nat /\ NumBatches \in Nat \ {0} /\ SaveEvery \in Nat
      /\ start \in Nat
  <2>1. batch \in 0 .. NumBatches /\ start \in 0 .. NumBatches
    BY <1>0 DEF ProcessOK
  <2>2. LastRow.batch \in 0 .. NumBatches
    BY <1>0, LastRowType DEF StoredOK
  <2> QED BY <2>1, <2>2, Constants
<1>1. CASE (LastRow)' = LastRow
  <2>1. CASE UNCHANGED files
    BY <1>1, <1>c, <2>1 DEF SavedRow, Building
  <2>2. CASE files' = [j \in DOMAIN files \cup {0} |-> IF j = 0 THEN {} ELSE files[j]]
    <3>1. LastRow.batch \in DOMAIN files' => Building(LastRow.state) \subseteq files'[LastRow.batch]
      BY <2>2 DEF SavedRow, Building
    <3>2. DOMAIN files \subseteq DOMAIN files'
      BY <2>2
    <3> QED BY <1>1, <1>c, <3>1, <3>2 DEF SavedRow, Building
  <2>3. CASE /\ Gather \/ FlushStep
             /\ files' = [j \in DOMAIN files \cup {batch + 1} |->
                            IF j = batch + 1 THEN archive ELSE files[j]]
    <3>1. DOMAIN files \subseteq DOMAIN files'
      BY <2>3
    <3>2. LastRow.batch \in DOMAIN files' => Building(LastRow.state) \subseteq files'[LastRow.batch]
      <4>1. CASE LastRow.batch # batch + 1
        BY <2>3, <4>1 DEF SavedRow
      <4>2. CASE LastRow.batch = batch + 1
        <5>1. pc = "flush"
          <6>1. ~(LastRow.batch <= batch)
            BY <1>n, <4>2
          <6> QED BY <2>3, <6>1 DEF Gather, FlushStep, Restarted
        <5>2. Building(LastRow.state) \subseteq archive
          BY <4>2, <5>1 DEF Restarted, Recorded
        <5>3. files'[LastRow.batch] = archive
          BY <2>3, <4>2
        <5> QED BY <5>2, <5>3
      <4> QED BY <4>1, <4>2
    <3> QED BY <1>1, <1>c, <3>1, <3>2 DEF SavedRow, Building
  <2> QED BY <1>0, <2>1, <2>2, <2>3, NextFiles
<1>2. ASSUME Open, IsAsync, (LastRow)'.state = weights, (LastRow)'.batch = start
      PROVE  SavedRow'
  <2>1. LastRow.batch = start /\ LastRow.state = weights
    BY <1>2 DEF Open, Restarted
  <2>2. UNCHANGED files /\ config.loop # "sync"
    BY <1>2 DEF Open, IsAsync
  <2> QED BY <1>2, <1>c, <2>1, <2>2 DEF SavedRow, Building
<1>3. ASSUME Save, (LastRow)'.state = weights, (LastRow)'.batch = SavedBatch,
             SaveEvery > 0, SavedBatch > 0, SavedBatch % SaveEvery = 0
      PROVE  SavedRow'
  <2>1. UNCHANGED files /\ pc = "save"
    BY <1>3 DEF Save
  <2>2. CASE config.loop = "sync"
    <3>1. batch + 1 \in DOMAIN files /\ Building(weights) \subseteq files[batch + 1]
          /\ (batch > 0 => batch \in DOMAIN files)
      BY <2>1, <2>2 DEF Flushes
    <3>2. CASE config.bon
      <4>1. Building(weights) = {} /\ SavedBatch = batch
        BY <3>2 DEF BestOfN, SavedBatch, Building
      <4> QED BY <1>3, <1>n, <2>1, <3>1, <4>1 DEF SavedRow, Building
    <3>3. CASE ~config.bon
      <4>1. SavedBatch = batch + 1
        BY <3>3 DEF SavedBatch
      <4> QED BY <1>3, <1>n, <2>1, <3>1, <4>1 DEF SavedRow, Building
    <3> QED BY <3>2, <3>3
  <2>3. CASE config.loop # "sync"
    <3>1. SavedBatch = batch + 1
      BY <1>l, <2>3 DEF SavedBatch
    <3>2. batch + 1 \notin DOMAIN files
      <4>1. LastRow.batch <= batch
        BY <2>1 DEF Restarted
      <4>2. batch + 1 \in DOMAIN files => batch + 1 <= LastRow.batch
        BY <1>3, <2>3, <3>1 DEF Unsaved
      <4> QED BY <1>n, <4>1, <4>2
    <3>3. (LastRow)'.batch # 0 /\ (LastRow)'.batch \notin DOMAIN files'
      BY <1>3, <1>n, <2>1, <3>1, <3>2
    <3> QED BY <1>c, <2>3, <3>3 DEF SavedRow
  <2> QED BY <2>2, <2>3
<1>4. ASSUME Close, start < NumBatches, (LastRow)'.state = weights, (LastRow)'.batch = NumBatches
      PROVE  SavedRow'
  <2>1. UNCHANGED files /\ pc = "final"
    BY <1>4 DEF Close
  <2>2. batch = NumBatches
    BY <2>1 DEF Control
  <2>3. batch \in DOMAIN files /\ Building(weights) \subseteq files[batch]
    BY <1>4, <2>1, <2>2 DEF Flushes
  <2> QED BY <1>4, <1>n, <2>1, <2>2, <2>3 DEF SavedRow, Building
<1> QED BY <1>0, <1>1, <1>2, <1>3, <1>4, LastRowStep

(* No step of the loops that save before they flush leaves a file of a step that should
   have been saved and was not. *)
LEMMA UnsavedStep == Typed /\ Control /\ Restarted /\ Unsaved /\ Next => Unsaved'
<1> SUFFICES ASSUME Typed, Control, Restarted, Unsaved, Next, config.loop # "sync" PROVE Unsaved'
  BY SameConfig DEF Unsaved
<1>0. ProcessOK /\ RollingOK /\ StoredOK
  BY DEF Typed
<1>l. ~config.bon
  BY <1>0, Loops DEF ProcessOK
<1>n. batch \in Nat /\ LastRow.batch \in Nat /\ NumBatches \in Nat \ {0} /\ batch <= NumBatches
      /\ DOMAIN files \subseteq Nat
  <2>1. batch \in 0 .. NumBatches /\ DOMAIN files \subseteq 0 .. NumBatches
    BY <1>0 DEF ProcessOK, StoredOK
  <2>2. LastRow.batch \in 0 .. NumBatches
    BY <1>0, LastRowType DEF StoredOK
  <2> QED BY <2>1, <2>2, Constants
<1>1. (LastRow)'.batch \in Nat /\ LastRow.batch <= (LastRow)'.batch
  <2>1. CASE (LastRow)' = LastRow
    BY <1>n, <2>1
  <2>2. CASE Open /\ (LastRow)'.batch = start
    <3>1. LastRow.batch = start
      BY <2>2 DEF Open, Restarted
    <3> QED BY <1>n, <2>2, <3>1
  <2>3. CASE Save /\ (LastRow)'.batch = SavedBatch
    <3>1. LastRow.batch <= batch /\ SavedBatch = batch + 1
      BY <1>l, <2>3 DEF Save, Restarted, SavedBatch
    <3> QED BY <1>n, <2>3, <3>1
  <2>4. CASE Close /\ (LastRow)'.batch = NumBatches
    <3>1. LastRow.batch <= batch
      BY <2>4 DEF Close, Restarted
    <3> QED BY <1>n, <2>4, <3>1
  <2> QED BY <1>0, <2>1, <2>2, <2>3, <2>4, LastRowStep
<1>2. ASSUME NEW k \in DOMAIN files', k > 0, SaveEvery > 0, k % SaveEvery = 0
      PROVE  k <= (LastRow)'.batch
  <2>1. CASE k \in DOMAIN files
    <3>1. k <= LastRow.batch
      BY <1>2, <2>1 DEF Unsaved
    <3> QED BY <1>1, <1>n, <2>1, <3>1
  <2>2. CASE k = batch + 1 /\ FlushStep
    <3>1. LastRow.batch = batch + 1
      BY <1>2, <2>2 DEF FlushStep, Restarted
    <3> QED BY <1>1, <2>2, <3>1
  <2>3. k # 0
    BY <1>2
  <2> QED BY <1>0, <2>1, <2>2, <2>3, NextFiles DEF Gather
<1> QED BY <1>2 DEF Unsaved

(* Every step keeps the file a row will need there before the row is. *)
LEMMA FlushesStep ==
  Typed /\ Control /\ Gathered /\ Recorded /\ SavedRow /\ Restarted /\ Flushes /\ Next => Flushes'
<1> SUFFICES ASSUME Typed, Control, Gathered, Recorded, SavedRow, Restarted, Flushes, Next
             PROVE  Flushes'
  OBVIOUS
<1> USE DEF process, loop, loader, rolling, disk
<1>0. ProcessOK /\ RollingOK /\ StoredOK
  BY DEF Typed
<1>c. config' = config
  BY SameConfig
<1>l. /\ config.loop \in {"sync", "stream", "async"} /\ (config.bon => config.loop = "sync")
      /\ (config.loop = "sync" => ~IsAsync /\ ~Streams)
  BY <1>0, Loops DEF ProcessOK
<1>n. batch \in Nat /\ start \in Nat /\ start <= batch
  <2>1. batch \in 0 .. NumBatches /\ start \in 0 .. NumBatches
    BY <1>0 DEF ProcessOK
  <2> QED BY <2>1, Constants DEF Control
<1>1. CASE Start
  <2>1. /\ pc' \in {"open", "failed"} /\ batch' = LastRow.batch
        /\ pc' = "open" => ~StartFails(LastRow.batch)
        /\ DOMAIN files' = DOMAIN files \cup {0}
    BY <1>1 DEF Start
  <2> QED BY <1>c, <2>1 DEF Flushes, StartFails
<1>2. CASE Crash
  <2>1. pc' = "down"
    BY <1>2 DEF Crash
  <2> QED BY <2>1 DEF Flushes
<1>3. CASE Open
  <2>1. UNCHANGED <<batch, start, files>> /\ pc = "open" /\ pc' \in {"collect", "begin"}
    BY <1>3 DEF Open
  <2>2. ~(start < batch)
    BY <1>n, <2>1 DEF Control
  <2> QED BY <1>c, <2>1, <2>2 DEF Flushes
<1>4. CASE Gather
  <2>1. /\ UNCHANGED <<batch, weights, groups>> /\ pc = "collect" /\ pc' = "train"
        /\ files' = [i \in DOMAIN files \cup {batch + 1} |-> IF i = batch + 1 THEN archive ELSE files[i]]
    BY <1>4 DEF Gather, Flushed
  <2>2. /\ DOMAIN files' = DOMAIN files \cup {batch + 1} /\ files'[batch + 1] = archive
    BY <2>1
  <2>3. Building(weights) \cup BuildersOf(ToSet(groups)) \subseteq archive
    BY <2>1 DEF Recorded
  <2> QED BY <1>c, <2>1, <2>2, <2>3 DEF Flushes, Building, BuildersOf
<1>5. CASE SyncTrain
  <2>1. /\ UNCHANGED <<batch, files>> /\ pc = "train" /\ pc' = "save" /\ config.loop = "sync"
        /\ groups' = <<>>
    BY <1>5 DEF SyncTrain
  <2>2. PICK G \in SUBSET Groups : weights' = weights \cup Trained(G) /\ G \subseteq ToSet(groups)
    <3>1. \E G \in SUBSET Groups : weights' = weights \cup Trained(G) /\ G \subseteq ToSet(groups)
      <4>1. PICK G : /\ G = IF config.bon THEN {} ELSE Remaining
                     /\ weights' = weights \cup Trained(G)
        BY <1>5 DEF SyncTrain
      <4>2. G \subseteq ToSet(groups) /\ ToSet(groups) \subseteq Groups
        BY <1>0, <4>1 DEF Remaining, RollingOK, ToSet
      <4> QED BY <4>1, <4>2
    <3> QED BY <3>1
  <2>3. batch + 1 \in DOMAIN files
        /\ Building(weights) \cup BuildersOf(ToSet(groups)) \subseteq files[batch + 1]
    BY <2>1 DEF Flushes
  <2>4. Building(weights') \subseteq files[batch + 1]
    <3>1. Building(weights') = Building(weights) \cup BuildersOf(G)
      BY <1>n, <2>2, BuildingUnion, TrainedPoints
    <3>2. BuildersOf(G) \subseteq BuildersOf(ToSet(groups))
      BY <2>2 DEF BuildersOf
    <3> QED BY <2>3, <3>1, <3>2
  <2>5. BuildersOf(ToSet(groups')) = {}
    BY <2>1 DEF BuildersOf, ToSet
  <2>6. config.loop = "sync" /\ batch > 0 => batch \in DOMAIN files
    BY <2>1 DEF Flushes
  <2> QED BY <1>c, <2>1, <2>3, <2>4, <2>5, <2>6 DEF Flushes, Building, BuildersOf
<1>6. CASE Save
  <2>1. /\ UNCHANGED <<weights, groups, files, start>> /\ pc = "save"
        /\ \/ config.loop = "sync" /\ pc' = "begin" /\ batch' = batch + 1
           \/ config.loop # "sync" /\ pc' = "flush" /\ UNCHANGED batch
    BY <1>6 DEF Save
  <2>2. config.loop = "sync" =>
          batch + 1 \in DOMAIN files /\ Building(weights) \subseteq files[batch + 1]
    BY <2>1 DEF Flushes
  <2> QED BY <1>c, <2>1, <2>2 DEF Flushes, Building
<1>7. CASE FlushStep
  <2>1. /\ UNCHANGED <<weights, groups, start>> /\ pc = "flush" /\ batch' = batch + 1
        /\ pc' \in {"begin", "collect", "join", "failed"}
        /\ files' = [i \in DOMAIN files \cup {batch + 1} |-> IF i = batch + 1 THEN archive ELSE files[i]]
    BY <1>7 DEF FlushStep, EndLoop, Flushed
  <2>2. DOMAIN files' = DOMAIN files \cup {batch + 1} /\ files'[batch + 1] = archive
    BY <2>1
  <2>3. Building(weights) \subseteq archive /\ config.loop # "sync"
    BY <2>1 DEF Recorded, Control
  <2> QED BY <1>c, <2>1, <2>2, <2>3 DEF Flushes, Building
<1>8. CASE NothingLeft
  <2>1. UNCHANGED <<batch, start, files>> /\ pc' \in {"join", "failed"} /\ IsAsync
        /\ pc = "collect" /\ batch >= NumBatches
    BY <1>8 DEF NothingLeft, EndLoop
  <2>2. ~(start < batch)
    <3>1. start = batch
      BY <2>1 DEF Control
    <3> QED BY <1>n, <3>1
  <2> QED BY <1>c, <1>l, <2>1, <2>2 DEF Flushes
<1>9. CASE BeginBatch \/ Join \/ Close
  <2>1. /\ UNCHANGED <<batch, start, files, weights, groups>> /\ pc \in {"begin", "join", "final"}
        /\ pc' \in {"collect", "final", "closed"}
    BY <1>9 DEF BeginBatch, Join, Close
  <2> QED BY <1>c, <2>1 DEF Flushes, Building
<1>10. CASE Collect \/ AsyncTrain \/ Peek \/ StreamTake
  <2>1. config.loop # "sync"
    BY <1>10, <1>l DEF Collect, AsyncTrain, Peek, StreamTake
  <2>2. pc' \in {"collect", "stream", "train", "save", "failed"}
    BY <1>10 DEF Collect, AsyncTrain, Peek, StreamTake, Minibatch
  <2> QED BY <1>c, <2>1, <2>2 DEF Flushes
<1>11. ASSUME NEW w \in Workers, FinishRollout(w) PROVE Flushes'
  <2>1. UNCHANGED <<batch, start, files, weights, pc>>
    BY <1>11 DEF FinishRollout
  <2>2. w \in Rolled
    BY <1>11 DEF FinishRollout, Rolled
  <2>3. ~IsAsync => pc \in {"collect", "failed"}
    BY <2>2 DEF Gathered
  <2>4. CASE IsAsync
    <3>1. config.loop # "sync"
      BY <1>l, <2>4
    <3> QED BY <1>c, <2>1, <3>1 DEF Flushes, Building
  <2>5. CASE ~IsAsync
    <3>1. pc \in {"collect", "failed"}
      BY <2>3, <2>5
    <3> QED BY <1>c, <2>1, <3>1 DEF Flushes
  <2> QED BY <2>4, <2>5
<1>12. CASE Dataloading \/ (\E w \in Workers : TakeBuilder(w)) \/ Evaluating
  <2>1. UNCHANGED <<batch, start, files, weights, groups, pc>>
    BY <1>12 DEF Dataloading, DataloaderStep, RequeueStep, TakeBuilder, Evaluating, EvalWake,
       EvalDone
  <2> QED BY <1>c, <2>1 DEF Flushes, Building, BuildersOf
<1> QED BY <1>1, <1>2, <1>3, <1>4, <1>5, <1>6, <1>7, <1>8, <1>9, <1>10, <1>11, <1>12
        DEF Next, Working, Training

-----------------------------------------------------------------------------
(* Every batch is of one run *)

(* A batch that a crash interrupted is rolled out again from its start, on an
   archive that was reloaded from before it. *)
LEMMA SeparateStep ==
  Typed /\ Control /\ Gathered /\ Separate /\ Next => Separate'
<1> SUFFICES ASSUME Typed, Control, Gathered, Separate, Next, ~IsAsync PROVE Separate'
  BY SameConfig DEF Separate
<1> USE DEF process, loop, loader, rolling, disk
<1> DEFINE
      InBatch(A, b, s, r) == \A x \in A : x.batch <= b /\ (x.batch >= s => x.run = r)
      Now == \A w \in Rolled' : workers'[w].builder.batch = batch' /\ workers'[w].builder.run = run'
      Kept == \A k \in DOMAIN files' : OneRun(files'[k]) /\ \A x \in files'[k] : x.batch < k
<1>0. ProcessOK /\ LoaderOK /\ RollingOK /\ StoredOK
  BY DEF Typed
<1>c. config' = config /\ IsAsync' = IsAsync /\ config \in Configs
  BY <1>0, SameConfig DEF ProcessOK
<1>n. batch \in Nat /\ start \in Nat /\ start <= batch /\ LastRow.batch \in Nat
  <2>1. batch \in 0 .. NumBatches /\ start \in 0 .. NumBatches
    BY <1>0 DEF ProcessOK
  <2>2. LastRow.batch \in 0 .. NumBatches
    BY <1>0, LastRowType DEF StoredOK
  <2> QED BY <2>1, <2>2, Constants DEF Control
<1>a. archive \subseteq Items /\ \A x \in archive : x.batch \in Nat
  BY <1>0 DEF StoredOK, Items
<1>p. OneRun(archive) /\ InBatch(archive, batch, start, run)
  BY DEF Separate
<1>f. \A k \in DOMAIN files : OneRun(files[k]) /\ \A x \in files[k] : x.batch < k
  BY DEF Separate
<1>q. OneRun(archive') /\ InBatch(archive', batch', start', run') /\ Now /\ Kept => Separate'
  BY DEF Separate, OneRun
<1>s. /\ UNCHANGED files => Kept
      /\ UNCHANGED <<archive, batch, start, run>>
           => OneRun(archive') /\ InBatch(archive', batch', start', run')
      /\ UNCHANGED <<workers, batch, run>> => Now
      /\ Rolled' = {} => Now
  <2>1. UNCHANGED workers => Rolled' = Rolled
    BY <1>c, RolledSame
  <2> QED BY <1>f, <1>p, <2>1 DEF Separate
<1> HIDE DEF InBatch, Now, Kept
<1>1. CASE Start
  <2>1. /\ start' = LastRow.batch /\ batch' = LastRow.batch
        /\ workers' = [w \in Workers |-> Exited]
        /\ files' = [i \in DOMAIN files \cup {0} |-> IF i = 0 THEN {} ELSE files[i]]
    BY <1>1 DEF Start, Quiet
  <2>2. Now
    BY <1>0, <1>c, <1>s, <2>1, RolledQuiet
  <2>3. Kept
    BY <1>f, <2>1 DEF Kept, OneRun
  <2>4. OneRun(archive') /\ InBatch(archive', batch', start', run')
    <3>1. CASE archive' = {}
      BY <3>1 DEF OneRun, InBatch
    <3>2. CASE ~StartFails(LastRow.batch) /\ archive' = Reloaded(LastRow.batch) /\ LastRow.batch > 0
      <4>1. LastRow.batch \in DOMAIN files /\ archive' = files[LastRow.batch]
        BY <3>2 DEF StartFails, Reloaded
      <4>2. OneRun(archive') /\ \A x \in archive' : x.batch < LastRow.batch /\ x.batch \in Nat
        BY <1>0, <1>f, <4>1 DEF StoredOK, Items
      <4>3. \A x \in archive' : x.batch <= batch' /\ ~(x.batch >= start')
        <5>1. batch' = LastRow.batch /\ start' = LastRow.batch
          BY <2>1
        <5> QED BY <1>n, <4>2, <5>1
      <4> QED BY <4>2, <4>3 DEF InBatch
    <3> QED BY <1>1, <1>n, <3>1, <3>2 DEF Start, Reloaded
  <2> QED BY <1>q, <2>2, <2>3, <2>4
<1>2. CASE Crash
  <2>1. UNCHANGED files /\ archive' = {} /\ workers' = [w \in Workers |-> Exited]
    BY <1>2 DEF Crash, Quiet
  <2>2. Rolled' = {}
    BY <1>0, <1>c, <2>1, RolledQuiet
  <2>3. OneRun(archive') /\ InBatch(archive', batch', start', run')
    BY <2>1 DEF OneRun, InBatch
  <2> QED BY <1>q, <1>s, <2>1, <2>2, <2>3
<1>3. ASSUME NEW w \in Workers, FinishRollout(w) PROVE Separate'
  <2>1. UNCHANGED <<batch, start, run, files>> /\ archive' = archive \cup {workers[w].builder}
    BY <1>3 DEF FinishRollout
  <2>2. /\ w \in Rolled /\ Rolled' = Rolled \ {w}
        /\ \A v \in Workers \ {w} : workers'[v] = workers[v]
    BY <1>0, <1>c, <1>3, RolledFinish
  <2>3. PICK b : b = workers[w].builder /\ b.batch = batch /\ b.run = run
    BY <2>2 DEF Separate
  <2>4. Now
    BY <2>1, <2>2 DEF Now, Separate, Rolled
  <2>5. InBatch(archive', batch', start', run')
    <3>1. \A x \in archive' : x \in archive \/ x = b
      BY <2>1, <2>3
    <3> QED BY <1>n, <1>p, <2>1, <2>3, <3>1 DEF InBatch
  <2>6. OneRun(archive')
    <3>1. \A x \in archive : x.batch = batch => x.run = run
      BY <1>n, <1>p DEF InBatch
    <3>2. archive' = archive \cup {b}
      BY <2>1, <2>3
    <3> QED BY <1>p, <2>3, <3>1, <3>2 DEF OneRun
  <2> QED BY <1>q, <1>s, <2>1, <2>4, <2>5, <2>6
<1>4. CASE Gather \/ FlushStep
  <2>1. /\ UNCHANGED <<workers, archive, start, run>>
        /\ \/ Gather /\ UNCHANGED batch
           \/ FlushStep /\ batch' = batch + 1
        /\ files' = [i \in DOMAIN files \cup {batch + 1} |-> IF i = batch + 1 THEN archive ELSE files[i]]
    BY <1>4 DEF Gather, FlushStep, Flushed
  <2>2. \A x \in archive : x.batch < batch + 1
    BY <1>a, <1>n, <1>p DEF InBatch
  <2>3. Kept
    BY <1>f, <1>p, <2>1, <2>2 DEF Kept
  <2>4. InBatch(archive', batch', start', run')
    <3>1. batch' \in {batch, batch + 1}
      BY <2>1
    <3>2. \A x \in archive : x.batch <= batch'
      BY <1>a, <1>n, <2>2, <3>1, <1>p DEF InBatch
    <3> QED BY <1>p, <2>1, <3>2 DEF InBatch
  <2>5. Now
    <3>1. CASE UNCHANGED batch
      BY <1>s, <2>1, <3>1
    <3>2. CASE FlushStep
      <4>1. Rolled = {}
        BY <3>2 DEF FlushStep, Gathered
      <4> QED BY <1>c, <1>s, <2>1, <4>1, RolledSame
    <3> QED BY <2>1, <3>1, <3>2
  <2>6. OneRun(archive')
    BY <1>p, <2>1
  <2> QED BY <1>q, <2>3, <2>4, <2>5, <2>6
<1>5. CASE Save
  <2>1. /\ UNCHANGED <<workers, archive, start, run, files>> /\ batch' \in {batch, batch + 1}
        /\ pc = "save"
    BY <1>5 DEF Save
  <2>2. Rolled' = {}
    BY <1>c, <2>1, RolledSame DEF Gathered
  <2>3. InBatch(archive', batch', start', run')
    <3>1. \A x \in archive : x.batch <= batch'
      BY <1>a, <1>n, <1>p, <2>1 DEF InBatch
    <3> QED BY <1>p, <2>1, <3>1 DEF InBatch
  <2>4. OneRun(archive')
    BY <1>p, <2>1
  <2> QED BY <1>q, <1>s, <2>1, <2>2, <2>3, <2>4
<1>6. CASE BeginBatch
  <2>1. UNCHANGED <<archive, batch, start, run, files>>
    BY <1>6 DEF BeginBatch
  <2>2. Now
    <3>1. CASE workers' = [w \in Workers |-> Rolling(Builder(batch, w))]
      <4>1. \A w \in Workers : workers'[w].builder.batch = batch /\ workers'[w].builder.run = run
        BY <3>1 DEF Rolling, Builder
      <4> QED BY <2>1, <4>1, SameConfig DEF Now, Rolled
    <3> QED BY <1>6, <1>s, <2>1, <3>1 DEF BeginBatch
  <2> QED BY <1>q, <1>s, <2>1, <2>2
<1>7. CASE Dataloading \/ (\E w \in Workers : TakeBuilder(w))
  <2>1. builders = <<>> /\ requeue = {}
    BY DEF Gathered
  <2> QED BY <1>7, <2>1 DEF Dataloading, DataloaderStep, TakeBuilder
<1>8. CASE \/ Open \/ SyncTrain \/ Collect \/ AsyncTrain \/ Peek \/ StreamTake
           \/ NothingLeft \/ Join \/ Close \/ Evaluating
  <2>1. UNCHANGED <<workers, archive, batch, start, run, files>>
    BY <1>8 DEF Open, SyncTrain, Collect, AsyncTrain, Peek, StreamTake, NothingLeft, Join, Close,
       Evaluating, EvalWake, EvalDone
  <2> QED BY <1>q, <1>s, <2>1
<1> QED BY <1>1, <1>2, <1>3, <1>4, <1>5, <1>6, <1>7, <1>8 DEF Next, Working, Training

-----------------------------------------------------------------------------
(* The theorems *)

(* A step that changes nothing keeps the inductive invariant. *)
LEMMA StutterIInv == IInv /\ UNCHANGED vars => IInv'
<1> SUFFICES ASSUME IInv, UNCHANGED vars PROVE IInv'
  OBVIOUS
<1>1. /\ config' = config /\ pc' = pc /\ cause' = cause /\ run' = run /\ start' = start
      /\ batch' = batch /\ mini' = mini /\ next' = next /\ builders' = builders
      /\ requeue' = requeue /\ workers' = workers /\ groups' = groups /\ wrapped' = wrapped
      /\ client' = client /\ shutdown' = shutdown /\ evaluator' = evaluator
      /\ updated' = updated /\ weights' = weights /\ archive' = archive /\ rows' = rows
      /\ files' = files /\ untrained' = untrained
  BY DEF vars, process, loop, loader, rolling, eval, disk
<1>2. /\ Workers' = Workers /\ IsAsync' = IsAsync /\ Streams' = Streams
      /\ Minibatches' = Minibatches /\ GroupsPerMinibatch' = GroupsPerMinibatch
      /\ LastRow' = LastRow
  BY <1>1 DEF Workers, IsAsync, Streams, Minibatches, GroupsPerMinibatch, LastRow
<1>3. Rolled' = Rolled
  BY <1>1, <1>2 DEF Rolled
<1>4. Typed'
  BY <1>1, <1>2, <1>3 DEF IInv, Typed, ProcessOK, LoaderOK, RollingOK, StoredOK
<1>5. Control' /\ Gathered'
  BY <1>1, <1>2, <1>3 DEF IInv, Control, Gathered
<1>6. Aged' /\ Recent'
  BY <1>1, <1>2, <1>3 DEF IInv, Aged, AgedTasks, AgedQueued, IsRecent, Recent, OnPolicy
<1>7. Recorded' /\ SavedRow' /\ BestOfN' /\ Restarted' /\ Unsaved' /\ Flushes'
  BY <1>1, <1>2, <1>3 DEF IInv, Stepped, Recorded, SavedRow, BestOfN, Restarted, Unsaved, Flushes,
     Building, BuildersOf
<1>8. Separate'
  BY <1>1, <1>2, <1>3 DEF IInv, Separate, OneRun
<1> QED BY <1>4, <1>5, <1>6, <1>7, <1>8 DEF IInv, Stepped

(* The inductive invariant of the training program, over every crash and resume of
   every loop. *)
THEOREM TinkerInvariant == Spec => []IInv
<1>1. IInv /\ [Next]_vars => IInv'
  <2>1. IInv /\ Next => IInv'
    BY TypedStep, ControlStep, GatheredStep, AgedStep, RecentStep, RecordedStep, SavedRowStep,
       BestOfNStep, RestartedStep, UnsavedStep, FlushesStep, SeparateStep DEF IInv, Stepped
  <2> QED BY <2>1, StutterIInv
<1> QED BY <1>1, InitIInv, PTL DEF Spec

(* Every variable has its type: above all, the queue of builders never holds more
   than it has room for, and a batch never collects more groups than it needs. *)
THEOREM TinkerTypeCorrect == Spec => []TinkerTypeOK
<1>1. IInv => TinkerTypeOK
  <2> SUFFICES ASSUME IInv PROVE TinkerTypeOK
    OBVIOUS
  <2>1. ProcessOK /\ LoaderOK /\ RollingOK /\ StoredOK
    BY DEF IInv, Typed
  <2>2. \A w \in Workers : workers[w].at \in {"idle", "rolling", "exited"}
    BY <2>1 DEF RollingOK, Tasks
  <2> QED BY <2>1, <2>2 DEF TinkerTypeOK, ProcessOK, LoaderOK, RollingOK, StoredOK
<1> QED BY <1>1, TinkerInvariant, PTL

(* No step of any loop trains on a group sampled by a policy that is too old for it,
   however long the group was rolled out, queued, put back or collected. *)
THEOREM TrainsOnRecent == Spec => []OffPolicyBounded
<1>1. IInv => OffPolicyBounded
  BY DEF IInv, Recent, OnPolicy, OffPolicyBounded
<1> QED BY <1>1, TinkerInvariant, PTL

(* Over crashes and resumes the archive holds the rollouts of all that the policy
   was trained on, and those of a repeated batch once. *)
THEOREM ArchiveInStep == Spec => []InStep
<1>1. IInv => InStep
  BY DEF IInv, Stepped, Recorded, Building, Separate, OneRun, InStep
<1> QED BY <1>1, TinkerInvariant, PTL

(* The synchronous loop can always be resumed: its last row has its sampler file. *)
THEOREM SyncAlwaysResumable == Spec => []SyncResumable
<1>1. IInv => SyncResumable
  BY DEF IInv, Stepped, SavedRow, SyncResumable, Resumable
<1> QED BY <1>1, TinkerInvariant, PTL

-----------------------------------------------------------------------------
(* The places a builder may be in *)

Waiting(x) == Cardinality({j \in DOMAIN builders : builders[j] = x})
Running(x) == Cardinality({w \in Workers : workers[w].at = "rolling" /\ workers[w].builder = x})
Queued(x) == Cardinality({j \in DOMAIN groups : groups[j].builder = x})
Held(x) == Cardinality({j \in DOMAIN wrapped : wrapped[j].builder = x})
PointsOf(W, x) == {w \in W : w.builder = x}
Learned(x) == Cardinality(PointsOf(weights, x))
PutAside(x) == Cardinality({x} \cap requeue)
Spent(x) == Cardinality({x} \cap untrained)

\* No builder is of a later run.
Numbered ==
  /\ \A b \in ToSet(builders) \cap Items : b.run <= run
  /\ \A b \in requeue : b.run <= run
  /\ \A w \in Rolled : workers[w].builder.run <= run
  /\ \A g \in ToSet(groups) \cup ToSet(wrapped) : g.builder.run <= run
  /\ \A w \in weights \cup LastRow.state : w.builder.run <= run

\* The dataloader is ahead of the start, and in the loops that gather a batch it
\* gives out whole batches.
Positions ==
  /\ start <= next.batch
  /\ pc = "open" => builders = <<>> /\ requeue = {} /\ Rolled = {}
  /\ ~IsAsync /\ pc \notin {"down", "failed"} =>
       /\ next.slot = 1
       /\ next.batch = IF pc \in {"collect", "train", "save", "flush"} THEN batch + 1 ELSE batch

\* A builder of this run is in one place once it is loaded, and nowhere before.
OneEach ==
  pc # "down" =>
    \A x \in Items : x.run = run =>
      /\ PointsOf(weights, x) = {} \/ \E w : PointsOf(weights, x) = {w}
      /\ Places(x) = IF x \in Loaded THEN 1 ELSE 0

Placed == Numbered /\ Positions /\ OneEach

-----------------------------------------------------------------------------
(* Counting in a sequence *)

\* The positions of s that hold a member of T.
At(s, T) == {j \in DOMAIN s : s[j] \in T}

(* A sequence has finitely many positions; none, when it holds no member of T. *)
LEMMA CountType ==
  ASSUME NEW S, NEW s \in Seq(S), NEW T
  PROVE  /\ IsFiniteSet(At(s, T)) /\ Cardinality(At(s, T)) \in Nat
         /\ (\A j \in DOMAIN s : s[j] \notin T) <=> Cardinality(At(s, T)) = 0
<1>1. DOMAIN s = 1 .. Len(s) /\ Len(s) \in Nat
  BY LenProperties
<1>2. IsFiniteSet(DOMAIN s)
  BY <1>1, FS_Interval
<1>3. At(s, T) \in SUBSET DOMAIN s
  BY DEF At
<1>4. IsFiniteSet(At(s, T))
  BY <1>2, <1>3, FS_Subset
<1>5. Cardinality(At(s, T)) = 0 <=> At(s, T) = {}
  BY <1>4, FS_EmptySet
<1> QED BY <1>4, <1>5, FS_CardinalityType DEF At

(* One more at the end. *)
LEMMA CountAppend ==
  ASSUME NEW S, NEW s \in Seq(S), NEW e \in S, NEW T
  PROVE  Cardinality(At(Append(s, e), T)) = Cardinality(At(s, T)) + IF e \in T THEN 1 ELSE 0
<1>1. /\ Append(s, e) \in Seq(S) /\ Len(Append(s, e)) = Len(s) + 1
      /\ \A i \in 1 .. Len(s) : Append(s, e)[i] = s[i]
      /\ Append(s, e)[Len(s) + 1] = e
  BY AppendProperties
<1>2. Len(s) \in Nat /\ DOMAIN s = 1 .. Len(s) /\ DOMAIN Append(s, e) = 1 .. Len(s) + 1
  BY <1>1, LenProperties
<1>3. IsFiniteSet(At(s, T)) /\ Cardinality(At(s, T)) \in Nat /\ Len(s) + 1 \notin At(s, T)
  BY <1>2, CountType DEF At
<1>4. CASE e \in T
  <2>1. At(Append(s, e), T) = At(s, T) \cup {Len(s) + 1}
    <3>1. ASSUME NEW j \in At(Append(s, e), T) PROVE j \in At(s, T) \cup {Len(s) + 1}
      <4>1. j \in 1 .. Len(s) + 1 /\ Append(s, e)[j] \in T
        BY <1>2 DEF At
      <4>2. j \in 1 .. Len(s) \/ j = Len(s) + 1
        BY <1>2, <4>1
      <4> QED BY <1>1, <1>2, <4>1, <4>2 DEF At
    <3>2. Len(s) + 1 \in At(Append(s, e), T)
      BY <1>1, <1>2, <1>4 DEF At
    <3>3. ASSUME NEW j \in At(s, T) PROVE j \in At(Append(s, e), T)
      <4>1. j \in 1 .. Len(s) /\ s[j] \in T
        BY <1>2 DEF At
      <4>2. j \in 1 .. Len(s) + 1
        BY <1>2, <4>1
      <4> QED BY <1>1, <1>2, <4>1, <4>2 DEF At
    <3> QED BY <3>1, <3>2, <3>3
  <2>2. Cardinality(At(s, T) \cup {Len(s) + 1}) = Cardinality(At(s, T)) + 1
    BY <1>3, FS_AddElement
  <2> QED BY <1>4, <2>1, <2>2
<1>5. CASE e \notin T
  <2>1. ASSUME NEW j \in At(Append(s, e), T) PROVE j \in At(s, T)
    <3>1. j \in 1 .. Len(s) + 1 /\ Append(s, e)[j] \in T
      BY <1>2 DEF At
    <3>2. j \in 1 .. Len(s) \/ j = Len(s) + 1
      BY <1>2, <3>1
    <3> QED BY <1>1, <1>2, <1>5, <3>1, <3>2 DEF At
  <2>2. ASSUME NEW j \in At(s, T) PROVE j \in At(Append(s, e), T)
    <3>1. j \in 1 .. Len(s) /\ s[j] \in T
      BY <1>2 DEF At
    <3>2. j \in 1 .. Len(s) + 1
      BY <1>2, <3>1
    <3> QED BY <1>1, <1>2, <3>1, <3>2 DEF At
  <2>3. At(Append(s, e), T) = At(s, T)
    BY <2>1, <2>2
  <2> QED BY <1>3, <1>5, <2>3
<1> QED BY <1>4, <1>5

(* The first one taken away. *)
LEMMA CountTail ==
  ASSUME NEW S, NEW s \in Seq(S), s # <<>>, NEW T
  PROVE  Cardinality(At(s, T)) = Cardinality(At(Tail(s), T)) + IF Head(s) \in T THEN 1 ELSE 0
<1>1. /\ Tail(s) \in Seq(S) /\ Len(Tail(s)) = Len(s) - 1 /\ Head(s) = s[1]
      /\ \A i \in 1 .. Len(Tail(s)) : Tail(s)[i] = s[i + 1]
  BY HeadTailProperties
<1>2. /\ Len(s) \in Nat /\ Len(s) > 0 /\ DOMAIN s = 1 .. Len(s)
      /\ DOMAIN Tail(s) = 1 .. Len(s) - 1
  BY <1>1, LenProperties, EmptySeq
<1>3. /\ IsFiniteSet(At(s, T)) /\ Cardinality(At(s, T)) \in Nat
      /\ IsFiniteSet(At(Tail(s), T)) /\ Cardinality(At(Tail(s), T)) \in Nat
  BY <1>1, CountType
<1> DEFINE f == [j \in At(Tail(s), T) |-> j + 1]
<1>4. f \in Bijection(At(Tail(s), T), At(s, T) \ {1})
  <2>1. ASSUME NEW j \in At(Tail(s), T) PROVE f[j] = j + 1 /\ j + 1 \in At(s, T) \ {1} /\ j \in Nat
    <3>1. j \in 1 .. Len(s) - 1 /\ Tail(s)[j] \in T /\ Tail(s)[j] = s[j + 1]
      BY <1>1, <1>2 DEF At
    <3>2. j + 1 \in 1 .. Len(s) /\ j + 1 # 1 /\ j \in Nat
      BY <1>2, <3>1
    <3> QED BY <1>2, <3>1, <3>2 DEF At
  <2>2. f \in [At(Tail(s), T) -> At(s, T) \ {1}]
    BY <2>1
  <2>3. \A i, j \in At(Tail(s), T) : f[i] = f[j] => i = j
    BY <2>1
  <2>4. ASSUME NEW i \in At(s, T) \ {1} PROVE \E j \in At(Tail(s), T) : f[j] = i
    <3>1. i \in 1 .. Len(s) /\ i # 1 /\ s[i] \in T
      BY <1>2 DEF At
    <3>2. i - 1 \in 1 .. Len(s) - 1 /\ (i - 1) + 1 = i
      BY <1>2, <3>1
    <3>3. Tail(s)[i - 1] = s[i]
      BY <1>1, <3>2
    <3>4. i - 1 \in At(Tail(s), T)
      BY <1>2, <3>1, <3>2, <3>3 DEF At
    <3> QED BY <2>1, <3>2, <3>4
  <2> HIDE DEF f
  <2>5. f \in Injection(At(Tail(s), T), At(s, T) \ {1})
    BY <2>2, <2>3 DEF Injection, IsInjective
  <2>6. f \in Surjection(At(Tail(s), T), At(s, T) \ {1})
    BY <2>2, <2>4 DEF Surjection
  <2> QED BY <2>5, <2>6 DEF Bijection
<1>5. Cardinality(At(s, T) \ {1}) = Cardinality(At(Tail(s), T))
  <2> HIDE DEF f
  <2>1. ExistsBijection(At(Tail(s), T), At(s, T) \ {1})
    BY <1>4 DEF ExistsBijection
  <2> QED BY <1>3, <2>1, FS_Bijection
<1>6. Cardinality(At(s, T) \ {1}) = IF 1 \in At(s, T) THEN Cardinality(At(s, T)) - 1
                                    ELSE Cardinality(At(s, T))
  BY <1>3, FS_RemoveElement
<1>7. 1 \in At(s, T) <=> Head(s) \in T
  BY <1>1, <1>2 DEF At
<1> QED BY <1>3, <1>5, <1>6, <1>7

(* What occurs once is one element. *)
LEMMA CountOne ==
  ASSUME NEW S, NEW s \in Seq(S), NEW T, Cardinality(At(s, T)) = 1
  PROVE  \E e \in ToSet(s) : e \in T /\ \A d \in ToSet(s) : d \in T => d = e
<1>1. PICK j : At(s, T) = {j}
  BY CountType, FS_Singleton
<1>2. j \in DOMAIN s /\ s[j] \in T /\ \A i \in DOMAIN s : s[i] \in T => i = j
  BY <1>1 DEF At
<1>3. s[j] \in ToSet(s)
  BY <1>2 DEF ToSet
<1>4. ASSUME NEW d \in ToSet(s), d \in T PROVE d = s[j]
  <2>1. PICK i \in DOMAIN s : s[i] = d
    BY DEF ToSet
  <2> QED BY <1>2, <1>4, <2>1
<1> QED BY <1>2, <1>3, <1>4

-----------------------------------------------------------------------------
(* How the places change *)

\* The groups of a builder.
Of(x) == {g \in Groups : g.builder = x}

(* The places, as numbers of positions. *)
LEMMA CountedPlaces ==
  ASSUME LoaderOK, RollingOK, config \in Configs, NEW x
  PROVE  /\ Waiting(x) = Cardinality(At(builders, {x})) /\ Waiting(x) \in Nat
         /\ Queued(x) = Cardinality(At(groups, Of(x))) /\ Queued(x) \in Nat
         /\ Held(x) = Cardinality(At(wrapped, Of(x))) /\ Held(x) \in Nat
         /\ Running(x) \in Nat
         /\ PutAside(x) = (IF x \in requeue THEN 1 ELSE 0)
         /\ Spent(x) = (IF x \in untrained THEN 1 ELSE 0)
<1>1. /\ builders \in Seq(Items \cup {Pill}) /\ groups \in Seq(Groups) /\ wrapped \in Seq(Groups)
  BY DEF LoaderOK, RollingOK
<1>2. {j \in DOMAIN builders : builders[j] = x} = At(builders, {x})
  BY DEF At
<1>3. ASSUME NEW s \in Seq(Groups)
      PROVE  {j \in DOMAIN s : s[j].builder = x} = At(s, Of(x))
  <2>1. \A j \in DOMAIN s : s[j] \in Groups
    OBVIOUS
  <2> QED BY <2>1 DEF At, Of
<1>4. IsFiniteSet(Rolled)
  BY RolledFinite
<1>5. {w \in Workers : workers[w].at = "rolling" /\ workers[w].builder = x} \in SUBSET Rolled
  BY DEF Rolled
<1>6. Running(x) \in Nat
  <2>1. IsFiniteSet({w \in Workers : workers[w].at = "rolling" /\ workers[w].builder = x})
    BY <1>4, <1>5, FS_Subset
  <2> QED BY <2>1, FS_CardinalityType DEF Running
<1>7. \A S : Cardinality({x} \cap S) = IF x \in S THEN 1 ELSE 0
  <2>1. \A S : x \in S => {x} \cap S = {x}
    OBVIOUS
  <2>2. \A S : x \notin S => {x} \cap S = {}
    OBVIOUS
  <2> QED BY <2>1, <2>2, FS_Singleton, FS_EmptySet
<1>8. Waiting(x) = Cardinality(At(builders, {x})) /\ Waiting(x) \in Nat
  BY <1>1, <1>2, CountType DEF Waiting
<1>9. Queued(x) = Cardinality(At(groups, Of(x))) /\ Queued(x) \in Nat
  BY <1>1, <1>3, CountType DEF Queued
<1>10. Held(x) = Cardinality(At(wrapped, Of(x))) /\ Held(x) \in Nat
  BY <1>1, <1>3, CountType DEF Held
<1> QED BY <1>6, <1>7, <1>8, <1>9, <1>10 DEF PutAside, Spent

(* A builder is trained on at most once. *)
LEMMA LearnedOnce ==
  ASSUME NEW x, PointsOf(weights, x) = {} \/ \E w : PointsOf(weights, x) = {w}
  PROVE  Learned(x) \in {0, 1} /\ (Learned(x) = 0 => PointsOf(weights, x) = {})
BY FS_EmptySet, FS_Singleton DEF Learned

(* A worker that takes a builder, and one that is done with it. *)
LEMMA RunningMore ==
  ASSUME config \in Configs, config' = config, NEW w \in Workers, w \notin Rolled,
         Rolled' = Rolled \cup {w}, \A v \in Workers \ {w} : workers'[v] = workers[v], NEW x
  PROVE  Running(x)' = Running(x) + IF workers'[w].builder = x THEN 1 ELSE 0
<1>1. IsFiniteSet(Rolled) /\ Workers' = Workers
  BY RolledFinite DEF Workers, IsAsync
<1> DEFINE A == {v \in Workers : workers[v].at = "rolling" /\ workers[v].builder = x}
           B == {v \in Workers : workers'[v].at = "rolling" /\ workers'[v].builder = x}
<1>2. IsFiniteSet(A)
  <2>1. A \in SUBSET Rolled
    BY DEF Rolled
  <2> QED BY <1>1, <2>1, FS_Subset
<1>3. w \notin A /\ B = A \cup (IF workers'[w].builder = x THEN {w} ELSE {})
  BY <1>1 DEF Rolled
<1>4. Running(x) = Cardinality(A) /\ Running(x)' = Cardinality(B)
  BY <1>1 DEF Running
<1> HIDE DEF A, B
<1>5. Cardinality(A) \in Nat /\ Cardinality(A \cup {w}) = Cardinality(A) + 1
  BY <1>2, <1>3, FS_CardinalityType, FS_AddElement
<1>6. CASE workers'[w].builder = x
  BY <1>3, <1>4, <1>5, <1>6
<1>7. CASE workers'[w].builder # x
  <2>1. B = A
    BY <1>3, <1>7
  <2> QED BY <1>4, <1>5, <1>7, <2>1
<1> QED BY <1>6, <1>7

(* One worker fewer: the builder it was at is with one worker less. *)
LEMMA RunningLess ==
  ASSUME config \in Configs, config' = config, NEW w \in Workers, w \in Rolled,
         Rolled' = Rolled \ {w}, \A v \in Workers \ {w} : workers'[v] = workers[v], NEW x
  PROVE  Running(x) = Running(x)' + IF workers[w].builder = x THEN 1 ELSE 0
<1>1. IsFiniteSet(Rolled) /\ Workers' = Workers
  BY RolledFinite DEF Workers, IsAsync
<1> DEFINE A == {v \in Workers : workers[v].at = "rolling" /\ workers[v].builder = x}
           B == {v \in Workers : workers'[v].at = "rolling" /\ workers'[v].builder = x}
<1>2. IsFiniteSet(A)
  <2>1. A \in SUBSET Rolled
    BY DEF Rolled
  <2> QED BY <1>1, <2>1, FS_Subset
<1>3. B = A \ {w} /\ (w \in A <=> workers[w].builder = x)
  BY <1>1 DEF Rolled
<1>4. Running(x) = Cardinality(A) /\ Running(x)' = Cardinality(B)
  BY <1>1 DEF Running
<1> HIDE DEF A, B
<1>5. /\ Cardinality(A) \in Nat
      /\ Cardinality(A \ {w}) = IF w \in A THEN Cardinality(A) - 1 ELSE Cardinality(A)
  BY <1>2, FS_CardinalityType, FS_RemoveElement
<1> QED BY <1>3, <1>4, <1>5

(* While no worker starts or ends, every builder is with as many workers as before. *)
LEMMA RunningSame ==
  ASSUME config' = config, NEW x, workers' = workers \/ (Rolled = {} /\ Rolled' = {})
  PROVE  Running(x)' = Running(x)
<1>1. Workers' = Workers
  BY DEF Workers, IsAsync
<1> QED BY <1>1 DEF Running, Rolled

(* Training on a sequence of groups uses up every builder of it: it is learned, or
   spent when its group was left out. *)
LEMMA UsedUp ==
  ASSUME batch \in Nat, NEW s \in Seq(Groups), NEW G \in SUBSET ToSet(s), NEW x,
         weights' = weights \cup Trained(G),
         \/ untrained' = untrained \cup (BuildersOf(ToSet(s)) \ BuildersOf(G))
         \/ untrained' = untrained \cup BuildersOf(ToSet(s) \ G),
         Cardinality(At(s, Of(x))) \in {0, 1},
         Cardinality(At(s, Of(x))) = 1 => PointsOf(weights, x) = {} /\ x \notin untrained
  PROVE  \/ /\ Cardinality(At(s, Of(x))) = 0
            /\ PointsOf(weights', x) = PointsOf(weights, x)
            /\ (x \in untrained' <=> x \in untrained)
         \/ /\ Cardinality(At(s, Of(x))) = 1
            /\ \E p : PointsOf(weights', x) = {p}
            /\ x \notin untrained'
         \/ /\ Cardinality(At(s, Of(x))) = 1
            /\ PointsOf(weights', x) = {}
            /\ x \in untrained'
<1>1. ToSet(s) \subseteq Groups
  BY DEF ToSet
<1>2. CASE Cardinality(At(s, Of(x))) = 0
  <2>1. \A g \in ToSet(s) : g.builder # x
    <3>1. \A j \in DOMAIN s : s[j] \notin Of(x)
      BY <1>2, CountType
    <3> QED BY <1>1, <3>1 DEF Of, ToSet
  <2>2. \A p \in Trained(G) : p.builder # x
    BY <2>1 DEF Trained
  <2>3. PointsOf(weights', x) = PointsOf(weights, x)
    BY <2>2 DEF PointsOf
  <2>4. x \in untrained' <=> x \in untrained
    BY <2>1 DEF BuildersOf
  <2> QED BY <1>2, <2>3, <2>4
<1>3. CASE Cardinality(At(s, Of(x))) = 1
  <2>1. PICK g \in ToSet(s) : g \in Of(x) /\ \A h \in ToSet(s) : h \in Of(x) => h = g
    BY <1>3, CountOne
  <2>2. g.builder = x /\ \A h \in ToSet(s) : h.builder = x => h = g
    BY <1>1, <2>1 DEF Of
  <2>3. PointsOf(weights, x) = {} /\ x \notin untrained
    BY <1>3
  <2>4. CASE g \in G
    <3> DEFINE p == [builder |-> g.builder, client |-> g.client, at |-> batch]
    <3>1. p \in Trained(G) /\ p.builder = x
      BY <2>2, <2>4 DEF Trained
    <3>2. \A q \in Trained(G) : q.builder = x => q = p
      BY <2>2 DEF Trained
    <3> HIDE DEF p
    <3>3. PointsOf(weights', x) = {p}
      BY <2>3, <3>1, <3>2 DEF PointsOf
    <3>4. x \notin untrained'
      BY <2>2, <2>3, <2>4 DEF BuildersOf
    <3> QED BY <1>3, <3>3, <3>4
  <2>5. CASE g \notin G
    <3>1. \A h \in G : h.builder # x
      BY <2>2, <2>5
    <3>2. \A p \in Trained(G) : p.builder # x
      BY <3>1 DEF Trained
    <3>3. PointsOf(weights', x) = {}
      BY <2>3, <3>2 DEF PointsOf
    <3>4. x \in BuildersOf(ToSet(s)) /\ x \notin BuildersOf(G) /\ x \in BuildersOf(ToSet(s) \ G)
      BY <2>2, <2>5, <3>1 DEF BuildersOf
    <3> QED BY <1>3, <3>3, <3>4
  <2> QED BY <2>4, <2>5
<1> QED BY <1>2, <1>3

(* What has been loaded, position by position. *)
LoadedFrom(st, nx, rn) ==
  {[batch |-> b, slot |-> s, run |-> rn] : b \in st .. nx.batch - 1, s \in 1 .. BatchSize}
    \cup {[batch |-> nx.batch, slot |-> s, run |-> rn] : s \in 1 .. nx.slot - 1}

(* An item is loaded when its batch is a whole one before the next, or its slot is. *)
LEMMA LoadedItems ==
  ASSUME NEW st \in Nat, NEW nx \in [batch : Nat, slot : Nat \ {0}], NEW rn \in Nat,
         st <= nx.batch, NEW x \in Items
  PROVE  x \in LoadedFrom(st, nx, rn)
           <=> /\ x.run = rn /\ x.batch >= st
               /\ \/ x.batch < nx.batch /\ x.slot \in 1 .. BatchSize
                  \/ x.batch = nx.batch /\ x.slot \in 1 .. nx.slot - 1
<1>1. nx.batch \in Nat /\ nx.slot \in Nat /\ x.batch \in Nat /\ x.slot \in Nat
  BY DEF Items
<1>2. x = [batch |-> x.batch, slot |-> x.slot, run |-> x.run]
  BY DEF Items
<1>3. ASSUME NEW b \in st .. nx.batch - 1, NEW s \in 1 .. BatchSize,
             x = [batch |-> b, slot |-> s, run |-> rn]
      PROVE  x.run = rn /\ x.batch >= st /\ x.batch < nx.batch /\ x.slot \in 1 .. BatchSize
  <2>1. x.batch = b /\ x.slot = s /\ x.run = rn
    BY <1>3
  <2> QED BY <1>1, <2>1
<1>4. ASSUME NEW s \in 1 .. nx.slot - 1, x = [batch |-> nx.batch, slot |-> s, run |-> rn]
      PROVE  x.run = rn /\ x.batch >= st /\ x.batch = nx.batch /\ x.slot \in 1 .. nx.slot - 1
  <2>1. x.batch = nx.batch /\ x.slot = s /\ x.run = rn
    BY <1>4
  <2> QED BY <1>1, <2>1
<1>5. ASSUME x.run = rn, x.batch >= st, x.batch < nx.batch, x.slot \in 1 .. BatchSize
      PROVE  x \in LoadedFrom(st, nx, rn)
  <2>1. x.batch \in st .. nx.batch - 1
    BY <1>1, <1>5
  <2> QED BY <1>2, <1>5, <2>1 DEF LoadedFrom
<1>6. ASSUME x.run = rn, x.batch = nx.batch, x.slot \in 1 .. nx.slot - 1
      PROVE  x \in LoadedFrom(st, nx, rn)
  BY <1>2, <1>6 DEF LoadedFrom
<1> QED BY <1>3, <1>4, <1>5, <1>6 DEF LoadedFrom

(* A queue that grows at its end or shrinks at its head. *)
LEMMA WaitingMore ==
  ASSUME builders \in Seq(Items \cup {Pill}), NEW b \in Items \cup {Pill},
         builders' = Append(builders, b), NEW x
  PROVE  Waiting(x)' = Waiting(x) + IF b = x THEN 1 ELSE 0
<1>1. \A s : {j \in DOMAIN s : s[j] = x} = At(s, {x})
  BY DEF At
<1>2. Cardinality(At(Append(builders, b), {x})) = Cardinality(At(builders, {x}))
                                                     + IF b \in {x} THEN 1 ELSE 0
  BY CountAppend
<1> QED BY <1>1, <1>2 DEF Waiting

(* One builder taken from the head of the queue. *)
LEMMA WaitingLess ==
  ASSUME builders \in Seq(Items \cup {Pill}), builders # <<>>, builders' = Tail(builders), NEW x
  PROVE  Waiting(x) = Waiting(x)' + IF Head(builders) = x THEN 1 ELSE 0
<1>1. \A s : {j \in DOMAIN s : s[j] = x} = At(s, {x})
  BY DEF At
<1>2. Cardinality(At(builders, {x})) = Cardinality(At(Tail(builders), {x}))
                                          + IF Head(builders) \in {x} THEN 1 ELSE 0
  BY CountTail
<1> QED BY <1>1, <1>2 DEF Waiting

(* The positions of a builder in a queue of groups, as those of its groups. *)
LEMMA GroupsOf ==
  ASSUME NEW s \in Seq(Groups), NEW x
  PROVE  {j \in DOMAIN s : s[j].builder = x} = At(s, Of(x))
<1>1. \A j \in DOMAIN s : s[j] \in Groups
  OBVIOUS
<1> QED BY <1>1 DEF At, Of

(* One group appended. *)
LEMMA GroupsMore ==
  ASSUME NEW s \in Seq(Groups), NEW g \in Groups, NEW x
  PROVE  Cardinality({j \in DOMAIN Append(s, g) : Append(s, g)[j].builder = x})
           = Cardinality({j \in DOMAIN s : s[j].builder = x}) + IF g.builder = x THEN 1 ELSE 0
<1>1. Append(s, g) \in Seq(Groups)
  BY AppendProperties
<1>2. g \in Of(x) <=> g.builder = x
  BY DEF Of
<1>3. /\ {j \in DOMAIN s : s[j].builder = x} = At(s, Of(x))
      /\ {j \in DOMAIN Append(s, g) : Append(s, g)[j].builder = x} = At(Append(s, g), Of(x))
  BY <1>1, GroupsOf
<1>4. Cardinality(At(Append(s, g), Of(x))) = Cardinality(At(s, Of(x)))
                                                + IF g \in Of(x) THEN 1 ELSE 0
  BY CountAppend
<1> QED BY <1>2, <1>3, <1>4

(* One group taken from the head. *)
LEMMA GroupsLess ==
  ASSUME NEW s \in Seq(Groups), s # <<>>, NEW x
  PROVE  Cardinality({j \in DOMAIN s : s[j].builder = x})
           = Cardinality({j \in DOMAIN Tail(s) : Tail(s)[j].builder = x})
               + IF Head(s).builder = x THEN 1 ELSE 0
<1>1. Tail(s) \in Seq(Groups) /\ Head(s) \in Groups
  BY HeadTailProperties
<1>2. Head(s) \in Of(x) <=> Head(s).builder = x
  BY <1>1 DEF Of
<1>3. /\ {j \in DOMAIN s : s[j].builder = x} = At(s, Of(x))
      /\ {j \in DOMAIN Tail(s) : Tail(s)[j].builder = x} = At(Tail(s), Of(x))
  BY <1>1, GroupsOf
<1>4. Cardinality(At(s, Of(x))) = Cardinality(At(Tail(s), Of(x)))
                                     + IF Head(s) \in Of(x) THEN 1 ELSE 0
  BY CountTail
<1> QED BY <1>2, <1>3, <1>4

-----------------------------------------------------------------------------
(* The runs of the builders *)

(* Only a start begins another run. *)
LEMMA RunStep == Typed /\ Next => /\ run \in Nat /\ run' \in Nat /\ run <= run'
                                  /\ (~Start => UNCHANGED <<run, start>>)
                                  /\ (Start => run' = run + 1)
<1> SUFFICES ASSUME Typed, Next PROVE /\ run \in Nat /\ run' \in Nat /\ run <= run'
                                      /\ (~Start => UNCHANGED <<run, start>>)
                                      /\ (Start => run' = run + 1)
  OBVIOUS
<1>1. run \in Nat
  <2>1. run \in 0 .. MaxRuns
    BY DEF Typed, ProcessOK
  <2> QED BY <2>1, Constants
<1>2. Start => run' = run + 1
  BY DEF Start
<1>3. ~Start => UNCHANGED <<run, start>>
  BY DEF Next, Crash, Dataloading, DataloaderStep, RequeueStep, Working,
     TakeBuilder, FinishRollout, Training, Open, BeginBatch, Gather, SyncTrain, Collect,
     AsyncTrain, Peek, StreamTake, Save, FlushStep, NothingLeft, Join, Close, Evaluating,
     EvalWake, EvalDone, process
<1> QED BY <1>1, <1>2, <1>3

(* What is in the queue of builders after a step was there before, is the next one of
   the dataset, or was put aside. *)
LEMMA BuildersStep ==
  ASSUME Typed, Next, NEW b \in ToSet(builders') \cap Items
  PROVE  b \in ToSet(builders) \/ b \in requeue \/ b = Builder(next.batch, next.slot)
<1>1. builders \in Seq(Items \cup {Pill}) /\ requeue \subseteq Items /\ Pill \notin Items
  BY DEF Typed, LoaderOK, Pill, Items
<1>2. CASE Start \/ Crash
  <2>1. builders' = <<>>
    BY <1>2 DEF Start, Crash, Quiet
  <2>2. ToSet(<<>>) = {}
    BY DEF ToSet
  <2> QED BY <2>1, <2>2
<1>3. CASE DataloaderStep
  <2>1. Builder(next.batch, next.slot) \in Items
    <3>1. run \in Nat /\ next.batch \in Nat /\ next.slot \in Nat
      BY RunStep, Constants DEF Typed, LoaderOK
    <3> QED BY <3>1 DEF Builder, Items
  <2>2. ToSet(builders') = ToSet(builders) \cup {Builder(next.batch, next.slot)}
    BY <1>1, <1>3, <2>1, OneAppended DEF DataloaderStep
  <2> QED BY <2>2
<1>4. ASSUME NEW c \in requeue, RequeueStep(c) PROVE b \in ToSet(builders) \/ b \in requeue
  <2>1. ToSet(builders') = ToSet(builders) \cup {c}
    BY <1>1, <1>4, OneAppended DEF RequeueStep
  <2> QED BY <2>1
<1>5. ASSUME NEW w \in Workers, TakeBuilder(w) PROVE b \in ToSet(builders)
  <2>1. builders # <<>> /\ builders' = Tail(builders)
    BY <1>5 DEF TakeBuilder
  <2>2. /\ Tail(builders) \in Seq(Items \cup {Pill}) /\ Len(Tail(builders)) = Len(builders) - 1
        /\ \A i \in 1 .. Len(Tail(builders)) : Tail(builders)[i] = builders[i + 1]
    BY <1>1, <2>1, HeadTailProperties
  <2>3. PICK i \in DOMAIN builders' : builders'[i] = b
    BY DEF ToSet
  <2>4. i + 1 \in DOMAIN builders /\ builders[i + 1] = b
    BY <1>1, <2>1, <2>2, <2>3, LenProperties
  <2> QED BY <2>4 DEF ToSet
<1>6. CASE builders' = builders \o Pills /\ ~Overflows
  <2>1. Pills \in Seq({Pill}) /\ \A i \in DOMAIN Pills : Pills[i] = Pill
    BY Constants DEF Pills
  <2>2. Len(builders) = 0
    BY <1>1, <1>6, LenProperties, Constants DEF Overflows
  <2>3. builders = <<>>
    BY <1>1, <2>2, EmptySeq
  <2>4. builders' = Pills
    BY <1>6, <2>1, <2>3, ConcatEmptySeq
  <2> QED BY <1>1, <2>1, <2>4 DEF ToSet
<1>7. CASE \/ Open \/ BeginBatch \/ Gather \/ SyncTrain \/ Collect \/ AsyncTrain \/ Peek
           \/ StreamTake \/ Save \/ FlushStep \/ NothingLeft \/ Join \/ Close \/ Evaluating
           \/ \E w \in Workers : FinishRollout(w)
  <2>1. CASE FlushStep \/ NothingLeft
    BY <1>6, <2>1 DEF FlushStep, NothingLeft, EndLoop
  <2>2. CASE ~FlushStep /\ ~NothingLeft
    <3>1. UNCHANGED builders
      BY <1>7, <2>2 DEF Open, BeginBatch, Gather, SyncTrain, Collect, AsyncTrain, Peek, StreamTake,
         Save, Join, Close, Evaluating, EvalWake, EvalDone, FinishRollout, loader
    <3> QED BY <3>1
  <2> QED BY <2>1, <2>2
<1> QED BY <1>2, <1>3, <1>4, <1>5, <1>7 DEF Next, Dataloading, Working, Training

(* No step makes a builder of a run that has not begun. *)
LEMMA NumberedStep == Typed /\ Control /\ Numbered /\ Next => Numbered'
<1> SUFFICES ASSUME Typed, Control, Numbered, Next PROVE Numbered'
  OBVIOUS
<1>0. ProcessOK /\ LoaderOK /\ RollingOK /\ StoredOK
  BY DEF Typed
<1>c. config' = config /\ config \in Configs /\ Workers' = Workers
  BY <1>0, SameConfig DEF ProcessOK
<1>n. client \in Nat /\ batch \in Nat
  <2>1. client \in 0 .. NumBatches /\ batch \in 0 .. NumBatches
    BY <1>0 DEF ProcessOK
  <2> QED BY <2>1, Constants
<1>r. run \in Nat /\ run' \in Nat /\ run <= run'
  BY RunStep
<1>o. ASSUME NEW x \in Items, x.run <= run PROVE x.run <= run'
  BY <1>o, <1>r DEF Items
<1>h. groups # <<>> => Head(groups) \in Groups /\ Head(groups) \in ToSet(groups)
  BY <1>0, QueueTail DEF RollingOK
<1>1. ASSUME NEW b \in ToSet(builders') \cap Items PROVE b.run <= run'
  <2>1. b \in ToSet(builders) \/ b \in requeue => b.run <= run
    BY DEF Numbered
  <2>2. Builder(next.batch, next.slot).run <= run
    BY <1>r DEF Builder
  <2> QED BY <1>o, <2>1, <2>2, BuildersStep
<1>2. ASSUME NEW b \in requeue' PROVE b.run <= run'
  <2>1. b \in requeue \/ (groups # <<>> /\ b = Head(groups).builder)
    <3>1. CASE Start \/ Crash \/ \E c \in requeue : RequeueStep(c)
      BY <3>1 DEF Start, Crash, Quiet, RequeueStep
    <3>2. CASE Collect \/ StreamTake
      BY <3>2 DEF Collect, StreamTake, Drop, PutBack, Minibatch
    <3>3. CASE \/ DataloaderStep \/ (\E w \in Workers : Working(w)) \/ Open \/ BeginBatch
               \/ Gather \/ SyncTrain \/ AsyncTrain \/ Peek \/ Save \/ FlushStep \/ NothingLeft
               \/ Join \/ Close \/ Evaluating
      <4>1. UNCHANGED requeue
        BY <3>3 DEF DataloaderStep, Working, TakeBuilder, FinishRollout, Open, BeginBatch, Gather,
           SyncTrain, AsyncTrain, Peek, Drop, Save, FlushStep, NothingLeft, Join, Close, Evaluating,
           EvalWake, EvalDone, loader
      <4> QED BY <4>1
    <3> QED BY <3>1, <3>2, <3>3 DEF Next, Dataloading, Training
  <2>2. b \in Items
    BY <1>0, <1>h, <2>1 DEF LoaderOK, Groups, Items
  <2> QED BY <1>h, <1>o, <2>1, <2>2 DEF Numbered
<1>3. ASSUME NEW w \in Rolled' PROVE workers'[w].builder.run <= run'
  <2>1. CASE Start \/ Crash
    <3>1. Rolled' = {}
      BY <1>0, <1>c, <2>1, RolledQuiet DEF Start, Crash, Quiet
    <3> QED BY <3>1
  <2>2. CASE Open
    <3>1. \/ UNCHANGED workers \/ workers' = [v \in Workers |-> Idle]
      BY <2>2 DEF Open
    <3>2. w \in Rolled /\ workers'[w] = workers[w]
      BY <1>0, <1>c, <3>1, RolledQuiet, RolledSame
    <3> QED BY <1>0, <1>o, <3>2 DEF Numbered, RollingOK
  <2>3. ASSUME NEW v \in Workers, TakeBuilder(v) PROVE workers'[w].builder.run <= run'
    <3>1. /\ IF Head(builders) = Pill THEN Rolled' = Rolled
             ELSE /\ Rolled' = Rolled \cup {v} /\ Head(builders) \in Items
                  /\ workers'[v] = Rolling(Head(builders))
          /\ \A u \in Workers \ {v} : workers'[u] = workers[u]
          /\ v \notin Rolled
      BY <1>0, <1>c, <1>n, <2>3, RolledTake
    <3>2. CASE w \in Rolled
      <4>1. w \in Workers \ {v}
        BY <3>1, <3>2 DEF Rolled
      <4>2. workers'[w] = workers[w]
        BY <3>1, <4>1
      <4> QED BY <1>0, <1>o, <3>2, <4>2 DEF Numbered, RollingOK
    <3>3. CASE w = v /\ Head(builders) # Pill
      <4>1. workers'[w].builder = Head(builders) /\ Head(builders) \in Items
        BY <3>1, <3>3 DEF Rolling
      <4>2. Head(builders) \in ToSet(builders)
        <5>1. builders \in Seq(Items \cup {Pill}) /\ builders # <<>>
          BY <1>0, <2>3 DEF LoaderOK, TakeBuilder
        <5>2. Head(builders) = builders[1] /\ 1 \in DOMAIN builders
          BY <5>1, HeadTailProperties, EmptySeq, LenProperties
        <5> QED BY <5>2 DEF ToSet
      <4> QED BY <1>o, <4>1, <4>2 DEF Numbered
    <3> QED BY <3>1, <3>2, <3>3
  <2>4. ASSUME NEW v \in Workers, FinishRollout(v) PROVE workers'[w].builder.run <= run'
    <3>1. /\ Rolled' = Rolled \ {v}
          /\ \A u \in Workers \ {v} : workers'[u] = workers[u]
      BY <1>0, <1>c, <2>4, RolledFinish
    <3>2. w \in Rolled /\ workers'[w] = workers[w]
      BY <3>1 DEF Rolled
    <3> QED BY <1>0, <1>o, <3>2 DEF Numbered, RollingOK
  <2>5. CASE BeginBatch
    <3>1. CASE workers' = [v \in Workers |-> Rolling(Builder(batch, v))]
      <4>1. w \in Workers
        BY <1>c DEF Rolled
      <4>2. workers'[w].builder.run = run
        BY <3>1, <4>1 DEF Rolling, Builder
      <4> QED BY <1>r, <4>2
    <3>2. CASE UNCHANGED workers
      <4>1. w \in Rolled /\ workers'[w] = workers[w]
        BY <1>c, <3>2, RolledSame
      <4> QED BY <1>0, <1>o, <4>1 DEF Numbered, RollingOK
    <3> QED BY <2>5, <3>1, <3>2 DEF BeginBatch
  <2>6. CASE \/ Dataloading \/ Gather \/ SyncTrain \/ Collect \/ AsyncTrain \/ Peek
             \/ StreamTake \/ Save \/ FlushStep \/ NothingLeft \/ Join \/ Close \/ Evaluating
    <3>1. UNCHANGED workers
      BY <2>6 DEF Dataloading, DataloaderStep, RequeueStep, Gather, SyncTrain, Collect,
         AsyncTrain, Peek, StreamTake, Save, FlushStep, NothingLeft, Join, Close, Evaluating,
         EvalWake, EvalDone, rolling
    <3>2. w \in Rolled /\ workers'[w] = workers[w]
      BY <1>c, <3>1, RolledSame
    <3> QED BY <1>0, <1>o, <3>2 DEF Numbered, RollingOK
  <2> QED BY <2>1, <2>2, <2>3, <2>4, <2>5, <2>6 DEF Next, Working, Training
<1>4. ASSUME NEW g \in ToSet(groups') \cup ToSet(wrapped') PROVE g.builder.run <= run'
  <2>1. CASE g \in ToSet(groups) \cup ToSet(wrapped)
    <3>1. g.builder \in Items
      <4>1. ToSet(groups) \cup ToSet(wrapped) \subseteq Groups
        BY <1>0 DEF RollingOK, ToSet
      <4> QED BY <2>1, <4>1 DEF Groups, Items
    <3> QED BY <1>o, <2>1, <3>1 DEF Numbered
  <2>2. ASSUME NEW w \in Workers, FinishRollout(w), g.builder = workers[w].builder
        PROVE  g.builder.run <= run'
    <3>1. w \in Rolled
      BY <2>2 DEF FinishRollout, Rolled
    <3> QED BY <1>0, <1>o, <2>2, <3>1 DEF Numbered, RollingOK
  <2> QED BY <2>1, <2>2, QueuedStep
<1>5. ASSUME NEW w \in weights' \cup (LastRow)'.state PROVE w.builder.run <= run'
  <2>1. ASSUME NEW v \in weights \cup LastRow.state PROVE v.builder.run <= run'
    <3>1. LastRow.state \subseteq Points
      BY <1>0, LastRowType DEF StoredOK
    <3>2. v.builder \in Items
      BY <1>0, <3>1 DEF StoredOK, Points
    <3> QED BY <1>o, <3>2 DEF Numbered
  <2>2. ASSUME NEW G \in SUBSET Groups, weights' = weights \cup Trained(G),
               G \subseteq ToSet(groups) \cup ToSet(wrapped), w \in weights'
        PROVE  w.builder.run <= run'
    <3>1. ASSUME NEW g \in G, w.builder = g.builder PROVE w.builder.run <= run'
      <4>1. g.builder \in Items /\ g.builder.run <= run
        BY <2>2 DEF Groups, Items, Numbered
      <4> QED BY <1>o, <3>1, <4>1
    <3> QED BY <2>1, <2>2, <3>1 DEF Trained
  <2>3. w \in weights' => w.builder.run <= run'
    BY <1>0, <2>1, <2>2, NextWeights, TrainedQueued
  <2>4. w \in (LastRow)'.state => w \in weights \cup LastRow.state
    BY <1>0, LastRowStep
  <2> QED BY <2>1, <2>3, <2>4
<1> QED BY <1>1, <1>2, <1>3, <1>4, <1>5 DEF Numbered

-----------------------------------------------------------------------------
(* Where the dataloader is *)

(* Every step keeps the dataloader ahead of the start, and in the loops that gather a
   batch a whole batch ahead or level. *)
LEMMA PositionsStep == Typed /\ Control /\ Gathered /\ Positions /\ Next => Positions'
<1> SUFFICES ASSUME Typed, Control, Gathered, Positions, Next PROVE Positions'
  OBVIOUS
<1> USE DEF process, loop, loader, rolling
<1>0. ProcessOK /\ LoaderOK /\ RollingOK /\ StoredOK
  BY DEF Typed
<1>c. config' = config /\ IsAsync' = IsAsync /\ config \in Configs
  BY <1>0, SameConfig DEF ProcessOK
<1>l. config.loop = "sync" => ~IsAsync
  BY <1>0, Loops DEF ProcessOK
<1>n. /\ batch \in Nat /\ start \in Nat /\ start <= batch /\ LastRow.batch \in Nat
      /\ next.batch \in Nat /\ next.slot \in Nat
  <2>1. /\ batch \in 0 .. NumBatches /\ start \in 0 .. NumBatches
        /\ next \in [batch : 0 .. NumBatches, slot : 1 .. BatchSize]
    BY <1>0 DEF ProcessOK, LoaderOK
  <2>2. LastRow.batch \in 0 .. NumBatches
    BY <1>0, LastRowType DEF StoredOK
  <2> QED BY <2>1, <2>2, Constants DEF Control
<1>1. CASE Start
  <2>1. /\ start' = LastRow.batch /\ batch' = LastRow.batch
        /\ next' = [batch |-> LastRow.batch, slot |-> 1]
        /\ pc' \in {"open", "failed"} /\ builders' = <<>> /\ requeue' = {}
        /\ workers' = [w \in Workers |-> Exited]
    BY <1>1 DEF Start, Quiet
  <2>2. Rolled' = {}
    BY <1>0, <1>c, <2>1, RolledQuiet
  <2> QED BY <1>n, <2>1, <2>2 DEF Positions
<1>2. CASE Crash
  <2>1. pc' = "down" /\ UNCHANGED <<start, next>>
    BY <1>2 DEF Crash
  <2> QED BY <2>1 DEF Positions
<1>3. CASE DataloaderStep
  <2>1. UNCHANGED <<start, pc, batch>> /\ IsAsync /\ pc # "open"
    BY <1>3 DEF DataloaderStep
  <2>2. next'.batch \in {next.batch, next.batch + 1}
    <3>1. \/ next' = [next EXCEPT !.slot = @ + 1]
          \/ next' = [batch |-> next.batch + 1, slot |-> 1]
      BY <1>3 DEF DataloaderStep
    <3>2. next \in [batch : 0 .. NumBatches, slot : 1 .. BatchSize]
      BY <1>0 DEF LoaderOK
    <3> QED BY <3>1, <3>2
  <2> QED BY <1>c, <1>n, <2>1, <2>2 DEF Positions
<1>4. ASSUME NEW b \in requeue, RequeueStep(b) PROVE Positions'
  <2>1. UNCHANGED <<start, pc, batch, next>>
    BY <1>4 DEF RequeueStep
  <2>2. pc # "open"
    BY DEF Positions
  <2> QED BY <1>c, <2>1, <2>2 DEF Positions
<1>5. ASSUME NEW w \in Workers, Working(w) PROVE Positions'
  <2>1. UNCHANGED <<start, pc, batch, next>>
    BY <1>5 DEF Working, TakeBuilder, FinishRollout
  <2>2. builders # <<>> \/ w \in Rolled
    BY <1>5 DEF Working, TakeBuilder, FinishRollout, Rolled
  <2>3. pc # "open"
    BY <2>2 DEF Positions
  <2> QED BY <1>c, <2>1, <2>3 DEF Positions
<1>6. CASE BeginBatch
  <2>1. /\ UNCHANGED <<start, batch>> /\ pc = "begin"
        /\ \/ next' = [batch |-> batch + 1, slot |-> 1] /\ pc' = "collect"
           \/ UNCHANGED next /\ pc' = "final"
    BY <1>6 DEF BeginBatch
  <2> QED BY <1>c, <1>n, <2>1 DEF Positions
<1>7. CASE Save \/ FlushStep
  <2>1. /\ UNCHANGED <<start, next>> /\ pc \in {"save", "flush"} /\ pc' # "open"
    BY <1>7 DEF Save, FlushStep, EndLoop
  <2>2. ~IsAsync => \/ pc' = "begin" /\ batch' = batch + 1
                    \/ pc' = "flush" /\ batch' = batch
    BY <1>7 DEF Save, FlushStep
  <2> QED BY <1>c, <2>1, <2>2 DEF Positions
<1>8. CASE Open \/ Gather \/ SyncTrain \/ Join \/ Close
  <2>1. UNCHANGED <<start, next, batch>>
    BY <1>8 DEF Open, Gather, SyncTrain, Join, Close
  <2>2. ~IsAsync => \/ pc \in {"collect", "train"} /\ pc' \in {"train", "save"}
                    \/ pc \in {"open", "join", "final"} /\ pc' \in {"begin", "final", "closed"}
    BY <1>8 DEF Open, Gather, SyncTrain, Join, Close
  <2>3. pc' # "open"
    BY <1>8 DEF Open, Gather, SyncTrain, Join, Close
  <2> QED BY <1>c, <2>1, <2>2, <2>3 DEF Positions
<1>9. CASE Collect \/ AsyncTrain \/ Peek \/ StreamTake \/ NothingLeft
  <2>1. UNCHANGED <<start, next, batch>>
    BY <1>9 DEF Collect, AsyncTrain, Peek, StreamTake, NothingLeft
  <2>2. ~IsAsync => pc = "collect" /\ pc' \in {"collect", "save", "failed"}
    BY <1>9 DEF Collect, AsyncTrain, Peek, StreamTake, Minibatch, NothingLeft
  <2>3. pc' # "open"
    BY <1>9 DEF Collect, AsyncTrain, Peek, StreamTake, Minibatch, NothingLeft, EndLoop
  <2> QED BY <1>c, <2>1, <2>2, <2>3 DEF Positions
<1>10. CASE Evaluating
  <2>1. UNCHANGED <<start, next, batch, pc, builders, requeue, workers>>
    BY <1>10 DEF Evaluating, EvalWake, EvalDone
  <2> QED BY <1>c, <2>1, RolledSame DEF Positions
<1> QED BY <1>1, <1>2, <1>3, <1>4, <1>5, <1>6, <1>7, <1>8, <1>9, <1>10
        DEF Next, Dataloading, Training

-----------------------------------------------------------------------------
(* One place each *)

(* Every step moves a builder from one place to another, and puts a new one in one place:
   the sum of the places is kept, term by term. *)
LEMMA OneEachStep == IInv /\ Placed /\ Next => OneEach'
<1> SUFFICES ASSUME IInv, Placed, Next, pc' # "down", NEW x \in Items, x.run = run'
             PROVE  /\ PointsOf(weights', x) = {} \/ \E w : PointsOf(weights', x) = {w}
                    /\ Places(x)' = IF x \in Loaded' THEN 1 ELSE 0
  BY DEF OneEach, PointsOf
<1> USE DEF process, loop, loader, rolling
<1> DEFINE
      Small == PointsOf(weights', x) = {} \/ \E w : PointsOf(weights', x) = {w}
<1>0. /\ ProcessOK /\ LoaderOK /\ RollingOK /\ StoredOK /\ Typed /\ Control /\ Gathered
      /\ Numbered /\ Positions /\ OneEach
  BY DEF IInv, Typed, Placed
<1>c. config' = config /\ config \in Configs /\ Workers' = Workers /\ IsAsync' = IsAsync
  BY <1>0, SameConfig DEF ProcessOK
<1>n. /\ batch \in Nat /\ start \in Nat /\ run \in Nat /\ client \in Nat
      /\ next \in [batch : Nat, slot : Nat \ {0}] /\ BatchSize \in Nat
      /\ start <= next.batch /\ next.slot <= BatchSize
  <2>1. /\ batch \in 0 .. NumBatches /\ start \in 0 .. NumBatches /\ run \in 0 .. MaxRuns
        /\ client \in 0 .. NumBatches /\ next \in [batch : 0 .. NumBatches, slot : 1 .. BatchSize]
    BY <1>0 DEF ProcessOK, LoaderOK
  <2>2. start <= next.batch
    BY <1>0 DEF Positions
  <2> QED BY <2>1, <2>2, Constants
<1>x. x.batch \in Nat /\ x.slot \in Nat /\ x # Pill
  BY DEF Items, Pill
<1>q. /\ builders \in Seq(Items \cup {Pill}) /\ groups \in Seq(Groups) /\ wrapped \in Seq(Groups)
      /\ (groups # <<>> => Head(groups) \in Groups /\ Tail(groups) \in Seq(Groups))
  BY <1>0, QueueTail DEF LoaderOK, RollingOK
<1>p. /\ Places(x) = Waiting(x) + Running(x) + Queued(x) + Held(x) + Learned(x) + PutAside(x)
                       + Spent(x)
      /\ Places(x)' = Waiting(x)' + Running(x)' + Queued(x)' + Held(x)' + Learned(x)'
                       + PutAside(x)' + Spent(x)'
  BY DEF Places, Waiting, Running, Queued, Held, Learned, PointsOf, PutAside, Spent
<1>a. /\ PutAside(x) = (IF x \in requeue THEN 1 ELSE 0)
      /\ Spent(x) = (IF x \in untrained THEN 1 ELSE 0)
      /\ PutAside(x)' = (IF x \in requeue' THEN 1 ELSE 0)
      /\ Spent(x)' = (IF x \in untrained' THEN 1 ELSE 0)
  <2>1. \A S : Cardinality({x} \cap S) = IF x \in S THEN 1 ELSE 0
    <3>1. \A S : x \in S => {x} \cap S = {x}
      OBVIOUS
    <3>2. \A S : x \notin S => {x} \cap S = {}
      OBVIOUS
    <3> QED BY <3>1, <3>2, FS_Singleton, FS_EmptySet
  <2> QED BY <2>1 DEF PutAside, Spent
<1>l. /\ Loaded = LoadedFrom(start, next, run) /\ Loaded' = LoadedFrom(start', next', run')
      /\ UNCHANGED <<start, next, run>> => Loaded' = Loaded
  BY DEF Loaded, LoadedFrom, Builder
<1>u. /\ UNCHANGED builders => Waiting(x)' = Waiting(x)
      /\ UNCHANGED workers => Running(x)' = Running(x)
      /\ UNCHANGED groups => Queued(x)' = Queued(x)
      /\ UNCHANGED wrapped => Held(x)' = Held(x)
      /\ UNCHANGED weights => Learned(x)' = Learned(x) /\ PointsOf(weights', x) = PointsOf(weights, x)
      /\ UNCHANGED requeue => PutAside(x)' = PutAside(x)
      /\ UNCHANGED untrained => Spent(x)' = Spent(x)
  BY <1>c DEF Waiting, Running, Queued, Held, Learned, PointsOf, PutAside, Spent
<1>e. /\ builders' = <<>> => Waiting(x)' = 0
      /\ groups' = <<>> => Queued(x)' = 0
      /\ wrapped' = <<>> => Held(x)' = 0
      /\ Rolled' = {} => Running(x)' = 0
      /\ PointsOf(weights', x) = {} => Learned(x)' = 0
      /\ \A p : PointsOf(weights', x) = {p} => Learned(x)' = 1
  <2>1. Rolled' = {} => {w \in Workers' : workers'[w].at = "rolling" /\ workers'[w].builder = x} = {}
    BY DEF Rolled
  <2>2. Cardinality({}) = 0 /\ \A p : Cardinality({p}) = 1
    BY FS_EmptySet, FS_Singleton
  <2>3. \A T : {j \in DOMAIN <<>> : <<>>[j] = T} = {} /\ {j \in DOMAIN <<>> : <<>>[j].builder = T} = {}
    OBVIOUS
  <2> QED BY <2>1, <2>2, <2>3 DEF Waiting, Running, Queued, Held, Learned, PointsOf
<1>g. Waiting(x)' \in Nat /\ Running(x)' \in Nat /\ Queued(x)' \in Nat /\ Held(x)' \in Nat
  <2>1. builders' \in Seq(Items \cup {Pill}) /\ groups' \in Seq(Groups) /\ wrapped' \in Seq(Groups)
    BY <1>0, LoaderStep, RollingStep DEF LoaderOK, RollingOK
  <2>2. {j \in DOMAIN builders' : builders'[j] = x} = At(builders', {x})
    BY DEF At
  <2>3. Waiting(x)' \in Nat
    BY <2>1, <2>2, CountType DEF Waiting
  <2>4. \A s \in Seq(Groups) : Cardinality({j \in DOMAIN s : s[j].builder = x}) \in Nat
    <3>1. \A s \in Seq(Groups) : Cardinality(At(s, Of(x))) \in Nat
      BY CountType
    <3> QED BY <3>1, GroupsOf
  <2>5. Queued(x)' \in Nat /\ Held(x)' \in Nat
    BY <2>1, <2>4 DEF Queued, Held
  <2>6. Running(x)' \in Nat
    <3>1. IsFiniteSet(Workers')
      BY <1>c, WorkerRange, FS_Interval, Constants
    <3>2. {w \in Workers' : workers'[w].at = "rolling" /\ workers'[w].builder = x}
            \in SUBSET Workers'
      OBVIOUS
    <3>3. IsFiniteSet({w \in Workers' : workers'[w].at = "rolling" /\ workers'[w].builder = x})
      BY <3>1, <3>2, FS_Subset
    <3> QED BY <3>3, FS_CardinalityType DEF Running
  <2> QED BY <2>3, <2>5, <2>6
<1>1. CASE Start
  <2>1. /\ start' = LastRow.batch /\ next' = [batch |-> LastRow.batch, slot |-> 1]
        /\ weights' = LastRow.state /\ run' = run + 1 /\ builders' = <<>> /\ groups' = <<>>
        /\ wrapped' = <<>> /\ requeue' = {} /\ untrained' = {}
        /\ workers' = [w \in Workers |-> Exited]
    BY <1>1 DEF Start, Quiet
  <2>2. Rolled' = {}
    BY <1>0, <1>c, <2>1, RolledQuiet
  <2>3. PointsOf(weights', x) = {}
    <3>1. \A w \in weights' : w.builder.run <= run
      BY <1>0, <2>1 DEF Numbered
    <3>2. \A w \in weights' : w.builder # x
      BY <1>n, <2>1, <3>1
    <3> QED BY <3>2 DEF PointsOf
  <2>4. x \notin Loaded'
    <3>1. LastRow.batch \in 0 .. NumBatches
      BY <1>0, LastRowType DEF StoredOK
    <3>2. LastRow.batch \in Nat /\ run' \in Nat
      BY <1>n, <2>1, <3>1, Constants
    <3>3. PICK st \in Nat : st = LastRow.batch
      BY <3>2
    <3>4. /\ start' = st /\ next' = [batch |-> st, slot |-> 1]
          /\ next' \in [batch : Nat, slot : Nat \ {0}]
      BY <2>1, <3>3
    <3>5. ~(x.batch >= st /\ x.batch < st) /\ 1 .. 1 - 1 = {}
      BY <1>x
    <3>6. x \in LoadedFrom(start', next', run')
            <=> /\ x.run = run' /\ x.batch >= st
                /\ \/ x.batch < st /\ x.slot \in 1 .. BatchSize
                   \/ x.batch = st /\ x.slot \in 1 .. 1 - 1
      BY <3>2, <3>4, LoadedItems
    <3> QED BY <1>l, <3>5, <3>6
  <2>5. Places(x)' = 0
    BY <1>a, <1>e, <1>p, <2>1, <2>2, <2>3
  <2> QED BY <2>3, <2>4, <2>5
<1> DEFINE n == IF x \in Loaded THEN 1 ELSE 0
<1>o. ASSUME ~Start
      PROVE  /\ run' = run /\ start' = start /\ x.run = run
             /\ PointsOf(weights, x) = {} \/ \E w : PointsOf(weights, x) = {w}
             /\ Waiting(x) + Running(x) + Queued(x) + Held(x) + Learned(x) + PutAside(x)
                  + Spent(x) = n
             /\ Waiting(x) \in Nat /\ Running(x) \in Nat /\ Queued(x) \in Nat /\ Held(x) \in Nat
             /\ Learned(x) \in {0, 1} /\ (Learned(x) = 0 => PointsOf(weights, x) = {})
             /\ PutAside(x) \in {0, 1} /\ Spent(x) \in {0, 1} /\ n \in {0, 1}
  <2>1. pc # "down"
    BY <1>o DEF Next, Crash, Dataloading, DataloaderStep, RequeueStep, Working, TakeBuilder,
       FinishRollout, Training, Open, BeginBatch, Gather, SyncTrain, Collect, AsyncTrain, Peek,
       StreamTake, Save, FlushStep, NothingLeft, Join, Close, Evaluating, EvalWake, EvalDone, Alive,
       IsAsync
  <2>2. run' = run /\ start' = start
    BY <1>0, <1>o, RunStep
  <2>3. /\ PointsOf(weights, x) = {} \/ \E w : PointsOf(weights, x) = {w}
        /\ Places(x) = n
    BY <1>0, <2>1, <2>2 DEF OneEach
  <2>4. Learned(x) \in {0, 1} /\ (Learned(x) = 0 => PointsOf(weights, x) = {})
    BY <2>3, LearnedOnce
  <2>5. Waiting(x) \in Nat /\ Running(x) \in Nat /\ Queued(x) \in Nat /\ Held(x) \in Nat
    BY <1>0, <1>c, CountedPlaces
  <2> QED BY <1>a, <1>p, <2>2, <2>3, <2>4, <2>5
<1> HIDE DEF n
<1>t. ASSUME ~Start, UNCHANGED next PROVE (IF x \in Loaded' THEN 1 ELSE 0) = n
  BY <1>l, <1>o, <1>t DEF n

<1>2. CASE Crash
  BY <1>2 DEF Crash
<1>3. CASE DataloaderStep
  <2>1. UNCHANGED <<workers, groups, wrapped, weights, requeue, untrained>> /\ ~Start
        /\ next' = (IF next.slot < BatchSize THEN [next EXCEPT !.slot = @ + 1]
                                            ELSE [batch |-> next.batch + 1, slot |-> 1])
    BY <1>3 DEF DataloaderStep, Start, Alive
  <2>2. PICK b : b = Builder(next.batch, next.slot)
    OBVIOUS
  <2>3. b \in Items /\ b.batch = next.batch /\ b.slot = next.slot /\ b.run = run
    BY <1>n, <2>2 DEF Builder, Items
  <2>4. Waiting(x)' = Waiting(x) + IF b = x THEN 1 ELSE 0
    BY <1>3, <1>q, <2>2, <2>3, WaitingMore DEF DataloaderStep
  <2>5. next' \in [batch : Nat, slot : Nat \ {0}] /\ start' <= next'.batch
        /\ \/ next.slot < BatchSize /\ next'.batch = next.batch /\ next'.slot = next.slot + 1
           \/ next.slot = BatchSize /\ next'.batch = next.batch + 1 /\ next'.slot = 1
    <3>1. start' = start
      BY <1>o, <2>1
    <3>2. CASE next.slot < BatchSize
      <4>1. next' = [next EXCEPT !.slot = next.slot + 1]
        BY <2>1, <3>2
      <4>2. next'.batch = next.batch /\ next'.slot = next.slot + 1
        BY <1>n, <4>1
      <4>3. next.slot + 1 \in Nat \ {0}
        BY <1>n
      <4>4. next' \in [batch : Nat, slot : Nat \ {0}]
        BY <1>n, <4>1, <4>3
      <4> QED BY <1>n, <3>1, <3>2, <4>2, <4>4
    <3>3. CASE ~(next.slot < BatchSize)
      <4>1. next' = [batch |-> next.batch + 1, slot |-> 1]
        BY <2>1, <3>3
      <4>2. next.slot = BatchSize /\ next.batch + 1 \in Nat /\ start <= next.batch + 1
        BY <1>n, <3>3
      <4> QED BY <3>1, <4>1, <4>2
    <3> QED BY <3>2, <3>3
  <2>6. x = b <=> x.batch = next.batch /\ x.slot = next.slot
    BY <1>o, <2>1, <2>2 DEF Builder, Items
  <2>7. x \in Loaded <=> /\ x.batch >= start
                         /\ \/ x.batch < next.batch /\ x.slot \in 1 .. BatchSize
                            \/ x.batch = next.batch /\ x.slot \in 1 .. next.slot - 1
    BY <1>l, <1>n, <1>o, <2>1, LoadedItems
  <2>8. x \in Loaded' <=> /\ x.batch >= start
                          /\ \/ x.batch < next'.batch /\ x.slot \in 1 .. BatchSize
                             \/ x.batch = next'.batch /\ x.slot \in 1 .. next'.slot - 1
    <3>1. run' = run /\ start' = start /\ x.run = run
      BY <1>o, <2>1
    <3>2. Loaded' = LoadedFrom(start, next', run)
      BY <1>l, <3>1
    <3>3. PICK nx \in [batch : Nat, slot : Nat \ {0}] : nx = next' /\ start <= nx.batch
      BY <2>5, <3>1
    <3>4. x \in LoadedFrom(start, nx, run)
            <=> /\ x.run = run /\ x.batch >= start
                /\ \/ x.batch < nx.batch /\ x.slot \in 1 .. BatchSize
                   \/ x.batch = nx.batch /\ x.slot \in 1 .. nx.slot - 1
      BY <1>n, <3>3, LoadedItems
    <3> QED BY <3>1, <3>2, <3>3, <3>4
  <2>9. (x \in Loaded' <=> x \in Loaded \/ x = b) /\ (x = b => x \notin Loaded)
    BY <1>n, <1>x, <2>5, <2>6, <2>7, <2>8
  <2>10. Places(x)' = n + IF b = x THEN 1 ELSE 0
    BY <1>o, <1>p, <1>u, <2>1, <2>4
  <2>11. Small
    BY <1>o, <1>u, <2>1
  <2>12. n = IF x \in Loaded THEN 1 ELSE 0
    BY DEF n
  <2> QED BY <2>9, <2>10, <2>11, <2>12
<1>4. ASSUME NEW b \in requeue, RequeueStep(b)
      PROVE  Small /\ Places(x)' = IF x \in Loaded' THEN 1 ELSE 0
  <2>1. UNCHANGED <<next, workers, groups, wrapped, weights, untrained>> /\ ~Start
        /\ requeue' = requeue \ {b}
    BY <1>4 DEF RequeueStep, Start, Alive
  <2>2. Waiting(x)' = Waiting(x) + IF b = x THEN 1 ELSE 0
    BY <1>0, <1>4, <1>q, WaitingMore DEF RequeueStep, LoaderOK
  <2>3. PutAside(x) = PutAside(x)' + IF b = x THEN 1 ELSE 0
    BY <1>a, <2>1
  <2>4. PutAside(x)' \in {0, 1}
    BY <1>a
  <2>5. Places(x)' = n
    BY <1>o, <1>p, <1>u, <2>1, <2>2, <2>3, <2>4
  <2> QED BY <1>o, <1>t, <1>u, <2>1, <2>5
<1>5. ASSUME NEW w \in Workers, TakeBuilder(w)
      PROVE  Small /\ Places(x)' = IF x \in Loaded' THEN 1 ELSE 0
  <2>1. UNCHANGED <<next, groups, wrapped, weights, requeue, untrained>> /\ ~Start
        /\ builders # <<>> /\ builders' = Tail(builders)
    BY <1>5 DEF TakeBuilder, Start, Alive
  <2>2. Waiting(x) = Waiting(x)' + IF Head(builders) = x THEN 1 ELSE 0
    BY <1>q, <2>1, WaitingLess
  <2>3. /\ w \notin Rolled
        /\ IF Head(builders) = Pill THEN Rolled' = Rolled
           ELSE /\ Rolled' = Rolled \cup {w} /\ Head(builders) \in Items
                /\ workers'[w] = Rolling(Head(builders))
        /\ \A v \in Workers \ {w} : workers'[v] = workers[v]
    BY <1>0, <1>c, <1>n, <1>5, RolledTake
  <2>4. Running(x)' = Running(x) + IF Head(builders) = x THEN 1 ELSE 0
    <3>1. CASE Head(builders) = Pill
      <4>1. \A v \in Rolled : workers'[v] = workers[v]
        BY <2>3 DEF Rolled
      <4>2. Running(x)' = Running(x)
        <5>1. {v \in Workers : workers[v].at = "rolling" /\ workers[v].builder = x}
                = {v \in Rolled : workers[v].builder = x}
          BY DEF Rolled
        <5>2. {v \in Workers' : workers'[v].at = "rolling" /\ workers'[v].builder = x}
                = {v \in Rolled' : workers'[v].builder = x}
          BY DEF Rolled
        <5> QED BY <2>3, <3>1, <4>1, <5>1, <5>2 DEF Running
      <4>3. Running(x) \in Nat
        BY <1>o, <2>1
      <4> QED BY <1>x, <3>1, <4>2, <4>3
    <3>2. CASE Head(builders) # Pill
      <4>1. workers'[w].builder = Head(builders) /\ Rolled' = Rolled \cup {w}
        BY <2>3, <3>2 DEF Rolling
      <4> QED BY <1>c, <2>3, <4>1, RunningMore
    <3> QED BY <3>1, <3>2
  <2>6. Places(x)' = n
    BY <1>g, <1>o, <1>p, <1>u, <2>1, <2>2, <2>4
  <2> QED BY <1>o, <1>t, <1>u, <2>1, <2>6
<1>6. ASSUME NEW w \in Workers, FinishRollout(w)
      PROVE  Small /\ Places(x)' = IF x \in Loaded' THEN 1 ELSE 0
  <2>1. UNCHANGED <<next, builders, wrapped, weights, requeue, untrained>> /\ ~Start
    BY <1>6 DEF FinishRollout, Start, Alive
  <2>2. /\ w \in Rolled /\ Rolled' = Rolled \ {w}
        /\ \A v \in Workers \ {w} : workers'[v] = workers[v]
    BY <1>0, <1>c, <1>6, RolledFinish
  <2>3. Running(x) = Running(x)' + IF workers[w].builder = x THEN 1 ELSE 0
    BY <1>c, <2>2, RunningLess
  <2>4. PICK constant \in BOOLEAN : groups' = Append(groups, Group(w, constant))
    BY <1>6 DEF FinishRollout
  <2>5. Group(w, constant) \in Groups /\ Group(w, constant).builder = workers[w].builder
    BY <1>0, <2>2 DEF Group, Groups, RollingOK, Tasks, Items
  <2>6. Queued(x)' = Queued(x) + IF workers[w].builder = x THEN 1 ELSE 0
    <3>1. PICK g \in Groups : g = Group(w, constant)
      BY <2>5
    <3>2. groups' = Append(groups, g) /\ g.builder = workers[w].builder
      BY <2>4, <2>5, <3>1
    <3> HIDE <2>4, <2>5
    <3>3. Cardinality({j \in DOMAIN Append(groups, g) : Append(groups, g)[j].builder = x})
            = Cardinality({j \in DOMAIN groups : groups[j].builder = x})
                + IF g.builder = x THEN 1 ELSE 0
      BY <1>q, GroupsMore
    <3> QED BY <3>2, <3>3 DEF Queued
  <2>8. Places(x)' = n
    BY <1>g, <1>o, <1>p, <1>u, <2>1, <2>3, <2>6
  <2> QED BY <1>o, <1>t, <1>u, <2>1, <2>8

<1> DEFINE Goal == Small /\ Places(x)' = IF x \in Loaded' THEN 1 ELSE 0
<1>z. ASSUME ~Start, UNCHANGED next, Small,
             Waiting(x)' + Running(x)' + Queued(x)' + Held(x)' + Learned(x)' + PutAside(x)'
               + Spent(x)'
               = Waiting(x) + Running(x) + Queued(x) + Held(x) + Learned(x) + PutAside(x) + Spent(x)
      PROVE  Goal
  <2>1. Places(x)' = n
    <3>1. Waiting(x) + Running(x) + Queued(x) + Held(x) + Learned(x) + PutAside(x) + Spent(x) = n
      BY <1>o, <1>z
    <3> QED BY <1>p, <1>z, <3>1
  <2> QED BY <1>t, <1>z, <2>1
<1>m. ASSUME ~Start, NEW s \in Seq(Groups), NEW G \in SUBSET ToSet(s),
             weights' = weights \cup Trained(G),
             \/ untrained' = untrained \cup (BuildersOf(ToSet(s)) \ BuildersOf(G))
             \/ untrained' = untrained \cup BuildersOf(ToSet(s) \ G),
             Cardinality(At(s, Of(x))) + Learned(x) + Spent(x) \in {0, 1}
      PROVE  /\ Small /\ Learned(x)' \in {0, 1} /\ Spent(x)' \in {0, 1}
             /\ Learned(x)' + Spent(x)' = Cardinality(At(s, Of(x))) + Learned(x) + Spent(x)
  <2>1. Cardinality(At(s, Of(x))) \in Nat
    BY <1>m, CountType
  <2>2. /\ Learned(x) \in {0, 1} /\ Spent(x) \in {0, 1}
        /\ (Learned(x) = 0 => PointsOf(weights, x) = {})
        /\ (PointsOf(weights, x) = {} \/ \E w : PointsOf(weights, x) = {w})
    BY <1>m, <1>o
  <2>3. /\ Cardinality(At(s, Of(x))) \in {0, 1}
        /\ (Cardinality(At(s, Of(x))) = 1 => Learned(x) = 0 /\ Spent(x) = 0)
    BY <1>m, <2>1, <2>2
  <2>4. Cardinality(At(s, Of(x))) = 1 => PointsOf(weights, x) = {} /\ x \notin untrained
    BY <1>a, <2>2, <2>3
  <2>5. \/ /\ Cardinality(At(s, Of(x))) = 0
           /\ PointsOf(weights', x) = PointsOf(weights, x)
           /\ (x \in untrained' <=> x \in untrained)
        \/ /\ Cardinality(At(s, Of(x))) = 1
           /\ \E p : PointsOf(weights', x) = {p}
           /\ x \notin untrained'
        \/ /\ Cardinality(At(s, Of(x))) = 1
           /\ PointsOf(weights', x) = {}
           /\ x \in untrained'
    BY <1>n, <1>m, <2>3, <2>4, UsedUp
  <2>6. CASE /\ Cardinality(At(s, Of(x))) = 0
             /\ PointsOf(weights', x) = PointsOf(weights, x)
             /\ (x \in untrained' <=> x \in untrained)
    <3>1. Learned(x)' = Learned(x)
      BY <2>6 DEF Learned
    <3>2. Spent(x)' = Spent(x)
      BY <1>a, <2>6
    <3>3. Small
      BY <2>2, <2>6
    <3>4. Learned(x) \in {0, 1} /\ Spent(x) \in {0, 1} /\ Cardinality(At(s, Of(x))) = 0
      BY <2>2, <2>6
    <3>5. /\ Learned(x)' \in {0, 1} /\ Spent(x)' \in {0, 1}
          /\ Learned(x)' + Spent(x)' = Cardinality(At(s, Of(x))) + Learned(x) + Spent(x)
      <4> HIDE DEF Small
      <4> QED BY <3>1, <3>2, <3>4
    <3> QED BY <3>3, <3>5
  <2>7. CASE /\ Cardinality(At(s, Of(x))) = 1
             /\ \E p : PointsOf(weights', x) = {p}
             /\ x \notin untrained'
    <3>1. Learned(x)' = 1 /\ Spent(x)' = 0
      BY <1>a, <1>e, <2>7
    <3> QED BY <2>3, <2>7, <3>1
  <2>8. CASE /\ Cardinality(At(s, Of(x))) = 1
             /\ PointsOf(weights', x) = {}
             /\ x \in untrained'
    <3>1. Learned(x)' = 0 /\ Spent(x)' = 1
      BY <1>a, <1>e, <2>8
    <3> QED BY <2>3, <2>8, <3>1
  <2> QED BY <2>5, <2>6, <2>7, <2>8
<1>7. CASE BeginBatch
  <2>1. /\ UNCHANGED <<builders, requeue, groups, wrapped, weights, untrained>> /\ ~Start
        /\ pc = "begin"
        /\ \/ UNCHANGED <<workers, next>>
           \/ /\ workers' = [w \in Workers |-> Rolling(Builder(batch, w))]
              /\ next' = [batch |-> batch + 1, slot |-> 1]
    BY <1>7 DEF BeginBatch, Start
  <2>2. ~IsAsync
    BY <1>0, <2>1 DEF Control
  <2>3. Rolled = {} /\ next.slot = 1 /\ next.batch = batch
    BY <1>0, <2>1, <2>2 DEF Gathered, Positions
  <2>4. CASE UNCHANGED <<workers, next>>
    <3>1. Small
      BY <1>o, <1>u, <2>1
    <3>2. Waiting(x)' + Running(x)' + Queued(x)' + Held(x)' + Learned(x)' + PutAside(x)'
            + Spent(x)'
          = Waiting(x) + Running(x) + Queued(x) + Held(x) + Learned(x) + PutAside(x) + Spent(x)
      BY <1>u, <2>1, <2>4
    <3> QED BY <1>z, <2>1, <2>4, <3>1, <3>2
  <2>5. CASE /\ workers' = [w \in Workers |-> Rolling(Builder(batch, w))]
             /\ next' = [batch |-> batch + 1, slot |-> 1]
    <3>1. Running(x) = 0
      <4>1. {w \in Workers : workers[w].at = "rolling" /\ workers[w].builder = x} = {}
        BY <2>3 DEF Rolled
      <4> QED BY <4>1, FS_EmptySet DEF Running
    <3>2. start' = start /\ run' = run /\ x.run = run
      BY <1>o, <2>1
    <3>3. x \in Loaded <=> /\ x.batch >= start
                           /\ \/ x.batch < batch /\ x.slot \in 1 .. BatchSize
                              \/ x.batch = batch /\ x.slot \in 1 .. 1 - 1
      BY <1>l, <1>n, <2>3, <3>2, LoadedItems
    <3>4. x \in Loaded' <=> /\ x.batch >= start
                            /\ \/ x.batch < batch + 1 /\ x.slot \in 1 .. BatchSize
                               \/ x.batch = batch + 1 /\ x.slot \in 1 .. 1 - 1
      <4>1. Loaded' = LoadedFrom(start, next', run)
        BY <1>l, <3>2
      <4>2. PICK nx \in [batch : Nat, slot : Nat \ {0}] :
              nx = next' /\ nx.batch = batch + 1 /\ nx.slot = 1 /\ start <= nx.batch
        <5>1. batch + 1 \in Nat /\ start <= batch + 1
          BY <1>n, <2>3
        <5> QED BY <2>5, <5>1
      <4>3. x \in LoadedFrom(start, nx, run)
              <=> /\ x.run = run /\ x.batch >= start
                  /\ \/ x.batch < nx.batch /\ x.slot \in 1 .. BatchSize
                     \/ x.batch = nx.batch /\ x.slot \in 1 .. nx.slot - 1
        BY <1>n, <4>2, LoadedItems
      <4> QED BY <3>2, <4>1, <4>2, <4>3
    <3>5. \A w \in Workers : /\ workers'[w].at = "rolling"
                             /\ (workers'[w].builder = x <=> x.batch = batch /\ x.slot = w)
      <4>1. \A w \in Workers : workers'[w].at = "rolling" /\ workers'[w].builder = Builder(batch, w)
        BY <2>5 DEF Rolling
      <4>2. \A w \in Workers : Builder(batch, w) = x <=> x.batch = batch /\ x.slot = w
        BY <3>2 DEF Builder, Items
      <4> QED BY <4>1, <4>2
    <3>6. Workers = 1 .. BatchSize
      BY <1>c, WorkerRange
    <3>7. CASE x.batch = batch /\ x.slot \in 1 .. BatchSize
      <4>1. {w \in Workers' : workers'[w].at = "rolling" /\ workers'[w].builder = x} = {x.slot}
        BY <1>c, <3>5, <3>6, <3>7
      <4>2. Running(x)' = 1
        BY <4>1, FS_Singleton DEF Running
      <4>3. x \notin Loaded /\ x \in Loaded'
        BY <1>n, <1>x, <2>3, <3>3, <3>4, <3>7
      <4>4. n = 0
        BY <4>3 DEF n
      <4>5. Waiting(x) + Running(x) + Queued(x) + Held(x) + Learned(x) + PutAside(x) + Spent(x) = 0
        BY <1>o, <2>1, <4>4
      <4>6. Places(x)' = 1
        BY <1>o, <1>p, <1>u, <2>1, <3>1, <4>2, <4>5
      <4>7. Small
        BY <1>o, <1>u, <2>1
      <4> QED BY <4>3, <4>6, <4>7
    <3>8. CASE ~(x.batch = batch /\ x.slot \in 1 .. BatchSize)
      <4>1. {w \in Workers' : workers'[w].at = "rolling" /\ workers'[w].builder = x} = {}
        BY <1>c, <3>5, <3>6, <3>8
      <4>2. Running(x)' = 0
        BY <4>1, FS_EmptySet DEF Running
      <4>3. x \in Loaded <=> x \in Loaded'
        BY <1>n, <1>x, <3>3, <3>4, <3>8
      <4>4. n = IF x \in Loaded' THEN 1 ELSE 0
        BY <4>3 DEF n
      <4>5. Waiting(x) + Running(x) + Queued(x) + Held(x) + Learned(x) + PutAside(x) + Spent(x) = n
        BY <1>o, <2>1
      <4>6. Places(x)' = n
        BY <1>p, <1>u, <2>1, <3>1, <4>2, <4>5
      <4>7. Small
        BY <1>o, <1>u, <2>1
      <4> QED BY <4>4, <4>6, <4>7
    <3> QED BY <3>7, <3>8
  <2> QED BY <2>1, <2>4, <2>5
<1>8. CASE SyncTrain
  <2>1. UNCHANGED <<next, builders, requeue, workers, wrapped>> /\ ~Start /\ groups' = <<>>
    BY <1>8 DEF SyncTrain, Start
  <2>2. PICK G : /\ G \subseteq ToSet(groups)
                 /\ weights' = weights \cup Trained(G)
                 /\ untrained' = untrained \cup (BuildersOf(ToSet(groups)) \ BuildersOf(G))
    <3>1. Remaining \subseteq ToSet(groups)
      BY DEF Remaining
    <3> QED BY <1>8, <3>1 DEF SyncTrain
  <2>3. Cardinality(At(groups, Of(x))) = Queued(x)
    BY <1>q, GroupsOf DEF Queued
  <2>4. Queued(x) + Learned(x) + Spent(x) \in {0, 1}
    BY <1>o, <2>1
  <2>5. /\ Small /\ Learned(x)' \in {0, 1} /\ Spent(x)' \in {0, 1}
        /\ Learned(x)' + Spent(x)' = Queued(x) + Learned(x) + Spent(x)
    BY <1>m, <1>q, <2>1, <2>2, <2>3, <2>4
  <2>6. /\ Waiting(x)' = Waiting(x) /\ Running(x)' = Running(x) /\ Queued(x)' = 0
        /\ Held(x)' = Held(x) /\ PutAside(x)' = PutAside(x)
    BY <1>e, <1>u, <2>1
  <2>7. /\ Waiting(x) \in Nat /\ Running(x) \in Nat /\ Held(x) \in Nat /\ PutAside(x) \in {0, 1}
        /\ Queued(x) \in Nat /\ Learned(x) \in {0, 1} /\ Spent(x) \in {0, 1}
    BY <1>o, <2>1
  <2>8. Waiting(x)' + Running(x)' + Queued(x)' + Held(x)' + Learned(x)' + PutAside(x)'
          + Spent(x)'
        = Waiting(x) + Running(x) + Queued(x) + Held(x) + Learned(x) + PutAside(x) + Spent(x)
    BY <2>5, <2>6, <2>7
  <2> QED BY <1>z, <2>1, <2>5, <2>8
<1>9. CASE AsyncTrain
  <2>1. /\ UNCHANGED <<next, builders, requeue, workers, groups, untrained>> /\ ~Start
        /\ wrapped' = <<>> /\ weights' = weights \cup Trained(ToSet(wrapped))
    BY <1>9 DEF AsyncTrain, Start
  <2>2. untrained' = untrained \cup BuildersOf(ToSet(wrapped) \ ToSet(wrapped))
    BY <2>1 DEF BuildersOf
  <2>3. Cardinality(At(wrapped, Of(x))) = Held(x)
    BY <1>q, GroupsOf DEF Held
  <2>4. Held(x) + Learned(x) + Spent(x) \in {0, 1}
    BY <1>o, <2>1
  <2>5. /\ Small /\ Learned(x)' \in {0, 1} /\ Spent(x)' \in {0, 1}
        /\ Learned(x)' + Spent(x)' = Held(x) + Learned(x) + Spent(x)
    BY <1>m, <1>q, <2>1, <2>2, <2>3, <2>4
  <2>6. /\ Waiting(x)' = Waiting(x) /\ Running(x)' = Running(x) /\ Queued(x)' = Queued(x)
        /\ Held(x)' = 0 /\ PutAside(x)' = PutAside(x)
    BY <1>e, <1>u, <2>1
  <2>7. /\ Waiting(x) \in Nat /\ Running(x) \in Nat /\ Held(x) \in Nat /\ PutAside(x) \in {0, 1}
        /\ Queued(x) \in Nat /\ Learned(x) \in {0, 1} /\ Spent(x) \in {0, 1}
    BY <1>o, <2>1
  <2>8. Waiting(x)' + Running(x)' + Queued(x)' + Held(x)' + Learned(x)' + PutAside(x)'
          + Spent(x)'
        = Waiting(x) + Running(x) + Queued(x) + Held(x) + Learned(x) + PutAside(x) + Spent(x)
    BY <2>5, <2>6, <2>7
  <2> QED BY <1>z, <2>1, <2>5, <2>8
<1>10. CASE Collect \/ Peek \/ StreamTake
  <2>1. UNCHANGED <<next, builders, workers>> /\ ~Start /\ groups # <<>>
    BY <1>10 DEF Collect, Peek, StreamTake, Start, Minibatch
  <2>2. PICK h : h = Head(groups) /\ h \in Groups
    BY <1>q, <2>1
  <2>3. /\ Waiting(x)' = Waiting(x) /\ Running(x)' = Running(x)
        /\ Waiting(x) \in Nat /\ Running(x) \in Nat /\ Queued(x) \in Nat /\ Held(x) \in Nat
        /\ Learned(x) \in {0, 1} /\ PutAside(x) \in {0, 1} /\ Spent(x) \in {0, 1}
    BY <1>o, <1>u, <2>1
  <2>4. Waiting(x) + Running(x) + Queued(x) + Held(x) + Learned(x) + PutAside(x) + Spent(x) \in {0, 1}
    BY <1>o, <2>1
  <2>5. PICK k \in Nat : /\ Queued(x) = k + IF h.builder = x THEN 1 ELSE 0
                         /\ groups' = Tail(groups) => Queued(x)' = k
    <3>1. Queued(x) = Cardinality({j \in DOMAIN Tail(groups) : Tail(groups)[j].builder = x})
                         + IF h.builder = x THEN 1 ELSE 0
      BY <1>q, <2>1, <2>2, GroupsLess DEF Queued
    <3>2. Cardinality({j \in DOMAIN Tail(groups) : Tail(groups)[j].builder = x}) \in Nat
      <4>1. PICK s \in Seq(Groups) : s = Tail(groups)
        BY <1>q, <2>1
      <4>2. Cardinality({j \in DOMAIN s : s[j].builder = x}) \in Nat
        <5>1. {j \in DOMAIN s : s[j].builder = x} = At(s, Of(x))
          BY GroupsOf
        <5>2. Cardinality(At(s, Of(x))) \in Nat
          BY CountType
        <5> QED BY <5>1, <5>2
      <4> QED BY <4>1, <4>2
    <3> QED BY <3>1, <3>2 DEF Queued
  <2>d. ASSUME groups' = Tail(groups), Drop, UNCHANGED weights PROVE Goal
    <3>1. /\ untrained' = untrained \cup {h.builder}
          /\ Held(x)' = Held(x) /\ PutAside(x)' = PutAside(x) /\ Learned(x)' = Learned(x)
      BY <1>u, <2>2, <2>d DEF Drop
    <3>2. Small
      BY <1>o, <1>u, <2>1, <2>d
    <3>3. Spent(x)' = IF h.builder = x THEN 1 ELSE Spent(x)
      BY <1>a, <3>1
    <3>4. Queued(x)' = k
      BY <2>5, <2>d
    <3>5. Waiting(x)' + Running(x)' + Queued(x)' + Held(x)' + Learned(x)' + PutAside(x)'
            + Spent(x)'
          = Waiting(x) + Running(x) + Queued(x) + Held(x) + Learned(x) + PutAside(x) + Spent(x)
      BY <2>3, <2>4, <2>5, <3>1, <3>3, <3>4
    <3> QED BY <1>z, <2>1, <3>2, <3>5
  <2>b. ASSUME groups' = Tail(groups), PutBack, UNCHANGED weights PROVE Goal
    <3>1. /\ requeue' = requeue \cup {h.builder}
          /\ Held(x)' = Held(x) /\ Spent(x)' = Spent(x) /\ Learned(x)' = Learned(x)
      BY <1>u, <2>2, <2>b DEF PutBack
    <3>2. Small
      BY <1>o, <1>u, <2>1, <2>b
    <3>3. PutAside(x)' = IF h.builder = x THEN 1 ELSE PutAside(x)
      BY <1>a, <3>1
    <3>4. Queued(x)' = k
      BY <2>5, <2>b
    <3>5. Waiting(x)' + Running(x)' + Queued(x)' + Held(x)' + Learned(x)' + PutAside(x)'
            + Spent(x)'
          = Waiting(x) + Running(x) + Queued(x) + Held(x) + Learned(x) + PutAside(x) + Spent(x)
      BY <2>3, <2>4, <2>5, <3>1, <3>3, <3>4
    <3> QED BY <1>z, <2>1, <3>2, <3>5
  <2>c. ASSUME groups' = Tail(groups), wrapped' = Append(wrapped, h),
               UNCHANGED <<requeue, untrained, weights>>
        PROVE  Goal
    <3>1. PutAside(x)' = PutAside(x) /\ Spent(x)' = Spent(x) /\ Learned(x)' = Learned(x)
      BY <1>u, <2>c
    <3>2. Small
      BY <1>o, <1>u, <2>1, <2>c
    <3>3. Held(x)' = Held(x) + IF h.builder = x THEN 1 ELSE 0
      <4>1. Cardinality({j \in DOMAIN Append(wrapped, h) : Append(wrapped, h)[j].builder = x})
              = Cardinality({j \in DOMAIN wrapped : wrapped[j].builder = x})
                  + IF h.builder = x THEN 1 ELSE 0
        BY <1>q, <2>2, GroupsMore
      <4> QED BY <2>c, <4>1 DEF Held
    <3>4. Queued(x)' = k
      BY <2>5, <2>c
    <3>5. Waiting(x)' + Running(x)' + Queued(x)' + Held(x)' + Learned(x)' + PutAside(x)'
            + Spent(x)'
          = Waiting(x) + Running(x) + Queued(x) + Held(x) + Learned(x) + PutAside(x) + Spent(x)
      BY <2>3, <2>4, <2>5, <3>1, <3>3, <3>4
    <3> QED BY <1>z, <2>1, <3>2, <3>5
  <2>m. ASSUME groups' = Tail(groups), Minibatch(Append(wrapped, h)), UNCHANGED requeue PROVE Goal
    <3>1. PICK s \in Seq(Groups) : s = Append(wrapped, h)
      BY <1>q, <2>2, AppendProperties
    <3>2. PICK G : G = {g \in ToSet(s) : ~g.constant}
      OBVIOUS
    <3>3. /\ weights' = weights \cup Trained(G) /\ wrapped' = <<>>
          /\ untrained' = untrained \cup BuildersOf(ToSet(s) \ G)
      BY <2>m, <3>1, <3>2 DEF Minibatch
    <3>4. Cardinality(At(s, Of(x))) = Held(x) + IF h.builder = x THEN 1 ELSE 0
      <4>1. Cardinality({j \in DOMAIN s : s[j].builder = x})
              = Held(x) + IF h.builder = x THEN 1 ELSE 0
        <5>1. Cardinality({j \in DOMAIN Append(wrapped, h) : Append(wrapped, h)[j].builder = x})
                = Cardinality({j \in DOMAIN wrapped : wrapped[j].builder = x})
                    + IF h.builder = x THEN 1 ELSE 0
          BY <1>q, <2>2, GroupsMore
        <5> QED BY <3>1, <5>1 DEF Held
      <4> QED BY <4>1, GroupsOf
    <3>5. Cardinality(At(s, Of(x))) + Learned(x) + Spent(x) \in {0, 1}
      <4>1. Queued(x) = k + IF h.builder = x THEN 1 ELSE 0
        BY <2>5
      <4>2. /\ Waiting(x) \in Nat /\ Running(x) \in Nat /\ Held(x) \in Nat
            /\ Learned(x) \in Nat /\ PutAside(x) \in Nat /\ Spent(x) \in Nat /\ k \in Nat
        BY <2>3, <2>5
      <4>3. Waiting(x) + Running(x) + Queued(x) + Held(x) + Learned(x) + PutAside(x) + Spent(x) <= 1
        BY <2>4
      <4>5. /\ Cardinality(At(s, Of(x))) + k = Held(x) + Queued(x)
            /\ Cardinality(At(s, Of(x))) \in Nat /\ Queued(x) \in Nat
        <5>1. CASE h.builder = x
          BY <3>4, <4>1, <4>2, <5>1
        <5>2. CASE h.builder # x
          BY <3>4, <4>1, <4>2, <5>2
        <5> QED BY <5>1, <5>2
      <4> DEFINE a == Waiting(x) + Running(x) + PutAside(x)
                 q == Queued(x)
                 d == Held(x)
                 l == Learned(x) + Spent(x)
                 c == Cardinality(At(s, Of(x)))
      <4>6. a \in Nat /\ l \in Nat
        BY <4>2
      <4>7. q \in Nat /\ d \in Nat /\ c \in Nat /\ c + k = d + q
        BY <4>2, <4>5
      <4>8. a + q + d + l <= 1
        BY <4>2, <4>3, <4>5
      <4>9. Cardinality(At(s, Of(x))) + Learned(x) + Spent(x) = c + l
        BY <4>2, <4>5
      <4> HIDE DEF a, q, d, l, c
      <4>10. c + l \in {0, 1}
        BY <4>2, <4>6, <4>7, <4>8
      <4> QED BY <4>10, <4>9
    <3>6. /\ Small /\ Learned(x)' \in {0, 1} /\ Spent(x)' \in {0, 1}
          /\ Learned(x)' + Spent(x)' = Cardinality(At(s, Of(x))) + Learned(x) + Spent(x)
      <4>1. G \in SUBSET ToSet(s)
        BY <3>2
      <4> QED BY <1>m, <2>1, <3>3, <3>5, <4>1
    <3>7. Held(x)' = 0 /\ PutAside(x)' = PutAside(x) /\ Queued(x)' = k
      BY <1>e, <1>u, <2>5, <2>m, <3>3
    <3>8. Waiting(x)' + Running(x)' + Queued(x)' + Held(x)' + Learned(x)' + PutAside(x)'
            + Spent(x)'
          = Waiting(x) + Running(x) + Queued(x) + Held(x) + Learned(x) + PutAside(x) + Spent(x)
      <4>1. Queued(x) = k + IF h.builder = x THEN 1 ELSE 0
        BY <2>5
      <4>2. /\ Learned(x)' \in {0, 1} /\ Spent(x)' \in {0, 1}
            /\ Learned(x)' + Spent(x)' = Cardinality(At(s, Of(x))) + Learned(x) + Spent(x)
        BY <3>6
      <4>3. CASE h.builder = x
        BY <2>3, <3>4, <3>7, <4>1, <4>2, <4>3
      <4>4. CASE h.builder # x
        BY <2>3, <3>4, <3>7, <4>1, <4>2, <4>4
      <4> QED BY <4>3, <4>4
    <3> QED BY <1>z, <2>1, <3>6, <3>8
  <2>6. CASE Collect
    <3>1. /\ groups' = Tail(groups) /\ UNCHANGED weights
          /\ \/ Drop \/ PutBack
             \/ wrapped' = Append(wrapped, Head(groups)) /\ UNCHANGED <<requeue, untrained>>
      BY <2>6 DEF Collect
    <3> QED BY <2>2, <2>b, <2>c, <2>d, <3>1
  <2>7. CASE Peek
    <3>1. CASE Drop /\ groups' = Tail(groups) /\ UNCHANGED weights
      BY <2>d, <3>1
    <3>2. CASE groups' = Append(Tail(groups), h) /\ UNCHANGED <<weights, requeue, wrapped, untrained>>
      <4>1. Queued(x)' = Queued(x)
        <5>1. PICK s \in Seq(Groups) : s = Tail(groups)
          BY <1>q, <2>1
        <5>2. groups' = Append(s, h)
          BY <3>2, <5>1
        <5>3. Queued(x)' = Cardinality({j \in DOMAIN s : s[j].builder = x})
                              + IF h.builder = x THEN 1 ELSE 0
          <6>1. Cardinality({j \in DOMAIN Append(s, h) : Append(s, h)[j].builder = x})
                  = Cardinality({j \in DOMAIN s : s[j].builder = x}) + IF h.builder = x THEN 1 ELSE 0
            BY <2>2, GroupsMore
          <6> QED BY <5>2, <6>1 DEF Queued
        <5>4. Queued(x) = Cardinality({j \in DOMAIN s : s[j].builder = x})
                             + IF h.builder = x THEN 1 ELSE 0
          <6>1. Cardinality({j \in DOMAIN groups : groups[j].builder = x})
                  = Cardinality({j \in DOMAIN Tail(groups) : Tail(groups)[j].builder = x})
                      + IF Head(groups).builder = x THEN 1 ELSE 0
            BY <1>q, <2>1, GroupsLess
          <6> QED BY <2>2, <5>1, <6>1 DEF Queued
        <5> QED BY <5>3, <5>4
      <4>2. Small
        BY <1>o, <1>u, <2>1, <3>2
      <4>3. /\ Held(x)' = Held(x) /\ Learned(x)' = Learned(x) /\ PutAside(x)' = PutAside(x)
            /\ Spent(x)' = Spent(x)
        BY <1>u, <3>2
      <4>4. Waiting(x)' + Running(x)' + Queued(x)' + Held(x)' + Learned(x)' + PutAside(x)'
              + Spent(x)'
            = Waiting(x) + Running(x) + Queued(x) + Held(x) + Learned(x) + PutAside(x) + Spent(x)
        BY <2>3, <4>1, <4>3
      <4> QED BY <1>z, <2>1, <4>2, <4>4
    <3> QED BY <2>2, <2>7, <3>1, <3>2 DEF Peek
  <2>8. CASE StreamTake
    <3>1. /\ groups' = Tail(groups)
          /\ \/ (Drop \/ PutBack) /\ UNCHANGED weights
             \/ wrapped' = Append(wrapped, Head(groups)) /\ UNCHANGED <<weights, requeue, untrained>>
             \/ Minibatch(Append(wrapped, Head(groups))) /\ UNCHANGED requeue
      BY <2>8 DEF StreamTake
    <3> QED BY <2>2, <2>b, <2>c, <2>d, <2>m, <3>1
  <2> QED BY <1>10, <2>6, <2>7, <2>8
<1>11. CASE Open
  <2>1. /\ UNCHANGED <<next, builders, requeue, groups, wrapped, weights, untrained>> /\ ~Start
        /\ pc = "open" /\ (UNCHANGED workers \/ workers' = [w \in Workers |-> Idle])
    BY <1>11 DEF Open, Start
  <2>2. Running(x)' = Running(x)
    <3>1. CASE UNCHANGED workers
      BY <1>u, <3>1
    <3>2. CASE workers' = [w \in Workers |-> Idle]
      <4>1. Rolled = {} /\ Rolled' = {}
        BY <1>0, <1>c, <2>1, <3>2, RolledQuiet DEF Positions
      <4> QED BY <1>c, <4>1, RunningSame
    <3> QED BY <2>1, <3>1, <3>2
  <2>3. Small
    BY <1>o, <1>u, <2>1
  <2>4. Waiting(x)' + Running(x)' + Queued(x)' + Held(x)' + Learned(x)' + PutAside(x)' + Spent(x)'
        = Waiting(x) + Running(x) + Queued(x) + Held(x) + Learned(x) + PutAside(x) + Spent(x)
    BY <1>u, <2>1, <2>2
  <2> QED BY <1>z, <2>1, <2>3, <2>4
<1>12. CASE FlushStep \/ NothingLeft
  <2>1. /\ UNCHANGED <<next, requeue, workers, groups, wrapped, weights, untrained>> /\ ~Start
        /\ UNCHANGED builders \/ (builders' = builders \o Pills /\ ~Overflows)
    BY <1>12 DEF FlushStep, NothingLeft, EndLoop, Start
  <2>2. Waiting(x)' = Waiting(x)
    <3>1. CASE UNCHANGED builders
      BY <1>u, <3>1
    <3>2. CASE builders' = builders \o Pills /\ ~Overflows
      <4>1. Pills \in Seq({Pill}) /\ \A i \in DOMAIN Pills : Pills[i] = Pill
        BY Constants DEF Pills
      <4>2. Len(builders) = 0
        BY <1>q, <3>2, LenProperties, Constants DEF Overflows
      <4>3. builders = <<>>
        BY <1>q, <4>2, EmptySeq
      <4>4. builders' = Pills
        BY <3>2, <4>1, <4>3, ConcatEmptySeq
      <4>5. {j \in DOMAIN builders : builders[j] = x} = {}
        BY <4>3
      <4>6. {j \in DOMAIN builders' : builders'[j] = x} = {}
        BY <1>x, <4>1, <4>4
      <4> QED BY <4>5, <4>6 DEF Waiting
    <3> QED BY <2>1, <3>1, <3>2
  <2>3. Small
    BY <1>o, <1>u, <2>1
  <2>4. Waiting(x)' + Running(x)' + Queued(x)' + Held(x)' + Learned(x)' + PutAside(x)' + Spent(x)'
        = Waiting(x) + Running(x) + Queued(x) + Held(x) + Learned(x) + PutAside(x) + Spent(x)
    BY <1>u, <2>1, <2>2
  <2> QED BY <1>z, <2>1, <2>3, <2>4
<1>13. CASE Gather \/ Save \/ Join \/ Close \/ Evaluating
  <2>1. /\ UNCHANGED <<next, builders, requeue, workers, groups, wrapped, weights, untrained>>
        /\ ~Start
    <3>1. CASE Gather \/ Save \/ Join \/ Close
      BY <3>1 DEF Gather, Save, Join, Close, Start
    <3>2. CASE Evaluating
      BY <3>2 DEF Evaluating, EvalWake, EvalDone, Start, Alive
    <3> QED BY <1>13, <3>1, <3>2
  <2>2. Small
    BY <1>o, <1>u, <2>1
  <2>3. Waiting(x)' + Running(x)' + Queued(x)' + Held(x)' + Learned(x)' + PutAside(x)' + Spent(x)'
        = Waiting(x) + Running(x) + Queued(x) + Held(x) + Learned(x) + PutAside(x) + Spent(x)
    BY <1>u, <2>1
  <2> QED BY <1>z, <2>1, <2>2, <2>3
<1> QED BY <1>1, <1>2, <1>3, <1>4, <1>5, <1>6, <1>7, <1>8, <1>9, <1>10, <1>11, <1>12, <1>13
        DEF Next, Dataloading, Working, Training

-----------------------------------------------------------------------------
(* The theorem *)

(* Before the first start nothing has been loaded. *)
LEMMA InitPlaced == Init => Placed
<1> SUFFICES ASSUME Init PROVE Placed
  OBVIOUS
<1>1. ToSet(<<>>) = {}
  BY DEF ToSet
<1>2. Rolled = {} /\ LastRow.state = {} /\ run \in Nat
  BY DEF Init, Rolled, Exited, Idle, LastRow
<1>3. Numbered
  BY <1>1, <1>2 DEF Init, Numbered
<1>4. Positions
  BY <1>2 DEF Init, Positions
<1>5. OneEach
  BY DEF Init, OneEach
<1> QED BY <1>3, <1>4, <1>5 DEF Placed

(* A step that changes nothing leaves every builder where it is. *)
LEMMA StutterPlaced == Placed /\ UNCHANGED vars => Placed'
<1> SUFFICES ASSUME Placed, UNCHANGED vars PROVE Placed'
  OBVIOUS
<1>1. /\ config' = config /\ pc' = pc /\ run' = run /\ start' = start /\ batch' = batch
      /\ next' = next /\ builders' = builders /\ requeue' = requeue /\ workers' = workers
      /\ groups' = groups /\ wrapped' = wrapped /\ weights' = weights /\ rows' = rows
      /\ untrained' = untrained
  BY DEF vars, process, loop, loader, rolling, eval, disk
<1>2. Workers' = Workers /\ IsAsync' = IsAsync /\ LastRow' = LastRow /\ Loaded' = Loaded
  BY <1>1 DEF Workers, IsAsync, LastRow, Loaded, Builder
<1>3. Rolled' = Rolled
  BY <1>1, <1>2 DEF Rolled
<1>4. Numbered' /\ Positions'
  BY <1>1, <1>2, <1>3 DEF Placed, Numbered, Positions
<1>5. ASSUME NEW x PROVE Places(x)' = Places(x)
  BY <1>1, <1>2 DEF Places
<1>6. OneEach'
  BY <1>1, <1>2, <1>5 DEF Placed, OneEach, PointsOf
<1> QED BY <1>4, <1>6 DEF Placed

(* What the dataset gave in this run is in one place, at every moment: in a queue, *)
(* with a worker, put aside for being stale, collected, trained on once, or left out *)
(* of training for the constant rewards of its group.                          *)
THEOREM NothingLostOrTwice == Spec => []InOnePlace
<1>1. IInv /\ Placed /\ [Next]_vars => Placed'
  <2>1. IInv /\ Placed /\ Next => Placed'
    BY NumberedStep, PositionsStep, OneEachStep DEF IInv, Placed
  <2> QED BY <2>1, StutterPlaced
<1>2. IInv /\ Placed => InOnePlace
  <2> SUFFICES ASSUME IInv, Placed, pc # "down", NEW x \in Loaded PROVE Places(x) = 1
    BY DEF InOnePlace
  <2>1. /\ run \in Nat /\ start \in Nat /\ next.batch \in Nat /\ next.slot \in Nat
        /\ BatchSize \in Nat
    <3>1. /\ run \in 0 .. MaxRuns /\ start \in 0 .. NumBatches
          /\ next \in [batch : 0 .. NumBatches, slot : 1 .. BatchSize]
      BY DEF IInv, Typed, ProcessOK, LoaderOK
    <3> QED BY <3>1, Constants
  <2>2. x \in Items /\ x.run = run
    <3>1. CASE x \in {Builder(b, s) : b \in start .. next.batch - 1, s \in 1 .. BatchSize}
      <4>1. PICK b \in start .. next.batch - 1, s \in 1 .. BatchSize : x = Builder(b, s)
        BY <3>1
      <4>2. b \in Nat /\ s \in Nat
        BY <2>1, <4>1
      <4> QED BY <2>1, <4>1, <4>2 DEF Builder, Items
    <3>2. CASE x \in {Builder(next.batch, s) : s \in 1 .. next.slot - 1}
      <4>1. PICK s \in 1 .. next.slot - 1 : x = Builder(next.batch, s)
        BY <3>2
      <4>2. s \in Nat
        BY <2>1, <4>1
      <4> QED BY <2>1, <4>1, <4>2 DEF Builder, Items
    <3> QED BY <3>1, <3>2 DEF Loaded
  <2> QED BY <2>2 DEF Placed, OneEach
<1> QED BY <1>1, <1>2, InitPlaced, TinkerInvariant, PTL DEF Spec
=============================================================================
