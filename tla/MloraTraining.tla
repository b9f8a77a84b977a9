---------------------------- MODULE MloraTraining ----------------------------
(***************************************************************************)
(* The training program scripts/run.sh starts: cli_main and main of         *)
(* ug_ttt/rl/mlora_train.py.  An epoch samples parents from the PUCT        *)
(* archive, rolls a group out for each, drops the groups whose rewards are   *)
(* all equal, trains the K adapters, reports the results to the archive and  *)
(* flushes it; every SaveEvery epochs the adapters are saved and             *)
(* last_epoch.txt is written.  The process may die between any two steps     *)
(* (or inside a write that is not atomic) and is then started again on the   *)
(* same log directory.                                                       *)
(*                                                                          *)
(* The archive is the module PUCTSampler, whose operators the steps here     *)
(* call.  What training does to an adapter is abstracted to the runs of the  *)
(* process that took it through each epoch: weights[k] is the sequence of    *)
(* their numbers.  lineage and fileLineage record the same of the archive.   *)
(***************************************************************************)
EXTENDS PUCTSampler, Sequences

CONSTANTS
  K,          \* num_ensemble_members
  NumEpochs,  \* num_epochs
  SaveEvery,  \* save_every
  Torn,       \* a file the process died writing
  MaxCrash    \* bound: times the environment kills the process

\* There are uuids for the first states, and what stands for a missing or a torn
\* file is neither a number nor the content of a file.
ASSUME TrainingAssumption ==
  /\ K \in Nat \ {0} /\ NumEpochs \in Nat \ {0} /\ SaveEvery \in Nat
  /\ MaxCrash \in Nat /\ NumEpochs <= MaxStep
  /\ BatchSize <= Cardinality(Ids)
  /\ Torn \notin Nat /\ NoFile \notin Nat /\ Torn # NoFile
  /\ NoFile \notin Snapshots
  /\ \A j \in 0 .. NumEpochs : NoFile \notin [1 .. j -> 0 .. MaxCrash]

VARIABLES
  pc,           \* where the process is; "down" when it is dead
  epoch,        \* epoch
  run,          \* number of the run of the process
  todo,         \* sampled parents still to be rolled out
  kept,         \* rollout_groups
  weights,      \* LoRAEnsemble: the adapters in memory
  miHistory,    \* StreamingMITracker.mi_history: the epochs it has values of
  cursor,       \* adapter that ensemble.save is at
  adapterFile,  \* ensemble_<k>/step_<e>/adapter.pt
  lastEpoch,    \* last_epoch.txt
  metricsLog,   \* metrics.jsonl: the epochs it has MI values of
  lineage,      \* history: the runs that took the archive through each epoch
  fileLineage   \* history: lineage, as of each file of the sampler

disk == <<adapterFile, lastEpoch, metricsLog>>
history == <<lineage, fileLineage>>
tvars == <<vars, pc, epoch, run, todo, kept, weights, miHistory, cursor, disk, history>>

Adapters == 1 .. K
Epochs == 0 .. NumEpochs - 1

-----------------------------------------------------------------------------
(* Rollouts *)

\* The uuids of k new states; which ones does not matter.
Drawn == known \cup UNION {DOMAIN kept[j].kid : j \in DOMAIN kept}
FreshFrom(S, k) == CHOOSE C \in SUBSET S : Cardinality(C) = k
Fresh(k) == FreshFrom(Ids \ Drawn, k)

SampleParents ==
  /\ pc = "sample"
  /\ \E P \in SUBSET states : SampleStates(P) /\ held' = held \cup P /\ todo' = P
  /\ kept' = <<>> /\ pc' = "rollout"
  /\ UNCHANGED <<epoch, run, weights, miHistory, cursor, disk, history>>

\* do_group_rollout_batched and the filter: of GroupSize rollouts some give a
\* child state, the others fail; a group of constant reward (one of one rollout
\* always is) is dropped.  The MI values are remembered and logged whatever becomes
\* of the group.  (Ids is a bound: uuids are kept back for the initial states of
\* later runs.)
RolloutGroup(p) ==
  /\ pc = "rollout" /\ p \in todo
  /\ GroupSize > 1
  /\ todo' = todo \ {p}
  /\ \E c \in 0 .. GroupSize :
       /\ c + (MaxCrash - run) * BatchSize <= Cardinality(Ids \ Drawn)  \* bound
       /\ \E kid \in [Fresh(c) -> Children] :
            kept' = Append(kept, [parent |-> p, kid |-> kid, fails |-> GroupSize - c])
  /\ miHistory' = miHistory \cup {<<epoch, run>>}
  /\ metricsLog' = metricsLog \cup {<<epoch, run>>}
  /\ UNCHANGED <<vars, pc, epoch, run, weights, cursor, adapterFile, lastEpoch, history>>

\* (An epoch that loses all its groups ends the process: such epochs count
\* against MaxCrash.)
FilteredGroup(p) ==
  /\ pc = "rollout" /\ p \in todo
  /\ run < MaxCrash \/ kept # <<>> \/ todo # {p}  \* bound
  /\ todo' = todo \ {p}
  /\ miHistory' = miHistory \cup {<<epoch, run>>}
  /\ metricsLog' = metricsLog \cup {<<epoch, run>>}
  /\ UNCHANGED <<vars, pc, epoch, run, kept, weights, cursor, adapterFile, lastEpoch, history>>

-----------------------------------------------------------------------------
(* Learning *)

\* The process ends and its memory is lost.
NoWeights == [k \in Adapters |-> <<>>]
Die ==
  /\ pc' = "down" /\ epoch' = 0 /\ todo' = {} /\ kept' = <<>> /\ cursor' = 1
  /\ weights' = NoWeights /\ miHistory' = {}
  /\ UNCHANGED <<vars, run, disk, history>>

\* train_step takes every adapter through the epoch.  Without a group it ends
\* at the read of kl_metrics, which only the loop over the groups assigns.
TrainStep ==
  /\ pc = "rollout" /\ todo = {} /\ kept # <<>>
  /\ weights' = [k \in Adapters |-> Append(weights[k], run)]
  /\ pc' = "report"
  /\ UNCHANGED <<vars, epoch, run, todo, kept, miHistory, cursor, disk, history>>

TrainStepFails ==
  /\ pc = "rollout" /\ todo = {} /\ kept = <<>>
  /\ Die

\* Of a group the failed rollouts are recorded one by one, then the children
\* are handed over together.
ReportFailed ==
  /\ pc = "report" /\ kept # <<>> /\ Head(kept).fails > 0 /\ T < MaxT
  /\ RecordFailedRollout(Head(kept).parent) /\ held' = held
  /\ kept' = <<[Head(kept) EXCEPT !.fails = @ - 1]>> \o Tail(kept)
  /\ UNCHANGED <<pc, epoch, run, todo, weights, miHistory, cursor, disk, history>>

ReportChildren ==
  /\ pc = "report" /\ kept # <<>> /\ Head(kept).fails = 0 /\ T < MaxT
  /\ IF DOMAIN Head(kept).kid = {}
     THEN UNCHANGED vars
     ELSE UpdateStates(Head(kept).parent, Head(kept).kid) /\ held' = held
  /\ kept' = Tail(kept)
  /\ UNCHANGED <<pc, epoch, run, todo, weights, miHistory, cursor, disk, history>>

\* sampler.flush(step=epoch), then the test of save_every and the loop's end.
FlushedAsNext(e) == e + 1  \* fault: files numbered by the epoch to come
FlushedAs(e) == e

AfterFlush(e) ==
  IF SaveEvery > 0 /\ (e + 1) % SaveEvery = 0 THEN "save" ELSE "next"

FlushEpoch ==
  /\ pc = "report" /\ kept = <<>>
  /\ Flush(FlushedAs(epoch)) /\ held' = held
  /\ lineage' = Append(lineage, run)
  /\ fileLineage' = [fileLineage EXCEPT ![FlushedAs(epoch)] = lineage']
  /\ pc' = AfterFlush(epoch) /\ cursor' = 1
  /\ UNCHANGED <<epoch, run, todo, kept, weights, miHistory, disk>>

-----------------------------------------------------------------------------
(* Checkpoints *)

\* The step ensemble.save is called with: at the end, that of the last epoch.
SaveStep == IF pc \in {"save", "write"} THEN epoch ELSE NumEpochs - 1

\* os.makedirs(save_dir, exist_ok=True): a step saved before is saved again.
DirReadyNew(f) == f = NoFile  \* fault: exist_ok left out
DirReady(f) == TRUE

\* ensemble.save writes the files of the adapters one after the other; the
\* process may die inside torch.save.
OpenAdapter ==
  /\ pc \in {"save", "finalsave"} /\ cursor \in Adapters
  /\ adapterFile[cursor][SaveStep] # Torn
  /\ DirReady(adapterFile[cursor][SaveStep])
  /\ adapterFile' = [adapterFile EXCEPT ![cursor][SaveStep] = Torn]
  /\ UNCHANGED <<vars, pc, epoch, run, todo, kept, weights, miHistory, cursor,
                 lastEpoch, metricsLog, history>>

SaveAdapter ==
  /\ pc \in {"save", "finalsave"} /\ cursor \in Adapters
  /\ adapterFile[cursor][SaveStep] = Torn
  /\ adapterFile' = [adapterFile EXCEPT ![cursor][SaveStep] = weights[cursor]]
  /\ cursor' = cursor + 1
  /\ UNCHANGED <<vars, pc, epoch, run, todo, kept, weights, miHistory,
                 lastEpoch, metricsLog, history>>

AllButOneSaved == cursor >= K  \* fault: the last adapter is left out
AllSaved == cursor > K

\* open(checkpoint_file, "w") empties last_epoch.txt before it is written.
OpenMark ==
  /\ AllSaved
  /\ \/ pc = "save" /\ pc' = "write"
     \/ pc = "finalsave" /\ pc' = "finalwrite"
  /\ lastEpoch' = Torn
  /\ UNCHANGED <<vars, epoch, run, todo, kept, weights, miHistory, cursor,
                 adapterFile, metricsLog, history>>

WriteMark ==
  /\ \/ pc = "write" /\ pc' = "next"
     \/ pc = "finalwrite" /\ pc' = "done"
  /\ lastEpoch' = SaveStep
  /\ UNCHANGED <<vars, epoch, run, todo, kept, weights, miHistory, cursor,
                 adapterFile, metricsLog, history>>

NextEpoch ==
  /\ pc = "next"
  /\ epoch' = epoch + 1
  /\ pc' = IF epoch + 1 < NumEpochs THEN "sample" ELSE "finalsave"
  /\ cursor' = 1
  /\ UNCHANGED <<vars, run, todo, kept, weights, miHistory, disk, history>>

-----------------------------------------------------------------------------
(* Crash and restart *)

Crash ==
  /\ pc \notin {"down", "done"} /\ run < MaxCrash
  /\ Die

\* A new run without last_epoch.txt begins with new initial states.
StartFresh ==
  /\ pc = "down" /\ lastEpoch = NoFile
  /\ BatchSize <= Cardinality(Ids \ Drawn)
  /\ \E v \in [Fresh(BatchSize) -> Values], k \in [Fresh(BatchSize) -> InitialKeys] :
       FreshStart(Fresh(BatchSize), v, k)
  /\ held' = {}
  /\ epoch' = 0 /\ run' = run + 1
  /\ todo' = {} /\ kept' = <<>> /\ cursor' = 1
  /\ weights' = NoWeights /\ miHistory' = {}
  /\ lineage' = <<>> /\ fileLineage' = [fileLineage EXCEPT ![0] = <<>>]
  /\ pc' = "sample"
  /\ UNCHANGED disk

\* ensemble.load: the file of the step, if there is one; torch.load raises on
\* a torn file, which ends the process.
Loaded(k, e) == IF adapterFile[k][e] = NoFile THEN <<>> ELSE adapterFile[k][e]

\* The history is rebuilt from every record of metrics.jsonl.
Rebuilt == metricsLog

StartEpochAgain(e) == e          \* fault: the saved epoch is run again
StartEpoch(e) == e + 1

\* create_sampler(resume_step), then the resume section of main.
StartResumed ==
  /\ pc = "down" /\ lastEpoch \notin {NoFile, Torn}
  /\ \A k \in Adapters : adapterFile[k][lastEpoch] # Torn
  /\ Load(lastEpoch) /\ held' = {}
  /\ epoch' = StartEpoch(lastEpoch) /\ run' = run + 1
  /\ todo' = {} /\ kept' = <<>> /\ cursor' = 1
  /\ weights' = [k \in Adapters |-> Loaded(k, lastEpoch)]
  /\ miHistory' = Rebuilt
  /\ lineage' = fileLineage[lastEpoch]
  /\ pc' = IF StartEpoch(lastEpoch) < NumEpochs THEN "sample" ELSE "finalsave"
  /\ UNCHANGED <<disk, fileLineage>>

-----------------------------------------------------------------------------

TrainInit ==
  /\ LET I == FreshFrom(Ids, BatchSize)
     IN  \E v \in [I -> Values], k \in [I -> InitialKeys] : SamplerInit(I, v, k)
  /\ held = {}
  /\ pc = "sample" /\ epoch = 0 /\ run = 0 /\ todo = {} /\ kept = <<>> /\ cursor = 1
  /\ weights = NoWeights /\ miHistory = {}
  /\ adapterFile = [k \in Adapters |-> [e \in Epochs |-> NoFile]]
  /\ lastEpoch = NoFile /\ metricsLog = {}
  /\ lineage = <<>> /\ fileLineage = [s \in Steps |-> <<>>]

Start == StartFresh \/ StartResumed

Process ==
  \/ SampleParents
  \/ \E p \in todo : RolloutGroup(p) \/ FilteredGroup(p)
  \/ TrainStep \/ TrainStepFails
  \/ ReportFailed \/ ReportChildren \/ FlushEpoch
  \/ OpenAdapter \/ SaveAdapter \/ OpenMark \/ WriteMark
  \/ NextEpoch

TrainNext == Process \/ Crash \/ Start

\* The process runs on unless it dies, and whoever launched it launches it again.
TrainSpec ==
  TrainInit /\ [][TrainNext]_tvars /\ WF_tvars(Process) /\ WF_tvars(Start)

-----------------------------------------------------------------------------
(* Properties *)

Lineages == UNION {[1 .. j -> 0 .. MaxCrash] : j \in 0 .. NumEpochs}

\* The types of the training process and of its files.
TrainTypeOK ==
  /\ TypeOK
  /\ pc \in {"sample", "rollout", "report", "save", "write", "next",
             "finalsave", "finalwrite", "done", "down"}
  /\ epoch \in 0 .. NumEpochs /\ run \in 0 .. MaxCrash
  /\ todo \subseteq held /\ cursor \in 1 .. K + 1
  /\ weights \in [Adapters -> Lineages]
  /\ adapterFile \in [Adapters -> [Epochs -> Lineages \cup {NoFile, Torn}]]
  /\ lastEpoch \in Epochs \cup {NoFile, Torn}
  /\ miHistory \subseteq Epochs \X (0 .. MaxCrash)
  /\ metricsLog \subseteq Epochs \X (0 .. MaxCrash)
  /\ lineage \in Lineages /\ fileLineage \in [Steps -> Lineages]

\* When an epoch begins, the archive and every adapter have been taken through
\* the same passes over exactly the epochs before it, and the tracker holds the MI
\* values of each of them: no crash, restart or save may leave the policy, the
\* states it learns from and the threshold that stops it early out of step.
InStep ==
  pc \in {"sample", "finalsave"} =>
    /\ Len(lineage) = epoch
    /\ \A k \in Adapters : weights[k] = lineage
    /\ \A i \in DOMAIN lineage : <<i - 1, lineage[i]>> \in miHistory

\* A step that last_epoch.txt names can be resumed from: the archive's file is
\* there and every adapter was saved whole.  The last epoch is excepted, whose
\* files are written a second time at the end of main.
CheckpointUsable ==
  lastEpoch \in Epochs \ {NumEpochs - 1} =>
    /\ file[lastEpoch] # NoFile
    /\ \A k \in Adapters : adapterFile[k][lastEpoch] = fileLineage[lastEpoch]

\* The process is stuck on a file it died writing.
DiedWriting ==
  /\ pc = "down" /\ lastEpoch # NoFile
  /\ lastEpoch = Torn \/ \E k \in Adapters : adapterFile[k][lastEpoch] = Torn

\* Training ends, unless a crash tears last_epoch.txt or the last checkpoint.
TrainingEnds == <>(pc = "done" \/ DiedWriting)

=============================================================================
