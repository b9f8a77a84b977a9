-------------------------- MODULE MloraTraining_proofs --------------------------
(* Proofs about the training program over mLoRA, for every value of the         *)
(* constants: it uses the archive as its callers may, and over every crash and  *)
(* resume the archive, the adapters and the tracker stay in step.               *)
EXTENDS MloraTraining, PUCTSampler_proofs, SequenceTheorems

-----------------------------------------------------------------------------
(* The inductive invariant *)

Runs == 0 .. MaxCrash

\* The types, those of the archive aside.
TrainFields ==
  /\ pc \in {"sample", "rollout", "report", "save", "write", "next",
             "finalsave", "finalwrite", "done", "down"}
  /\ epoch \in 0 .. NumEpochs /\ run \in Runs
  /\ todo \subseteq held /\ cursor \in 1 .. K + 1
  /\ weights \in [Adapters -> Lineages]
  /\ adapterFile \in [Adapters -> [Epochs -> Lineages \cup {NoFile, Torn}]]
  /\ lastEpoch \in Epochs \cup {NoFile, Torn}
  /\ miHistory \subseteq Epochs \X Runs /\ metricsLog \subseteq Epochs \X Runs
  /\ lineage \in Lineages /\ fileLineage \in [Steps -> Lineages]

\* What is still to be reported is what the archive takes: rollouts of a parent
\* it gave out, with children of new uuids, no two groups having one in common.
KeptGroups == [parent : Ids, kid : UNION {[C -> Children] : C \in SUBSET Ids}, fails : Nat]
Reportable(g) ==
  g.parent \in held /\ DOMAIN g.kid \cap known = {} /\ Cardinality(DOMAIN g.kid) <= GroupSize
Reporting ==
  /\ kept \in Seq(KeptGroups)
  /\ \A j \in DOMAIN kept : Reportable(kept[j])
  /\ \A i, j \in DOMAIN kept : i # j => DOMAIN kept[i].kid \cap DOMAIN kept[j].kid = {}

\* Where the process is in its epochs, and the archive in its steps.
Counting ==
  /\ pc \in {"sample", "rollout", "report", "save", "write", "next"} => epoch < NumEpochs
  /\ pc \in {"finalsave", "finalwrite", "done"} => epoch = NumEpochs
  /\ pc \in {"sample", "rollout", "report"} => epoch \in {step, step + 1}
  /\ pc \in {"save", "write", "next"} => epoch = step
  /\ pc = "down" => run < MaxCrash
  /\ pc = "rollout" /\ todo = {} /\ kept = <<>> => run < MaxCrash
  /\ pc \notin {"rollout", "report"} => kept = <<>>

\* The epochs the archive and the adapters have been taken through.
InAll(L) == \A k \in Adapters : weights[k] = L
Passed ==
  /\ pc \in {"sample", "rollout", "finalsave", "finalwrite", "done"} =>
       Len(lineage) = epoch /\ InAll(lineage)
  /\ pc = "report" => Len(lineage) = epoch /\ InAll(Append(lineage, run))
  /\ pc \in {"save", "write", "next"} => Len(lineage) = epoch + 1 /\ InAll(lineage)

\* The MI values of those epochs are in memory, and those of every file are logged.
Logged(L, H) == \A i \in DOMAIN L : <<i - 1, L[i]>> \in H
Tracked ==
  /\ miHistory \subseteq metricsLog
  /\ pc # "down" => Logged(lineage, miHistory)
  /\ \A s \in Steps : Logged(fileLineage[s], metricsLog)
  /\ (pc = "rollout" /\ kept # <<>>) \/ pc = "report" => <<epoch, run>> \in miHistory

\* While the adapters are saved, the file of the archive is there, and the files
\* written so far hold what it stands for.
FlushedStep == IF pc \in {"save", "write", "next"} THEN epoch ELSE NumEpochs - 1
Saving ==
  /\ pc \in {"save", "write", "next", "finalsave", "finalwrite", "done"} =>
       fileLineage[FlushedStep] = lineage /\ file[FlushedStep] # NoFile
  /\ pc \in {"save", "finalsave"} =>
       \A k \in Adapters : k < cursor => adapterFile[k][FlushedStep] = lineage
  /\ pc \in {"write", "finalwrite"} =>
       lastEpoch = Torn /\ \A k \in Adapters : adapterFile[k][FlushedStep] = lineage

\* The step that last_epoch.txt names can be resumed from, and the epochs to come
\* are later ones, which do not write over its files.
Resumable ==
  lastEpoch \in Epochs =>
    /\ file[lastEpoch] # NoFile /\ Len(fileLineage[lastEpoch]) = lastEpoch + 1
    /\ \A k \in Adapters : \/ adapterFile[k][lastEpoch] = fileLineage[lastEpoch]
                           \/ adapterFile[k][lastEpoch] = Torn /\ lastEpoch = NumEpochs - 1
    /\ pc \in {"sample", "rollout", "report", "save"} => lastEpoch < epoch
    /\ pc = "next" => lastEpoch <= epoch

TrainInv ==
  /\ TypeOK /\ LineageInv
  /\ TrainFields /\ Reporting /\ Counting /\ Passed /\ Tracked /\ Saving /\ Resumable

-----------------------------------------------------------------------------
(* Constants, uuids and lineages *)

(* What the assumptions say of the numbers. *)
LEMMA Bounds ==
  /\ K \in Nat /\ K > 0 /\ NumEpochs \in Nat /\ NumEpochs > 0 /\ MaxCrash \in Nat /\ MaxStep \in Nat
  /\ NumEpochs <= MaxStep /\ BatchSize \in Nat /\ BatchSize > 0 /\ GroupSize \in Nat
  /\ Adapters = 1 .. K /\ Epochs = 0 .. NumEpochs - 1 /\ Epochs \subseteq Steps
  /\ NumEpochs - 1 \in Epochs /\ 0 \in Epochs
  /\ \A e \in Epochs : e \in Nat /\ e < NumEpochs /\ e # Torn /\ e # NoFile
BY TrainingAssumption, SamplerAssumption DEF Adapters, Epochs, Steps

(* A finite set has a subset of every smaller size. *)
LEMMA SubsetOfSize ==
  ASSUME NEW S, IsFiniteSet(S), NEW k \in Nat, k <= Cardinality(S)
  PROVE  \E C \in SUBSET S : Cardinality(C) = k
<1>1. Cardinality(S) \in Nat /\ ExistsBijection(1 .. Cardinality(S), S)
  BY FS_CardinalityType
<1>2. PICK f : f \in Bijection(1 .. Cardinality(S), S)
  BY <1>1 DEF ExistsBijection
<1>3. /\ f \in [1 .. Cardinality(S) -> S]
      /\ \A i, j \in 1 .. Cardinality(S) : f[i] = f[j] => i = j
  BY <1>2 DEF Bijection, Injection, IsInjective
<1> DEFINE C == {f[i] : i \in 1 .. k}
           g == [i \in 1 .. k |-> f[i]]
<1>4. 1 .. k \subseteq 1 .. Cardinality(S)
  BY <1>1
<1>5. C \subseteq S
  BY <1>3, <1>4
<1>6. g \in [1 .. k -> C] /\ (\A i, j \in 1 .. k : g[i] = g[j] => i = j)
      /\ \A c \in C : \E i \in 1 .. k : g[i] = c
  BY <1>3, <1>4
<1> HIDE DEF C, g
<1>7. ExistsBijection(1 .. k, C)
  BY <1>6 DEF ExistsBijection, Bijection, Injection, Surjection, IsInjective
<1>8. IsFiniteSet(1 .. k) /\ Cardinality(1 .. k) = k
  <2>1. IsFiniteSet(1 .. k) /\ Cardinality(1 .. k) = IF 1 > k THEN 0 ELSE k - 1 + 1
    BY FS_Interval
  <2> QED BY <2>1
<1>9. Cardinality(C) = k
  BY <1>7, <1>8, FS_Bijection
<1> QED BY <1>5, <1>9

(* State() draws as many new uuids as it is asked for, when there are. *)
LEMMA FreshIds ==
  ASSUME NEW S \in SUBSET Ids, NEW k \in Nat, k <= Cardinality(S)
  PROVE  FreshFrom(S, k) \subseteq S /\ Cardinality(FreshFrom(S, k)) = k
<1>1. IsFiniteSet(S)
  BY SamplerAssumption, FS_Subset
<1> QED BY <1>1, SubsetOfSize DEF FreshFrom

(* A lineage is a sequence of the numbers of runs, and no file is missing that holds one. *)
LEMMA LineageType ==
  ASSUME NEW L
  PROVE  /\ L \in Lineages <=> L \in Seq(Runs) /\ Len(L) <= NumEpochs
         /\ L \in Lineages => Len(L) \in Nat /\ DOMAIN L = 1 .. Len(L) /\ L # NoFile
<1>1. ASSUME L \in Lineages
      PROVE  /\ L \in Seq(Runs) /\ Len(L) <= NumEpochs
             /\ Len(L) \in Nat /\ DOMAIN L = 1 .. Len(L) /\ L # NoFile
  <2>1. PICK j \in 0 .. NumEpochs : L \in [1 .. j -> 0 .. MaxCrash]
    BY <1>1 DEF Lineages
  <2>2. j \in Nat /\ j <= NumEpochs
    BY <2>1, Bounds
  <2>3. L \in Seq(Runs)
    BY <2>1, <2>2, SeqDef DEF Runs
  <2>4. Len(L) = j
    BY <2>1, <2>2, <2>3, LenProperties
  <2>5. L # NoFile
    BY <2>1, TrainingAssumption
  <2> QED BY <2>2, <2>3, <2>4, <2>5, LenProperties
<1>2. ASSUME L \in Seq(Runs), Len(L) <= NumEpochs PROVE L \in Lineages
  <2>1. Len(L) \in Nat /\ L \in [1 .. Len(L) -> Runs]
    BY <1>2, LenProperties
  <2>2. Len(L) \in 0 .. NumEpochs
    BY <1>2, <2>1, Bounds
  <2> QED BY <2>1, <2>2 DEF Lineages, Runs
<1> QED BY <1>1, <1>2

(* One epoch more. *)
LEMMA LineageAppend ==
  ASSUME NEW L \in Lineages, Len(L) < NumEpochs, NEW r \in Runs
  PROVE  /\ Append(L, r) \in Lineages /\ Len(Append(L, r)) = Len(L) + 1
         /\ \A H : Logged(L, H) /\ <<Len(L), r>> \in H => Logged(Append(L, r), H)
<1>1. L \in Seq(Runs) /\ Len(L) \in Nat /\ DOMAIN L = 1 .. Len(L)
  BY LineageType
<1>2. /\ Append(L, r) \in Seq(Runs) /\ Len(Append(L, r)) = Len(L) + 1
      /\ \A i \in 1 .. Len(L) : Append(L, r)[i] = L[i]
      /\ Append(L, r)[Len(L) + 1] = r
  BY <1>1, AppendProperties
<1>3. Append(L, r) \in Lineages
  <2>1. PICK M : M = Append(L, r)
    OBVIOUS
  <2>2. M \in Seq(Runs) /\ Len(M) <= NumEpochs
    BY <1>1, <1>2, <2>1, Bounds
  <2> QED BY <2>1, <2>2, LineageType
<1>4. ASSUME NEW H, Logged(L, H), <<Len(L), r>> \in H, NEW i \in DOMAIN Append(L, r)
      PROVE  <<i - 1, Append(L, r)[i]>> \in H
  <2>1. i \in 1 .. Len(L) + 1
    BY <1>1, <1>2, LenProperties
  <2>2. CASE i \in 1 .. Len(L)
    BY <1>1, <1>2, <1>4, <2>2 DEF Logged
  <2>3. CASE i = Len(L) + 1
    <3>1. i - 1 = Len(L)
      BY <1>1, <2>3
    <3> QED BY <1>2, <1>4, <2>3, <3>1
  <2> QED BY <1>1, <2>1, <2>2, <2>3
<1> QED BY <1>2, <1>3, <1>4 DEF Logged

(* Nothing has been taken through no epoch. *)
LEMMA NoLineage == <<>> \in Lineages /\ Len(<<>>) = 0 /\ \A H : Logged(<<>>, H)
<1>1. <<>> \in Seq(Runs) /\ Len(<<>>) = 0
  OBVIOUS
<1>2. <<>> \in Lineages
  <2>1. PICK M : M = <<>>
    OBVIOUS
  <2>2. M \in Seq(Runs) /\ Len(M) <= NumEpochs
    BY <1>1, <2>1, Bounds
  <2> QED BY <2>1, <2>2, LineageType
<1>3. \A H : Logged(<<>>, H)
  BY DEF Logged
<1> QED BY <1>1, <1>2, <1>3


-----------------------------------------------------------------------------
(* The training program uses the archive as its callers may *)

(* The program starts with an archive of new initial states. *)
LEMMA TrainInitArchive == TrainInit => Init
<1> SUFFICES ASSUME TrainInit PROVE Init
  OBVIOUS
<1>1. PICK I : I = FreshFrom(Ids, BatchSize)
  OBVIOUS
<1>2. I \subseteq Ids /\ Cardinality(I) = BatchSize
  BY <1>1, Bounds, TrainingAssumption, FreshIds
<1>3. I \in NewInitialSets({})
  BY <1>2 DEF NewInitialSets
<1> QED BY <1>1, <1>3 DEF TrainInit, Init

(* The groups kept, one by one. *)
LEMMA HeadKept ==
  ASSUME Reporting, kept # <<>>
  PROVE  /\ Head(kept) \in KeptGroups /\ Reportable(Head(kept))
         /\ Tail(kept) \in Seq(KeptGroups) /\ Len(Tail(kept)) \in Nat
         /\ DOMAIN Tail(kept) = 1 .. Len(Tail(kept))
         /\ \A j \in DOMAIN Tail(kept) :
              /\ Tail(kept)[j] = kept[j + 1] /\ j + 1 \in DOMAIN kept
              /\ DOMAIN Tail(kept)[j].kid \cap DOMAIN Head(kept).kid = {}
<1>1. kept \in Seq(KeptGroups) /\ Len(kept) \in Nat /\ DOMAIN kept = 1 .. Len(kept)
  BY LenProperties DEF Reporting
<1>2. /\ Head(kept) = kept[1] /\ Tail(kept) \in Seq(KeptGroups) /\ Len(Tail(kept)) = Len(kept) - 1
      /\ \A i \in 1 .. Len(Tail(kept)) : Tail(kept)[i] = kept[i + 1]
  BY <1>1, HeadTailProperties
<1>3. Len(kept) > 0
  BY <1>1, EmptySeq
<1>4. 1 \in DOMAIN kept
  BY <1>1, <1>3
<1>5. Len(Tail(kept)) \in Nat /\ DOMAIN Tail(kept) = 1 .. Len(Tail(kept))
  BY <1>1, <1>2, <1>3, LenProperties
<1>6. ASSUME NEW j \in DOMAIN Tail(kept)
      PROVE  /\ Tail(kept)[j] = kept[j + 1] /\ j + 1 \in DOMAIN kept
             /\ DOMAIN Tail(kept)[j].kid \cap DOMAIN Head(kept).kid = {}
  <2>1. Tail(kept)[j] = kept[j + 1] /\ j + 1 \in DOMAIN kept /\ j + 1 # 1
    BY <1>1, <1>2, <1>5
  <2> QED BY <1>2, <1>4, <2>1 DEF Reporting
<1> QED BY <1>1, <1>2, <1>4, <1>5, <1>6 DEF Reporting

(* Every step of the program is one of the archive, or leaves it alone: only what *)
(* it sampled is reported, only new uuids are added, files are of the current step *)
(* or the next, and a resume reads a file that is there.                          *)
LEMMA TrainStepArchive == TrainInv /\ TrainNext => [Next]_vars
<1> SUFFICES ASSUME TrainInv, TrainNext PROVE [Next]_vars
  OBVIOUS
<1>0. TypeOK /\ LineageInv /\ TrainFields /\ Reporting /\ Counting
  BY DEF TrainInv
<1>1. CASE SampleParents
  BY <1>1 DEF SampleParents, Next, Sample
<1>2. CASE UNCHANGED vars
  BY <1>2
<1>3. CASE ReportFailed
  <2>1. Head(kept).parent \in held
    BY <1>0, <1>3, HeadKept DEF ReportFailed, Reportable
  <2> QED BY <1>3, <2>1 DEF ReportFailed, Next, Fail
<1>4. CASE ReportChildren
  <2>1. PICK g : g = Head(kept)
    OBVIOUS
  <2>2. g \in KeptGroups /\ Reportable(g)
    BY <1>0, <1>4, <2>1, HeadKept DEF ReportChildren
  <2>3. PICK C \in SUBSET Ids : g.kid \in [C -> Children]
    BY <2>2 DEF KeptGroups
  <2>4. C = DOMAIN g.kid /\ C \in SUBSET (Ids \ known) /\ Cardinality(C) <= GroupSize
        /\ g.parent \in held
    BY <2>2, <2>3 DEF Reportable
  <2>5. CASE C = {}
    BY <1>2, <1>4, <2>1, <2>4, <2>5 DEF ReportChildren
  <2>6. CASE C # {}
    <3>1. UpdateStates(g.parent, g.kid) /\ T < MaxT /\ held' = held
      BY <1>4, <2>1, <2>4, <2>6 DEF ReportChildren
    <3>2. C \in (SUBSET (Ids \ known)) \ {{}}
      BY <2>4, <2>6
    <3>3. Update
      BY <2>3, <2>4, <3>1, <3>2 DEF Update
    <3> QED BY <3>3 DEF Next
  <2> QED BY <2>5, <2>6
<1>5. CASE FlushEpoch
  <2>1. epoch \in {step, step + 1} /\ epoch \in Steps
    <3>1. epoch \in Nat /\ epoch < NumEpochs /\ epoch \in {step, step + 1}
      BY <1>0, <1>5, Bounds DEF FlushEpoch, Counting, TrainFields
    <3> QED BY <3>1, Bounds DEF Steps
  <2>2. Flush(epoch) /\ held' = held
    BY <1>5 DEF FlushEpoch, FlushedAs
  <2>3. FlushStep
    BY <2>1, <2>2 DEF FlushStep
  <2> QED BY <2>3 DEF Next
<1>6. CASE StartFresh
  <2>1. kept = <<>>
    BY <1>0, <1>6 DEF StartFresh, Counting
  <2>2. known \subseteq Drawn
    BY DEF Drawn
  <2>3. PICK I : I = Fresh(BatchSize)
    OBVIOUS
  <2>4. I \subseteq Ids \ Drawn /\ Cardinality(I) = BatchSize
    BY <1>6, <2>3, Bounds, FreshIds DEF StartFresh, Fresh
  <2>5. I \in NewInitialSets(known)
    BY <2>2, <2>4 DEF NewInitialSets
  <2>6. (\E v \in [I -> Values], k \in [I -> InitialKeys] : FreshStart(I, v, k)) /\ held' = {}
    BY <1>6, <2>3 DEF StartFresh
  <2>7. Restart
    BY <2>5, <2>6 DEF Restart
  <2> QED BY <2>7 DEF Next
<1>7. CASE StartResumed
  <2>1. lastEpoch \in Steps
    BY <1>0, <1>7, Bounds DEF StartResumed, TrainFields
  <2>2. Resume
    BY <1>7, <2>1 DEF StartResumed, Resume
  <2> QED BY <2>2 DEF Next
<1>8. CASE \/ (\E p \in todo : RolloutGroup(p) \/ FilteredGroup(p)) \/ TrainStep \/ TrainStepFails
           \/ OpenAdapter \/ SaveAdapter \/ OpenMark \/ WriteMark \/ NextEpoch \/ Crash
  <2>1. UNCHANGED vars
    BY <1>8 DEF RolloutGroup, FilteredGroup, TrainStep, TrainStepFails, Die, OpenAdapter,
       SaveAdapter, OpenMark, WriteMark, NextEpoch, Crash
  <2> QED BY <2>1
<1> QED BY <1>1, <1>3, <1>4, <1>5, <1>6, <1>7, <1>8 DEF TrainNext, Process, Start


(* The archive keeps what PUCTSampler_proofs shows of it. *)
LEMMA ArchiveStep == TrainInv /\ TrainNext => TypeOK' /\ LineageInv' /\ known \subseteq known'
BY TrainStepArchive, TypeStep, LineageStep, KnownGrows DEF TrainInv

-----------------------------------------------------------------------------
(* The initial states *)

(* What holds when the program is launched for the first time. *)
LEMMA InitTrainInv == TrainInit => TrainInv
<1> SUFFICES ASSUME TrainInit PROVE TrainInv
  OBVIOUS
<1>1. Init /\ TypeOK /\ LineageInv
  BY TrainInitArchive, TypeInit, LineageInit
<1>2. /\ pc = "sample" /\ epoch = 0 /\ run = 0 /\ todo = {} /\ kept = <<>> /\ cursor = 1
      /\ weights = NoWeights /\ miHistory = {} /\ lastEpoch = NoFile /\ metricsLog = {}
      /\ adapterFile = [k \in Adapters |-> [e \in Epochs |-> NoFile]]
      /\ lineage = <<>> /\ fileLineage = [s \in Steps |-> <<>>]
  BY DEF TrainInit
<1>3. step = 0
  BY DEF TrainInit, SamplerInit
<1>4. TrainFields
  BY <1>2, Bounds, NoLineage DEF TrainFields, NoWeights, Runs
<1>5. Reporting
  <2>1. kept \in Seq(KeptGroups) /\ DOMAIN kept = {}
    BY <1>2
  <2> QED BY <2>1 DEF Reporting
<1>6. Counting
  BY <1>2, <1>3, Bounds DEF Counting
<1>7. Passed
  BY <1>2, NoLineage DEF Passed, InAll, NoWeights
<1>8. Tracked
  BY <1>2, NoLineage DEF Tracked
<1>9. Saving /\ Resumable
  BY <1>2, Bounds DEF Saving, Resumable
<1> QED BY <1>1, <1>4, <1>5, <1>6, <1>7, <1>8, <1>9 DEF TrainInv

-----------------------------------------------------------------------------
(* The types *)

(* A file written after a file: only that one changes. *)
LEMMA AdapterWritten ==
  ASSUME TrainFields, NEW c \in Adapters, NEW e \in Epochs, NEW f,
         adapterFile' = [adapterFile EXCEPT ![c][e] = f]
  PROVE  /\ adapterFile'[c][e] = f
         /\ \A k \in Adapters, d \in Epochs :
              k # c \/ d # e => adapterFile'[k][d] = adapterFile[k][d]
         /\ f \in Lineages \cup {Torn} =>
              adapterFile' \in [Adapters -> [Epochs -> Lineages \cup {NoFile, Torn}]]
BY DEF TrainFields

(* ensemble.save is called with the step of the flush before it. *)
LEMMA SavedStep ==
  ASSUME TrainFields, Counting, pc \in {"save", "write", "finalsave", "finalwrite"}
  PROVE  SaveStep = FlushedStep /\ SaveStep \in Epochs
<1>1. epoch \in Nat /\ (pc \in {"save", "write"} => epoch < NumEpochs)
  BY Bounds DEF TrainFields, Counting
<1>2. pc \in {"save", "write"} => epoch \in Epochs
  BY <1>1, Bounds
<1> QED BY <1>2, Bounds DEF SaveStep, FlushedStep

(* Every step keeps the types. *)
LEMMA FieldsStep == TrainInv /\ TrainNext => TrainFields'
<1> SUFFICES ASSUME TrainInv, TrainNext PROVE TrainFields'
  OBVIOUS
<1>0. TrainFields /\ Counting /\ Passed /\ Reporting /\ TypeOK /\ LineageInv
  BY DEF TrainInv
<1> USE DEF disk, history
<1>n. NoWeights \in [Adapters -> Lineages]
  BY NoLineage DEF NoWeights
<1>r. run \in Nat /\ epoch \in Nat /\ epoch <= NumEpochs /\ run <= MaxCrash
  BY <1>0, Bounds DEF TrainFields, Runs
<1>1. CASE SampleParents
  BY <1>0, <1>1 DEF SampleParents, TrainFields
<1>2. ASSUME NEW p \in todo, RolloutGroup(p) \/ FilteredGroup(p) PROVE TrainFields'
  <2>1. epoch \in Epochs
    <3>1. epoch < NumEpochs
      BY <1>0, <1>2 DEF RolloutGroup, FilteredGroup, Counting
    <3> QED BY <1>r, <3>1, Bounds
  <2>2. /\ UNCHANGED <<vars, pc, epoch, run, weights, cursor, adapterFile, lastEpoch, history>>
        /\ todo' = todo \ {p}
        /\ miHistory' = miHistory \cup {<<epoch, run>>}
        /\ metricsLog' = metricsLog \cup {<<epoch, run>>}
    BY <1>2 DEF RolloutGroup, FilteredGroup
  <2>3. held' = held
    BY <2>2 DEF vars
  <2> QED BY <1>0, <2>1, <2>2, <2>3 DEF TrainFields
<1>3. CASE TrainStep
  <2>1. \A k \in Adapters : weights[k] = lineage /\ Len(lineage) = epoch /\ epoch < NumEpochs
    BY <1>0, <1>3 DEF TrainStep, Passed, InAll, Counting
  <2>2. \A k \in Adapters : Append(weights[k], run) \in Lineages
    BY <1>0, <2>1, LineageAppend DEF TrainFields
  <2>3. /\ UNCHANGED <<vars, epoch, run, todo, miHistory, cursor, disk, history>>
        /\ pc' = "report" /\ weights' = [k \in Adapters |-> Append(weights[k], run)]
    BY <1>3 DEF TrainStep
  <2>4. held' = held
    BY <2>3 DEF vars
  <2> QED BY <1>0, <2>2, <2>3, <2>4 DEF TrainFields
<1>4. CASE TrainStepFails \/ Crash
  <2>1. /\ pc' = "down" /\ epoch' = 0 /\ todo' = {} /\ cursor' = 1
        /\ weights' = NoWeights /\ miHistory' = {} /\ UNCHANGED <<vars, run, disk, history>>
    BY <1>4 DEF TrainStepFails, Crash, Die
  <2> QED BY <1>0, <1>n, <2>1, Bounds DEF TrainFields
<1>5. CASE ReportFailed \/ ReportChildren
  <2>1. /\ UNCHANGED <<pc, epoch, run, todo, weights, miHistory, cursor, disk, history>>
        /\ held' = held
    BY <1>5 DEF ReportFailed, ReportChildren, vars
  <2> QED BY <1>0, <2>1 DEF TrainFields
<1>6. CASE FlushEpoch
  <2>1. /\ UNCHANGED <<epoch, run, todo, weights, miHistory, disk>> /\ held' = held
        /\ lineage' = Append(lineage, run) /\ cursor' = 1 /\ pc' \in {"save", "next"}
        /\ fileLineage' = [fileLineage EXCEPT ![epoch] = lineage']
    BY <1>6 DEF FlushEpoch, AfterFlush, FlushedAs
  <2>2. lineage' \in Lineages
    <3>1. Len(lineage) < NumEpochs
      BY <1>0, <1>6 DEF FlushEpoch, Passed, Counting
    <3> QED BY <1>0, <2>1, <3>1, LineageAppend DEF TrainFields
  <2>3. fileLineage' \in [Steps -> Lineages]
    BY <1>0, <2>1, <2>2 DEF TrainFields
  <2>4. cursor' \in 1 .. K + 1
    BY <2>1, Bounds
  <2> QED BY <1>0, <2>1, <2>2, <2>3, <2>4 DEF TrainFields
<1>7. CASE OpenAdapter \/ SaveAdapter
  <2>1. /\ UNCHANGED <<vars, pc, epoch, run, todo, weights, miHistory, lastEpoch, metricsLog, history>>
        /\ cursor \in Adapters /\ cursor' \in {cursor, cursor + 1}
        /\ pc \in {"save", "finalsave"}
        /\ \/ adapterFile' = [adapterFile EXCEPT ![cursor][SaveStep] = Torn]
           \/ adapterFile' = [adapterFile EXCEPT ![cursor][SaveStep] = weights[cursor]]
    BY <1>7 DEF OpenAdapter, SaveAdapter
  <2>2. SaveStep \in Epochs
    BY <1>0, <2>1, SavedStep
  <2>3. weights[cursor] \in Lineages
    BY <1>0, <2>1 DEF TrainFields
  <2>4. adapterFile' \in [Adapters -> [Epochs -> Lineages \cup {NoFile, Torn}]]
    BY <1>0, <2>1, <2>2, <2>3, AdapterWritten
  <2>5. cursor' \in 1 .. K + 1
    BY <2>1, Bounds
  <2>6. held' = held
    BY <2>1 DEF vars
  <2> QED BY <1>0, <2>1, <2>4, <2>5, <2>6 DEF TrainFields
<1>8. CASE OpenMark \/ WriteMark
  <2>1. /\ UNCHANGED <<vars, epoch, run, todo, weights, miHistory, cursor, adapterFile,
                       metricsLog, history>>
        /\ \/ pc \in {"save", "finalsave"} /\ pc' \in {"write", "finalwrite"} /\ lastEpoch' = Torn
           \/ pc \in {"write", "finalwrite"} /\ pc' \in {"next", "done"} /\ lastEpoch' = SaveStep
    BY <1>8 DEF OpenMark, WriteMark
  <2>2. pc \in {"write", "finalwrite"} => SaveStep \in Epochs
    BY <1>0, SavedStep
  <2>3. held' = held
    BY <2>1 DEF vars
  <2> QED BY <1>0, <2>1, <2>2, <2>3 DEF TrainFields
<1>9. CASE NextEpoch
  <2>1. /\ UNCHANGED <<vars, run, todo, weights, miHistory, disk, history>>
        /\ epoch' = epoch + 1 /\ cursor' = 1 /\ pc' \in {"sample", "finalsave"}
    BY <1>9 DEF NextEpoch
  <2>2. epoch < NumEpochs
    BY <1>0, <1>9 DEF NextEpoch, Counting
  <2>3. epoch' \in 0 .. NumEpochs
    BY <1>r, <2>1, <2>2, Bounds
  <2>4. held' = held
    BY <2>1 DEF vars
  <2> QED BY <1>0, <2>1, <2>3, <2>4, Bounds DEF TrainFields
<1>10. CASE StartFresh
  <2>1. /\ epoch' = 0 /\ run' = run + 1 /\ todo' = {} /\ cursor' = 1 /\ weights' = NoWeights
        /\ miHistory' = {} /\ lineage' = <<>> /\ fileLineage' = [fileLineage EXCEPT ![0] = <<>>]
        /\ pc' = "sample" /\ UNCHANGED disk
    BY <1>10 DEF StartFresh
  <2>2. run' \in Runs
    <3>1. run < MaxCrash
      BY <1>0, <1>10 DEF StartFresh, Counting
    <3> QED BY <1>r, <2>1, <3>1, Bounds DEF Runs
  <2> QED BY <1>0, <1>n, <2>1, <2>2, Bounds, NoLineage DEF TrainFields
<1>11. CASE StartResumed
  <2>1. /\ epoch' = lastEpoch + 1 /\ run' = run + 1 /\ todo' = {} /\ cursor' = 1
        /\ weights' = [k \in Adapters |-> Loaded(k, lastEpoch)]
        /\ miHistory' = metricsLog /\ lineage' = fileLineage[lastEpoch]
        /\ pc' \in {"sample", "finalsave"} /\ UNCHANGED <<disk, fileLineage>>
        /\ lastEpoch \notin {NoFile, Torn} /\ (\A k \in Adapters : adapterFile[k][lastEpoch] # Torn)
    BY <1>11 DEF StartResumed, StartEpoch, Rebuilt
  <2>2. lastEpoch \in Epochs /\ lastEpoch \in Steps
    BY <1>0, <2>1, Bounds DEF TrainFields
  <2>3. run' \in Runs
    <3>1. run < MaxCrash
      BY <1>0, <1>11 DEF StartResumed, Counting
    <3> QED BY <1>r, <2>1, <3>1, Bounds DEF Runs
  <2>4. epoch' \in 0 .. NumEpochs
    BY <2>1, <2>2, Bounds
  <2>5. \A k \in Adapters : Loaded(k, lastEpoch) \in Lineages
    <3>1. \A k \in Adapters : adapterFile[k][lastEpoch] \in Lineages \cup {NoFile, Torn}
      BY <1>0, <2>2 DEF TrainFields
    <3> QED BY <2>1, <3>1, NoLineage DEF Loaded
  <2> QED BY <1>0, <2>1, <2>2, <2>3, <2>4, <2>5, Bounds DEF TrainFields
<1> QED BY <1>1, <1>2, <1>3, <1>4, <1>5, <1>6, <1>7, <1>8, <1>9, <1>10, <1>11
        DEF TrainNext, Process, Start


-----------------------------------------------------------------------------
(* What is reported *)

(* Every step keeps the groups such that the archive takes them: a group reported is
   taken off, and its children are no group's any more. *)
LEMMA ReportingStep == TrainInv /\ TrainNext => Reporting'
<1> SUFFICES ASSUME TrainInv, TrainNext PROVE Reporting'
  OBVIOUS
<1>0. TrainFields /\ Counting /\ Reporting /\ TypeOK /\ LineageInv
  BY DEF TrainInv
<1>k. kept \in Seq(KeptGroups) /\ Len(kept) \in Nat /\ DOMAIN kept = 1 .. Len(kept)
  BY <1>0, LenProperties DEF Reporting
<1>e. ASSUME kept' = <<>> PROVE Reporting'
  <2>1. kept' \in Seq(KeptGroups) /\ DOMAIN kept' = {}
    BY <1>e
  <2> QED BY <2>1 DEF Reporting
<1>s. ASSUME UNCHANGED kept, held \subseteq held', UNCHANGED known PROVE Reporting'
  BY <1>0, <1>s DEF Reporting, Reportable
<1>1. CASE SampleParents \/ TrainStepFails \/ Crash \/ StartFresh \/ StartResumed
  BY <1>1, <1>e DEF SampleParents, TrainStepFails, Crash, Die, StartFresh, StartResumed
<1>2. CASE \/ (\E p \in todo : FilteredGroup(p)) \/ TrainStep \/ OpenAdapter \/ SaveAdapter
           \/ OpenMark \/ WriteMark \/ NextEpoch
  <2>1. UNCHANGED <<vars, kept>>
    BY <1>2 DEF FilteredGroup, TrainStep, OpenAdapter, SaveAdapter, OpenMark, WriteMark, NextEpoch
  <2> QED BY <1>s, <2>1 DEF vars, svars
<1>3. ASSUME NEW p \in todo, RolloutGroup(p) PROVE Reporting'
  <2>1. UNCHANGED <<held, known>> /\ p \in held
    BY <1>0, <1>3 DEF RolloutGroup, vars, svars, TrainFields
  <2>2. PICK c \in 0 .. GroupSize :
          /\ c + (MaxCrash - run) * BatchSize <= Cardinality(Ids \ Drawn)
          /\ \E kid \in [Fresh(c) -> Children] :
               kept' = Append(kept, [parent |-> p, kid |-> kid, fails |-> GroupSize - c])
    BY <1>3 DEF RolloutGroup
  <2>3. PICK kid \in [Fresh(c) -> Children] :
          kept' = Append(kept, [parent |-> p, kid |-> kid, fails |-> GroupSize - c])
    BY <2>2
  <2>4. c \in Nat /\ c <= GroupSize /\ GroupSize - c \in Nat
    BY <2>2, Bounds
  <2>5. Fresh(c) \subseteq Ids \ Drawn /\ Cardinality(Fresh(c)) = c
    <3>1. c <= Cardinality(Ids \ Drawn)
      <4>1. (MaxCrash - run) * BatchSize \in Nat
        <5>1. MaxCrash - run \in Nat
          BY <1>0, Bounds DEF TrainFields, Runs
        <5>2. \A a, b \in Nat : a * b \in Nat
          OBVIOUS
        <5> QED BY <5>1, <5>2, Bounds
      <4>2. Cardinality(Ids \ Drawn) \in Nat
        BY SamplerAssumption, FS_Difference, FS_CardinalityType
      <4>3. PICK q \in Nat : q = (MaxCrash - run) * BatchSize
        BY <4>1
      <4> QED BY <2>2, <2>4, <4>2, <4>3
    <3> QED BY <2>4, <3>1, FreshIds DEF Fresh
  <2>6. PICK g : g = [parent |-> p, kid |-> kid, fails |-> GroupSize - c]
    OBVIOUS
  <2>7. g \in KeptGroups /\ DOMAIN g.kid = Fresh(c)
    <3>1. p \in Ids
      BY <1>0, <2>1 DEF TypeOK
    <3>2. kid \in UNION {[C -> Children] : C \in SUBSET Ids}
      BY <2>3, <2>5
    <3> QED BY <2>3, <2>4, <2>6, <3>1, <3>2 DEF KeptGroups
  <2>8. Reportable(g)
    <3>1. DOMAIN g.kid \cap known = {}
      BY <2>5, <2>7 DEF Drawn
    <3> QED BY <2>1, <2>4, <2>5, <2>6, <2>7, <3>1 DEF Reportable
  <2>9. \A j \in DOMAIN kept : DOMAIN kept[j].kid \cap DOMAIN g.kid = {}
    BY <2>5, <2>7 DEF Drawn
  <2>10. kept' = Append(kept, g)
    BY <2>3, <2>6
  <2>11. /\ kept' \in Seq(KeptGroups) /\ DOMAIN kept' = 1 .. Len(kept) + 1
         /\ \A j \in DOMAIN kept : kept'[j] = kept[j]
         /\ kept'[Len(kept) + 1] = g
    <3>1. /\ Append(kept, g) \in Seq(KeptGroups) /\ Len(Append(kept, g)) = Len(kept) + 1
          /\ \A j \in 1 .. Len(kept) : Append(kept, g)[j] = kept[j]
          /\ Append(kept, g)[Len(kept) + 1] = g
      BY <1>k, <2>7, AppendProperties
    <3>2. DOMAIN Append(kept, g) = 1 .. Len(kept) + 1
      BY <1>k, <3>1, LenProperties
    <3> QED BY <1>k, <2>10, <3>1, <3>2
  <2>12. \A j \in DOMAIN kept' : j \in DOMAIN kept \/ j = Len(kept) + 1
    BY <1>k, <2>11
  <2>13. \A j \in DOMAIN kept : Reportable(kept[j])
    BY <1>0 DEF Reporting
  <2>14. \A j \in DOMAIN kept' : Reportable(kept'[j])
    BY <2>8, <2>11, <2>12, <2>13
  <2>15. \A j \in DOMAIN kept' : (Reportable(kept[j]))' 
    BY <2>1, <2>14 DEF Reportable
  <2>16. \A i, j \in DOMAIN kept : i # j => DOMAIN kept[i].kid \cap DOMAIN kept[j].kid = {}
    BY <1>0 DEF Reporting
  <2>17. ASSUME NEW i \in DOMAIN kept', NEW j \in DOMAIN kept', i # j
         PROVE  DOMAIN kept'[i].kid \cap DOMAIN kept'[j].kid = {}
    <3>1. CASE i \in DOMAIN kept /\ j \in DOMAIN kept
      BY <2>11, <2>16, <2>17, <3>1
    <3>2. CASE i \in DOMAIN kept /\ j = Len(kept) + 1
      BY <2>9, <2>11, <3>2
    <3>3. CASE j \in DOMAIN kept /\ i = Len(kept) + 1
      BY <2>9, <2>11, <3>3
    <3> QED BY <2>12, <2>17, <3>1, <3>2, <3>3
  <2> QED BY <2>11, <2>15, <2>17 DEF Reporting
<1>4. CASE ReportChildren
  <2>1. /\ kept # <<>> /\ kept' = Tail(kept) /\ held' = held
        /\ known' \subseteq known \cup DOMAIN Head(kept).kid
    <3>1. known' \subseteq known \cup DOMAIN Head(kept).kid /\ held' = held
      BY <1>4 DEF ReportChildren, vars, svars, UpdateStates, AddChildren
    <3> QED BY <1>4, <3>1 DEF ReportChildren
  <2>2. /\ Tail(kept) \in Seq(KeptGroups)
        /\ \A j \in DOMAIN Tail(kept) :
              /\ Tail(kept)[j] = kept[j + 1] /\ j + 1 \in DOMAIN kept
              /\ DOMAIN Tail(kept)[j].kid \cap DOMAIN Head(kept).kid = {}
    BY <1>0, <2>1, HeadKept
  <2>3. ASSUME NEW j \in DOMAIN kept' PROVE (Reportable(kept[j]))'
    <3>1. Reportable(kept'[j])
      BY <1>0, <2>1, <2>2 DEF Reporting
    <3>2. DOMAIN kept'[j].kid \cap known' = {}
      BY <2>1, <2>2, <3>1 DEF Reportable
    <3> QED BY <2>1, <3>1, <3>2 DEF Reportable
  <2>4. \A i \in DOMAIN kept' : i \in Nat
    BY <1>0, <2>1, HeadKept
  <2>5. ASSUME NEW i \in DOMAIN kept', NEW j \in DOMAIN kept', i # j
        PROVE  DOMAIN kept'[i].kid \cap DOMAIN kept'[j].kid = {}
    <3>1. i + 1 # j + 1
      BY <2>4, <2>5
    <3> QED BY <1>0, <2>1, <2>2, <3>1 DEF Reporting
  <2> QED BY <2>1, <2>2, <2>3, <2>5 DEF Reporting
<1>5. CASE ReportFailed
  <2>1. /\ kept # <<>> /\ Head(kept).fails > 0 /\ UNCHANGED <<held, known>>
        /\ kept' = <<[Head(kept) EXCEPT !.fails = @ - 1]>> \o Tail(kept)
    BY <1>5 DEF ReportFailed, RecordFailedRollout
  <2>2. PICK h : h = [Head(kept) EXCEPT !.fails = @ - 1]
    OBVIOUS
  <2>3. Head(kept) \in KeptGroups /\ Reportable(Head(kept)) /\ Tail(kept) \in Seq(KeptGroups)
    BY <1>0, <2>1, HeadKept
  <2>4. /\ h \in KeptGroups /\ h.kid = Head(kept).kid /\ h.parent = Head(kept).parent
    <3>1. Head(kept).fails - 1 \in Nat
      BY <2>1, <2>3 DEF KeptGroups
    <3> QED BY <2>2, <2>3, <3>1 DEF KeptGroups
  <2>5. /\ kept' \in Seq(KeptGroups) /\ DOMAIN kept' = DOMAIN kept
        /\ \A j \in DOMAIN kept : kept'[j].kid = kept[j].kid /\ kept'[j].parent = kept[j].parent
    <3>1. /\ Head(kept) = kept[1] /\ Len(Tail(kept)) = Len(kept) - 1 /\ Len(kept) > 0
          /\ \A i \in 1 .. Len(Tail(kept)) : Tail(kept)[i] = kept[i + 1]
      BY <1>k, <2>1, HeadTailProperties, EmptySeq
    <3>2. /\ <<h>> \in Seq(KeptGroups) /\ Len(<<h>>) = 1 /\ <<h>>[1] = h
      BY <2>4
    <3>3. PICK u \in Seq(KeptGroups) : u = <<h>>
      BY <3>2
    <3>4. kept' = u \o Tail(kept) /\ Len(u) = 1 /\ u[1] = h
      BY <2>1, <2>2, <3>2, <3>3
    <3>5. /\ u \o Tail(kept) \in Seq(KeptGroups) /\ Len(u \o Tail(kept)) = Len(u) + Len(Tail(kept))
          /\ \A i \in 1 .. Len(u) + Len(Tail(kept)) :
               (u \o Tail(kept))[i] = IF i <= Len(u) THEN u[i] ELSE Tail(kept)[i - Len(u)]
      BY <2>3, ConcatProperties
    <3>6. kept' \in Seq(KeptGroups) /\ Len(kept') = Len(kept)
      BY <1>k, <3>1, <3>4, <3>5
    <3>7. DOMAIN kept' = DOMAIN kept
      BY <1>k, <3>6, LenProperties
    <3>8. ASSUME NEW j \in DOMAIN kept
          PROVE  kept'[j].kid = kept[j].kid /\ kept'[j].parent = kept[j].parent
      <4>1. j \in 1 .. Len(kept)
        BY <1>k
      <4>2. CASE j = 1
        <5>1. kept'[1] = h
          BY <1>k, <3>1, <3>4, <3>5, <4>1, <4>2
        <5> QED BY <2>4, <3>1, <4>2, <5>1
      <4>3. CASE j # 1
        <5>1. j - 1 \in 1 .. Len(Tail(kept)) /\ (j - 1) + 1 = j /\ ~(j <= 1)
              /\ j \in 1 .. 1 + Len(Tail(kept))
          BY <1>k, <3>1, <4>1, <4>3
        <5>2. kept'[j] = Tail(kept)[j - 1]
          BY <3>4, <3>5, <5>1
        <5>3. kept'[j] = kept[j]
          BY <3>1, <5>1, <5>2
        <5> QED BY <5>3
      <4> QED BY <4>2, <4>3
    <3> QED BY <3>6, <3>7, <3>8
  <2>6. \A j \in DOMAIN kept' : (Reportable(kept[j]))'
    <3>1. \A j \in DOMAIN kept : Reportable(kept[j])
      BY <1>0 DEF Reporting
    <3> QED BY <2>1, <2>5, <3>1 DEF Reportable
  <2> QED BY <1>0, <2>5, <2>6 DEF Reporting
<1>6. CASE FlushEpoch
  <2>1. UNCHANGED <<kept, held, known>>
    BY <1>6 DEF FlushEpoch, Flush
  <2> QED BY <1>s, <2>1
<1> QED BY <1>1, <1>2, <1>3, <1>4, <1>5, <1>6 DEF TrainNext, Process, Start


-----------------------------------------------------------------------------
(* The epochs *)

(* Sampling always returns a state: the initial ones are there, and one is passed *)
(* over for another only.                                                        *)
LEMMA SomeSampled ==
  ASSUME TypeOK, LineageInv, NEW P \in SUBSET states, SampleStates(P)
  PROVE  P # {}
<1> SUFFICES ASSUME P = {} PROVE FALSE
  OBVIOUS
<1>1. states # {}
  <2>1. initial \subseteq states /\ Cardinality(initial) = BatchSize
    BY DEF LineageInv, LineageOK
  <2>2. initial # {}
    BY <2>1, Bounds, FS_EmptySet
  <2> QED BY <2>1, <2>2
<1>2. PICK rank \in Rankings : PassedOver(P, BatchSize, rank)
  BY DEF SampleStates
<1>3. Cardinality(P) = BatchSize
  BY <1>1, <1>2 DEF PassedOver
<1> QED BY <1>3, Bounds, FS_EmptySet

(* Every step keeps the count of the epochs and that of the archive's steps. *)
LEMMA CountingStep == TrainInv /\ TrainNext => Counting'
<1> SUFFICES ASSUME TrainInv, TrainNext PROVE Counting'
  OBVIOUS
<1>0. TrainFields /\ Counting /\ Reporting /\ TypeOK /\ LineageInv
  BY DEF TrainInv
<1>r. run \in Nat /\ epoch \in Nat /\ epoch <= NumEpochs /\ run <= MaxCrash /\ step \in Nat
  BY <1>0, Bounds DEF TrainFields, Runs, TypeOK, Steps
<1>u. UNCHANGED vars => UNCHANGED step
  BY DEF vars, svars
<1>1. CASE SampleParents
  <2>1. PICK P \in SUBSET states : SampleStates(P) /\ todo' = P
    BY <1>1 DEF SampleParents
  <2>2. todo' # {} /\ step' = step
    BY <1>0, <2>1, SomeSampled DEF SampleStates
  <2>3. pc = "sample" /\ pc' = "rollout" /\ UNCHANGED <<epoch, run>>
    BY <1>1 DEF SampleParents
  <2> QED BY <1>0, <2>2, <2>3 DEF Counting
<1>2. ASSUME NEW p \in todo, RolloutGroup(p) PROVE Counting'
  <2>1. pc = "rollout" /\ UNCHANGED <<vars, pc, epoch, run>>
    BY <1>2 DEF RolloutGroup
  <2>2. PICK g : kept' = Append(kept, g)
    BY <1>2 DEF RolloutGroup
  <2>3. kept' # <<>>
    <3>1. kept \in Seq(KeptGroups)
      BY <1>0 DEF Reporting
    <3> QED BY <2>2, <3>1
  <2> QED BY <1>0, <1>u, <2>1, <2>3 DEF Counting
<1>3. ASSUME NEW p \in todo, FilteredGroup(p) PROVE Counting'
  <2>1. /\ pc = "rollout" /\ UNCHANGED <<vars, pc, epoch, run, kept>>
        /\ run < MaxCrash \/ kept # <<>> \/ todo' # {}
    BY <1>3 DEF FilteredGroup
  <2> QED BY <1>0, <1>u, <2>1 DEF Counting
<1>4. CASE TrainStep
  <2>1. pc = "rollout" /\ pc' = "report" /\ UNCHANGED <<vars, epoch, run>>
    BY <1>4 DEF TrainStep
  <2> QED BY <1>0, <1>u, <2>1 DEF Counting
<1>5. CASE TrainStepFails \/ Crash
  <2>1. run < MaxCrash
    BY <1>0, <1>5 DEF TrainStepFails, Crash, Counting
  <2>2. pc' = "down" /\ kept' = <<>> /\ run' = run
    BY <1>5 DEF TrainStepFails, Crash, Die
  <2> QED BY <2>1, <2>2 DEF Counting
<1>6. CASE ReportFailed \/ ReportChildren
  <2>1. pc = "report" /\ UNCHANGED <<pc, epoch, run>>
    BY <1>6 DEF ReportFailed, ReportChildren
  <2>2. step' = step
    BY <1>6 DEF ReportFailed, ReportChildren, RecordFailedRollout, UpdateStates, vars, svars
  <2> QED BY <1>0, <2>1, <2>2 DEF Counting
<1>7. CASE FlushEpoch
  <2>1. /\ pc = "report" /\ pc' \in {"save", "next"} /\ UNCHANGED <<epoch, run, kept>>
        /\ kept = <<>> /\ step' = epoch
    BY <1>7 DEF FlushEpoch, AfterFlush, FlushedAs, Flush
  <2> QED BY <1>0, <2>1 DEF Counting
<1>8. CASE OpenAdapter \/ SaveAdapter
  <2>1. pc \in {"save", "finalsave"} /\ UNCHANGED <<vars, pc, epoch, run, kept>>
    BY <1>8 DEF OpenAdapter, SaveAdapter
  <2> QED BY <1>0, <1>u, <2>1 DEF Counting
<1>9. CASE OpenMark \/ WriteMark
  <2>1. /\ UNCHANGED <<vars, epoch, run, kept>>
        /\ \/ pc = "save" /\ pc' = "write"
           \/ pc = "finalsave" /\ pc' = "finalwrite"
           \/ pc = "write" /\ pc' = "next"
           \/ pc = "finalwrite" /\ pc' = "done"
    BY <1>9 DEF OpenMark, WriteMark
  <2> QED BY <1>0, <1>u, <2>1 DEF Counting
<1>10. CASE NextEpoch
  <2>1. /\ pc = "next" /\ epoch' = epoch + 1 /\ UNCHANGED <<vars, run, kept>>
        /\ pc' = IF epoch + 1 < NumEpochs THEN "sample" ELSE "finalsave"
    BY <1>10 DEF NextEpoch
  <2>2. epoch = step /\ step' = step /\ epoch < NumEpochs /\ kept' = <<>>
    BY <1>0, <1>u, <2>1 DEF Counting
  <2>3. epoch + 1 < NumEpochs \/ epoch + 1 = NumEpochs
    BY <1>r, <2>2, Bounds
  <2>4. epoch' = step' + 1
    BY <2>1, <2>2
  <2>5. CASE epoch + 1 < NumEpochs
    BY <2>1, <2>2, <2>4, <2>5 DEF Counting
  <2>6. CASE ~(epoch + 1 < NumEpochs)
    BY <2>1, <2>2, <2>3, <2>6 DEF Counting
  <2> QED BY <2>5, <2>6
<1>11. CASE StartFresh
  <2>1. epoch' = 0 /\ kept' = <<>> /\ pc' = "sample" /\ step' = 0
    BY <1>11 DEF StartFresh, FreshStart
  <2> QED BY <2>1, Bounds DEF Counting
<1>12. CASE StartResumed
  <2>1. /\ epoch' = lastEpoch + 1 /\ kept' = <<>> /\ step' = lastEpoch
        /\ pc' = IF lastEpoch + 1 < NumEpochs THEN "sample" ELSE "finalsave"
        /\ lastEpoch \notin {NoFile, Torn}
    BY <1>12 DEF StartResumed, StartEpoch, Load
  <2>2. lastEpoch \in Nat /\ lastEpoch < NumEpochs
    BY <1>0, <2>1, Bounds DEF TrainFields
  <2>3. lastEpoch + 1 < NumEpochs \/ lastEpoch + 1 = NumEpochs
    BY <2>2, Bounds
  <2>4. CASE lastEpoch + 1 < NumEpochs
    BY <2>1, <2>4 DEF Counting
  <2>5. CASE ~(lastEpoch + 1 < NumEpochs)
    BY <2>1, <2>3, <2>5 DEF Counting
  <2> QED BY <2>4, <2>5
<1> QED BY <1>1, <1>2, <1>3, <1>4, <1>5, <1>6, <1>7, <1>8, <1>9, <1>10, <1>11, <1>12
        DEF TrainNext, Process, Start

(* Every step takes the archive and all adapters through the same epochs. *)
LEMMA PassedStep == TrainInv /\ TrainNext => Passed'
<1> SUFFICES ASSUME TrainInv, TrainNext PROVE Passed'
  OBVIOUS
<1>0. TrainFields /\ Counting /\ Passed /\ Resumable
  BY DEF TrainInv
<1>r. run \in Runs /\ epoch \in Nat /\ lineage \in Lineages
  BY <1>0, Bounds DEF TrainFields
<1>1. CASE SampleParents
  BY <1>0, <1>1 DEF SampleParents, history, Passed, InAll
<1>2. CASE \E p \in todo : RolloutGroup(p) \/ FilteredGroup(p)
  BY <1>0, <1>2 DEF RolloutGroup, FilteredGroup, history, Passed, InAll
<1>3. CASE TrainStep
  <2>1. /\ pc = "rollout" /\ pc' = "report" /\ UNCHANGED <<epoch, run, lineage>>
        /\ weights' = [k \in Adapters |-> Append(weights[k], run)]
    BY <1>3 DEF TrainStep, history
  <2> QED BY <1>0, <2>1 DEF Passed, InAll
<1>4. CASE TrainStepFails \/ Crash
  BY <1>4 DEF TrainStepFails, Crash, Die, Passed
<1>5. CASE ReportFailed \/ ReportChildren
  BY <1>0, <1>5 DEF ReportFailed, ReportChildren, history, Passed, InAll
<1>6. CASE FlushEpoch
  <2>1. /\ pc = "report" /\ pc' \in {"save", "next"} /\ UNCHANGED <<epoch, run, weights>>
        /\ lineage' = Append(lineage, run)
    BY <1>6 DEF FlushEpoch, AfterFlush
  <2>2. Len(lineage) = epoch /\ epoch < NumEpochs /\ InAll(Append(lineage, run))
    BY <1>0, <2>1 DEF Passed, Counting
  <2>3. Len(lineage') = epoch + 1
    BY <1>r, <2>1, <2>2, LineageAppend
  <2> QED BY <2>1, <2>2, <2>3 DEF Passed, InAll
<1>7. CASE OpenAdapter \/ SaveAdapter
  BY <1>0, <1>7 DEF OpenAdapter, SaveAdapter, history, Passed, InAll
<1>8. CASE OpenMark \/ WriteMark
  <2>1. /\ UNCHANGED <<epoch, run, weights, lineage>>
        /\ \/ pc = "save" /\ pc' = "write"
           \/ pc = "finalsave" /\ pc' = "finalwrite"
           \/ pc = "write" /\ pc' = "next"
           \/ pc = "finalwrite" /\ pc' = "done"
    BY <1>8 DEF OpenMark, WriteMark, history
  <2> QED BY <1>0, <2>1 DEF Passed, InAll
<1>9. CASE NextEpoch
  <2>1. /\ UNCHANGED <<run, weights, lineage>> /\ epoch' = epoch + 1
        /\ pc = "next" /\ pc' \in {"sample", "finalsave"}
    BY <1>9 DEF NextEpoch, history
  <2> QED BY <1>0, <2>1 DEF Passed, InAll
<1>10. CASE StartFresh
  <2>1. /\ epoch' = 0 /\ lineage' = <<>> /\ weights' = NoWeights /\ pc' = "sample"
    BY <1>10 DEF StartFresh
  <2> QED BY <2>1, NoLineage DEF Passed, InAll, NoWeights
<1>11. CASE StartResumed
  <2>1. /\ epoch' = lastEpoch + 1 /\ lineage' = fileLineage[lastEpoch]
        /\ weights' = [k \in Adapters |-> Loaded(k, lastEpoch)]
        /\ pc' \in {"sample", "finalsave"}
        /\ lastEpoch \notin {NoFile, Torn}
        /\ \A k \in Adapters : adapterFile[k][lastEpoch] # Torn
    BY <1>11 DEF StartResumed, StartEpoch
  <2>2. lastEpoch \in Epochs /\ fileLineage[lastEpoch] \in Lineages
    BY <1>0, <2>1, Bounds DEF TrainFields
  <2>3. /\ Len(fileLineage[lastEpoch]) = lastEpoch + 1
        /\ \A k \in Adapters : adapterFile[k][lastEpoch] = fileLineage[lastEpoch]
    BY <1>0, <2>1, <2>2 DEF Resumable
  <2>4. fileLineage[lastEpoch] # NoFile
    <3>1. PICK L : L = fileLineage[lastEpoch]
      OBVIOUS
    <3> QED BY <2>2, <3>1, LineageType
  <2>5. \A k \in Adapters : weights'[k] = lineage'
    BY <2>1, <2>3, <2>4 DEF Loaded
  <2> QED BY <2>1, <2>3, <2>5 DEF Passed, InAll
<1> QED BY <1>1, <1>2, <1>3, <1>4, <1>5, <1>6, <1>7, <1>8, <1>9, <1>10, <1>11
        DEF TrainNext, Process, Start


-----------------------------------------------------------------------------
(* The MI values *)

(* Every step keeps the MI values of the epochs passed in memory, and those of *)
(* every file in the log.                                                      *)
LEMMA TrackedStep == TrainInv /\ TrainNext => Tracked'
<1> SUFFICES ASSUME TrainInv, TrainNext PROVE Tracked'
  OBVIOUS
<1>0. TrainFields /\ Counting /\ Passed /\ Tracked
  BY DEF TrainInv
<1>r. run \in Runs /\ epoch \in Nat /\ lineage \in Lineages /\ fileLineage \in [Steps -> Lineages]
  BY <1>0, Bounds DEF TrainFields
<1>m. \A L, H, J : Logged(L, H) /\ H \subseteq J => Logged(L, J)
  BY DEF Logged
<1>1. CASE SampleParents
  <2>1. pc = "sample" /\ pc' = "rollout" /\ kept' = <<>> /\ UNCHANGED <<miHistory, disk, history>>
    BY <1>1 DEF SampleParents
  <2> QED BY <1>0, <2>1 DEF disk, history, Tracked
<1>2. CASE \E p \in todo : RolloutGroup(p) \/ FilteredGroup(p)
  <2>1. /\ pc = "rollout" /\ pc' = pc /\ UNCHANGED <<epoch, run, lineage, fileLineage>>
        /\ miHistory' = miHistory \cup {<<epoch, run>>}
        /\ metricsLog' = metricsLog \cup {<<epoch, run>>}
    BY <1>2 DEF RolloutGroup, FilteredGroup, history
  <2>2. Logged(lineage, miHistory) /\ \A s \in Steps : Logged(fileLineage[s], metricsLog)
    BY <1>0, <2>1 DEF Tracked
  <2>3. Logged(lineage', miHistory') /\ \A s \in Steps : Logged(fileLineage'[s], metricsLog')
    BY <1>m, <2>1, <2>2
  <2> QED BY <1>0, <2>1, <2>3 DEF Tracked
<1>3. CASE TrainStep
  <2>1. /\ pc = "rollout" /\ pc' = "report" /\ kept # <<>>
        /\ UNCHANGED <<epoch, run, miHistory, disk, history>>
    BY <1>3 DEF TrainStep
  <2> QED BY <1>0, <2>1 DEF disk, history, Tracked
<1>4. CASE TrainStepFails \/ Crash
  <2>1. pc' = "down" /\ miHistory' = {} /\ UNCHANGED <<disk, history>>
    BY <1>4 DEF TrainStepFails, Crash, Die
  <2> QED BY <1>0, <2>1 DEF disk, history, Tracked
<1>5. CASE ReportFailed \/ ReportChildren
  <2>1. pc = "report" /\ UNCHANGED <<pc, epoch, run, miHistory, disk, history>>
    BY <1>5 DEF ReportFailed, ReportChildren
  <2> QED BY <1>0, <2>1 DEF disk, history, Tracked
<1>6. CASE FlushEpoch
  <2>1. /\ pc = "report" /\ pc' \in {"save", "next"} /\ UNCHANGED <<epoch, run, miHistory, metricsLog>>
        /\ lineage' = Append(lineage, run)
        /\ fileLineage' = [fileLineage EXCEPT ![epoch] = lineage']
    BY <1>6 DEF FlushEpoch, AfterFlush, FlushedAs, disk
  <2>2. Len(lineage) = epoch /\ epoch < NumEpochs
    BY <1>0, <2>1 DEF Passed, Counting
  <2>3. Logged(lineage, miHistory) /\ <<Len(lineage), run>> \in miHistory
    BY <1>0, <2>1, <2>2 DEF Tracked
  <2>4. Logged(lineage', miHistory)
    BY <1>r, <2>1, <2>2, <2>3, LineageAppend
  <2>5. Logged(lineage', metricsLog)
    BY <1>0, <1>m, <2>4 DEF Tracked
  <2>6. \A s \in Steps : Logged(fileLineage'[s], metricsLog)
    <3>1. \A s \in Steps : fileLineage'[s] = fileLineage[s] \/ fileLineage'[s] = lineage'
      BY <1>r, <2>1
    <3> QED BY <1>0, <2>5, <3>1 DEF Tracked
  <2> QED BY <1>0, <2>1, <2>4, <2>6 DEF Tracked
<1>7. CASE OpenAdapter \/ SaveAdapter
  <2>1. pc \in {"save", "finalsave"} /\ UNCHANGED <<pc, epoch, run, kept, miHistory, metricsLog, history>>
    BY <1>7 DEF OpenAdapter, SaveAdapter
  <2> QED BY <1>0, <2>1 DEF history, Tracked
<1>8. CASE OpenMark \/ WriteMark
  <2>1. /\ pc # "down" /\ pc' \notin {"down", "rollout", "report"}
        /\ UNCHANGED <<epoch, run, kept, miHistory, metricsLog, history>>
    BY <1>8 DEF OpenMark, WriteMark
  <2> QED BY <1>0, <2>1 DEF history, Tracked
<1>9. CASE NextEpoch
  <2>1. /\ pc # "down" /\ pc' \notin {"down", "rollout", "report"}
        /\ UNCHANGED <<run, kept, miHistory, disk, history>>
    BY <1>9 DEF NextEpoch
  <2> QED BY <1>0, <2>1 DEF disk, history, Tracked
<1>10. CASE StartFresh
  <2>1. /\ pc' = "sample" /\ lineage' = <<>> /\ fileLineage' = [fileLineage EXCEPT ![0] = <<>>]
        /\ miHistory' = {} /\ metricsLog' = metricsLog
    BY <1>10 DEF StartFresh, disk
  <2>2. \A s \in Steps : fileLineage'[s] = fileLineage[s] \/ fileLineage'[s] = <<>>
    BY <1>r, <2>1
  <2>3. \A s \in Steps : Logged(fileLineage'[s], metricsLog')
    BY <1>0, <2>1, <2>2, NoLineage DEF Tracked
  <2> QED BY <2>1, <2>3, NoLineage DEF Tracked
<1>11. CASE StartResumed
  <2>1. /\ pc' \in {"sample", "finalsave"} /\ lineage' = fileLineage[lastEpoch]
        /\ miHistory' = metricsLog /\ UNCHANGED <<metricsLog, fileLineage>>
        /\ lastEpoch \notin {NoFile, Torn}
    BY <1>11 DEF StartResumed, Rebuilt, disk
  <2>2. lastEpoch \in Steps
    BY <1>0, <2>1, Bounds DEF TrainFields
  <2> QED BY <1>0, <2>1, <2>2 DEF Tracked
<1> QED BY <1>1, <1>2, <1>3, <1>4, <1>5, <1>6, <1>7, <1>8, <1>9, <1>10, <1>11
        DEF TrainNext, Process, Start

-----------------------------------------------------------------------------
(* The files *)

(* A flush leaves a file of the archive. *)
LEMMA FlushedFile ==
  ASSUME TypeOK, TypeOK', NEW s \in Steps, Flush(s)
  PROVE  file'[s] # NoFile /\ \A r \in Steps : file[r] # NoFile => file'[r] # NoFile
<1>1. file' = [file EXCEPT ![s] = Snapshot(states', initial', value', parent', ancestors', key',
                                           n', m', T')]
  BY DEF Flush, Save
<1>2. Snapshot(states', initial', value', parent', ancestors', key', n', m', T') \in Snapshots
  BY DEF TypeOK, Snapshot, Snapshots
<1>3. file'[s] # NoFile
  BY <1>1, <1>2, TrainingAssumption DEF TypeOK
<1>4. \A r \in Steps : r # s => file'[r] = file[r]
  BY <1>1 DEF TypeOK
<1> QED BY <1>3, <1>4

(* Every step keeps what the files written so far stand for. *)
LEMMA SavingStep == TrainInv /\ TrainNext => Saving'
<1> SUFFICES ASSUME TrainInv, TrainNext PROVE Saving'
  OBVIOUS
<1>0. TrainFields /\ Counting /\ Passed /\ Saving /\ Resumable /\ TypeOK /\ TypeOK'
  BY ArchiveStep DEF TrainInv
<1>r. run \in Runs /\ epoch \in Nat /\ lineage \in Lineages /\ fileLineage \in [Steps -> Lineages]
  BY <1>0, Bounds DEF TrainFields
<1>u. UNCHANGED vars => file' = file
  BY DEF vars, svars
<1>1. CASE \/ SampleParents \/ (\E p \in todo : RolloutGroup(p) \/ FilteredGroup(p)) \/ TrainStep
           \/ TrainStepFails \/ Crash \/ ReportFailed \/ ReportChildren \/ StartFresh
  <2>1. pc' \in {"sample", "rollout", "report", "down"}
    BY <1>1 DEF SampleParents, RolloutGroup, FilteredGroup, TrainStep, TrainStepFails, Crash, Die,
                ReportFailed, ReportChildren, StartFresh
  <2> QED BY <2>1 DEF Saving
<1>2. CASE FlushEpoch
  <2>1. /\ pc = "report" /\ pc' \in {"save", "next"} /\ epoch' = epoch /\ cursor' = 1
        /\ fileLineage' = [fileLineage EXCEPT ![epoch] = lineage'] /\ Flush(epoch)
    BY <1>2 DEF FlushEpoch, AfterFlush, FlushedAs
  <2>2. epoch \in Steps
    <3>1. epoch < NumEpochs
      BY <1>0, <2>1 DEF Counting
    <3> QED BY <1>r, <3>1, Bounds
  <2>3. file'[epoch] # NoFile
    BY <1>0, <2>1, <2>2, FlushedFile
  <2>4. fileLineage'[epoch] = lineage'
    BY <1>r, <2>1, <2>2
  <2>5. \A k \in Adapters : ~(k < cursor')
    BY <2>1, Bounds
  <2>6. FlushedStep' = epoch
    BY <2>1 DEF FlushedStep
  <2> QED BY <2>1, <2>3, <2>4, <2>5, <2>6 DEF Saving
<1>3. CASE OpenAdapter \/ SaveAdapter
  <2>1. /\ pc \in {"save", "finalsave"} /\ UNCHANGED <<vars, pc, epoch, lineage, fileLineage>>
        /\ cursor \in Adapters
        /\ \/ adapterFile' = [adapterFile EXCEPT ![cursor][SaveStep] = Torn] /\ cursor' = cursor
           \/ /\ adapterFile' = [adapterFile EXCEPT ![cursor][SaveStep] = weights[cursor]]
              /\ cursor' = cursor + 1
    BY <1>3 DEF OpenAdapter, SaveAdapter, history
  <2>2. SaveStep = FlushedStep /\ SaveStep \in Epochs /\ FlushedStep' = FlushedStep
    BY <1>0, <2>1, SavedStep DEF FlushedStep
  <2>3. weights[cursor] = lineage
    BY <1>0, <2>1 DEF Passed, InAll
  <2>4. \A k \in Adapters : k # cursor => adapterFile'[k][FlushedStep] = adapterFile[k][FlushedStep]
    BY <1>0, <2>1, <2>2, AdapterWritten
  <2>5. cursor' = cursor + 1 => adapterFile'[cursor][FlushedStep] = lineage
    <3>1. cursor # cursor + 1
      BY <2>1, Bounds
    <3> QED BY <1>0, <2>1, <2>2, <2>3, <3>1, AdapterWritten
  <2>6. ASSUME NEW k \in Adapters, k < cursor' PROVE adapterFile'[k][FlushedStep] = lineage
    <3>1. k < cursor \/ (k = cursor /\ cursor' = cursor + 1)
      BY <2>1, <2>6, Bounds
    <3>2. k < cursor => k # cursor
      BY <2>1, Bounds
    <3> QED BY <1>0, <2>1, <2>4, <2>5, <3>1, <3>2 DEF Saving
  <2> QED BY <1>0, <1>u, <2>1, <2>2, <2>6 DEF Saving
<1>4. CASE OpenMark
  <2>1. /\ \/ pc = "save" /\ pc' = "write"
           \/ pc = "finalsave" /\ pc' = "finalwrite"
        /\ lastEpoch' = Torn /\ cursor > K
        /\ UNCHANGED <<vars, epoch, adapterFile, lineage, fileLineage>>
    BY <1>4 DEF OpenMark, AllSaved, history
  <2>2. \A k \in Adapters : k < cursor
    BY <1>0, <2>1, Bounds DEF TrainFields
  <2>3. FlushedStep' = FlushedStep
    BY <2>1 DEF FlushedStep
  <2> QED BY <1>0, <1>u, <2>1, <2>2, <2>3 DEF Saving
<1>5. CASE WriteMark
  <2>1. /\ \/ pc = "write" /\ pc' = "next"
           \/ pc = "finalwrite" /\ pc' = "done"
        /\ UNCHANGED <<vars, epoch, lineage, fileLineage>>
    BY <1>5 DEF WriteMark, history
  <2>2. FlushedStep' = FlushedStep
    BY <2>1 DEF FlushedStep
  <2> QED BY <1>0, <1>u, <2>1, <2>2 DEF Saving
<1>6. CASE NextEpoch
  <2>1. /\ pc = "next" /\ UNCHANGED <<vars, lineage, fileLineage>> /\ cursor' = 1
        /\ pc' = "sample" \/ (pc' = "finalsave" /\ ~(epoch + 1 < NumEpochs))
    BY <1>6 DEF NextEpoch, history
  <2>2. CASE pc' = "sample"
    BY <2>2 DEF Saving
  <2>3. CASE pc' = "finalsave" /\ ~(epoch + 1 < NumEpochs)
    <3>1. epoch < NumEpochs
      BY <1>0, <2>1 DEF Counting
    <3>2. NumEpochs - 1 = epoch
      BY <1>r, <2>3, <3>1, Bounds
    <3>3. FlushedStep = epoch /\ FlushedStep' = epoch
      BY <2>1, <2>3, <3>2 DEF FlushedStep
    <3>4. \A k \in Adapters : ~(k < cursor')
      BY <2>1, Bounds
    <3> QED BY <1>0, <1>u, <2>1, <2>3, <3>3, <3>4 DEF Saving
  <2> QED BY <2>1, <2>2, <2>3
<1>7. CASE StartResumed
  <2>1. /\ file' = file /\ fileLineage' = fileLineage /\ lineage' = fileLineage[lastEpoch]
        /\ cursor' = 1 /\ lastEpoch \notin {NoFile, Torn}
        /\ pc' = "sample" \/ (pc' = "finalsave" /\ ~(lastEpoch + 1 < NumEpochs))
    BY <1>7 DEF StartResumed, StartEpoch, Load
  <2>2. CASE pc' = "sample"
    BY <2>2 DEF Saving
  <2>3. CASE pc' = "finalsave" /\ ~(lastEpoch + 1 < NumEpochs)
    <3>1. lastEpoch \in Epochs
      BY <1>0, <2>1 DEF TrainFields
    <3>2. NumEpochs - 1 = lastEpoch
      BY <2>3, <3>1, Bounds
    <3>3. FlushedStep' = lastEpoch
      BY <2>3, <3>2 DEF FlushedStep
    <3>4. \A k \in Adapters : ~(k < cursor')
      BY <2>1, Bounds
    <3>5. file[lastEpoch] # NoFile
      BY <1>0, <3>1 DEF Resumable
    <3> QED BY <2>1, <2>3, <3>3, <3>4, <3>5 DEF Saving
  <2> QED BY <2>1, <2>2, <2>3
<1> QED BY <1>1, <1>2, <1>3, <1>4, <1>5, <1>6, <1>7 DEF TrainNext, Process, Start


(* Every step keeps what a resume needs: the files of the step last_epoch.txt names *)
(* are not written to, but for those of the last epoch, which are written again     *)
(* with the same adapters.                                                          *)
LEMMA ResumableStep == TrainInv /\ TrainNext => Resumable'
<1> SUFFICES ASSUME TrainInv, TrainNext, lastEpoch' \in Epochs PROVE Resumable'
  BY DEF Resumable
<1>0. TrainFields /\ Counting /\ Passed /\ Saving /\ Resumable /\ TypeOK /\ TypeOK'
  BY ArchiveStep DEF TrainInv
<1>r. epoch \in Nat /\ fileLineage \in [Steps -> Lineages]
      /\ lastEpoch' \in Nat /\ lastEpoch' \in Steps /\ lastEpoch' # Torn /\ lastEpoch' # NoFile
  BY <1>0, Bounds DEF TrainFields
<1>u. UNCHANGED vars => file' = file
  BY DEF vars, svars
<1>k. ASSUME lastEpoch' = lastEpoch, file' = file, fileLineage' = fileLineage,
             adapterFile' = adapterFile,
             pc' \in {"sample", "rollout", "report", "save"} => lastEpoch < epoch',
             pc' = "next" => lastEpoch <= epoch'
      PROVE  Resumable'
  BY <1>0, <1>k DEF Resumable
<1>1. CASE \/ SampleParents \/ (\E p \in todo : RolloutGroup(p) \/ FilteredGroup(p)) \/ TrainStep
           \/ ReportFailed \/ ReportChildren
  <2>1. /\ pc \in {"sample", "rollout", "report"} /\ pc' \in {"rollout", "report"} /\ epoch' = epoch
        /\ lastEpoch' = lastEpoch /\ fileLineage' = fileLineage /\ adapterFile' = adapterFile
    BY <1>1 DEF SampleParents, RolloutGroup, FilteredGroup, TrainStep, ReportFailed, ReportChildren,
                disk, history
  <2>2. file' = file
    BY <1>1 DEF SampleParents, RolloutGroup, FilteredGroup, TrainStep, ReportFailed, ReportChildren,
                SampleStates, RecordFailedRollout, UpdateStates, vars, svars
  <2>3. lastEpoch < epoch
    BY <1>0, <2>1 DEF Resumable
  <2> QED BY <1>k, <2>1, <2>2, <2>3
<1>2. CASE TrainStepFails \/ Crash
  <2>1. pc' = "down" /\ UNCHANGED <<vars, disk, history>>
    BY <1>2 DEF TrainStepFails, Crash, Die
  <2> QED BY <1>k, <1>u, <2>1 DEF disk, history
<1>3. CASE FlushEpoch
  <2>1. /\ pc = "report" /\ pc' \in {"save", "next"} /\ UNCHANGED <<epoch, lastEpoch, adapterFile>>
        /\ fileLineage' = [fileLineage EXCEPT ![epoch] = lineage'] /\ Flush(epoch)
    BY <1>3 DEF FlushEpoch, AfterFlush, FlushedAs, disk
  <2>2. lastEpoch < epoch /\ epoch < NumEpochs
    BY <1>0, <2>1 DEF Resumable, Counting
  <2>3. epoch \in Steps /\ epoch # lastEpoch /\ lastEpoch <= epoch
    BY <1>r, <2>1, <2>2, Bounds
  <2>4. fileLineage'[lastEpoch] = fileLineage[lastEpoch]
    BY <1>r, <2>1, <2>3
  <2>5. file'[lastEpoch] # NoFile
    <3>1. file[lastEpoch] # NoFile
      BY <1>0, <2>1 DEF Resumable
    <3> QED BY <1>0, <1>r, <2>1, <2>3, <3>1, FlushedFile
  <2> QED BY <1>0, <2>1, <2>2, <2>3, <2>4, <2>5 DEF Resumable
<1>4. CASE OpenAdapter \/ SaveAdapter
  <2>1. /\ pc \in {"save", "finalsave"} /\ UNCHANGED <<vars, pc, epoch, lastEpoch, fileLineage>>
        /\ cursor \in Adapters
        /\ \/ adapterFile' = [adapterFile EXCEPT ![cursor][SaveStep] = Torn]
           \/ adapterFile' = [adapterFile EXCEPT ![cursor][SaveStep] = weights[cursor]]
    BY <1>4 DEF OpenAdapter, SaveAdapter, history
  <2>2. SaveStep = FlushedStep /\ SaveStep \in Epochs
    BY <1>0, <2>1, SavedStep
  <2>3. weights[cursor] = fileLineage[FlushedStep]
    BY <1>0, <2>1 DEF Passed, InAll, Saving
  <2>4. ASSUME NEW k \in Adapters
        PROVE  \/ adapterFile'[k][lastEpoch] = adapterFile[k][lastEpoch]
               \/ /\ adapterFile'[k][lastEpoch] \in {Torn, fileLineage[lastEpoch]}
                  /\ lastEpoch = NumEpochs - 1
    <3>1. CASE lastEpoch # SaveStep
      BY <1>0, <2>1, <2>2, <3>1, AdapterWritten
    <3>2. CASE lastEpoch = SaveStep
      <4>1. pc # "save"
        <5>1. pc = "save" => SaveStep = epoch /\ lastEpoch < epoch
          BY <1>0, <2>1 DEF SaveStep, Resumable
        <5> QED BY <1>r, <2>1, <3>2, <5>1
      <4>2. lastEpoch = NumEpochs - 1
        BY <2>1, <3>2, <4>1 DEF SaveStep
      <4>3. CASE k = cursor
        BY <1>0, <2>1, <2>2, <2>3, <3>2, <4>2, <4>3, AdapterWritten
      <4>4. CASE k # cursor
        BY <1>0, <2>1, <2>2, <4>4, AdapterWritten
      <4> QED BY <4>3, <4>4
    <3> QED BY <3>1, <3>2
  <2>5. \A k \in Adapters : \/ adapterFile'[k][lastEpoch] = fileLineage[lastEpoch]
                            \/ adapterFile'[k][lastEpoch] = Torn /\ lastEpoch = NumEpochs - 1
    BY <1>0, <2>1, <2>4 DEF Resumable
  <2>6. UNCHANGED <<file, fileLineage, lastEpoch, pc, epoch>>
    BY <1>u, <2>1
  <2> QED BY <1>0, <2>5, <2>6 DEF Resumable
<1>5. CASE OpenMark
  BY <1>5, <1>r DEF OpenMark
<1>6. CASE WriteMark
  <2>1. /\ \/ pc = "write" /\ pc' = "next"
           \/ pc = "finalwrite" /\ pc' = "done"
        /\ lastEpoch' = SaveStep /\ UNCHANGED <<vars, epoch, adapterFile, fileLineage>>
    BY <1>6 DEF WriteMark, history
  <2>2. SaveStep = FlushedStep
    BY <1>0, <2>1, SavedStep
  <2>3. /\ fileLineage[FlushedStep] = lineage /\ file[FlushedStep] # NoFile
        /\ \A k \in Adapters : adapterFile[k][FlushedStep] = lineage
    BY <1>0, <2>1 DEF Saving
  <2>4. Len(lineage) = lastEpoch' + 1
    <3>1. CASE pc = "write"
      <4>1. Len(lineage) = epoch + 1 /\ SaveStep = epoch
        BY <1>0, <3>1 DEF Passed, SaveStep
      <4> QED BY <2>1, <4>1
    <3>2. CASE pc = "finalwrite"
      <4>1. Len(lineage) = epoch /\ epoch = NumEpochs /\ SaveStep = NumEpochs - 1
        BY <1>0, <3>2 DEF Passed, SaveStep, Counting
      <4> QED BY <2>1, <4>1, Bounds
    <3> QED BY <2>1, <3>1, <3>2
  <2>5. pc' = "next" => lastEpoch' <= epoch'
    <3>1. pc = "write" => SaveStep = epoch
      BY DEF SaveStep
    <3> QED BY <1>r, <2>1, <3>1
  <2>6. file' = file
    BY <1>u, <2>1
  <2> QED BY <2>1, <2>2, <2>3, <2>4, <2>5, <2>6 DEF Resumable
<1>7. CASE NextEpoch
  <2>1. pc = "next" /\ epoch' = epoch + 1 /\ pc' \in {"sample", "finalsave"} /\ UNCHANGED <<vars, disk, history>>
    BY <1>7 DEF NextEpoch
  <2>2. lastEpoch <= epoch
    BY <1>0, <2>1 DEF Resumable, disk
  <2>3. lastEpoch < epoch'
    BY <1>r, <2>1, <2>2 DEF disk
  <2> QED BY <1>k, <1>u, <2>1, <2>3 DEF disk, history
<1>8. CASE StartFresh
  BY <1>8, <1>r DEF StartFresh, disk
<1>9. CASE StartResumed
  <2>1. /\ file' = file /\ epoch' = lastEpoch + 1 /\ pc' \in {"sample", "finalsave"}
        /\ UNCHANGED <<disk, fileLineage>>
    BY <1>9 DEF StartResumed, StartEpoch, Load
  <2>2. lastEpoch < epoch'
    BY <1>r, <2>1 DEF disk
  <2> QED BY <1>k, <2>1, <2>2 DEF disk
<1> QED BY <1>1, <1>2, <1>3, <1>4, <1>5, <1>6, <1>7, <1>8, <1>9 DEF TrainNext, Process, Start

-----------------------------------------------------------------------------
(* The theorems *)

(* A step that changes nothing changes no part of the invariant. *)
LEMMA TrainStutter == TrainInv /\ UNCHANGED tvars => TrainInv'
<1> SUFFICES ASSUME TrainInv, UNCHANGED tvars PROVE TrainInv'
  OBVIOUS
<1> USE DEF tvars, vars, svars, disk, history
<1>1. TypeOK' /\ LineageInv'
  <2>1. [Next]_vars
    OBVIOUS
  <2> QED BY <2>1, TypeStep, LineageStep DEF TrainInv
<1>2. TrainFields'
  BY DEF TrainInv, TrainFields
<1>3. Reporting'
  BY DEF TrainInv, Reporting, Reportable
<1>4. Counting' /\ Passed'
  BY DEF TrainInv, Counting, Passed, InAll
<1>5. Tracked'
  BY DEF TrainInv, Tracked
<1>6. Saving' /\ Resumable'
  BY DEF TrainInv, Saving, FlushedStep, Resumable
<1> QED BY <1>1, <1>2, <1>3, <1>4, <1>5, <1>6 DEF TrainInv

(* The inductive invariant: over every crash, restart, flush and save. *)
THEOREM TrainInvariant == TrainSpec => []TrainInv
<1>1. TrainInv /\ TrainNext => TrainInv'
  BY ArchiveStep, FieldsStep, ReportingStep, CountingStep, PassedStep, TrackedStep, SavingStep,
     ResumableStep DEF TrainInv
<1>2. TrainInv /\ [TrainNext]_tvars => TrainInv'
  BY <1>1, TrainStutter
<1> QED BY InitTrainInv, <1>2, PTL DEF TrainSpec

(* The types of the training process and of its files. *)
THEOREM TrainTypeCorrect == TrainSpec => []TrainTypeOK
<1>1. TrainInv => TrainTypeOK
  BY DEF TrainInv, TrainFields, TrainTypeOK, Runs
<1> QED BY <1>1, TrainInvariant, PTL

(* main uses the archive as the module PUCTSampler lets its callers: what is proved *)
(* there of every caller holds of the archive of the training program.              *)
THEOREM ArchiveUsedAsSpecified == TrainSpec => Spec
<1>1. TrainInv /\ [TrainNext]_tvars => [Next]_vars
  BY TrainStepArchive DEF tvars
<1> QED BY <1>1, TrainInitArchive, TrainInvariant, PTL DEF TrainSpec, Spec

(* At the start of every epoch of every run the archive, the adapters and the MI   *)
(* tracker have been through the same epochs (main's resume, ensemble.load,        *)
(* create_sampler, StreamingMITracker).                                            *)
THEOREM TrainInStep == TrainSpec => []InStep
<1>1. TrainInv => InStep
  BY DEF TrainInv, Passed, InAll, Tracked, Logged, InStep
<1> QED BY <1>1, TrainInvariant, PTL

(* What last_epoch.txt names can be resumed from, whatever the process died doing. *)
THEOREM CheckpointsUsable == TrainSpec => []CheckpointUsable
<1>1. TrainInv => CheckpointUsable
  BY DEF TrainInv, Resumable, CheckpointUsable
<1> QED BY <1>1, TrainInvariant, PTL
=============================================================================
