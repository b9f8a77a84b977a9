------------------------- MODULE PUCTSampler_proofs -------------------------
(* Proofs about the PUCT archive, for every value of the constants. *)
EXTENDS PUCTSampler, TLAPS, FiniteSetTheorems, WellFoundedInduction

(* A finite non-empty set of integers has a greatest element, and Max is it. *)
LEMMA MaxOfFinite ==
  ASSUME NEW S, S \subseteq Int, IsFiniteSet(S), S # {}
  PROVE  Max(S) \in S /\ \A y \in S : Max(S) >= y
<1> DEFINE HasMax(U) == \E x \in U : \A y \in U : x >= y
<1> DEFINE D == {U \in SUBSET S : U # {} /\ ~HasMax(U)}
<1>1. D = {}
  <2> SUFFICES ASSUME D # {} PROVE FALSE
    OBVIOUS
  <2>1. D \subseteq FiniteSubsetsOf(S)
    BY FS_Subset DEF FiniteSubsetsOf
  <2>2. PICK U \in D : \A V \in D : <<V, U>> \notin StrictSubsetOrdering(S)
    <3> HIDE DEF D
    <3> QED BY <2>1, FS_StrictSubsetOrderingWellFounded, WFMin
  <2>3. PICK x \in U : TRUE
    OBVIOUS
  <2>4. U \ {x} \notin D
    BY <2>2 DEF StrictSubsetOrdering
  <2>5. CASE U = {x}
    BY <2>5
  <2>6. CASE U # {x}
    <3>1. HasMax(U \ {x})
      BY <2>3, <2>4, <2>6
    <3>2. PICK z \in U \ {x} : \A y \in U \ {x} : z >= y
      BY <3>1
    <3>3. CASE x >= z
      <4>1. \A y \in U : x >= y
        BY <3>2, <3>3
      <4> QED BY <4>1
    <3>4. CASE ~(x >= z)
      <4>1. \A y \in U : z >= y
        BY <3>2, <3>4
      <4> QED BY <4>1
    <3> QED BY <3>3, <3>4
  <2> QED BY <2>5, <2>6
<1>2. HasMax(S)
  BY <1>1
<1> QED BY <1>2 DEF Max


(* The values that the children of one call report: Max is one of them, and at *)
(* least as high as each.                                                      *)
LEMMA MaxOfChildren ==
  ASSUME NEW C \in SUBSET Ids, NEW kid \in [C -> Children],
         {kid[c].value : c \in C} \ {NoValue} # {}
  PROVE  LET ys == {kid[c].value : c \in C} \ {NoValue}
         IN  /\ Max(ys) \in Values
             /\ \A c \in C : kid[c].value # NoValue => Max(ys) >= kid[c].value
<1> DEFINE all == {kid[c].value : c \in C}
           ys == all \ {NoValue}
           f == [c \in C |-> kid[c].value]
<1>1. \A c \in C : kid[c].value \in Values \cup {NoValue}
  BY SamplerAssumption DEF Child
<1>2. IsFiniteSet(C)
  BY SamplerAssumption, FS_Subset
<1>3. f \in Surjection(C, all)
  BY DEF Surjection
<1>4. IsFiniteSet(all)
  BY <1>2, <1>3, FS_Surjection
<1>5. IsFiniteSet(ys)
  BY <1>4, FS_Difference
<1>6. ys \subseteq Values
  BY <1>1
<1>7. Max(ys) \in ys /\ \A y \in ys : Max(ys) >= y
  BY <1>5, <1>6, SamplerAssumption, MaxOfFinite
<1> QED BY <1>6, <1>7

-----------------------------------------------------------------------------
(* Type correctness *)

FieldsOK ==
  /\ states \subseteq Ids /\ initial \subseteq Ids
  /\ value \in [Ids -> Values \cup {NoValue}]
  /\ parent \in [Ids -> Ids \cup {NoParent}]
  /\ ancestors \in [Ids -> SUBSET Ids]
  /\ key \in [Ids -> Keys \cup {NoKey}]
  /\ n \in [Ids -> Nat] /\ T \in Nat
  /\ m \in [Ids -> Values \cup {NoValue}]

(* A saved file has the type of a snapshot. *)
LEMMA SaveType ==
  ASSUME FieldsOK', file \in [Steps -> Snapshots \cup {NoFile}],
         NEW s \in Steps, Save(s)
  PROVE  file' \in [Steps -> Snapshots \cup {NoFile}]
BY DEF FieldsOK, Save, Snapshot, Snapshots

(* update_states keeps the types of what it touches. *)
LEMMA UpdateType ==
  ASSUME TypeOK, NEW p \in held, NEW C \in SUBSET (Ids \ known),
         NEW kid \in [C -> Children], UpdateStates(p, kid)
  PROVE  FieldsOK' /\ known' \subseteq Ids
<1>1. p \in Ids
  BY DEF TypeOK
<1>2. n' \in [Ids -> Nat] /\ T' \in Nat /\ m' \in [Ids -> Values \cup {NoValue}]
  <2> DEFINE ys == {kid[c].value : c \in C} \ {NoValue}
  <2>1. CASE ys = {}
    BY <2>1 DEF UpdateStates, UpdateStats, TypeOK
  <2>2. CASE ys # {}
    <3>1. Max(ys) \in Values
      BY <2>2, MaxOfChildren
    <3>2. m' = [m EXCEPT ![p] = BestSeen(p, Max(ys))] /\ CountVisit(p)
      BY <2>2 DEF UpdateStates, UpdateStats
    <3>3. BestSeen(p, Max(ys)) \in Values \cup {NoValue}
      BY <1>1, <3>1 DEF BestSeen, TypeOK
    <3> QED BY <3>2, <3>3 DEF CountVisit, TypeOK
  <2> QED BY <2>1, <2>2
<1>3. PICK A \in SUBSET C : AddChildren(p, A, kid)
  BY DEF UpdateStates
<1>4. \A c \in C : kid[c] \in Child
  BY SamplerAssumption
<1>5. value' \in [Ids -> Values \cup {NoValue}] /\ key' \in [Ids -> Keys \cup {NoKey}]
  BY <1>3, <1>4 DEF AddChildren, Child, TypeOK
<1>6. parent' \in [Ids -> Ids \cup {NoParent}] /\ ancestors' \in [Ids -> SUBSET Ids]
  BY <1>1, <1>3 DEF AddChildren, LineageBelow, TypeOK
<1>7. states' \subseteq Ids /\ known' \subseteq Ids /\ initial' \subseteq Ids
  BY <1>3 DEF AddChildren, UpdateStates, TypeOK
<1> QED BY <1>2, <1>5, <1>6, <1>7 DEF FieldsOK

\* The constructor of an empty archive makes well-typed fields and files.
LEMMA TypeInit == Init => TypeOK
<1> SUFFICES ASSUME Init PROVE TypeOK
  OBVIOUS
<1>a. PICK I \in NewInitialSets({}) :
        (\E v \in [I -> Values], k \in [I -> InitialKeys] : SamplerInit(I, v, k))
        /\ held = {}
  BY DEF Init
<1>b. PICK v \in [I -> Values], k \in [I -> InitialKeys] :
        SamplerInit(I, v, k) /\ held = {}
  BY <1>a
<1>1. I \subseteq Ids /\ 0 \in Steps
  BY SamplerAssumption DEF NewInitialSets, Steps
<1>2. FieldsOK
  BY <1>b, <1>1, SamplerAssumption DEF SamplerInit, InitialValues, InitialKeysOf, FieldsOK
<1>3. file \in [Steps -> Snapshots \cup {NoFile}]
  <2>1. Snapshot(states, initial, value, parent, ancestors, key, n, m, T) \in Snapshots
    BY <1>2 DEF FieldsOK, Snapshot, Snapshots
  <2> QED BY <1>b, <2>1 DEF SamplerInit
<1> QED BY <1>b, <1>1, <1>2, <1>3 DEF SamplerInit, FieldsOK, TypeOK

\* Every method keeps the types.
LEMMA TypeStep == TypeOK /\ [Next]_vars => TypeOK'
<1> SUFFICES ASSUME TypeOK, [Next]_vars PROVE TypeOK'
  OBVIOUS
<1>1. CASE Sample
  <2>1. PICK P \in SUBSET states : SampleStates(P) /\ held' = held \cup P
    BY <1>1 DEF Sample
  <2>2. value' \in [Ids -> Values \cup {NoValue}] /\ key' \in [Ids -> Keys \cup {NoKey}]
    BY <2>1, SamplerAssumption DEF SampleStates, Refresh, TypeOK
  <2> QED BY <2>1, <2>2 DEF SampleStates, TypeOK
<1>2. CASE Update
  <2>0. PICK p \in held, C \in SUBSET (Ids \ known) :
          (\E kid \in [C -> Children] : UpdateStates(p, kid)) /\ held' = held
    BY <1>2 DEF Update
  <2>1. PICK kid \in [C -> Children] : UpdateStates(p, kid) /\ held' = held
    BY <2>0
  <2>2. FieldsOK' /\ known' \subseteq Ids
    BY <2>1, UpdateType
  <2> QED BY <2>1, <2>2 DEF UpdateStates, FieldsOK, TypeOK
<1>3. CASE Fail
  BY <1>3 DEF Fail, RecordFailedRollout, CountVisit, TypeOK
<1>4. CASE FlushStep
  <2>1. PICK s \in Steps : Flush(s) /\ held' = held
    BY <1>4 DEF FlushStep
  <2>2. FieldsOK'
    BY <2>1 DEF Flush, FieldsOK, TypeOK
  <2>3. file' \in [Steps -> Snapshots \cup {NoFile}]
    BY <2>1, <2>2, SaveType DEF Flush, TypeOK
  <2> QED BY <2>1, <2>2, <2>3 DEF Flush, FieldsOK, TypeOK
<1>5. CASE Resume
  <2>1. PICK s \in Steps : Load(s) /\ held' = {}
    BY <1>5 DEF Resume
  <2>2. file[s] \in Snapshots
    BY <2>1 DEF Load, TypeOK
  <2> QED BY <2>1, <2>2 DEF Load, Snapshots, TypeOK
<1>6. CASE Restart
  <2>0. PICK I \in NewInitialSets(known) :
          \E v \in [I -> Values], k \in [I -> InitialKeys] :
            FreshStart(I, v, k) /\ held' = {}
    BY <1>6 DEF Restart
  <2>1. PICK v \in [I -> Values], k \in [I -> InitialKeys] :
          FreshStart(I, v, k) /\ held' = {}
    BY <2>0
  <2>2. I \subseteq Ids /\ 0 \in Steps
    BY SamplerAssumption DEF NewInitialSets, Steps
  <2>3. FieldsOK'
    BY <2>1, <2>2, SamplerAssumption DEF FreshStart, InitialValues, InitialKeysOf, FieldsOK
  <2>4. file' \in [Steps -> Snapshots \cup {NoFile}]
    BY <2>1, <2>2, <2>3, SaveType DEF FreshStart, TypeOK
  <2> QED BY <2>1, <2>2, <2>3, <2>4 DEF FreshStart, FieldsOK, TypeOK
<1>7. CASE UNCHANGED vars
  BY <1>7 DEF vars, svars, TypeOK
<1> QED BY <1>1, <1>2, <1>3, <1>4, <1>5, <1>6, <1>7 DEF Next

(* Every field and every file of the sampler keeps its type. *)
THEOREM SamplerTypeCorrect == Spec => []TypeOK
BY TypeInit, TypeStep, PTL DEF Spec


-----------------------------------------------------------------------------
(* The shape of the tree.  The same facts are needed of the process and of      *)
(* every saved file, so they are stated of the fields.                          *)

LineageOK(S, I, par, anc, drawn) ==
  /\ I \subseteq S /\ S \subseteq drawn
  /\ Cardinality(I) = BatchSize
  /\ \A i \in Ids : anc[i] \subseteq drawn
  /\ \A i \in Ids \ drawn : anc[i] = {} /\ par[i] = NoParent
  /\ \A i \in Ids : \A a \in anc[i] : anc[a] \subseteq anc[i]
  /\ \A i \in I : par[i] = NoParent
  /\ \A i \in S \ I : par[i] # NoParent

LineageInv ==
  /\ held \subseteq known
  /\ LineageOK(states, initial, parent, ancestors, known)
  /\ \A s \in Steps : file[s] # NoFile =>
       LineageOK(file[s].states, file[s].initial, file[s].parent, file[s].ancestors, known)

\* What the save of step s puts on disk is the tree of the process.
LEMMA SavedFile ==
  ASSUME TypeOK, NEW s \in Steps, Save(s), NEW r \in Steps, file'[r] # NoFile
  PROVE  \/ file'[r] = Snapshot(states', initial', value', parent', ancestors',
                                key', n', m', T')
         \/ file'[r] = file[r] /\ file[r] # NoFile
BY DEF Save, TypeOK

\* uuids are never forgotten.
LEMMA KnownGrows == TypeOK /\ [Next]_vars => known \subseteq known'
<1> SUFFICES ASSUME TypeOK, [Next]_vars PROVE known \subseteq known'
  OBVIOUS
<1>1. CASE Update
  BY <1>1 DEF Update, UpdateStates, AddChildren
<1>2. CASE Sample \/ Fail \/ FlushStep \/ Resume \/ UNCHANGED vars
  BY <1>2 DEF Sample, SampleStates, Fail, RecordFailedRollout, FlushStep, Flush,
              Resume, Load, vars, svars
<1>3. CASE Restart
  BY <1>3 DEF Restart, FreshStart
<1> QED BY <1>1, <1>2, <1>3 DEF Next

\* A lineage stays sound when more uuids are drawn.
LEMMA LineageOKGrows ==
  ASSUME NEW S, NEW I, NEW par, NEW anc, NEW d \in SUBSET Ids, NEW e \in SUBSET Ids,
         d \subseteq e, LineageOK(S, I, par, anc, d)
  PROVE  LineageOK(S, I, par, anc, e)
BY DEF LineageOK

\* flush never prunes an initial state.
LEMMA FlushKeepsInitial ==
  ASSUME TypeOK, LineageInv, NEW s \in Steps, Flush(s)
  PROVE  states' \subseteq states /\ initial \subseteq states'
<1>1. PICK K \in SUBSET states, B \in SUBSET states :
        IsFiltered(K) /\ IsTrimmed(B, K) /\ states' = B
  BY DEF Flush
<1>2. initial \subseteq K
  BY <1>1 DEF IsFiltered, ArchivedChildren, LineageInv, LineageOK
<1> QED BY <1>1, <1>2 DEF IsTrimmed

\* A fresh archive has initial states only, and no lineage.
LEMMA LineageInit == TypeOK /\ Init => LineageInv
<1> SUFFICES ASSUME TypeOK, Init PROVE LineageInv
  OBVIOUS
<1>1. PICK I \in NewInitialSets({}) :
        (\E v \in [I -> Values], k \in [I -> InitialKeys] : SamplerInit(I, v, k))
        /\ held = {}
  BY DEF Init
<1>2. LineageOK(states, initial, parent, ancestors, known)
  BY <1>1 DEF SamplerInit, NewInitialSets, LineageOK
<1>3. ASSUME NEW s \in Steps, file[s] # NoFile
      PROVE  LineageOK(file[s].states, file[s].initial, file[s].parent,
                       file[s].ancestors, known)
  BY <1>1, <1>2, <1>3 DEF SamplerInit, Snapshot
<1> QED BY <1>1, <1>2, <1>3 DEF LineageInv

\* Every method keeps lineages sound, in memory and in the files.
LEMMA LineageStep == TypeOK /\ TypeOK' /\ LineageInv /\ [Next]_vars => LineageInv'
<1> SUFFICES ASSUME TypeOK, TypeOK', LineageInv, [Next]_vars PROVE LineageInv'
  OBVIOUS
<1> DEFINE FileOK(r) == LineageOK(file[r].states, file[r].initial, file[r].parent,
                                  file[r].ancestors, known)
<1>a. known \subseteq known'
  BY KnownGrows
<1>b. ASSUME NEW r \in Steps, file'[r] = file[r], file[r] # NoFile
      PROVE  FileOK(r)'
  BY <1>a, <1>b, LineageOKGrows DEF LineageInv, TypeOK
<1>c. ASSUME NEW s \in Steps, Save(s), LineageOK(states', initial', parent', ancestors', known')
      PROVE  \A r \in Steps : file'[r] # NoFile => FileOK(r)'
  <2> SUFFICES ASSUME NEW r \in Steps, file'[r] # NoFile PROVE FileOK(r)'
    OBVIOUS
  <2>1. CASE file'[r] = file[r] /\ file[r] # NoFile
    BY <1>b, <2>1
  <2>2. CASE file'[r] = Snapshot(states', initial', value', parent', ancestors', key', n', m', T')
    BY <1>c, <2>2 DEF Snapshot
  <2> QED BY <1>c, <2>1, <2>2, SavedFile
<1>1. CASE Sample
  <2>1. PICK P \in SUBSET states : SampleStates(P) /\ held' = held \cup P
    BY <1>1 DEF Sample
  <2>2. UNCHANGED <<states, initial, parent, ancestors, file, known>>
    BY <2>1 DEF SampleStates
  <2> QED BY <2>1, <2>2 DEF LineageInv, LineageOK
<1>2. CASE Update
  <2>0. PICK p \in held, C \in SUBSET (Ids \ known) :
          (\E kid \in [C -> Children] : UpdateStates(p, kid)) /\ held' = held
    BY <1>2 DEF Update
  <2>1. PICK kid \in [C -> Children] : UpdateStates(p, kid) /\ held' = held
    BY <2>0
  <2>2. PICK A \in SUBSET C : AddChildren(p, A, kid)
    BY <2>1 DEF UpdateStates
  <2>3. p \in known /\ p \in Ids /\ p # NoParent
    BY SamplerAssumption DEF LineageInv, TypeOK
  <2>4. \A i \in Ids : parent'[i] = (IF i \in A THEN p ELSE parent[i])
                    /\ ancestors'[i] = (IF i \in A THEN {p} \cup ancestors[p] ELSE ancestors[i])
    BY <2>2 DEF AddChildren, LineageBelow
  <2>5. states' = states \cup A /\ known' = known \cup A /\ UNCHANGED <<initial, file>>
    BY <2>1, <2>2 DEF AddChildren, UpdateStates
  <2>6. LineageOK(states', initial', parent', ancestors', known')
    <3>1. \A i \in Ids : ancestors'[i] \subseteq known'
      BY <2>3, <2>4, <2>5 DEF LineageInv, LineageOK
    <3>2. \A i \in Ids \ known' : ancestors'[i] = {} /\ parent'[i] = NoParent
      BY <2>4, <2>5 DEF LineageInv, LineageOK
    <3>3. \A i \in Ids : \A a \in ancestors'[i] : ancestors'[a] \subseteq ancestors'[i]
      <4> TAKE i \in Ids
      <4> TAKE a \in ancestors'[i]
      <4>1. a \in known /\ a \notin A /\ a \in Ids
        BY <2>3, <2>4 DEF LineageInv, LineageOK, TypeOK
      <4> QED BY <2>3, <2>4, <4>1 DEF LineageInv, LineageOK
    <3>4. \A i \in initial' : parent'[i] = NoParent
      BY <2>4, <2>5 DEF LineageInv, LineageOK, TypeOK
    <3>5. \A i \in states' \ initial' : parent'[i] # NoParent
      BY <2>3, <2>4, <2>5 DEF LineageInv, LineageOK, TypeOK
    <3> QED BY <2>5, <3>1, <3>2, <3>3, <3>4, <3>5 DEF LineageInv, LineageOK
  <2> QED BY <1>b, <2>1, <2>5, <2>6 DEF LineageInv
<1>3. CASE Fail
  BY <1>3 DEF Fail, RecordFailedRollout, LineageInv, LineageOK
<1>4. CASE FlushStep
  <2>1. PICK s \in Steps : Flush(s) /\ held' = held
    BY <1>4 DEF FlushStep
  <2>2. states' \subseteq states /\ initial \subseteq states'
    BY <2>1, FlushKeepsInitial
  <2>3. LineageOK(states', initial', parent', ancestors', known')
    BY <2>1, <2>2 DEF Flush, LineageInv, LineageOK
  <2> QED BY <1>c, <2>1, <2>3 DEF Flush, LineageInv
<1>5. CASE Resume
  <2>1. PICK s \in Steps : Load(s) /\ held' = {}
    BY <1>5 DEF Resume
  <2>2. LineageOK(states', initial', parent', ancestors', known')
    BY <2>1 DEF Load, LineageInv
  <2> QED BY <1>b, <2>1, <2>2 DEF Load, LineageInv
<1>6. CASE Restart
  <2>1. PICK I \in NewInitialSets(known) :
          \E v \in [I -> Values], k \in [I -> InitialKeys] :
            FreshStart(I, v, k) /\ held' = {}
    BY <1>6 DEF Restart
  <2>2. LineageOK(states', initial', parent', ancestors', known')
    BY <2>1 DEF FreshStart, NewInitialSets, LineageOK
  <2>3. 0 \in Steps /\ Save(0)
    BY <2>1, SamplerAssumption DEF Steps, FreshStart
  <2> QED BY <1>c, <2>1, <2>2, <2>3 DEF LineageInv
<1>7. CASE UNCHANGED vars
  BY <1>7 DEF vars, svars, LineageInv, LineageOK
<1> QED BY <1>1, <1>2, <1>3, <1>4, <1>5, <1>6, <1>7 DEF Next

(* The tree keeps its shape: initial states are always archived, the ancestors *)
(* of an ancestor are ancestors, and only initial states have no parent.        *)
THEOREM LineageSound == Spec => []LineageInv
BY LineageInit, LineageStep, TypeInit, SamplerTypeCorrect, PTL DEF Spec

-----------------------------------------------------------------------------
(* Visit counts.  Every id counts, not only those still archived, because a   *)
(* state that a rollout still holds may be pruned and reported on.            *)

VisitsOK(anc, visits, total, drawn) ==
  /\ \A i \in Ids : visits[i] <= total
  /\ \A i \in Ids \ drawn : visits[i] = 0
  /\ \A i \in Ids : \A a \in anc[i] : visits[i] <= visits[a]

VisitsInv ==
  /\ VisitsOK(ancestors, n, T, known)
  /\ \A s \in Steps : file[s] # NoFile =>
       VisitsOK(file[s].ancestors, file[s].n, file[s].T, known)

\* Counting a visit of p keeps the counts in line: whoever has a visited state
\* as ancestor's descendant is visited with it.
LEMMA CountVisitOK ==
  ASSUME TypeOK, LineageInv, VisitsOK(ancestors, n, T, known), NEW p \in held, CountVisit(p)
  PROVE  VisitsOK(ancestors, n', T', known)
<1>1. p \in Ids /\ p \in known /\ ancestors[p] \subseteq known
  BY DEF TypeOK, LineageInv, LineageOK
<1>2. \A i \in Ids : n'[i] = IF i \in {p} \cup ancestors[p] THEN n[i] + 1 ELSE n[i]
  BY DEF CountVisit, Visited
<1>3. T' = T + 1 /\ T \in Nat /\ \A i \in Ids : n[i] \in Nat
  BY DEF CountVisit, TypeOK
<1>4. ASSUME NEW i \in Ids, NEW a \in ancestors[i] PROVE n'[i] <= n'[a]
  <2>1. a \in Ids /\ n[i] <= n[a] /\ ancestors[a] \subseteq ancestors[i]
    BY DEF TypeOK, LineageInv, LineageOK, VisitsOK
  <2>2. i \in {p} \cup ancestors[p] => a \in {p} \cup ancestors[p]
    BY <1>1 DEF LineageInv, LineageOK
  <2> QED BY <1>2, <1>3, <2>1, <2>2
<1>5. \A i \in Ids : n'[i] <= T'
  BY <1>2, <1>3 DEF VisitsOK
<1>6. \A i \in Ids \ known : n'[i] = 0
  BY <1>1, <1>2 DEF VisitsOK
<1> QED BY <1>4, <1>5, <1>6 DEF VisitsOK

\* So does adding children of p, which nothing has visited yet.
LEMMA AddChildrenVisits ==
  ASSUME TypeOK, LineageInv, NEW p \in held, NEW A \in SUBSET (Ids \ known),
         NEW kid, AddChildren(p, A, kid), n' \in [Ids -> Nat],
         VisitsOK(ancestors, n', T', known)
  PROVE  VisitsOK(ancestors', n', T', known')
<1>1. known' = known \cup A /\ p \in Ids /\ p \in known
  BY DEF AddChildren, LineageInv, TypeOK
<1>2. \A i \in Ids : ancestors'[i] = IF i \in A THEN {p} \cup ancestors[p] ELSE ancestors[i]
  BY DEF AddChildren, LineageBelow
<1>3. ASSUME NEW i \in Ids, NEW a \in ancestors'[i] PROVE n'[i] <= n'[a]
  <2>1. CASE i \in A
    <3>1. n'[i] = 0 /\ a \in Ids
      BY <1>1, <1>2, <2>1 DEF VisitsOK, TypeOK
    <3> QED BY <3>1
  <2>2. CASE i \notin A
    BY <1>2, <2>2 DEF VisitsOK
  <2> QED BY <2>1, <2>2
<1> QED BY <1>1, <1>3 DEF VisitsOK

\* A fresh archive has no visits.
LEMMA VisitsInit == Init => VisitsInv
<1> SUFFICES ASSUME Init PROVE VisitsInv
  OBVIOUS
<1>1. PICK I \in NewInitialSets({}) :
        (\E v \in [I -> Values], k \in [I -> InitialKeys] : SamplerInit(I, v, k))
        /\ held = {}
  BY DEF Init
<1>2. VisitsOK(ancestors, n, T, known)
  BY <1>1 DEF SamplerInit, VisitsOK
<1>3. ASSUME NEW s \in Steps, file[s] # NoFile
      PROVE  VisitsOK(file[s].ancestors, file[s].n, file[s].T, known)
  BY <1>1, <1>2, <1>3 DEF SamplerInit, Snapshot
<1> QED BY <1>2, <1>3 DEF VisitsInv

\* Every method keeps the visits in line with the lineages.
LEMMA VisitsStep ==
  TypeOK /\ TypeOK' /\ LineageInv /\ VisitsInv /\ [Next]_vars => VisitsInv'
<1> SUFFICES ASSUME TypeOK, TypeOK', LineageInv, VisitsInv, [Next]_vars PROVE VisitsInv'
  OBVIOUS
<1> DEFINE FileOK(r) == VisitsOK(file[r].ancestors, file[r].n, file[r].T, known)
<1>a. known \subseteq known'
  BY KnownGrows
<1>b. ASSUME NEW r \in Steps, file'[r] = file[r], file[r] # NoFile
      PROVE  FileOK(r)'
  BY <1>a, <1>b DEF VisitsInv, VisitsOK
<1>c. ASSUME NEW s \in Steps, Save(s), VisitsOK(ancestors', n', T', known')
      PROVE  \A r \in Steps : file'[r] # NoFile => FileOK(r)'
  <2> SUFFICES ASSUME NEW r \in Steps, file'[r] # NoFile PROVE FileOK(r)'
    OBVIOUS
  <2>1. CASE file'[r] = file[r] /\ file[r] # NoFile
    BY <1>b, <2>1
  <2>2. CASE file'[r] = Snapshot(states', initial', value', parent', ancestors', key', n', m', T')
    BY <1>c, <2>2 DEF Snapshot
  <2> QED BY <1>c, <2>1, <2>2, SavedFile
<1>1. CASE Sample
  <2>1. UNCHANGED <<ancestors, n, T, file, known>>
    BY <1>1 DEF Sample, SampleStates
  <2> QED BY <2>1 DEF VisitsInv, VisitsOK
<1>2. CASE Update
  <2>0. PICK p \in held, C \in SUBSET (Ids \ known) :
          (\E kid \in [C -> Children] : UpdateStates(p, kid)) /\ held' = held
    BY <1>2 DEF Update
  <2>1. PICK kid \in [C -> Children] : UpdateStates(p, kid)
    BY <2>0
  <2>2. VisitsOK(ancestors, n', T', known)
    <3>1. CASE CountVisit(p)
      BY <3>1, CountVisitOK DEF VisitsInv
    <3>2. CASE UNCHANGED <<n, m, T>>
      BY <3>2 DEF VisitsInv, VisitsOK
    <3> QED BY <2>1, <3>1, <3>2 DEF UpdateStates, UpdateStats
  <2>3. PICK A \in SUBSET C : AddChildren(p, A, kid)
    BY <2>1 DEF UpdateStates
  <2>4. VisitsOK(ancestors', n', T', known')
    BY <2>2, <2>3, AddChildrenVisits DEF TypeOK
  <2>5. file' = file
    BY <2>1 DEF UpdateStates
  <2> QED BY <1>b, <2>4, <2>5 DEF VisitsInv
<1>3. CASE Fail
  <2>1. PICK p \in held : RecordFailedRollout(p)
    BY <1>3 DEF Fail
  <2>2. UNCHANGED <<ancestors, file, known>> /\ CountVisit(p)
    BY <2>1 DEF RecordFailedRollout
  <2>3. VisitsOK(ancestors, n', T', known)
    BY <2>2, CountVisitOK DEF VisitsInv
  <2> QED BY <1>b, <2>2, <2>3 DEF VisitsInv
<1>4. CASE FlushStep
  <2>1. PICK s \in Steps : Flush(s)
    BY <1>4 DEF FlushStep
  <2>2. VisitsOK(ancestors', n', T', known')
    BY <2>1 DEF Flush, VisitsInv
  <2> QED BY <1>c, <2>1, <2>2 DEF Flush, VisitsInv
<1>5. CASE Resume
  <2>1. PICK s \in Steps : Load(s)
    BY <1>5 DEF Resume
  <2> QED BY <1>b, <2>1 DEF Load, VisitsInv
<1>6. CASE Restart
  <2>0. PICK I \in NewInitialSets(known) :
          \E v \in [I -> Values], k \in [I -> InitialKeys] : FreshStart(I, v, k)
    BY <1>6 DEF Restart
  <2>1. VisitsOK(ancestors', n', T', known') /\ Save(0)
    BY <2>0 DEF FreshStart, VisitsOK
  <2>2. 0 \in Steps
    BY SamplerAssumption DEF Steps
  <2> QED BY <1>c, <2>1, <2>2 DEF VisitsInv
<1>7. CASE UNCHANGED vars
  BY <1>7 DEF vars, svars, VisitsInv, VisitsOK
<1> QED BY <1>1, <1>2, <1>3, <1>4, <1>5, <1>6, <1>7 DEF Next

(* No state was ever visited more often than a state above it, or than T says, *)
(* whatever was pruned, saved and reloaded.                                     *)
THEOREM VisitsSound == Spec => []VisitsFollowLineage
<1>1. TypeOK /\ VisitsInv => VisitsFollowLineage
  BY DEF TypeOK, VisitsInv, VisitsOK, VisitsFollowLineage
<1> QED BY <1>1, VisitsInit, VisitsStep, SamplerTypeCorrect, LineageSound, PTL DEF Spec

-----------------------------------------------------------------------------
(* Q of a parent covers its children. *)

QOK(par, val, visits, best) ==
  \A c \in Ids : par[c] # NoParent =>
    /\ val[c] \in Values /\ best[par[c]] \in Values
    /\ visits[par[c]] > 0 /\ best[par[c]] >= val[c]

QInv ==
  /\ QOK(parent, value, n, m)
  /\ \A s \in Steps : file[s] # NoFile =>
       QOK(file[s].parent, file[s].value, file[s].n, file[s].m)

\* Values are numbers: their order is total.
LEMMA ValueOrder ==
  /\ \A x \in Values : x >= x
  /\ \A x, y \in Values : x >= y \/ y >= x
  /\ \A x, y, z \in Values : x >= y /\ y >= z => x >= z
  /\ \A x, y \in Values : x > y => x >= y
  /\ \A x, y \in Values : ~(x > y) => y >= x
<1>1. Values \subseteq Int
  BY SamplerAssumption
<1> QED BY <1>1

\* Once a call is counted, m of the parent is as high as any value it reports, and
\* m of no state has dropped.
LEMMA StatsCoverCall ==
  ASSUME TypeOK, TypeOK', NEW p \in held, NEW C \in SUBSET (Ids \ known),
         NEW kid \in [C -> Children], UpdateStats(p, kid)
  PROVE  /\ \A c \in C : kid[c].value # NoValue =>
              kid[c].value \in Values /\ m'[p] \in Values /\ n'[p] > 0 /\ m'[p] >= kid[c].value
         /\ \A i \in Ids : m[i] \in Values => m'[i] \in Values /\ m'[i] >= m[i]
         /\ \A i \in Ids : n[i] > 0 => n'[i] > 0
<1> DEFINE ys == {kid[c].value : c \in C} \ {NoValue}
<1>0. p \in Ids /\ Values \subseteq Int /\ NoValue \notin Values
  BY SamplerAssumption DEF TypeOK
<1>1. CASE ys = {}
  <2>1. UNCHANGED <<n, m, T>>
    BY <1>1 DEF UpdateStats
  <2>2. \A c \in C : kid[c].value = NoValue
    BY <1>1
  <2> QED BY <1>0, <2>1, <2>2, ValueOrder
<1>2. CASE ys # {}
  <2>1. /\ Max(ys) \in Values
        /\ \A c \in C : kid[c].value # NoValue => Max(ys) >= kid[c].value
    BY <1>2, MaxOfChildren
  <2>2. m' = [m EXCEPT ![p] = BestSeen(p, Max(ys))] /\ CountVisit(p)
    BY <1>2 DEF UpdateStats
  <2>3. m'[p] \in Values /\ m'[p] >= Max(ys) /\ (m[p] \in Values => m'[p] >= m[p])
    <3> HIDE DEF ys
    <3>1. m'[p] = (IF m[p] = NoValue \/ Max(ys) > m[p] THEN Max(ys) ELSE m[p])
      BY <1>0, <2>2 DEF BestSeen, TypeOK
    <3>2. m[p] \in Values \cup {NoValue}
      BY <1>0 DEF TypeOK
    <3> DEFINE best == Max(ys)
    <3>3. best \in Values
      BY <2>1
    <3> HIDE DEF best
    <3> QED BY <1>0, <3>1, <3>2, <3>3, ValueOrder DEF best
  <2>4. \A i \in Ids : i # p => m'[i] = m[i]
    BY <2>2 DEF TypeOK
  <2>5. \A i \in Ids : n'[i] = IF i \in {p} \cup ancestors[p] THEN n[i] + 1 ELSE n[i]
    BY <2>2 DEF CountVisit, Visited
  <2>6. n'[p] > 0 /\ \A i \in Ids : n[i] > 0 => n'[i] > 0
    BY <1>0, <2>5 DEF TypeOK
  <2>7. \A c \in C : kid[c].value \in Values \cup {NoValue}
    BY SamplerAssumption DEF Child
  <2>8. \A c \in C : kid[c].value # NoValue => m'[p] >= kid[c].value
    <3> TAKE c \in C
    <3> HAVE kid[c].value # NoValue
    <3>1. Max(ys) >= kid[c].value /\ kid[c].value \in Int /\ Max(ys) \in Int /\ m'[p] \in Int
      BY <1>0, <2>1, <2>3, <2>7
    <3> HIDE DEF ys
    <3> QED BY <2>3, <3>1
  <2>9. \A i \in Ids : m[i] \in Values => m'[i] \in Values /\ m'[i] >= m[i]
    BY <2>3, <2>4, ValueOrder
  <2> QED BY <2>3, <2>6, <2>7, <2>8, <2>9
<1> QED BY <1>1, <1>2

\* A fresh archive has no children.
LEMMA QInit == Init => QInv
<1> SUFFICES ASSUME Init PROVE QInv
  OBVIOUS
<1>1. PICK I \in NewInitialSets({}) :
        (\E v \in [I -> Values], k \in [I -> InitialKeys] : SamplerInit(I, v, k))
        /\ held = {}
  BY DEF Init
<1>2. QOK(parent, value, n, m)
  BY <1>1 DEF SamplerInit, QOK
<1>3. ASSUME NEW s \in Steps, file[s] # NoFile
      PROVE  QOK(file[s].parent, file[s].value, file[s].n, file[s].m)
  BY <1>1, <1>2, <1>3 DEF SamplerInit, Snapshot
<1> QED BY <1>2, <1>3 DEF QInv

\* Every method keeps m above the values of the children.
LEMMA QStep ==
  TypeOK /\ TypeOK' /\ LineageInv /\ QInv /\ [Next]_vars => QInv'
<1> SUFFICES ASSUME TypeOK, TypeOK', LineageInv, QInv, [Next]_vars PROVE QInv'
  OBVIOUS
<1> DEFINE FileOK(r) == QOK(file[r].parent, file[r].value, file[r].n, file[r].m)
<1>b. ASSUME NEW r \in Steps, file'[r] = file[r], file[r] # NoFile
      PROVE  FileOK(r)'
  BY <1>b DEF QInv
<1>c. ASSUME NEW s \in Steps, Save(s), QOK(parent', value', n', m')
      PROVE  \A r \in Steps : file'[r] # NoFile => FileOK(r)'
  <2> SUFFICES ASSUME NEW r \in Steps, file'[r] # NoFile PROVE FileOK(r)'
    OBVIOUS
  <2>1. CASE file'[r] = file[r] /\ file[r] # NoFile
    BY <1>b, <2>1
  <2>2. CASE file'[r] = Snapshot(states', initial', value', parent', ancestors', key', n', m', T')
    BY <1>c, <2>2 DEF Snapshot
  <2> QED BY <1>c, <2>1, <2>2, SavedFile
<1>1. CASE Sample
  <2>1. PICK P \in SUBSET states : SampleStates(P)
    BY <1>1 DEF Sample
  <2>2. \A i \in Ids \ initial : value'[i] = value[i]
    BY <2>1 DEF SampleStates, Refresh
  <2>3. \A i \in initial : parent[i] = NoParent
    BY DEF LineageInv, LineageOK
  <2>4. UNCHANGED <<parent, n, m, file>>
    BY <2>1 DEF SampleStates
  <2> QED BY <2>2, <2>3, <2>4 DEF QInv, QOK
<1>2. CASE Update
  <2>0. PICK p \in held, C \in SUBSET (Ids \ known) :
          (\E kid \in [C -> Children] : UpdateStates(p, kid)) /\ held' = held
    BY <1>2 DEF Update
  <2>1. PICK kid \in [C -> Children] : UpdateStates(p, kid)
    BY <2>0
  <2>2. PICK K \in SUBSET C, A \in SUBSET C :
          IsDeduped(A, Eligible(K, kid), kid) /\ AddChildren(p, A, kid)
    BY <2>1 DEF UpdateStates
  <2>3. A \subseteq C /\ \A a \in A : kid[a].value # NoValue
    BY <2>2 DEF IsDeduped, Eligible
  <2>4. \A i \in Ids : parent'[i] = (IF i \in A THEN p ELSE parent[i])
                    /\ value'[i] = (IF i \in A THEN kid[i].value ELSE value[i])
    BY <2>2 DEF AddChildren
  <2>5. /\ \A c \in C : kid[c].value # NoValue =>
             kid[c].value \in Values /\ m'[p] \in Values /\ n'[p] > 0 /\ m'[p] >= kid[c].value
        /\ \A i \in Ids : m[i] \in Values => m'[i] \in Values /\ m'[i] >= m[i]
        /\ \A i \in Ids : n[i] > 0 => n'[i] > 0
    BY <2>1, StatsCoverCall DEF UpdateStates
  <2>6. ASSUME NEW c \in Ids, parent'[c] # NoParent
        PROVE  /\ value'[c] \in Values /\ m'[parent'[c]] \in Values
               /\ n'[parent'[c]] > 0 /\ m'[parent'[c]] >= value'[c]
    <3>1. CASE c \in A
      BY <2>3, <2>4, <2>5, <3>1
    <3>2. CASE c \notin A
      <4>1. parent'[c] = parent[c] /\ value'[c] = value[c] /\ parent[c] \in Ids
        BY <2>4, <2>6, <3>2 DEF TypeOK
      <4>2. /\ value[c] \in Values /\ m[parent[c]] \in Values
            /\ n[parent[c]] > 0 /\ m[parent[c]] >= value[c]
        BY <2>6, <4>1 DEF QInv, QOK
      <4>3. m'[parent[c]] \in Values /\ m'[parent[c]] >= m[parent[c]] /\ n'[parent[c]] > 0
        BY <2>5, <4>1, <4>2
      <4> QED BY <4>1, <4>2, <4>3, ValueOrder
    <3> QED BY <3>1, <3>2
  <2>7. QOK(parent', value', n', m')
    BY <2>6 DEF QOK
  <2>8. file' = file
    BY <2>1 DEF UpdateStates
  <2> QED BY <1>b, <2>7, <2>8 DEF QInv
<1>3. CASE Fail
  <2>1. PICK p \in held : RecordFailedRollout(p)
    BY <1>3 DEF Fail
  <2>2. UNCHANGED <<parent, value, m, file>> /\ CountVisit(p)
    BY <2>1 DEF RecordFailedRollout
  <2>3. \A i \in Ids : n[i] > 0 => n'[i] > 0
    BY <2>2 DEF CountVisit, TypeOK
  <2> QED BY <1>b, <2>2, <2>3 DEF QInv, QOK, TypeOK
<1>4. CASE FlushStep
  <2>1. PICK s \in Steps : Flush(s)
    BY <1>4 DEF FlushStep
  <2>2. QOK(parent', value', n', m')
    BY <2>1 DEF Flush, QInv
  <2> QED BY <1>c, <2>1, <2>2 DEF Flush, QInv
<1>5. CASE Resume
  <2>1. PICK s \in Steps : Load(s)
    BY <1>5 DEF Resume
  <2> QED BY <1>b, <2>1 DEF Load, QInv
<1>6. CASE Restart
  <2>0. PICK I \in NewInitialSets(known) :
          \E v \in [I -> Values], k \in [I -> InitialKeys] : FreshStart(I, v, k)
    BY <1>6 DEF Restart
  <2>1. QOK(parent', value', n', m') /\ Save(0)
    BY <2>0 DEF FreshStart, QOK
  <2>2. 0 \in Steps
    BY SamplerAssumption DEF Steps
  <2> QED BY <1>c, <2>1, <2>2 DEF QInv
<1>7. CASE UNCHANGED vars
  BY <1>7 DEF vars, svars, QInv, QOK
<1> QED BY <1>1, <1>2, <1>3, <1>4, <1>5, <1>6, <1>7 DEF Next

(* A good child always counts for its parent, through pruning and reloading. *)
THEOREM QSound == Spec => []QCoversChildren
<1>1. TypeOK /\ QInv => QCoversChildren
  BY SamplerAssumption DEF TypeOK, QInv, QOK, QCoversChildren
<1> QED BY <1>1, QInit, QStep, SamplerTypeCorrect, LineageSound, PTL DEF Spec

-----------------------------------------------------------------------------
(* No construction is archived twice. *)

DistinctOK(S, I, ky) ==
  \A a \in S \ I, b \in S : a # b => ky[a] # ky[b] \/ ky[a] = NoKey

DistinctInv ==
  /\ DistinctOK(states, initial, key)
  /\ \A s \in Steps : file[s] # NoFile =>
       DistinctOK(file[s].states, file[s].initial, file[s].key)

\* A fresh archive has initial states only, which may share a construction.
LEMMA DistinctInit == Init => DistinctInv
<1> SUFFICES ASSUME Init PROVE DistinctInv
  OBVIOUS
<1>1. PICK I \in NewInitialSets({}) :
        (\E v \in [I -> Values], k \in [I -> InitialKeys] : SamplerInit(I, v, k))
        /\ held = {}
  BY DEF Init
<1>2. DistinctOK(states, initial, key)
  BY <1>1 DEF SamplerInit, DistinctOK
<1>3. ASSUME NEW s \in Steps, file[s] # NoFile
      PROVE  DistinctOK(file[s].states, file[s].initial, file[s].key)
  BY <1>1, <1>2, <1>3 DEF SamplerInit, Snapshot
<1> QED BY <1>2, <1>3 DEF DistinctInv

\* Every method keeps the constructions apart: what is added differs from all there is.
LEMMA DistinctStep ==
  TypeOK /\ TypeOK' /\ LineageInv /\ DistinctInv /\ [Next]_vars => DistinctInv'
<1> SUFFICES ASSUME TypeOK, TypeOK', LineageInv, DistinctInv, [Next]_vars
             PROVE  DistinctInv'
  OBVIOUS
<1> DEFINE FileOK(r) == DistinctOK(file[r].states, file[r].initial, file[r].key)
<1>b. ASSUME NEW r \in Steps, file'[r] = file[r], file[r] # NoFile
      PROVE  FileOK(r)'
  BY <1>b DEF DistinctInv
<1>c. ASSUME NEW s \in Steps, Save(s), DistinctOK(states', initial', key')
      PROVE  \A r \in Steps : file'[r] # NoFile => FileOK(r)'
  <2> SUFFICES ASSUME NEW r \in Steps, file'[r] # NoFile PROVE FileOK(r)'
    OBVIOUS
  <2>1. CASE file'[r] = file[r] /\ file[r] # NoFile
    BY <1>b, <2>1
  <2>2. CASE file'[r] = Snapshot(states', initial', value', parent', ancestors', key', n', m', T')
    BY <1>c, <2>2 DEF Snapshot
  <2> QED BY <1>c, <2>1, <2>2, SavedFile
<1>1. CASE Sample
  <2>1. PICK P \in SUBSET states : SampleStates(P)
    BY <1>1 DEF Sample
  <2>2. UNCHANGED <<states, initial, file>>
    BY <2>1 DEF SampleStates
  <2>3. DistinctOK(states, initial, key')
    <3>1. CASE ~RandomInit
      BY <2>1, <3>1 DEF SampleStates, DistinctInv
    <3>2. CASE RandomInit
      <4> DEFINE R == P \cap initial
      <4>1. PICK k \in [R -> InitialKeys] :
              /\ \A r \in R : k[r] = NoKey \/ k[r] \notin KeysIn(states \ {r})
              /\ key' = [i \in Ids |-> IF i \in R THEN k[i] ELSE key[i]]
        BY <2>1, <3>2 DEF SampleStates, Refresh
      <4>2. ASSUME NEW a \in states \ initial, NEW b \in states, a # b
            PROVE  key'[a] # key'[b] \/ key'[a] = NoKey
        <5>1. a \in Ids /\ b \in Ids /\ key'[a] = key[a]
          BY <4>1 DEF TypeOK
        <5>2. CASE b \in R
          <6>1. key'[b] = k[b] /\ a \in states \ {b}
            BY <4>1, <4>2, <5>1, <5>2
          <6> QED BY <4>1, <5>1, <5>2, <6>1 DEF KeysIn
        <5>3. CASE b \notin R
          BY <4>1, <4>2, <5>1, <5>3 DEF DistinctInv, DistinctOK
        <5> QED BY <5>2, <5>3
      <4> QED BY <4>2 DEF DistinctOK
    <3> QED BY <3>1, <3>2
  <2> QED BY <1>b, <2>2, <2>3 DEF DistinctInv
<1>2. CASE Update
  <2>0. PICK p \in held, C \in SUBSET (Ids \ known) :
          (\E kid \in [C -> Children] : UpdateStates(p, kid)) /\ held' = held
    BY <1>2 DEF Update
  <2>1. PICK kid \in [C -> Children] : UpdateStates(p, kid)
    BY <2>0
  <2>2. PICK K \in SUBSET C, A \in SUBSET C :
          IsDeduped(A, Eligible(K, kid), kid) /\ AddChildren(p, A, kid)
    BY <2>1 DEF UpdateStates
  <2>3. /\ states' = states \cup A
        /\ \A i \in Ids : key'[i] = IF i \in A THEN kid[i].key ELSE key[i]
    BY <2>2 DEF AddChildren
  <2>4. /\ \A a \in A : kid[a].key \notin KeysIn(states)
        /\ \A a, b \in A : a # b => kid[a].key # kid[b].key \/ kid[a].key = NoKey
    BY <2>2 DEF IsDeduped, Eligible
  <2>5. states \subseteq Ids /\ A \subseteq Ids /\ states \cap A = {}
    BY DEF TypeOK, LineageInv, LineageOK
  <2>6. ASSUME NEW a \in states' \ initial, NEW b \in states', a # b
        PROVE  key'[a] # key'[b] \/ key'[a] = NoKey
    <3>1. CASE a \in A /\ b \in A
      BY <2>3, <2>4, <2>5, <2>6, <3>1
    <3>2. CASE a \in states /\ b \in states
      BY <2>3, <2>5, <2>6, <3>2 DEF DistinctInv, DistinctOK
    <3>3. CASE a \in A /\ b \in states
      BY <2>3, <2>4, <2>5, <3>3 DEF KeysIn
    <3>4. CASE a \in states /\ b \in A
      BY <2>3, <2>4, <2>5, <3>4 DEF KeysIn
    <3> QED BY <2>3, <3>1, <3>2, <3>3, <3>4
  <2>7. UNCHANGED <<initial, file>>
    BY <2>1 DEF UpdateStates
  <2>8. DistinctOK(states', initial', key')
    BY <2>6, <2>7 DEF DistinctOK
  <2> QED BY <1>b, <2>7, <2>8 DEF DistinctInv
<1>3. CASE Fail
  BY <1>3 DEF Fail, RecordFailedRollout, DistinctInv, DistinctOK
<1>4. CASE FlushStep
  <2>1. PICK s \in Steps : Flush(s)
    BY <1>4 DEF FlushStep
  <2>2. states' \subseteq states
    BY <2>1, FlushKeepsInitial
  <2>3. DistinctOK(states', initial', key')
    BY <2>1, <2>2 DEF Flush, DistinctInv, DistinctOK
  <2> QED BY <1>c, <2>1, <2>3 DEF Flush, DistinctInv
<1>5. CASE Resume
  <2>1. PICK s \in Steps : Load(s)
    BY <1>5 DEF Resume
  <2> QED BY <1>b, <2>1 DEF Load, DistinctInv
<1>6. CASE Restart
  <2>0. PICK I \in NewInitialSets(known) :
          \E v \in [I -> Values], k \in [I -> InitialKeys] : FreshStart(I, v, k)
    BY <1>6 DEF Restart
  <2>1. DistinctOK(states', initial', key') /\ Save(0)
    BY <2>0 DEF FreshStart, DistinctOK
  <2>2. 0 \in Steps
    BY SamplerAssumption DEF Steps
  <2> QED BY <1>c, <2>1, <2>2 DEF DistinctInv
<1>7. CASE UNCHANGED vars
  BY <1>7 DEF vars, svars, DistinctInv, DistinctOK
<1> QED BY <1>1, <1>2, <1>3, <1>4, <1>5, <1>6, <1>7 DEF Next

(* A solution found again, in the same call or any later one, in this process or *)
(* after a resume, is not archived again.                                        *)
THEOREM DistinctSound == Spec => []DistinctConstructions
<1>1. TypeOK /\ DistinctInv => DistinctConstructions
  BY DEF DistinctInv, DistinctOK, DistinctConstructions, NonInitial
<1> QED BY <1>1, DistinctInit, DistinctStep, SamplerTypeCorrect, LineageSound, PTL DEF Spec

-----------------------------------------------------------------------------
(* Every state belongs to the tree of one initial state; so does a state that *)
(* only a rollout still holds, because its children may come yet.             *)

RootedOK(S, I, anc) ==
  \A i \in S : \E r \in I : ({i} \cup anc[i]) \cap I = {r}

RootedInv ==
  /\ RootedOK(states \cup held, initial, ancestors)
  /\ \A s \in Steps : file[s] # NoFile =>
       RootedOK(file[s].states, file[s].initial, file[s].ancestors)

\* Every initial state of a fresh archive is its own root.
LEMMA RootedInit == Init => RootedInv
<1> SUFFICES ASSUME Init PROVE RootedInv
  OBVIOUS
<1>1. PICK I \in NewInitialSets({}) :
        (\E v \in [I -> Values], k \in [I -> InitialKeys] : SamplerInit(I, v, k))
        /\ held = {}
  BY DEF Init
<1>2. states = I /\ initial = I /\ I \subseteq Ids /\ \A i \in Ids : ancestors[i] = {}
  BY <1>1 DEF SamplerInit, NewInitialSets
<1>3. RootedOK(states, initial, ancestors)
  BY <1>2 DEF RootedOK
<1>4. ASSUME NEW s \in Steps, file[s] # NoFile
      PROVE  RootedOK(file[s].states, file[s].initial, file[s].ancestors)
  BY <1>1, <1>3, <1>4 DEF SamplerInit, Snapshot
<1> QED BY <1>1, <1>3, <1>4 DEF RootedInv, RootedOK

\* Every method keeps each archived state under one archived initial state.
LEMMA RootedStep ==
  TypeOK /\ TypeOK' /\ LineageInv /\ RootedInv /\ [Next]_vars => RootedInv'
<1> SUFFICES ASSUME TypeOK, TypeOK', LineageInv, RootedInv, [Next]_vars
             PROVE  RootedInv'
  OBVIOUS
<1> DEFINE FileOK(r) == RootedOK(file[r].states, file[r].initial, file[r].ancestors)
<1>b. ASSUME NEW r \in Steps, file'[r] = file[r], file[r] # NoFile
      PROVE  FileOK(r)'
  BY <1>b DEF RootedInv
<1>c. ASSUME NEW s \in Steps, Save(s), RootedOK(states' \cup held', initial', ancestors')
      PROVE  \A r \in Steps : file'[r] # NoFile => FileOK(r)'
  <2> SUFFICES ASSUME NEW r \in Steps, file'[r] # NoFile PROVE FileOK(r)'
    OBVIOUS
  <2>1. CASE file'[r] = file[r] /\ file[r] # NoFile
    BY <1>b, <2>1
  <2>2. CASE file'[r] = Snapshot(states', initial', value', parent', ancestors', key', n', m', T')
    BY <1>c, <2>2 DEF Snapshot, RootedOK
  <2> QED BY <1>c, <2>1, <2>2, SavedFile
<1>1. CASE Sample
  <2>1. PICK P \in SUBSET states : SampleStates(P) /\ held' = held \cup P
    BY <1>1 DEF Sample
  <2>2. UNCHANGED <<states, initial, ancestors, file>>
    BY <2>1 DEF SampleStates
  <2> QED BY <2>1, <2>2 DEF RootedInv, RootedOK
<1>2. CASE Update
  <2>0. PICK p \in held, C \in SUBSET (Ids \ known) :
          (\E kid \in [C -> Children] : UpdateStates(p, kid)) /\ held' = held
    BY <1>2 DEF Update
  <2>1. PICK kid \in [C -> Children] : UpdateStates(p, kid)
    BY <2>0
  <2>2. PICK A \in SUBSET C : AddChildren(p, A, kid)
    BY <2>1 DEF UpdateStates
  <2>3. /\ states' = states \cup A /\ UNCHANGED <<initial, file, held>>
        /\ \A i \in Ids : ancestors'[i] = IF i \in A THEN {p} \cup ancestors[p] ELSE ancestors[i]
    BY <2>0, <2>1, <2>2 DEF AddChildren, LineageBelow, UpdateStates
  <2>4. A \cap initial = {} /\ A \cap held = {} /\ A \subseteq Ids /\ states \cap A = {}
    BY DEF LineageInv, LineageOK
  <2>5. ASSUME NEW i \in states' \cup held'
        PROVE  \E r \in initial : ({i} \cup ancestors'[i]) \cap initial = {r}
    <3>1. CASE i \in A
      <4>1. ({i} \cup ancestors'[i]) \cap initial = ({p} \cup ancestors[p]) \cap initial
        BY <2>3, <2>4, <3>1
      <4> QED BY <4>1 DEF RootedInv, RootedOK
    <3>2. CASE i \notin A
      BY <2>3, <2>5, <3>2 DEF RootedInv, RootedOK, TypeOK
    <3> QED BY <3>1, <3>2
  <2>6. RootedOK(states' \cup held', initial', ancestors')
    BY <2>3, <2>5 DEF RootedOK
  <2> QED BY <1>b, <2>3, <2>6 DEF RootedInv
<1>3. CASE Fail
  BY <1>3 DEF Fail, RecordFailedRollout, RootedInv, RootedOK
<1>4. CASE FlushStep
  <2>1. PICK s \in Steps : Flush(s) /\ held' = held
    BY <1>4 DEF FlushStep
  <2>2. states' \subseteq states
    BY <2>1, FlushKeepsInitial
  <2>3. RootedOK(states' \cup held', initial', ancestors')
    BY <2>1, <2>2 DEF Flush, RootedInv, RootedOK
  <2> QED BY <1>c, <2>1, <2>3 DEF Flush, RootedInv
<1>5. CASE Resume
  <2>1. PICK s \in Steps : Load(s) /\ held' = {}
    BY <1>5 DEF Resume
  <2>2. RootedOK(states', initial', ancestors') /\ held' = {} /\ file' = file
    BY <2>1 DEF Load, RootedInv
  <2> QED BY <1>b, <2>2 DEF RootedInv, RootedOK
<1>6. CASE Restart
  <2>0. PICK I \in NewInitialSets(known) :
          \E v \in [I -> Values], k \in [I -> InitialKeys] : FreshStart(I, v, k) /\ held' = {}
    BY <1>6 DEF Restart
  <2>1. /\ states' = I /\ initial' = I /\ held' = {} /\ Save(0)
        /\ I \subseteq Ids /\ \A i \in Ids : ancestors'[i] = {}
    BY <2>0 DEF FreshStart, NewInitialSets
  <2>2. RootedOK(states' \cup held', initial', ancestors')
    BY <2>1 DEF RootedOK
  <2>3. 0 \in Steps
    BY SamplerAssumption DEF Steps
  <2> QED BY <1>c, <2>1, <2>2, <2>3 DEF RootedInv
<1>7. CASE UNCHANGED vars
  BY <1>7 DEF vars, svars, RootedInv, RootedOK
<1> QED BY <1>1, <1>2, <1>3, <1>4, <1>5, <1>6, <1>7 DEF Next

(* The archive is always a forest over its initial states, none of them lost. *)
THEOREM RootedSound == Spec => []Rooted
<1>1. LineageInv /\ RootedInv => Rooted
  BY DEF LineageInv, LineageOK, RootedInv, RootedOK, Rooted
<1> QED BY <1>1, RootedInit, RootedStep, SamplerTypeCorrect, LineageSound, PTL DEF Spec

-----------------------------------------------------------------------------
(* What the cuts of a flush leave *)

\* What a cut leaves is no more than its limit.
LEMMA CutBounded ==
  ASSUME NEW S, IsFiniteSet(S), NEW K, NEW k \in Nat, NEW v, IsTopK(K, S, k, v)
  PROVE  IsFiniteSet(K) /\ Cardinality(K) <= k
<1>1. Cardinality(S) \in Nat /\ IsFiniteSet(K)
  BY FS_CardinalityType, FS_Subset DEF IsTopK
<1> QED BY <1>1 DEF IsTopK

\* What a flush keeps of the tree is within topk_children and max_buffer_size.
Within(S, par) ==
  /\ Cardinality(S) <= MaxBuffer
  /\ \A p \in Ids : Cardinality({c \in S : par[c] = p}) <= TopK

(* Both cuts together keep the limits. *)
LEMMA FlushBounded ==
  ASSUME TypeOK, LineageInv, NEW s \in Steps, Flush(s)
  PROVE  Within(states', parent)
<1>1. PICK K \in SUBSET states, B \in SUBSET states :
        IsFiltered(K) /\ IsTrimmed(B, K) /\ states' = B
  BY DEF Flush
<1>2. IsFiniteSet(Ids) /\ IsFiniteSet(states) /\ states \subseteq Ids
  BY SamplerAssumption, FS_Subset DEF TypeOK
<1>3. IsFiniteSet(K) /\ IsFiniteSet(B) /\ B \subseteq K
  BY <1>1, <1>2, FS_Subset DEF IsTrimmed
<1>4. Cardinality(B) <= MaxBuffer
  <2>1. CASE Cardinality(K) <= MaxBuffer
    BY <1>1, <2>1 DEF IsTrimmed
  <2>2. CASE ~(Cardinality(K) <= MaxBuffer)
    <3>1. IsTopK(B \ initial, K \ initial, MaxBuffer - Cardinality(K \cap initial), value)
      BY <1>1, <2>2 DEF IsTrimmed
    <3>2. IsFiniteSet(initial) /\ Cardinality(initial) = BatchSize
      BY <1>2, FS_Subset DEF LineageInv, LineageOK, TypeOK
    <3>3. IsFiniteSet(K \cap initial) /\ Cardinality(K \cap initial) <= BatchSize
      BY <3>2, FS_Intersection
    <3>4. Cardinality(K \cap initial) \in Nat
      BY <3>3, FS_CardinalityType
    <3>5. MaxBuffer - Cardinality(K \cap initial) \in Nat
      BY <3>3, <3>4, SamplerAssumption
    <3>6. IsFiniteSet(K \ initial)
      BY <1>3, FS_Difference
    <3>7. Cardinality(B \ initial) <= MaxBuffer - Cardinality(K \cap initial)
      BY <3>1, <3>5, <3>6, CutBounded
    <3>8. Cardinality(B \ initial) = Cardinality(B) - Cardinality(B \cap initial)
      BY <1>3, FS_Difference
    <3>9. Cardinality(B \cap initial) <= Cardinality(K \cap initial)
      BY <1>3, <3>3, FS_Subset
    <3>10. Cardinality(B) \in Nat /\ Cardinality(B \cap initial) \in Nat
      BY <1>3, FS_Intersection, FS_CardinalityType
    <3> QED BY <3>4, <3>7, <3>8, <3>9, <3>10, SamplerAssumption
  <2> QED BY <2>1, <2>2
<1>5. ASSUME NEW p \in Ids PROVE Cardinality({c \in B : parent[c] = p}) <= TopK
  <2>1. p # NoParent /\ TopK \in Nat
    BY SamplerAssumption
  <2>2. CASE p \in {parent[i] : i \in states}
    <3>1. IsTopK(K \cap ArchivedChildren(p), ArchivedChildren(p), TopK, value)
      BY <1>1, <2>1, <2>2 DEF IsFiltered
    <3>2. IsFiniteSet(ArchivedChildren(p))
      BY <1>2, FS_Subset DEF ArchivedChildren
    <3>3. /\ IsFiniteSet(K \cap ArchivedChildren(p))
          /\ Cardinality(K \cap ArchivedChildren(p)) <= TopK
      BY <2>1, <3>1, <3>2, CutBounded
    <3>4. {c \in B : parent[c] = p} \subseteq K \cap ArchivedChildren(p)
      BY <1>3 DEF ArchivedChildren
    <3>5. /\ Cardinality({c \in B : parent[c] = p}) <= Cardinality(K \cap ArchivedChildren(p))
          /\ Cardinality({c \in B : parent[c] = p}) \in Nat
          /\ Cardinality(K \cap ArchivedChildren(p)) \in Nat
      BY <3>3, <3>4, FS_Subset, FS_CardinalityType
    <3> QED BY <2>1, <3>3, <3>5
  <2>3. CASE p \notin {parent[i] : i \in states}
    <3>1. {c \in B : parent[c] = p} = {}
      BY <2>3
    <3> QED BY <2>1, <3>1, FS_EmptySet
  <2> QED BY <2>2, <2>3
<1> QED BY <1>1, <1>4, <1>5 DEF Within

(* What is on disk is within the limits. *)
THEOREM FilesWithinBounds == Spec => []FilesBounded
<1> DEFINE FileWithin(r) == file[r] # NoFile => Within(file[r].states, file[r].parent)
<1>0. FilesBounded <=> \A r \in Steps : FileWithin(r)
  BY DEF FilesBounded, Within
<1>a. ASSUME NEW I \in SUBSET Ids, Cardinality(I) = BatchSize, NEW par, \A i \in Ids : par[i] = NoParent
      PROVE  Within(I, par)
  <2>1. ASSUME NEW p \in Ids PROVE {c \in I : par[c] = p} = {}
    BY <1>a, SamplerAssumption
  <2> QED BY <1>a, <2>1, SamplerAssumption, FS_EmptySet DEF Within
<1>1. Init => FilesBounded
  <2> SUFFICES ASSUME Init PROVE FilesBounded
    OBVIOUS
  <2>1. PICK I \in NewInitialSets({}) :
          \E v \in [I -> Values], k \in [I -> InitialKeys] : SamplerInit(I, v, k)
    BY DEF Init
  <2>2. /\ states = I /\ \A i \in Ids : parent[i] = NoParent
        /\ \A r \in Steps : file[r] = IF r = 0 THEN Snapshot(states, initial, value, parent, ancestors, key, n, m, T)
                                      ELSE NoFile
    BY <2>1 DEF SamplerInit
  <2>3. Within(states, parent)
    BY <1>a, <2>1, <2>2 DEF NewInitialSets
  <2> QED BY <1>0, <2>2, <2>3 DEF Snapshot
<1>2. ASSUME TypeOK, TypeOK', LineageInv, FilesBounded, [Next]_vars PROVE FilesBounded'
  <2>1. ASSUME NEW s \in Steps, Save(s), Within(states', parent') PROVE FilesBounded'
    <3>1. ASSUME NEW r \in Steps PROVE FileWithin(r)'
      BY <1>0, <1>2, <2>1, SavedFile DEF Snapshot
    <3> QED BY <3>1 DEF FilesBounded, Within
  <2>2. CASE UNCHANGED file
    BY <1>2, <2>2 DEF FilesBounded
  <2>3. CASE FlushStep
    <3>1. PICK s \in Steps : Flush(s)
      BY <2>3 DEF FlushStep
    <3> QED BY <1>2, <2>1, <3>1, FlushBounded DEF Flush
  <2>4. CASE Restart
    <3>1. PICK I \in NewInitialSets(known) :
            \E v \in [I -> Values], k \in [I -> InitialKeys] : FreshStart(I, v, k)
      BY <2>4 DEF Restart
    <3>2. states' = I /\ (\A i \in Ids : parent'[i] = NoParent) /\ Save(0)
      BY <3>1 DEF FreshStart
    <3>3. Within(states', parent') /\ 0 \in Steps
      BY <1>a, <3>1, <3>2, SamplerAssumption DEF NewInitialSets, Steps
    <3> QED BY <2>1, <3>2, <3>3
  <2> QED BY <1>2, <2>2, <2>3, <2>4 DEF Next, Sample, SampleStates, Update, UpdateStates,
        Fail, RecordFailedRollout, Resume, Load, vars, svars
<1> QED BY <1>1, <1>2, SamplerTypeCorrect, LineageSound, PTL DEF Spec

-----------------------------------------------------------------------------
(* Values *)

\* Every archived state has a value, in memory and in the files: a child without one
\* is not added.
Valued(S, val) == \A i \in S : val[i] \in Values
ValuedInv ==
  /\ Valued(states, value)
  /\ \A s \in Steps : file[s] # NoFile => Valued(file[s].states, file[s].value)

\* Children that are added have a value.
LEMMA AddedValued ==
  ASSUME TypeOK, NEW p, NEW C \in SUBSET (Ids \ known), NEW kid \in [C -> Children],
         UpdateStates(p, kid)
  PROVE  \E A \in SUBSET C : AddChildren(p, A, kid) /\ \A c \in A : kid[c].value \in Values
<1>1. PICK K \in SUBSET (DOMAIN kid), A \in SUBSET (DOMAIN kid) :
        IsDeduped(A, Eligible(K, kid), kid) /\ AddChildren(p, A, kid)
  BY DEF UpdateStates
<1>2. \A c \in C : kid[c].value \in Values \cup {NoValue}
  BY SamplerAssumption DEF Child
<1>3. \A c \in A : kid[c].value # NoValue
  BY <1>1 DEF IsDeduped, Eligible
<1> QED BY <1>1, <1>2, <1>3

(* Every method keeps a value for each state: what a refresh draws is one. *)
LEMMA ValuedStep == TypeOK /\ TypeOK' /\ LineageInv /\ ValuedInv /\ [Next]_vars => ValuedInv'
<1> SUFFICES ASSUME TypeOK, TypeOK', LineageInv, ValuedInv, [Next]_vars PROVE ValuedInv'
  OBVIOUS
<1>a. ASSUME UNCHANGED file, Valued(states', value') PROVE ValuedInv'
  BY <1>a DEF ValuedInv
<1>b. ASSUME NEW s \in Steps, Save(s), Valued(states', value') PROVE ValuedInv'
  <2>1. ASSUME NEW r \in Steps, file'[r] # NoFile PROVE Valued(file'[r].states, file'[r].value)
    BY <1>b, <2>1, SavedFile DEF ValuedInv, Snapshot
  <2> QED BY <1>b, <2>1 DEF ValuedInv
<1>1. CASE Sample
  <2>1. PICK P \in SUBSET states : SampleStates(P)
    BY <1>1 DEF Sample
  <2>2. UNCHANGED <<states, file>>
    BY <2>1 DEF SampleStates
  <2>3. ASSUME NEW i \in states PROVE value'[i] \in Values
    BY <2>1 DEF SampleStates, Refresh, ValuedInv, Valued, TypeOK
  <2> QED BY <1>a, <2>2, <2>3 DEF Valued
<1>2. CASE Update
  <2>0. PICK p \in held, C \in SUBSET (Ids \ known) : \E kid \in [C -> Children] : UpdateStates(p, kid)
    BY <1>2 DEF Update
  <2>1. PICK kid \in [C -> Children] : UpdateStates(p, kid)
    BY <2>0
  <2>2. PICK A \in SUBSET C : AddChildren(p, A, kid) /\ \A c \in A : kid[c].value \in Values
    BY <2>1, AddedValued
  <2>3. Valued(states', value') /\ file' = file
    BY <2>1, <2>2 DEF AddChildren, UpdateStates, ValuedInv, Valued, TypeOK
  <2> QED BY <1>a, <2>3
<1>3. CASE FlushStep
  <2>1. PICK s \in Steps : Flush(s)
    BY <1>3 DEF FlushStep
  <2>2. Valued(states', value')
    BY <2>1, FlushKeepsInitial DEF Flush, ValuedInv, Valued
  <2> QED BY <1>b, <2>1, <2>2 DEF Flush
<1>4. CASE Resume
  BY <1>4, <1>a DEF Resume, Load, ValuedInv
<1>5. CASE Restart
  <2>1. PICK I \in NewInitialSets(known) :
          \E v \in [I -> Values], k \in [I -> InitialKeys] : FreshStart(I, v, k)
    BY <1>5 DEF Restart
  <2>2. Valued(states', value') /\ Save(0) /\ 0 \in Steps
    BY <2>1, SamplerAssumption DEF FreshStart, InitialValues, Valued, NewInitialSets, Steps
  <2> QED BY <1>b, <2>2
<1>6. CASE Fail \/ UNCHANGED vars
  BY <1>6, <1>a DEF Fail, RecordFailedRollout, vars, svars, ValuedInv, Valued
<1> QED BY <1>1, <1>2, <1>3, <1>4, <1>5, <1>6 DEF Next

(* Every archived state has a value, in memory and in every file. *)
THEOREM ValuesKnown == Spec => []ValuedInv
<1>1. Init => ValuedInv
  <2> SUFFICES ASSUME Init PROVE ValuedInv
    OBVIOUS
  <2>1. PICK I \in NewInitialSets({}) :
          \E v \in [I -> Values], k \in [I -> InitialKeys] : SamplerInit(I, v, k)
    BY DEF Init
  <2>2. Valued(states, value)
    BY <2>1 DEF SamplerInit, InitialValues, Valued, NewInitialSets
  <2> QED BY <2>1, <2>2 DEF SamplerInit, Snapshot, ValuedInv
<1> QED BY <1>1, ValuedStep, SamplerTypeCorrect, LineageSound, PTL DEF Spec

-----------------------------------------------------------------------------
(* The best child *)

(* A cut that leaves anything leaves something at least as good as what it drops. *)
LEMMA CutKeepsBest ==
  ASSUME NEW S, IsFiniteSet(S), NEW K, NEW k \in Nat \ {0}, NEW v, IsTopK(K, S, k, v),
         NEW c \in S
  PROVE  c \in K \/ \E d \in K : AtLeast(v[d], v[c])
<1> SUFFICES ASSUME c \notin K PROVE \E d \in K : AtLeast(v[d], v[c])
  OBVIOUS
<1>1. K \subseteq S /\ IsFiniteSet(K) /\ Cardinality(S) \in Nat /\ Cardinality(K) \in Nat
  BY FS_CardinalityType, FS_Subset DEF IsTopK
<1>2. Cardinality(K) # Cardinality(S)
  BY <1>1, FS_Subset
<1>3. Cardinality(K) = k
  BY <1>2 DEF IsTopK
<1>4. K # {}
  BY <1>3, FS_EmptySet
<1> QED BY <1>4 DEF IsTopK

(* So the two cuts of a flush leave a child as good as any. *)
LEMMA FlushKeepsBest ==
  ASSUME TypeOK, LineageInv, ValuedInv, NEW s \in Steps, Flush(s), NEW c \in NonInitial
  PROVE  \E d \in NonInitial' : value'[d] >= value[c]
<1>1. PICK K \in SUBSET states, B \in SUBSET states :
        IsFiltered(K) /\ IsTrimmed(B, K) /\ states' = B
  BY DEF Flush
<1>2. IsFiniteSet(Ids) /\ IsFiniteSet(states) /\ states \subseteq Ids /\ IsFiniteSet(K)
  BY SamplerAssumption, FS_Subset DEF TypeOK
<1>3. /\ UNCHANGED <<initial, value>> /\ parent[c] # NoParent /\ c \in states
      /\ \A i \in initial : parent[i] = NoParent
  BY DEF Flush, LineageInv, LineageOK, NonInitial
<1>4. \A x, y \in states : AtLeast(value[x], value[y]) => value[x] >= value[y]
  BY SamplerAssumption DEF AtLeast, ValuedInv, Valued
<1>5. \A x, y, z \in states : value[x] >= value[y] /\ value[y] >= value[z] => value[x] >= value[z]
  <2>1. \A x \in states : value[x] \in Int
    BY SamplerAssumption DEF ValuedInv, Valued
  <2> QED BY <2>1
<1>6. \E x \in K \ initial : value[x] >= value[c]
  <2>1. IsTopK(K \cap ArchivedChildren(parent[c]), ArchivedChildren(parent[c]), TopK, value)
    BY <1>1, <1>3 DEF IsFiltered
  <2>2. IsFiniteSet(ArchivedChildren(parent[c])) /\ c \in ArchivedChildren(parent[c])
    BY <1>2, <1>3, FS_Subset DEF ArchivedChildren
  <2>3. \/ c \in K
        \/ \E d \in K \cap ArchivedChildren(parent[c]) : AtLeast(value[d], value[c])
    BY <2>1, <2>2, CutKeepsBest, SamplerAssumption
  <2>4. \A d \in ArchivedChildren(parent[c]) : d \notin initial
    BY <1>3 DEF ArchivedChildren
  <2>5. value[c] >= value[c]
    BY <1>3, ValueOrder DEF ValuedInv, Valued
  <2> QED BY <1>3, <1>4, <2>2, <2>3, <2>4, <2>5
<1>7. PICK x \in K \ initial : value[x] >= value[c]
  BY <1>6
<1>8. \E d \in B \ initial : value[d] >= value[x]
  <2>0. value[x] >= value[x] /\ x \in states
    BY <1>7, ValueOrder DEF ValuedInv, Valued
  <2>1. CASE Cardinality(K) <= MaxBuffer
    BY <1>1, <1>7, <2>0, <2>1 DEF IsTrimmed
  <2>2. CASE ~(Cardinality(K) <= MaxBuffer)
    <3>1. IsTopK(B \ initial, K \ initial, MaxBuffer - Cardinality(K \cap initial), value)
      BY <1>1, <2>2 DEF IsTrimmed
    <3>2. IsFiniteSet(initial) /\ Cardinality(initial) = BatchSize
      BY <1>2, FS_Subset DEF LineageInv, LineageOK, TypeOK
    <3>3. Cardinality(K \cap initial) <= BatchSize /\ Cardinality(K \cap initial) \in Nat
      BY <3>2, FS_Intersection, FS_CardinalityType
    <3>4. MaxBuffer - Cardinality(K \cap initial) \in Nat \ {0}
      BY <3>3, SamplerAssumption
    <3>5. IsFiniteSet(K \ initial)
      BY <1>2, FS_Difference
    <3>6. x \in B \ initial \/ \E d \in B \ initial : AtLeast(value[d], value[x])
      BY <1>7, <3>1, <3>4, <3>5, CutKeepsBest
    <3> QED BY <1>4, <2>0, <3>6
  <2> QED BY <2>1, <2>2
<1>9. PICK d \in B \ initial : value[d] >= value[x]
  BY <1>8
<1>10. value[d] >= value[c] /\ d \in NonInitial'
  BY <1>1, <1>3, <1>5, <1>7, <1>9 DEF NonInitial
<1> QED BY <1>3, <1>10

(* Within a process the archive always holds a child as good as any it held before. *)
THEOREM BestChildNeverLost == Spec => BestChildKept
<1>1. ASSUME TypeOK, LineageInv, ValuedInv, [Next]_vars, ~Resume, ~Restart, NEW c \in NonInitial
      PROVE  \E d \in NonInitial' : value'[d] >= value[c]
  <2>0. value[c] >= value[c] /\ c \in known /\ c \in Ids
    BY <1>1, ValueOrder DEF ValuedInv, Valued, NonInitial, LineageInv, LineageOK, TypeOK
  <2>1. ASSUME c \in NonInitial', value'[c] = value[c] PROVE \E d \in NonInitial' : value'[d] >= value[c]
    BY <2>0, <2>1
  <2>2. CASE Sample
    <3>1. PICK P \in SUBSET states : SampleStates(P)
      BY <2>2 DEF Sample
    <3>2. value'[c] = value[c]
      BY <1>1, <2>0, <3>1 DEF SampleStates, Refresh, NonInitial
    <3> QED BY <1>1, <2>1, <3>1, <3>2 DEF SampleStates, NonInitial
  <2>3. CASE Update
    <3>0. PICK p \in held, C \in SUBSET (Ids \ known) : \E kid \in [C -> Children] : UpdateStates(p, kid)
      BY <2>3 DEF Update
    <3>1. PICK kid \in [C -> Children] : UpdateStates(p, kid)
      BY <3>0
    <3>2. PICK A \in SUBSET C : AddChildren(p, A, kid)
      BY <1>1, <3>1, AddedValued
    <3>3. value'[c] = value[c] /\ c \in NonInitial'
      BY <1>1, <2>0, <3>1, <3>2 DEF AddChildren, UpdateStates, NonInitial
    <3> QED BY <2>1, <3>3
  <2>4. CASE FlushStep
    <3>1. PICK s \in Steps : Flush(s)
      BY <2>4 DEF FlushStep
    <3> QED BY <1>1, <3>1, FlushKeepsBest
  <2>5. CASE Fail \/ UNCHANGED vars
    BY <1>1, <2>1, <2>5 DEF Fail, RecordFailedRollout, vars, svars, NonInitial
  <2> QED BY <1>1, <2>2, <2>3, <2>4, <2>5 DEF Next
<1>2. TypeOK /\ LineageInv /\ ValuedInv /\ [Next]_vars
        => [~Resume /\ ~Restart =>
              \A c \in NonInitial : \E d \in NonInitial' : value'[d] >= value[c]]_vars
  BY <1>1
<1> QED BY <1>2, SamplerTypeCorrect, LineageSound, ValuesKnown, PTL DEF Spec, BestChildKept

-----------------------------------------------------------------------------
(* The order of the scores *)

(* Products of numbers that are not negative. *)
LEMMA Products ==
  /\ \A a, b \in Nat : a * b \in Nat
  /\ \A a, b, c, d \in Nat : a <= b /\ c <= d => a * c <= b * d
  /\ \A a, b \in Nat : a * (-b) = -(a * b)
<1>1. ASSUME NEW a \in Nat, NEW b \in Nat PROVE a * b \in Nat /\ a * (-b) = -(a * b)
  OBVIOUS
<1>2. ASSUME NEW a \in Nat, NEW b \in Nat, NEW c \in Nat, NEW d \in Nat, a <= b, c <= d
      PROVE  a * c <= b * d
  <2>1. PICK e \in Nat : b = a + e
    <3>1. b - a \in Nat /\ b = a + (b - a)
      BY <1>2
    <3> QED BY <3>1
  <2>2. PICK f \in Nat : d = c + f
    <3>1. d - c \in Nat /\ d = c + (d - c)
      BY <1>2
    <3> QED BY <3>1
  <2>3. b * d = a * c + (a * f + e * d)
    BY <2>1, <2>2
  <2>4. a * c \in Nat /\ a * f \in Nat /\ e * d \in Nat
    BY <1>1, <2>1, <2>2
  <2> QED BY <2>3, <2>4
<1> QED BY <1>1, <1>2

\* The square keeps the sign.
LEMMA SignKept ==
  /\ \A x \in Nat : SignedSquare(x) \in Nat
  /\ \A x \in Nat : \E y \in Nat : SignedSquare(-x) = -y
<1>1. ASSUME NEW x \in Nat PROVE SignedSquare(x) \in Nat
  BY Products DEF SignedSquare
<1>2. ASSUME NEW x \in Nat PROVE \E y \in Nat : SignedSquare(-x) = -y
  <2>1. CASE x = 0
    BY <2>1 DEF SignedSquare
  <2>2. CASE x > 0
    <3>1. SignedSquare(-x) = -((-x) * (-x))
      BY <2>2 DEF SignedSquare
    <3>2. (-x) * (-x) = x * x /\ x * x \in Nat
      BY Products
    <3> QED BY <3>1, <3>2
  <2> QED BY <2>1, <2>2
<1> QED BY <1>1, <1>2

\* The spread of the values is a number, and the scale is not negative.
LEMMA ScaleType ==
  ASSUME TypeOK, ValuedInv, states # {}
  PROVE  Scale \in Nat
<1> DEFINE S == IF NonInitial # {} THEN NonInitial ELSE states
           gaps == {value[x] - value[y] : x, y \in S}
           f == [p \in S \X S |-> value[p[1]] - value[p[2]]]
<1>1. S \subseteq states /\ S # {} /\ IsFiniteSet(S)
  <2>1. IsFiniteSet(states) /\ NonInitial \subseteq states
    BY SamplerAssumption, FS_Subset DEF TypeOK, NonInitial
  <2> QED BY <2>1, FS_Subset
<1>2. \A x \in S : value[x] \in Int
  BY <1>1, SamplerAssumption DEF ValuedInv, Valued
<1> HIDE DEF S
<1>3. IsFiniteSet(gaps)
  <2>1. f \in Surjection(S \X S, gaps)
    <3>1. f \in [S \X S -> gaps]
      OBVIOUS
    <3>2. ASSUME NEW g \in gaps PROVE \E p \in S \X S : f[p] = g
      <4>1. PICK x \in S, y \in S : g = value[x] - value[y]
        OBVIOUS
      <4>2. <<x, y>> \in S \X S /\ f[<<x, y>>] = g
        BY <4>1
      <4> QED BY <4>2
    <3> HIDE DEF f, gaps
    <3> QED BY <3>1, <3>2 DEF Surjection
  <2> QED BY <1>1, <2>1, FS_Product, FS_Surjection
<1>4. gaps \subseteq Int /\ gaps # {}
  BY <1>1, <1>2
<1>5. Max(gaps) \in Int
  BY <1>3, <1>4, MaxOfFinite
<1>6. Scale = IF Max(gaps) > MinScale THEN Max(gaps) ELSE MinScale
  BY DEF Scale, S
<1> HIDE DEF gaps
<1> QED BY <1>5, <1>6, SamplerAssumption

(* A state as promising as another, better by value and visited no more often, is   *)
(* sorted before it, whatever the constants of the score are.                       *)
LEMMA Prefers ==
  ASSUME TypeOK, ValuedInv, NEW rank \in Rankings, NEW i \in states, NEW j \in states,
         Q(i) >= Q(j), value[i] > value[j], n[i] <= n[j]
  PROVE  Above(i, j, rank)
<1> DEFINE N == Cardinality(states)
           D == (N * (N + 1)) \div 2
           gap == (Q(i) - Q(j)) * D * (1 + n[i]) * (1 + n[j])
           wi == Weight(i, rank)
           wj == Weight(j, rank)
           pull == PuctC * Scale * (wj * (1 + n[i]) - wi * (1 + n[j]))
<1>1. N \in Nat
  BY SamplerAssumption, FS_Subset, FS_CardinalityType DEF TypeOK
<1>2. D \in Nat
  <2>1. N * (N + 1) \in Nat
    BY <1>1, Products
  <2>2. \A x \in Nat : x \div 2 \in Nat
    OBVIOUS
  <2> QED BY <2>1, <2>2
<1>3. Q(i) - Q(j) \in Nat
  <2>1. Q(i) \in Values /\ Q(j) \in Values
    BY DEF Q, TypeOK, ValuedInv, Valued
  <2>2. Values \subseteq Int
    BY SamplerAssumption
  <2>3. \A x, y \in Int : x >= y => x - y \in Nat
    OBVIOUS
  <2> QED BY <2>1, <2>2, <2>3
<1>4. n[i] \in Nat /\ n[j] \in Nat /\ 1 + n[i] \in Nat /\ 1 + n[j] \in Nat /\ 1 + n[i] <= 1 + n[j]
  BY DEF TypeOK
<1>5. gap \in Nat
  <2>1. (Q(i) - Q(j)) * D \in Nat
    BY <1>2, <1>3, Products
  <2>2. (Q(i) - Q(j)) * D * (1 + n[i]) \in Nat
    BY <2>1, <1>4, Products
  <2> QED BY <2>2, <1>4, Products
<1>6. wi \in Nat /\ wj \in Nat /\ wj <= wi
  <2>0. i # j
    <3>1. value[i] \in Int
      BY SamplerAssumption DEF ValuedInv, Valued
    <3>2. \A y \in Int : ~(y > y)
      OBVIOUS
    <3> QED BY <3>1, <3>2
  <2>1. rank[i] \in 0 .. N - 1 /\ rank[j] \in 0 .. N - 1 /\ rank[i] < rank[j]
    BY <2>0 DEF Rankings
  <2> QED BY <1>1, <2>1 DEF Weight
<1> HIDE DEF D, N, wi, wj, gap
<1>7. \E k \in Nat : pull = -k
  <2>1. wj * (1 + n[i]) \in Nat /\ wi * (1 + n[j]) \in Nat /\ wj * (1 + n[i]) <= wi * (1 + n[j])
    BY <1>4, <1>6, Products
  <2>2. PICK k \in Nat : wj * (1 + n[i]) - wi * (1 + n[j]) = -k
    <3>1. \A a, b \in Nat : a <= b => b - a \in Nat /\ a - b = -(b - a)
      OBVIOUS
    <3> QED BY <2>1, <3>1
  <2>3. PuctC * Scale \in Nat
    BY ScaleType, Products, SamplerAssumption
  <2>4. pull = -(PuctC * Scale * k) /\ PuctC * Scale * k \in Nat
    BY <2>2, <2>3, Products
  <2> QED BY <2>4
<1> HIDE DEF pull
<1>8. ScoreGap(i, j, rank) \in Nat
  <2>1. SignedSquare(gap) \in Nat
    BY <1>5, SignKept
  <2>2. PICK y \in Nat : SignedSquare(pull) = -y
    BY <1>7, SignKept
  <2>3. T \in Nat /\ 1 + T \in Nat
    BY DEF TypeOK
  <2>4. (-y) * (1 + T) = -(y * (1 + T)) /\ y * (1 + T) \in Nat
    <3>1. \A a, b \in Nat : (-a) * b = -(a * b) /\ a * b \in Nat
      BY Products
    <3> QED BY <2>3, <3>1
  <2>5. ScoreGap(i, j, rank) = SignedSquare(gap) - SignedSquare(pull) * (1 + T)
    BY DEF ScoreGap, gap, pull, D, N, wi, wj
  <2>6. ScoreGap(i, j, rank) = SignedSquare(gap) - (-(y * (1 + T)))
    BY <2>2, <2>4, <2>5
  <2>7. \A a, b \in Nat : a - (-b) \in Nat
    OBVIOUS
  <2> QED BY <2>1, <2>4, <2>6, <2>7
<1> QED BY <1>8 DEF Above

(* A batch never leaves out a state that is as promising as a pick, better by value    *)
(* and visited no more often, unless it is in the lineage of another pick.             *)
THEOREM NoPickDominated == Spec => NoDominatedPick
<1>1. ASSUME TypeOK, ValuedInv, NEW P \in SUBSET states, SampleStates(P),
             NEW x \in P, NEW j \in states \ P, Q(j) >= Q(x), value[j] > value[x], n[j] <= n[x],
             \A y \in P \ {x} : j \notin FullLineage(y)
      PROVE  FALSE
  <2>1. PICK rank \in Rankings : PassedOver(P, BatchSize, rank)
    BY <1>1 DEF SampleStates
  <2>2. ~Above(j, x, rank)
    BY <1>1, <2>1 DEF PassedOver
  <2>3. Above(j, x, rank)
    BY <1>1, <2>1, Prefers
  <2> QED BY <2>2, <2>3
<1>2. ASSUME TypeOK, [Next]_vars, sampled' # {}, sampled' # sampled
      PROVE  \E P \in SUBSET states : SampleStates(P) /\ sampled' = P
  BY <1>2 DEF Next, Sample, SampleStates, Update, UpdateStates, Fail, RecordFailedRollout,
     FlushStep, Flush, Resume, Load, Restart, FreshStart, vars, svars
<1>3. ASSUME TypeOK, ValuedInv, [Next]_vars, sampled' # {}, sampled' # sampled,
             NEW x \in sampled', NEW j \in states \ sampled'
      PROVE  ~ /\ Q(j) >= Q(x) /\ value[j] > value[x] /\ n[j] <= n[x]
               /\ \A y \in sampled' \ {x} : j \notin FullLineage(y)
  BY <1>1, <1>2, <1>3
<1>4. TypeOK /\ ValuedInv /\ [Next]_vars
        => [sampled' # {} /\ sampled' # sampled =>
              \A x \in sampled' : \A j \in states \ sampled' :
                ~ /\ Q(j) >= Q(x) /\ value[j] > value[x] /\ n[j] <= n[x]
                  /\ \A y \in sampled' \ {x} : j \notin FullLineage(y)]_vars
  BY <1>3
<1> QED BY <1>4, SamplerTypeCorrect, ValuesKnown, PTL DEF Spec, NoDominatedPick

(* A non-empty set of natural numbers has a least one. *)
LEMMA LeastNatural ==
  ASSUME NEW D \in SUBSET Nat, D # {}
  PROVE  \E k \in D : \A j \in D : k <= j
<1> DEFINE R == {p \in Nat \X Nat : p[1] < p[2]}
<1>1. IsWellFoundedOn(R, Nat)
  BY NatLessThanWellFounded DEF OpToRel
<1>2. PICK k \in D : \A j \in D : <<j, k>> \notin R
  <2> HIDE DEF R
  <2> QED BY <1>1, WFMin
<1>3. ASSUME NEW j \in D PROVE k <= j
  <2>1. ~(j < k) /\ j \in Nat /\ k \in Nat
    BY <1>2
  <2> QED BY <2>1
<1> QED BY <1>3


-----------------------------------------------------------------------------
(* The tree above a state *)

\* A parent is one of the ancestors; in memory and in the files.
Pathed(par, anc) == \A i \in Ids : par[i] # NoParent => par[i] \in anc[i]

\* No state of the last batch is an ancestor of another.
Apart == sampled \subseteq known /\ \A x, y \in sampled : x # y => x \notin ancestors[y]

PathInv ==
  /\ Pathed(parent, ancestors)
  /\ \A s \in Steps : file[s] # NoFile => Pathed(file[s].parent, file[s].ancestors)
  /\ Apart

\* One step up in the tree, from all of s.
Up(s) == s \cup ({parent[j] : j \in s} \ {NoParent})

(* A walk of k steps up from i that may rest, and where all of them lead.               *)
WalkUp(s, k, i) == s[0] = i /\ \A l \in 1 .. k : s[l] \in Up({s[l - 1]})
Reached(k, i) == {s[k] : s \in {w \in [0 .. k -> Ids] : WalkUp(w, k, i)}}

(* The walks of k steps lead one step further up than those of k - 1.                    *)
LEMMA ReachedStep ==
  ASSUME TypeOK, NEW i \in Ids
  PROVE  Reached(0, i) = {i} /\ \A k \in Nat \ {0} : Reached(k, i) = Up(Reached(k - 1, i))
<1>0. \A x \in Ids : Up({x}) \subseteq Ids /\ x \in Up({x})
  BY DEF Up, TypeOK
<1>1. Reached(0, i) = {i}
  <2>1. ASSUME NEW x \in Reached(0, i) PROVE x = i
    BY DEF Reached, WalkUp
  <2>2. i \in Reached(0, i)
    <3>1. [l \in 0 .. 0 |-> i] \in {w \in [0 .. 0 -> Ids] : WalkUp(w, 0, i)}
      BY DEF WalkUp
    <3>2. [l \in 0 .. 0 |-> i][0] = i
      OBVIOUS
    <3> QED BY <3>1, <3>2 DEF Reached
  <2> QED BY <2>1, <2>2
<1>2. ASSUME NEW k \in Nat \ {0} PROVE Reached(k, i) = Up(Reached(k - 1, i))
  <2>0. k - 1 \in Nat /\ k - 1 \in 0 .. k /\ k \in 0 .. k /\ 0 \in 0 .. k - 1
    OBVIOUS
  <2>1. ASSUME NEW x \in Reached(k, i) PROVE x \in Up(Reached(k - 1, i))
    <3>1. PICK w \in [0 .. k -> Ids] : WalkUp(w, k, i) /\ x = w[k]
      BY DEF Reached
    <3> DEFINE u == [l \in 0 .. k - 1 |-> w[l]]
    <3>2. u \in [0 .. k - 1 -> Ids] /\ u[k - 1] = w[k - 1]
      BY <2>0
    <3>3. WalkUp(u, k - 1, i)
      BY <2>0, <3>1 DEF WalkUp
    <3>4. w[k - 1] \in Reached(k - 1, i)
      BY <3>2, <3>3 DEF Reached
    <3>5. x \in Up({w[k - 1]})
      BY <2>0, <3>1 DEF WalkUp
    <3> QED BY <3>4, <3>5 DEF Up
  <2>2. ASSUME NEW x \in Up(Reached(k - 1, i)) PROVE x \in Reached(k, i)
    <3>1. PICK y \in Reached(k - 1, i) : x \in Up({y})
      BY DEF Up
    <3>2. PICK u \in [0 .. k - 1 -> Ids] : WalkUp(u, k - 1, i) /\ y = u[k - 1]
      BY <3>1 DEF Reached
    <3>3. x \in Ids
      <4>1. y \in Ids
        BY <2>0, <3>2
      <4> QED BY <1>0, <3>1, <4>1
    <3> DEFINE w == [l \in 0 .. k |-> IF l = k THEN x ELSE u[l]]
    <3>4. w \in [0 .. k -> Ids] /\ w[k] = x
      BY <2>0, <3>3
    <3>5. WalkUp(w, k, i)
      <4>1. w[0] = i
        BY <2>0, <3>2 DEF WalkUp
      <4>2. ASSUME NEW l \in 1 .. k PROVE w[l] \in Up({w[l - 1]})
        <5>1. CASE l = k
          <6>1. w[l] = x /\ w[l - 1] = u[k - 1]
            BY <2>0, <5>1
          <6> QED BY <3>1, <3>2, <6>1
        <5>2. CASE l # k
          <6>1. l \in 1 .. k - 1 /\ w[l] = u[l] /\ w[l - 1] = u[l - 1]
            BY <5>2
          <6> QED BY <3>2, <6>1 DEF WalkUp
        <5> QED BY <5>1, <5>2
      <4> QED BY <4>1, <4>2 DEF WalkUp
    <3> QED BY <3>4, <3>5 DEF Reached
  <2> QED BY <2>1, <2>2
<1> QED BY <1>1, <1>2

(* TreePath(i) is well defined, and holds ancestors of i only. *)
LEMMA PathIsAncestors ==
  ASSUME TypeOK, LineageInv, Pathed(parent, ancestors), NEW i \in Ids
  PROVE  TreePath(i) \subseteq ancestors[i]
<1> DEFINE OneUp(u) == [k \in Nat |-> IF k = 0 THEN {i}
                          ELSE u[k-1] \cup ({parent[j] : j \in u[k-1]} \ {NoParent})]
           up == CHOOSE u : u = OneUp(u)
<1>1. up = OneUp(up)
  <2> DEFINE g == [k \in Nat |-> Reached(k, i)]
  <2>1. ASSUME NEW k \in Nat PROVE g[k] = OneUp(g)[k]
    <3>1. CASE k = 0
      BY <3>1, ReachedStep
    <3>2. CASE k # 0
      <4>1. k - 1 \in Nat /\ g[k] = Up(g[k - 1])
        BY <3>2, ReachedStep
      <4> QED BY <3>2, <4>1 DEF Up
    <3> QED BY <3>1, <3>2
  <2>2. g = OneUp(g)
    BY <2>1
  <2> QED BY <2>2
<1>2. \A k \in Nat : up[k] = IF k = 0 THEN {i} ELSE Up(up[k - 1])
  <2>1. \A k \in Nat : OneUp(up)[k] = IF k = 0 THEN {i} ELSE Up(up[k - 1])
    BY DEF Up
  <2> HIDE DEF up
  <2> QED BY <1>1, <2>1
<1>3. TreePath(i) = up[Cardinality(Ids)] \ {i}
  BY DEF TreePath
<1> HIDE DEF up
<1> DEFINE Far == {k \in Nat : ~(up[k] \subseteq {i} \cup ancestors[i])}
<1>4. Far = {}
  <2> SUFFICES ASSUME Far # {} PROVE FALSE
    OBVIOUS
  <2>1. PICK k \in Far : \A j \in Far : k <= j
    BY LeastNatural
  <2>2. k # 0
    BY <1>2, <2>1
  <2>3. k - 1 \in Nat /\ k - 1 \notin Far
    BY <2>1, <2>2
  <2>4. up[k - 1] \subseteq {i} \cup ancestors[i] /\ up[k] = Up(up[k - 1])
    BY <1>2, <2>1, <2>2, <2>3
  <2>5. \A j \in {i} \cup ancestors[i] : parent[j] # NoParent => parent[j] \in ancestors[i]
    BY DEF Pathed, LineageInv, LineageOK, TypeOK
  <2>6. up[k] \subseteq {i} \cup ancestors[i]
    BY <2>4, <2>5 DEF Up
  <2> QED BY <2>1, <2>6
<1>5. Cardinality(Ids) \in Nat
  BY SamplerAssumption, FS_CardinalityType
<1> QED BY <1>3, <1>4, <1>5

(* Every method keeps it: only new states get a parent, and a batch is sampled apart. *)
LEMMA PathStep == TypeOK /\ TypeOK' /\ LineageInv /\ PathInv /\ [Next]_vars => PathInv'
<1> SUFFICES ASSUME TypeOK, TypeOK', LineageInv, PathInv, [Next]_vars PROVE PathInv'
  OBVIOUS
<1>a. ASSUME UNCHANGED file, Pathed(parent', ancestors'), Apart' PROVE PathInv'
  BY <1>a DEF PathInv
<1>b. ASSUME NEW s \in Steps, Save(s), Pathed(parent', ancestors'), Apart' PROVE PathInv'
  <2>1. ASSUME NEW r \in Steps, file'[r] # NoFile PROVE Pathed(file'[r].parent, file'[r].ancestors)
    BY <1>b, <2>1, SavedFile DEF PathInv, Snapshot
  <2> QED BY <1>b, <2>1 DEF PathInv
<1>1. CASE Sample
  <2>1. PICK P \in SUBSET states : SampleStates(P)
    BY <1>1 DEF Sample
  <2>2. UNCHANGED <<parent, ancestors, file, known>> /\ sampled' = P /\ Unblocked(P)
    BY <2>1 DEF SampleStates
  <2>3. \A x, y \in P : x # y => x \notin ancestors[y]
    BY <2>2 DEF Unblocked, FullLineage
  <2>4. P \subseteq known
    BY DEF LineageInv, LineageOK
  <2> QED BY <1>a, <2>2, <2>3, <2>4 DEF PathInv, Apart
<1>2. CASE Update
  <2>0. PICK p \in held, C \in SUBSET (Ids \ known) : \E kid \in [C -> Children] : UpdateStates(p, kid)
    BY <1>2 DEF Update
  <2>1. PICK kid \in [C -> Children] : UpdateStates(p, kid)
    BY <2>0
  <2>2. PICK A \in SUBSET C : AddChildren(p, A, kid)
    BY <2>1 DEF UpdateStates
  <2>3. \A i \in Ids : parent'[i] = (IF i \in A THEN p ELSE parent[i])
                    /\ ancestors'[i] = (IF i \in A THEN {p} \cup ancestors[p] ELSE ancestors[i])
    BY <2>2 DEF AddChildren, LineageBelow
  <2>4. known \subseteq known' /\ UNCHANGED <<sampled, file>>
    BY <2>1, <2>2 DEF AddChildren, UpdateStates
  <2>5. Pathed(parent', ancestors')
    BY <2>3 DEF PathInv, Pathed
  <2>6. Apart'
    BY <2>3, <2>4 DEF PathInv, Apart, TypeOK
  <2> QED BY <1>a, <2>4, <2>5, <2>6
<1>3. CASE FlushStep
  <2>1. PICK s \in Steps : Flush(s)
    BY <1>3 DEF FlushStep
  <2> QED BY <1>b, <2>1 DEF Flush, PathInv, Apart
<1>4. CASE Resume
  BY <1>4, <1>a DEF Resume, Load, PathInv, Apart
<1>5. CASE Restart
  <2>1. (\A i \in Ids : parent'[i] = NoParent) /\ sampled' = {} /\ Save(0) /\ 0 \in Steps
    BY <1>5, SamplerAssumption DEF Restart, FreshStart, Steps
  <2> QED BY <1>b, <2>1 DEF Pathed, Apart
<1>6. CASE Fail \/ UNCHANGED vars
  BY <1>6, <1>a DEF Fail, RecordFailedRollout, vars, svars, PathInv, Apart
<1> QED BY <1>1, <1>2, <1>3, <1>4, <1>5, <1>6 DEF Next

(* No state of a batch lies above another in the tree, pruned states included. *)
THEOREM PicksApart == Spec => []PicksUnrelated
<1>1. Init => PathInv
  <2> SUFFICES ASSUME Init PROVE PathInv
    OBVIOUS
  <2>1. /\ \A i \in Ids : parent[i] = NoParent
        /\ sampled = {}
        /\ \A r \in Steps : file[r] = IF r = 0 THEN Snapshot(states, initial, value, parent, ancestors, key, n, m, T)
                                      ELSE NoFile
    BY DEF Init, SamplerInit
  <2> QED BY <2>1 DEF PathInv, Pathed, Apart, Snapshot
<1>2. TypeOK /\ LineageInv /\ PathInv => PicksUnrelated
  <2> SUFFICES ASSUME TypeOK, LineageInv, PathInv, NEW x \in sampled, NEW y \in sampled
               PROVE  x \notin TreePath(y)
    BY DEF PicksUnrelated
  <2>1. y \in Ids
    BY DEF TypeOK
  <2>2. CASE x = y
    BY <2>2 DEF TreePath
  <2>3. CASE x # y
    BY <2>1, <2>3, PathIsAncestors DEF PathInv, Apart
  <2> QED BY <2>2, <2>3
<1> QED BY <1>1, <1>2, PathStep, SamplerTypeCorrect, LineageSound, PTL DEF Spec

-----------------------------------------------------------------------------
(* The sum of the visits of the roots *)

\* One mark for each visit of a state of S: their number is the sum of the visits.
Marks(S, visits) == {p \in S \X Nat : p[2] < visits[p[1]]}

(* The marks of one state. *)
LEMMA MarksOfOne ==
  ASSUME NEW x, NEW f, f[x] \in Nat
  PROVE  IsFiniteSet(Marks({x}, f)) /\ Cardinality(Marks({x}, f)) = f[x]
<1> DEFINE b == [k \in 1 .. f[x] |-> <<x, k - 1>>]
<1>1. b \in Bijection(1 .. f[x], Marks({x}, f))
  <2>1. b \in [1 .. f[x] -> Marks({x}, f)]
    BY DEF Marks
  <2>2. \A j, k \in 1 .. f[x] : b[j] = b[k] => j = k
    OBVIOUS
  <2>3. ASSUME NEW p \in Marks({x}, f) PROVE \E k \in 1 .. f[x] : b[k] = p
    <3>1. p[1] = x /\ p[2] \in Nat /\ p = <<x, p[2]>> /\ p[2] < f[x]
      BY DEF Marks
    <3>2. p[2] + 1 \in 1 .. f[x] /\ (p[2] + 1) - 1 = p[2]
      BY <3>1
    <3>3. b[p[2] + 1] = p
      BY <3>1, <3>2
    <3> QED BY <3>2, <3>3
  <2> HIDE DEF b
  <2> QED BY <2>1, <2>2, <2>3 DEF Bijection, Injection, Surjection, IsInjective
<1>2. IsFiniteSet(1 .. f[x]) /\ Cardinality(1 .. f[x]) = f[x]
  BY FS_Interval
<1>3. ExistsBijection(1 .. f[x], Marks({x}, f))
  BY <1>1 DEF ExistsBijection
<1> QED BY <1>2, <1>3, FS_Bijection

(* MapThenSumSet adds up to the number of the marks. *)
LEMMA SumIsMarks ==
  ASSUME NEW S, NEW f, \A x \in S : f[x] \in Nat, IsFiniteSet(S), IsFiniteSet(Marks(S, f))
  PROVE  MapThenSumSet(LAMBDA i : f[i], S) = Cardinality(Marks(S, f))
<1> DEFINE Pick(s) == CHOOSE x \in s : TRUE
           Sums(g) == [s \in SUBSET S |-> IF s = {} THEN 0 ELSE f[Pick(s)] + g[s \ {Pick(s)}]]
           sum == CHOOSE g : g = Sums(g)
           Count(s) == Cardinality(Marks(s, f))
<1>1. MapThenSumSet(LAMBDA i : f[i], S) = sum[S]
  BY DEF MapThenSumSet, MapThenFoldSet
<1>2. \A s \in SUBSET S : s # {} => Pick(s) \in s
  OBVIOUS
<1> HIDE DEF Pick
<1>3. ASSUME NEW s \in SUBSET S, s # {} PROVE Count(s) = f[Pick(s)] + Count(s \ {Pick(s)})
  <2> DEFINE x == Pick(s)
             A == Marks(s \ {x}, f)
             B == Marks({x}, f)
  <2>1. x \in S /\ x \in s
    BY <1>2, <1>3
  <2>2. IsFiniteSet(B) /\ Cardinality(B) = f[x]
    BY <2>1, MarksOfOne
  <2>3. A \subseteq Marks(S, f) /\ A \cap B = {} /\ Marks(s, f) = A \cup B
    BY <2>1 DEF Marks
  <2>4. IsFiniteSet(A) /\ Cardinality(A) \in Nat
    BY <2>3, FS_Subset, FS_CardinalityType
  <2> HIDE DEF A, B, x
  <2>5. Cardinality(A \cup B) = Cardinality(A) + Cardinality(B) - Cardinality(A \cap B)
    BY <2>2, <2>4, FS_Union
  <2>6. Cardinality(A \cap B) = 0 /\ f[x] \in Nat
    BY <2>1, <2>3, FS_EmptySet
  <2>7. Cardinality(A \cup B) = f[x] + Cardinality(A)
    BY <2>2, <2>4, <2>5, <2>6
  <2> QED BY <2>3, <2>7 DEF A, x
<1>4. Count({}) = 0
  <2>1. Marks({}, f) = {}
    BY DEF Marks
  <2> QED BY <2>1, FS_EmptySet
<1> HIDE DEF Count
<1>5. sum = Sums(sum)
  <2> DEFINE g == [s \in SUBSET S |-> Count(s)]
  <2>1. ASSUME NEW s \in SUBSET S PROVE g[s] = Sums(g)[s]
    BY <1>3, <1>4
  <2>2. g = Sums(g)
    BY <2>1
  <2> QED BY <2>2
<1>6. \A s \in SUBSET S : sum[s] = IF s = {} THEN 0 ELSE f[Pick(s)] + sum[s \ {Pick(s)}]
  <2>1. \A s \in SUBSET S : Sums(sum)[s] = IF s = {} THEN 0 ELSE f[Pick(s)] + sum[s \ {Pick(s)}]
    OBVIOUS
  <2> HIDE DEF sum, Sums
  <2> QED BY <1>5, <2>1
<1> HIDE DEF sum, Sums
<1> DEFINE Wrong == {s \in SUBSET S : sum[s] # Count(s)}
<1>7. Wrong = {}
  <2> SUFFICES ASSUME Wrong # {} PROVE FALSE
    OBVIOUS
  <2>1. Wrong \subseteq FiniteSubsetsOf(S)
    BY FS_Subset DEF FiniteSubsetsOf
  <2>2. PICK s \in Wrong : \A t \in Wrong : <<t, s>> \notin StrictSubsetOrdering(S)
    <3> HIDE DEF Wrong
    <3> QED BY <2>1, FS_StrictSubsetOrderingWellFounded, WFMin
  <2>3. s # {}
    BY <1>4, <1>6, <2>2
  <2>4. Pick(s) \in s /\ s \ {Pick(s)} \in SUBSET S /\ s \ {Pick(s)} # s
    BY <1>2, <2>2, <2>3
  <2>5. s \ {Pick(s)} \notin Wrong
    BY <2>2, <2>4 DEF StrictSubsetOrdering
  <2>6. sum[s] = Count(s)
    BY <1>3, <1>6, <2>2, <2>3, <2>4, <2>5
  <2> QED BY <2>2, <2>6
<1>8. sum[S] = Count(S)
  BY <1>7
<1> QED BY <1>1, <1>8 DEF Count

\* The visits of the roots add up to the visits in all; in memory and in the files.
Shared(I, visits, total) ==
  IsFiniteSet(Marks(I, visits)) /\ Cardinality(Marks(I, visits)) = total
SharesInv ==
  /\ Shared(initial, n, T)
  /\ \A s \in Steps : file[s] # NoFile => Shared(file[s].initial, file[s].n, file[s].T)

\* A visit of p is one of exactly one root.
LEMMA CountVisitShared ==
  ASSUME TypeOK, RootedInv, Shared(initial, n, T), NEW p \in held, CountVisit(p)
  PROVE  Shared(initial, n', T')
<1>1. PICK r \in initial : ({p} \cup ancestors[p]) \cap initial = {r}
  BY DEF RootedInv, RootedOK
<1>2. \A i \in initial : n[i] \in Nat /\ n'[i] = IF i = r THEN n[i] + 1 ELSE n[i]
  BY <1>1 DEF CountVisit, Visited, TypeOK
<1>3. Marks(initial, n') = Marks(initial, n) \cup {<<r, n[r]>>}
  <2>1. ASSUME NEW i \in initial, NEW k \in Nat
        PROVE  k < n'[i] <=> k < n[i] \/ <<i, k>> = <<r, n[r]>>
    <3>1. CASE i = r
      <4>1. \A a, b \in Nat : a < b + 1 <=> a < b \/ a = b
        OBVIOUS
      <4> QED BY <1>2, <3>1, <4>1
    <3>2. CASE i # r
      BY <1>2, <3>2
    <3> QED BY <3>1, <3>2
  <2>2. <<r, n[r]>> \in initial \X Nat
    BY <1>2
  <2> QED BY <2>1, <2>2 DEF Marks
<1>4. <<r, n[r]>> \notin Marks(initial, n)
  BY <1>2 DEF Marks
<1>5. /\ IsFiniteSet(Marks(initial, n'))
      /\ Cardinality(Marks(initial, n')) = Cardinality(Marks(initial, n)) + 1
  BY <1>3, <1>4, FS_AddElement DEF Shared
<1> QED BY <1>5 DEF Shared, CountVisit

\* Where nothing was visited there are no marks.
LEMMA UnvisitedShared ==
  ASSUME NEW I \in SUBSET Ids, NEW visits, \A i \in Ids : visits[i] = 0
  PROVE  Shared(I, visits, 0)
<1>1. Marks(I, visits) = {}
  BY DEF Marks
<1> QED BY <1>1, FS_EmptySet DEF Shared

(* Every method keeps the sum. *)
LEMMA SharesStep ==
  TypeOK /\ TypeOK' /\ LineageInv /\ RootedInv /\ SharesInv /\ [Next]_vars => SharesInv'
<1> SUFFICES ASSUME TypeOK, TypeOK', LineageInv, RootedInv, SharesInv, [Next]_vars PROVE SharesInv'
  OBVIOUS
<1>a. ASSUME UNCHANGED file, Shared(initial', n', T') PROVE SharesInv'
  BY <1>a DEF SharesInv
<1>b. ASSUME NEW s \in Steps, Save(s), Shared(initial', n', T') PROVE SharesInv'
  <2>1. ASSUME NEW r \in Steps, file'[r] # NoFile
        PROVE  Shared(file'[r].initial, file'[r].n, file'[r].T)
    BY <1>b, <2>1, SavedFile DEF SharesInv, Snapshot
  <2> QED BY <1>b, <2>1 DEF SharesInv
<1>1. CASE Sample \/ UNCHANGED vars
  BY <1>1, <1>a DEF Sample, SampleStates, vars, svars, SharesInv
<1>2. CASE Update
  <2>0. PICK p \in held, C \in SUBSET (Ids \ known) : \E kid \in [C -> Children] : UpdateStates(p, kid)
    BY <1>2 DEF Update
  <2>1. PICK kid \in [C -> Children] : UpdateStates(p, kid)
    BY <2>0
  <2>2. UNCHANGED <<initial, file>> /\ (CountVisit(p) \/ UNCHANGED <<n, T>>)
    BY <2>1 DEF UpdateStates, UpdateStats
  <2>3. Shared(initial, n', T')
    BY <2>2, CountVisitShared DEF SharesInv
  <2> QED BY <1>a, <2>2, <2>3
<1>3. CASE Fail
  <2>1. PICK p \in held : RecordFailedRollout(p)
    BY <1>3 DEF Fail
  <2>2. UNCHANGED <<initial, file>> /\ CountVisit(p)
    BY <2>1 DEF RecordFailedRollout
  <2> QED BY <1>a, <2>2, CountVisitShared DEF SharesInv
<1>4. CASE FlushStep
  <2>1. PICK s \in Steps : Flush(s)
    BY <1>4 DEF FlushStep
  <2> QED BY <1>b, <2>1 DEF Flush, SharesInv
<1>5. CASE Resume
  BY <1>5, <1>a DEF Resume, Load, SharesInv
<1>6. CASE Restart
  <2>1. PICK I \in NewInitialSets(known) :
          \E v \in [I -> Values], k \in [I -> InitialKeys] : FreshStart(I, v, k)
    BY <1>6 DEF Restart
  <2>2. initial' = I /\ (\A i \in Ids : n'[i] = 0) /\ T' = 0 /\ Save(0) /\ 0 \in Steps
    BY <2>1, SamplerAssumption DEF FreshStart, Steps
  <2> QED BY <1>b, <2>1, <2>2, UnvisitedShared DEF NewInitialSets
<1> QED BY <1>1, <1>2, <1>3, <1>4, <1>5, <1>6 DEF Next

(* The visits of the initial states add up to T: every rollout counts for one tree. *)
THEOREM VisitsShared == Spec => []RootsShareVisits
<1>1. Init => SharesInv
  <2> SUFFICES ASSUME Init PROVE SharesInv
    OBVIOUS
  <2>1. PICK I \in NewInitialSets({}) :
          \E v \in [I -> Values], k \in [I -> InitialKeys] : SamplerInit(I, v, k)
    BY DEF Init
  <2>2. Shared(initial, n, T)
    BY <2>1, UnvisitedShared DEF SamplerInit, NewInitialSets
  <2> QED BY <2>1, <2>2 DEF SamplerInit, Snapshot, SharesInv
<1>2. TypeOK /\ SharesInv => RootsShareVisits
  <2> SUFFICES ASSUME TypeOK, SharesInv PROVE MapThenSumSet(LAMBDA i : n[i], initial) = T
    BY DEF RootsShareVisits
  <2>1. IsFiniteSet(initial) /\ \A i \in initial : n[i] \in Nat
    BY SamplerAssumption, FS_Subset DEF TypeOK
  <2>2. MapThenSumSet(LAMBDA i : n[i], initial) = Cardinality(Marks(initial, n))
    BY <2>1, SumIsMarks DEF SharesInv, Shared
  <2> QED BY <2>2 DEF SharesInv, Shared
<1> QED BY <1>1, <1>2, SharesStep, RootedInit, RootedStep, SamplerTypeCorrect, LineageSound,
      PTL DEF Spec

=============================================================================
