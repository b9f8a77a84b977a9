----------------------------- MODULE PUCTSampler -----------------------------
(***************************************************************************)
(* The PUCT archive of ug_ttt/recipes/ttt/sampler.py (class PUCTSampler):   *)
(* a tree of solution states that the trainer samples parents from, extends *)
(* with the children its rollouts produce, prunes and saves after every     *)
(* epoch, and reloads after a crash.                                        *)
(*                                                                          *)
(* State objects are named by their uuid.  The fields of every object the   *)
(* process holds are the functions value, parent, ancestors and key: the    *)
(* list State.parents is kept as its head (parent) and the set of its ids   *)
(* (ancestors).  Lists whose order only settles ties (_states, the input of *)
(* a stable sort, numpy's argsort) are sets, and a tie may be settled       *)
(* either way.  Floats are integers; only their order and, in the score,    *)
(* their differences matter.                                                *)
(***************************************************************************)
EXTENDS Integers, FiniteSetsExt

CONSTANTS
  Ids,        \* uuids that State() may draw
  NoParent,   \* parent of an initial state
  Values,     \* values of a state, higher is better
  NoValue,    \* value = None, and an entry missing from _m
  Keys,       \* results of _get_construction_key
  NoKey,      \* ... when it returns None: never a duplicate
  InitialKeys,\* ... for an initial state; NoKey also when no child will equal it
  Children,   \* child states a rollout may produce
  TopK,       \* topk_children
  MaxBuffer,  \* max_buffer_size
  BatchSize,  \* batch_size = groups_per_batch
  PuctC,      \* puct_c
  MinScale,   \* the floor 1e-6 of the scale, in the units of Values
  RandomInit, \* initial_exp_type = "random" in the environments ac1 and ac2
  GroupSize,  \* children of one update_states call, at most
  MaxT,       \* bound: rollouts counted
  MaxStep,    \* bound: steps
  NoFile

Child == [value : Values \cup {NoValue}, key : Keys \cup {NoKey}, fits : BOOLEAN]

ASSUME SamplerAssumption ==
  /\ IsFiniteSet(Ids) /\ NoParent \notin Ids
  /\ Values \subseteq Int /\ NoValue \notin Values
  /\ NoKey \notin Keys /\ InitialKeys \subseteq Keys \cup {NoKey}
  /\ Children \subseteq Child
  /\ TopK \in Nat \ {0} /\ BatchSize \in Nat \ {0}
  /\ MaxBuffer \in Nat /\ MaxBuffer > BatchSize
  /\ PuctC \in Nat /\ MinScale \in Nat \ {0}
  /\ RandomInit \in BOOLEAN
  /\ GroupSize \in Nat /\ MaxT \in Nat /\ MaxStep \in Nat

VARIABLES
  states,     \* _states
  initial,    \* _initial_states
  value,      \* State.value
  parent,     \* State.parents[0]
  ancestors,  \* ids of State.parents
  key,        \* _get_construction_key
  n,          \* _n: visits of a state
  m,          \* _m: best direct child seen
  T,          \* _T: visits in all
  sampled,    \* _last_sampled_states
  step,       \* _current_step
  file,       \* the sampler file of each step on disk
  known,      \* uuids drawn so far
  held        \* parents that the callers' rollouts still hold

svars == <<states, initial, value, parent, ancestors, key, n, m, T,
           sampled, step, file, known>>
vars == <<svars, held>>

Steps == 0 .. MaxStep

-----------------------------------------------------------------------------
(* Helpers *)

AtLeast(x, y) == y = NoValue \/ (x # NoValue /\ y # NoValue /\ x >= y)

\* K is what sorting S by v, highest first, and cutting after k leaves.
IsTopK(K, S, k, v) ==
  /\ K \subseteq S
  /\ Cardinality(K) = IF k <= Cardinality(S) THEN k ELSE Cardinality(S)
  /\ \A x \in K, y \in S \ K : AtLeast(v[x], v[y])

NonInitial == states \ initial

KeysIn(S) == {key[s] : s \in S} \ {NoKey}

-----------------------------------------------------------------------------
(* Sampling: score(i) = Q(i) + c * scale * P(i) * sqrt(1 + T) / (1 + n[i]).  *)

Q(s) == IF n[s] > 0 /\ m[s] # NoValue THEN m[s] ELSE value[s]

Scale ==
  LET S == IF NonInitial # {} THEN NonInitial ELSE states
      spread == Max({value[x] - value[y] : x, y \in S})
  IN  IF spread > MinScale THEN spread ELSE MinScale

\* Results of argsort(argsort(-values)): ties in any order.
Rankings ==
  {r \in [states -> 0 .. Cardinality(states) - 1] :
     \A x, y \in states : x # y => r[x] # r[y] /\ (value[x] > value[y] => r[x] < r[y])}

SignedSquare(x) == IF x >= 0 THEN x * x ELSE -(x * x)

\* P(s) times a constant: the weight N - rank of _compute_prior.
WeightWorstFirst(s, rank) == rank[s] + 1  \* fault: ranks not inverted
Weight(s, rank) == Cardinality(states) - rank[s]

\* Signed square of score(i) - score(j) over a positive common factor; the
\* square keeps the comparison with sqrt(1 + T) exact.
ScoreGap(i, j, rank) ==
  LET N == Cardinality(states)
      gap  == (Q(i) - Q(j)) * ((N * (N + 1)) \div 2) * (1 + n[i]) * (1 + n[j])
      pull == PuctC * Scale * (Weight(j, rank) * (1 + n[i])
                                - Weight(i, rank) * (1 + n[j]))
  IN  SignedSquare(gap) - SignedSquare(pull) * (1 + T)

\* i is sorted before j: higher score, then higher value.
Above(i, j, rank) ==
  LET gap == ScoreGap(i, j, rank)
  IN  gap > 0 \/ (gap = 0 /\ value[i] > value[j])

\* _get_full_lineage: a state, its ancestors and its archived descendants.
\* children_map holds every ancestor of an archived state, so one look-up
\* already finds all descendants.
FullLineage(s) == {s} \cup ancestors[s] \cup {d \in states : s \in ancestors[d]}

\* No pick is in the lineage of another: what blocked_ids sees to.
Unblocked(P) == \A x, y \in P : x # y => y \notin FullLineage(x)

\* The greedy scan passes a state over if it is in the lineage of a pick sorted
\* before it, or comes after num picks.
PassedOver(P, num, rank) ==
  \A j \in states \ P :
    \/ \E x \in P : j \in FullLineage(x) /\ ~Above(j, x, rank)
    \/ Cardinality(P) = num /\ \A x \in P : ~Above(j, x, rank)

\* _refresh_random_construction of the states R: a construction drawn at random,
\* unlike all others, and its value.
Refresh(R) ==
  \E v \in [R -> Values], k \in [R -> InitialKeys] :
    /\ \A r \in R : \/ k[r] = NoKey
                    \/ k[r] \notin KeysIn(states \ {r}) \cup {k[q] : q \in R \ {r}}
    /\ value' = [i \in Ids |-> IF i \in R THEN v[i] ELSE value[i]]
    /\ key' = [i \in Ids |-> IF i \in R THEN k[i] ELSE key[i]]

\* sample_states, with P the states it returns.  Initial states are given a
\* new random construction on the way out.
SampleStates(P) ==
  /\ Cardinality(P) <= BatchSize /\ Unblocked(P)
  /\ \E rank \in Rankings : PassedOver(P, BatchSize, rank)
  /\ sampled' = P
  /\ IF RandomInit THEN Refresh(P \cap initial) ELSE UNCHANGED <<value, key>>
  /\ UNCHANGED <<states, initial, parent, ancestors, n, m, T, step, file, known>>


-----------------------------------------------------------------------------
(* Learning from rollouts.  The callers report the rollouts of one parent per *)
(* call, and pass save=False.                                                 *)

\* anc_ids: the states whose visit count a rollout of p adds to.
VisitedSelf(p) == {p}  \* fault: no backpropagation of the count
Visited(p) == {p} \cup ancestors[p]

\* Fault: T counts states instead of rollouts.
CountVisitStates(p) ==
  /\ n' = [i \in Ids |-> IF i \in Visited(p) THEN n[i] + 1 ELSE n[i]]
  /\ T' = T + Cardinality(Visited(p))

CountVisit(p) ==
  /\ n' = [i \in Ids |-> IF i \in Visited(p) THEN n[i] + 1 ELSE n[i]]
  /\ T' = T + 1

BestSeenLast(p, y) == y  \* fault: the last result instead of the best
BestSeen(p, y) == IF m[p] = NoValue \/ y > m[p] THEN y ELSE m[p]

\* PUCT statistics: one visit per call, if any child has a value.
UpdateStats(p, kid) ==
  LET ys == {kid[c].value : c \in DOMAIN kid} \ {NoValue}
  IN  IF ys = {}
      THEN UNCHANGED <<n, m, T>>
      ELSE /\ m' = [m EXCEPT ![p] = BestSeen(p, Max(ys))]
           /\ CountVisit(p)

\* The children of K that survive the value, length and duplicate checks,
\* seen one by one from the best: of equal constructions the first is taken.
Eligible(K, kid) ==
  {c \in K : kid[c].value # NoValue /\ kid[c].fits /\ kid[c].key \notin KeysIn(states)}

IsDedupedByArchive(A, E, kid) == A = E  \* fault: accepted keys not remembered
IsDeduped(A, E, kid) ==
  /\ A \subseteq E
  /\ \A a, b \in A : a # b => kid[a].key # kid[b].key \/ kid[a].key = NoKey
  /\ \A e \in E \ A : \E a \in A : /\ kid[a].key = kid[e].key
                                   /\ kid[e].key # NoKey
                                   /\ kid[a].value >= kid[e].value

\* _set_parent_info: child.parents = [parent] + parent.parents.
LineageBelowParent(p) == {p}                      \* fault: parent.parents dropped
LineageBelowGrandparent(p) == {parent[p]} \cup ancestors[p]  \* fault: wrong head
LineageBelow(p) == {p} \cup ancestors[p]

AddChildren(p, A, kid) ==
  /\ states' = states \cup A
  /\ known' = known \cup A
  /\ value' = [i \in Ids |-> IF i \in A THEN kid[i].value ELSE value[i]]
  /\ parent' = [i \in Ids |-> IF i \in A THEN p ELSE parent[i]]
  /\ ancestors' = [i \in Ids |-> IF i \in A THEN LineageBelow(p) ELSE ancestors[i]]
  /\ key' = [i \in Ids |-> IF i \in A THEN kid[i].key ELSE key[i]]

\* update_states: statistics, the best TopK children, then the checks.
UpdateStates(p, kid) ==
  /\ UpdateStats(p, kid)
  /\ \E K, A \in SUBSET (DOMAIN kid) :
       /\ IsTopK(K, DOMAIN kid, TopK, [c \in DOMAIN kid |-> kid[c].value])
       /\ IsDeduped(A, Eligible(K, kid), kid)
       /\ AddChildren(p, A, kid)
  /\ UNCHANGED <<initial, sampled, step, file>>

RecordFailedRollout(p) ==
  /\ CountVisit(p)
  /\ UNCHANGED <<states, initial, value, parent, ancestors, key, m,
                 sampled, step, file, known>>

-----------------------------------------------------------------------------
(* Pruning, saving, loading. *)

ArchivedChildren(p) == {s \in states : parent[s] = p}

\* The per-parent filter of flush: states without a parent stay.
IsFiltered(K) ==
  /\ K \subseteq states
  /\ ArchivedChildren(NoParent) \subseteq K
  /\ \A p \in {parent[s] : s \in states} \ {NoParent} :
       IsTopK(K \cap ArchivedChildren(p), ArchivedChildren(p), TopK, value)

\* _finalize_and_save drops the worst states over MaxBuffer, never an initial one.
IsTrimmedPlusInitial(B, K) ==  \* fault: the initial states are not counted
  IF Cardinality(K) <= MaxBuffer
  THEN B = K
  ELSE /\ K \cap initial \subseteq B
       /\ IsTopK(B \ initial, K \ initial, MaxBuffer, value)
       /\ B \subseteq K
IsTrimmedWorst(B, K) ==        \* fault: argsort not reversed
  IF Cardinality(K) <= MaxBuffer
  THEN B = K
  ELSE /\ K \cap initial \subseteq B
       /\ IsTopK(K \ B, K \ initial, Cardinality(K) - MaxBuffer, value)
       /\ B \subseteq K
IsTrimmedAll(B, K) ==          \* fault: the initial states compete like any other
  IF Cardinality(K) <= MaxBuffer THEN B = K ELSE IsTopK(B, K, MaxBuffer, value)
IsTrimmed(B, K) ==
  IF Cardinality(K) <= MaxBuffer
  THEN B = K
  ELSE /\ K \cap initial \subseteq B
       /\ IsTopK(B \ initial, K \ initial,
                 MaxBuffer - Cardinality(K \cap initial), value)
       /\ B \subseteq K

Snapshot(S, I, val, par, anc, ky, visits, best, total) ==
  [states |-> S, initial |-> I, value |-> val, parent |-> par,
   ancestors |-> anc, key |-> ky, n |-> visits, m |-> best, T |-> total]

\* _save writes a temporary file and renames it: a file is whole or absent.
Save(s) ==
  file' = [file EXCEPT ![s] =
    Snapshot(states', initial', value', parent', ancestors', key', n', m', T')]

\* flush(step) and _finalize_and_save.
Flush(s) ==
  /\ \E K, B \in SUBSET states : IsFiltered(K) /\ IsTrimmed(B, K) /\ states' = B
  /\ step' = s
  /\ UNCHANGED <<initial, value, parent, ancestors, key, n, m, T, sampled, known>>
  /\ Save(s)

\* A process that resumes reads the file of the step it resumes from; without
\* that file the constructor raises.
Load(s) ==
  /\ file[s] # NoFile
  /\ states' = file[s].states
  /\ initial' = file[s].initial
  /\ value' = file[s].value
  /\ parent' = file[s].parent
  /\ ancestors' = file[s].ancestors
  /\ key' = file[s].key
  /\ n' = file[s].n
  /\ m' = file[s].m
  /\ T' = file[s].T
  /\ step' = s
  /\ sampled' = {}
  /\ UNCHANGED <<file, known>>

InitialValues(I, v) == [i \in Ids |-> IF i \in I THEN v[i] ELSE NoValue]
InitialKeysOf(I, k) == [i \in Ids |-> IF i \in I THEN k[i] ELSE NoKey]

\* A process that does not resume creates BatchSize initial states and saves
\* them as step 0, over the file of an earlier run.
FreshStart(I, v, k) ==
  /\ states' = I /\ initial' = I
  /\ value' = InitialValues(I, v)
  /\ parent' = [i \in Ids |-> NoParent]
  /\ ancestors' = [i \in Ids |-> {}]
  /\ key' = InitialKeysOf(I, k)
  /\ n' = [i \in Ids |-> 0]
  /\ m' = [i \in Ids |-> NoValue]
  /\ T' = 0
  /\ sampled' = {} /\ step' = 0
  /\ known' = known \cup I
  /\ Save(0)

SamplerInit(I, v, k) ==
  /\ states = I /\ initial = I
  /\ value = InitialValues(I, v)
  /\ parent = [i \in Ids |-> NoParent]
  /\ ancestors = [i \in Ids |-> {}]
  /\ key = InitialKeysOf(I, k)
  /\ n = [i \in Ids |-> 0]
  /\ m = [i \in Ids |-> NoValue]
  /\ T = 0
  /\ sampled = {} /\ step = 0
  /\ known = I
  /\ file = [s \in Steps |->
       IF s = 0 THEN Snapshot(states, initial, value, parent, ancestors, key, n, m, T)
                ELSE NoFile]

-----------------------------------------------------------------------------
(* The archive under any caller that reports only on parents it was given.   *)

NewInitialSets(drawn) == {I \in SUBSET (Ids \ drawn) : Cardinality(I) = BatchSize}

Init == /\ \E I \in NewInitialSets({}) :
             \E v \in [I -> Values], k \in [I -> InitialKeys] : SamplerInit(I, v, k)
        /\ held = {}

Sample == \E P \in SUBSET states : SampleStates(P) /\ held' = held \cup P

Update ==
  /\ T < MaxT
  /\ \E p \in held, C \in (SUBSET (Ids \ known)) \ {{}} :
       /\ Cardinality(C) <= GroupSize
       /\ \E kid \in [C -> Children] : UpdateStates(p, kid)
  /\ held' = held

Fail == T < MaxT /\ \E p \in held : RecordFailedRollout(p) /\ held' = held

FlushStep == \E s \in Steps : s \in {step, step + 1} /\ Flush(s) /\ held' = held

Resume == \E s \in Steps : Load(s) /\ held' = {}

Restart == \E I \in NewInitialSets(known) :
             \E v \in [I -> Values], k \in [I -> InitialKeys] :
               FreshStart(I, v, k) /\ held' = {}

Next == Sample \/ Update \/ Fail \/ FlushStep \/ Resume \/ Restart

Spec == Init /\ [][Next]_vars

-----------------------------------------------------------------------------
(* Properties *)

Snapshots ==
  [states : SUBSET Ids, initial : SUBSET Ids,
   value : [Ids -> Values \cup {NoValue}], parent : [Ids -> Ids \cup {NoParent}],
   ancestors : [Ids -> SUBSET Ids], key : [Ids -> Keys \cup {NoKey}],
   n : [Ids -> Nat], m : [Ids -> Values \cup {NoValue}], T : Nat]

\* The types of the sampler's fields and files.
TypeOK ==
  /\ states \subseteq Ids /\ initial \subseteq Ids
  /\ value \in [Ids -> Values \cup {NoValue}]
  /\ parent \in [Ids -> Ids \cup {NoParent}]
  /\ ancestors \in [Ids -> SUBSET Ids]
  /\ key \in [Ids -> Keys \cup {NoKey}]
  /\ n \in [Ids -> Nat] /\ T \in Nat
  /\ m \in [Ids -> Values \cup {NoValue}]
  /\ sampled \subseteq Ids /\ known \subseteq Ids /\ held \subseteq Ids
  /\ step \in Steps
  /\ file \in [Steps -> Snapshots \cup {NoFile}]

\* A visit of a state is a visit of each of its ancestors (update_states,
\* record_failed_rollout): no state has more visits than an ancestor, and none
\* more than T, whatever was pruned or reloaded in between.
VisitsFollowLineage ==
  \A i \in states : n[i] <= T /\ \A a \in ancestors[i] : n[i] <= n[a]

\* Every rollout descends from one initial state, so the visits of the initial
\* states add up to T: the exploration term weighs each tree by its own share.
RootsShareVisits == MapThenSumSet(LAMBDA i : n[i], initial) = T

\* Every archived state has its whole tree path rooted in an initial state that
\* is still archived: _finalize_and_save may not evict initial states, and
\* pruning an inner state may not cut the lineage of those below it.
Rooted ==
  /\ initial \subseteq states
  /\ \A i \in states : \E r \in initial : ({i} \cup ancestors[i]) \cap initial = {r}

\* Q of a parent is at least the value of every child of it in the archive, so
\* a good child always counts for the state it came from.
QCoversChildren ==
  \A c \in states : parent[c] # NoParent =>
    n[parent[c]] > 0 /\ m[parent[c]] # NoValue /\ m[parent[c]] >= value[c]

\* No two archived states hold the same construction, initial states aside: those
\* of ac1 and ac2 begin with one construction drawn from a fixed seed.
DistinctConstructions ==
  \A a \in NonInitial, b \in states : a # b => key[a] # key[b] \/ key[a] = NoKey

\* The states above i in the true tree, also those no longer archived.
TreePath(i) ==
  LET up[k \in Nat] ==
        IF k = 0 THEN {i} ELSE up[k-1] \cup ({parent[j] : j \in up[k-1]} \ {NoParent})
  IN  up[Cardinality(Ids)] \ {i}

\* sample_states spreads a batch over the tree: no pick is an ancestor of
\* another, even when the states between them were pruned.
PicksUnrelated == \A x, y \in sampled : x \notin TreePath(y)

\* What is on disk respects topk_children and max_buffer_size, so that every
\* resume starts within bounds.
FilesBounded ==
  \A s \in Steps : file[s] # NoFile =>
    LET f == file[s]
    IN  /\ Cardinality(f.states) <= MaxBuffer
        /\ \A p \in Ids : Cardinality({c \in f.states : f.parent[c] = p}) <= TopK

\* Within a process the best solution found is never pruned: the archive always
\* holds a child as good as any child it held before.
BestChildKept ==
  [][~Resume /\ ~Restart =>
       \A c \in NonInitial : \E d \in NonInitial' : value'[d] >= value[c]]_vars

\* sample_states never returns a state while another one, at least as promising
\* by Q, better by value and visited no more often, stands free of the batch's
\* lineages: the score orders exploration the way the class comment says.
NoDominatedPick ==
  [][sampled' # {} /\ sampled' # sampled =>
       \A x \in sampled' : \A j \in states \ sampled' :
         ~ /\ Q(j) >= Q(x) /\ value[j] > value[x] /\ n[j] <= n[x]
           /\ \A y \in sampled' \ {x} : j \notin FullLineage(y)]_vars

=============================================================================
