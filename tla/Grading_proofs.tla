---------------------------- MODULE Grading_proofs ----------------------------
(* Proofs about the grading of rollouts, for every value of the constants. *)
EXTENDS Grading, InjectiveSequences, TLAPS, FiniteSetTheorems, SequenceTheorems

-----------------------------------------------------------------------------
(* The inductive invariant *)

AllGroups == Range(Groups)
Tasks == [at : TaskStates, host : Hosts, group : AllGroups \cup {{}},
          tries : 0 .. MaxRetries, ok : BOOLEAN]

Holders(h) == {r \in Rollouts : task[r].at \in Holding /\ task[r].host = h}

\* The types; who holds a group holds one of the scheduler's.
Typed ==
  /\ env \in [Rollouts -> {"none", "grading", "done"}]
  /\ answer \in [Rollouts -> {"none", "valid", "failed", "timeout"}]
  /\ thread \in [Rollouts -> {"none", "queued", "waiting", "ended", "cancelled"}]
  /\ outcome \in [Rollouts -> {"none", "valid", "failed"}]
  /\ task \in [Rollouts -> Tasks]
  /\ \A r \in Rollouts : task[r].at \in Holding => task[r].group \in AllGroups
  /\ DOMAIN free \subseteq Hosts /\ \A h \in Hosts : Queue(h) \in Seq(AllGroups)
  /\ code \subseteq Rollouts /\ results \subseteq Rollouts
  /\ archive \in [children : SUBSET Rollouts, visits : Nat]
  /\ kills \in 0 .. MaxKills
  /\ lost \subseteq Hosts \X AllGroups

\* The pool holds each grading that waits for a thread once, and nothing is graded
\* before env.step asked for it.
Pooled ==
  /\ pool \in Seq(Rollouts) /\ IsInjective(pool)
  /\ ToSet(pool) = {r \in Rollouts : thread[r] = "queued"}
  /\ \A r \in Rollouts : env[r] = "none" => thread[r] = "none"

\* No more threads and no more tasks of a host than allowed.
Bounded ==
  /\ Cardinality(InThreads) <= Threads
  /\ \A h \in Hosts : Cardinality(On(h)) <= Slots(h)

\* A group of a host is in the queue once, or one task holds it, or it was lost;
\* and at most one program that outlived its worker runs on a lost group.
Exclusive ==
  /\ \A h \in Hosts : IsInjective(Queue(h))
  /\ \A h \in Hosts : \A r \in Holders(h) :
       /\ task[r].group \notin ToSet(Queue(h)) /\ <<h, task[r].group>> \notin lost
       /\ \A s \in Holders(h) : s # r => task[s].group # task[r].group
  /\ \A h \in Hosts : \A g \in ToSet(Queue(h)) : <<h, g>> \notin lost
  /\ \A o \in orphans : o.host \in Hosts /\ <<o.host, o.cpus>> \in lost
  /\ \A o, p \in orphans : (o.host = p.host /\ o.cpus = p.cpus) => o = p

\* No group of a host disappears.
Covered ==
  \A h \in Hosts, g \in AllGroups :
    \/ g \in ToSet(Queue(h))
    \/ \E r \in Holders(h) : task[r].group = g
    \/ <<h, g>> \in lost

\* The files of a grading, its thread and its task go together.
Files ==
  /\ \A r \in Rollouts : task[r].at # "none" => thread[r] = "waiting"
  /\ \A r \in Rollouts : task[r].at = "saving" => task[r].ok
  /\ \A r \in Rollouts : task[r].at \in Working \cup {"pending"} => r \in code
  /\ \A r \in code : thread[r] = "waiting"
  /\ kills = 0 => \A r \in results :
       /\ task[r].at \in {"leaving", "returning", "returned"}
       /\ task[r].at # "returned" => task[r].ok

Leased == Exclusive /\ Covered
IInv == Typed /\ Pooled /\ Bounded /\ Leased /\ Files

-----------------------------------------------------------------------------
(* The groups of CPUs *)

(* The scheduler's host gives a whole number of groups, and a host takes a whole *)
(* number of tasks.                                                             *)
LEMMA Counts ==
  /\ NumGroups \in Nat \ {0} /\ \A h \in Hosts : Slots(h) \in Nat
  /\ Threads \in Nat /\ MaxRetries \in Nat /\ MaxKills \in Nat
BY GradingAssumption DEF NumGroups, Slots

(* _initialize_cpu_group_for_host cuts disjoint groups, none of them empty. *)
LEMMA GroupsDisjoint ==
  /\ \A g \in AllGroups : g # {}
  /\ \A f, g \in AllGroups : f # g => f \cap g = {}
  /\ Groups \in Seq(AllGroups) /\ IsInjective(Groups) /\ ToSet(Groups) = AllGroups
<1>1. \A i \in 1 .. NumGroups : FirstCpu(i) \in Int /\ FirstCpu(i) \in Groups[i]
  BY Counts, GradingAssumption DEF FirstCpu, Groups
<1>2. \A i, j \in 1 .. NumGroups : i < j => Groups[i] \cap Groups[j] = {}
  <2> SUFFICES ASSUME NEW i \in 1 .. NumGroups, NEW j \in 1 .. NumGroups, i < j
               PROVE  Groups[i] \cap Groups[j] = {}
    OBVIOUS
  <2> DEFINE d == j - i - 1
  <2>1. d \in Nat /\ d * CpusPerTask >= 0
    BY Counts, GradingAssumption
  <2>2. (j - 1) * CpusPerTask = (i - 1) * CpusPerTask + CpusPerTask + d * CpusPerTask
    BY Counts, GradingAssumption
  <2>3. FirstCpu(j) >= FirstCpu(i) + CpusPerTask
    BY <2>1, <2>2, Counts, GradingAssumption DEF FirstCpu
  <2> QED BY <1>1, <2>3, GradingAssumption DEF Groups
<1>3. \A i, j \in 1 .. NumGroups : i # j => Groups[i] \cap Groups[j] = {}
  BY <1>2, Counts
<1>4. Groups \in Seq(AllGroups)
  BY Counts DEF Groups, AllGroups, Range
<1>5. DOMAIN Groups = 1 .. NumGroups
  BY DEF Groups
<1>6. \A g \in AllGroups : \E i \in 1 .. NumGroups : g = Groups[i]
  BY <1>5 DEF AllGroups, Range
<1>7. IsInjective(Groups)
  BY <1>1, <1>3, <1>5 DEF IsInjective
<1>8. ToSet(Groups) = AllGroups
  BY DEF ToSet, AllGroups, Range
<1> QED BY <1>1, <1>3, <1>4, <1>6, <1>7, <1>8

(* There are as many groups as NumGroups says. *)
LEMMA GroupCount == IsFiniteSet(AllGroups) /\ Cardinality(AllGroups) = NumGroups
<1>1. Groups \in Bijection(1 .. NumGroups, AllGroups)
  BY GroupsDisjoint, Counts DEF Bijection, Injection, Surjection, Groups, AllGroups, Range
<1>2. IsFiniteSet(1 .. NumGroups) /\ Cardinality(1 .. NumGroups) = NumGroups
  BY Counts, FS_Interval
<1>3. ExistsBijection(1 .. NumGroups, AllGroups)
  BY <1>1 DEF ExistsBijection
<1> QED BY <1>2, <1>3, FS_Bijection

(* Two finite sets have together at most the members of both. *)
LEMMA UnionBound ==
  ASSUME NEW A, NEW B, IsFiniteSet(A), IsFiniteSet(B)
  PROVE  /\ IsFiniteSet(A \cup B)
         /\ Cardinality(A \cup B) <= Cardinality(A) + Cardinality(B)
<1>1. IsFiniteSet(A \cap B)
  BY FS_Intersection
<1>2. Cardinality(A) \in Nat /\ Cardinality(B) \in Nat /\ Cardinality(A \cap B) \in Nat
  BY <1>1, FS_CardinalityType
<1>3. /\ IsFiniteSet(A \cup B)
      /\ Cardinality(A \cup B) = Cardinality(A) + Cardinality(B) - Cardinality(A \cap B)
  BY FS_Union
<1> QED BY <1>2, <1>3

(* Letting one more in makes a finite set at most one larger. *)
LEMMA OneMore ==
  ASSUME NEW A, NEW x, NEW B, IsFiniteSet(A), B \subseteq A \cup {x}
  PROVE  Cardinality(B) \in Nat /\ Cardinality(B) <= Cardinality(A) + 1
<1>1. IsFiniteSet({x}) /\ Cardinality({x}) = 1
  BY FS_Singleton
<1>2. /\ IsFiniteSet(A \cup {x})
      /\ Cardinality(A \cup {x}) <= Cardinality(A) + 1
  BY <1>1, UnionBound
<1>3. IsFiniteSet(B) /\ Cardinality(B) <= Cardinality(A \cup {x})
  BY <1>2, FS_Subset
<1>4. Cardinality(A) \in Nat /\ Cardinality(B) \in Nat /\ Cardinality(A \cup {x}) \in Nat
  BY <1>2, <1>3, FS_CardinalityType
<1> QED BY <1>2, <1>3, <1>4

(* A sequence has at most as many members as it is long. *)
LEMMA SeqBound ==
  ASSUME NEW S, NEW s \in Seq(S)
  PROVE  IsFiniteSet(ToSet(s)) /\ Cardinality(ToSet(s)) <= Len(s)
<1>1. s \in Surjection(1 .. Len(s), ToSet(s))
  BY DEF Surjection, ToSet
<1>2. IsFiniteSet(1 .. Len(s)) /\ Cardinality(1 .. Len(s)) = Len(s)
  <2>1. Len(s) \in Nat
    BY LenProperties
  <2>2. 1 \in Int /\ Len(s) \in Int /\ ~(1 > Len(s)) => Len(s) - 1 + 1 = Len(s)
    BY <2>1
  <2> QED BY <2>1, <2>2, FS_Interval
<1> QED BY <1>1, <1>2, FS_Surjection

-----------------------------------------------------------------------------
(* What the inductive invariant gives *)

(* Groups that are leased to one task each and cut disjoint give each program CPUs *)
(* of its own.                                                                   *)
LEMMA LeasesApart == Typed /\ Exclusive => OneProgramPerCpu
<1> SUFFICES ASSUME Typed, Exclusive,
                    NEW p \in Programs \cup orphans, NEW q \in Programs \cup orphans,
                    p # q, p.host = q.host
             PROVE  p.cpus \cap q.cpus = {}
  BY DEF OneProgramPerCpu
<1>1. ASSUME NEW x \in Programs
      PROVE  \E r \in Rollouts :
               /\ x = [host |-> task[r].host, cpus |-> task[r].group, kill |-> r]
               /\ x.host \in Hosts /\ r \in Holders(x.host) /\ task[r].group = x.cpus
               /\ x.cpus \in AllGroups /\ <<x.host, x.cpus>> \notin lost
  <2>1. PICK r \in Rollouts :
          /\ task[r].at = "running"
          /\ x = [host |-> task[r].host, cpus |-> task[r].group, kill |-> r]
    BY DEF Programs
  <2>2. /\ x.host = task[r].host /\ x.cpus = task[r].group
        /\ task[r].host \in Hosts /\ task[r].group \in AllGroups
    BY <2>1 DEF Typed, Tasks, Holding
  <2>3. r \in Holders(x.host)
    BY <2>1, <2>2 DEF Holders, Holding
  <2>4. <<x.host, x.cpus>> \notin lost
    BY <2>2, <2>3 DEF Exclusive
  <2> QED BY <2>1, <2>2, <2>3, <2>4
<1>2. \A o \in orphans : /\ o.host \in Hosts /\ o.cpus \in AllGroups
                         /\ <<o.host, o.cpus>> \in lost
  BY DEF Exclusive, Typed
<1>3. p.cpus \in AllGroups /\ q.cpus \in AllGroups
  BY <1>1, <1>2
<1>4. p.cpus # q.cpus
  <2>1. CASE p \in Programs /\ q \in Programs
    <3>1. PICK r \in Rollouts :
            /\ p = [host |-> task[r].host, cpus |-> task[r].group, kill |-> r]
            /\ p.host \in Hosts /\ r \in Holders(p.host) /\ task[r].group = p.cpus
      BY <2>1, <1>1
    <3>2. PICK s \in Rollouts :
            /\ q = [host |-> task[s].host, cpus |-> task[s].group, kill |-> s]
            /\ s \in Holders(q.host) /\ task[s].group = q.cpus
      BY <2>1, <1>1
    <3>3. r # s
      BY <3>1, <3>2
    <3> QED BY <3>1, <3>2, <3>3 DEF Exclusive
  <2>2. CASE p \in orphans /\ q \in orphans
    BY <2>2 DEF Exclusive
  <2>3. CASE p \in Programs /\ q \in orphans
    BY <2>3, <1>1, <1>2
  <2>4. CASE q \in Programs /\ p \in orphans
    BY <2>4, <1>1, <1>2
  <2> QED BY <2>1, <2>2, <2>3, <2>4
<1> QED BY <1>3, <1>4, GroupsDisjoint

(* A host's groups are free, held or lost, and it runs no more tasks than slots: a *)
(* task that waits finds a group unless one was lost or there are too few.       *)
LEMMA CoverSuffices == Typed /\ Bounded /\ Covered => WaitsOnlyForLost
<1> SUFFICES ASSUME Typed, Bounded, Covered, NEW h \in Hosts
             PROVE  LET waiting == {r \in On(h) : task[r].at \in Waiting}
                        gone == {l \in lost : l[1] = h}
                        excess == IF Slots(h) > NumGroups THEN Slots(h) - NumGroups ELSE 0
                    IN Cardinality(waiting) <= Len(Queue(h)) + Cardinality(gone) + excess
  BY DEF WaitsOnlyForLost
<1> DEFINE waiting == {r \in On(h) : task[r].at \in Waiting}
           gone == {l \in lost : l[1] = h}
           taken == {task[r].group : r \in Holders(h)}
           missing == {l[2] : l \in gone}
<1>1. IsFiniteSet(On(h)) /\ waiting \subseteq On(h) /\ Holders(h) \subseteq On(h)
  BY GradingAssumption, FS_Subset DEF On, Holders, Working
<1>2. IsFiniteSet(waiting) /\ IsFiniteSet(Holders(h))
  BY <1>1, FS_Subset
<1>3. Cardinality(waiting) + Cardinality(Holders(h)) <= Slots(h)
  <2>1. waiting \cap Holders(h) = {}
    BY DEF Holders, Holding, Waiting
  <2>2. Cardinality(waiting \cup Holders(h)) = Cardinality(waiting) + Cardinality(Holders(h))
    <3>1. Cardinality(waiting \cup Holders(h))
            = Cardinality(waiting) + Cardinality(Holders(h)) - Cardinality(waiting \cap Holders(h))
      BY <1>2, FS_Union
    <3>2. Cardinality(waiting) \in Nat /\ Cardinality(Holders(h)) \in Nat
      BY <1>2, FS_CardinalityType
    <3>3. Cardinality(waiting \cap Holders(h)) = 0
      BY <2>1, FS_EmptySet
    <3> HIDE DEF waiting
    <3> QED BY <3>1, <3>2, <3>3
  <2>3. Cardinality(waiting \cup Holders(h)) <= Cardinality(On(h))
    BY <1>1, FS_Subset
  <2>4. Cardinality(On(h)) <= Slots(h) /\ Cardinality(On(h)) \in Nat
    BY <1>1, FS_CardinalityType DEF Bounded
  <2>5. Cardinality(waiting \cup Holders(h)) \in Nat
    BY <1>2, UnionBound, FS_CardinalityType
  <2> QED BY <2>2, <2>3, <2>4, <2>5, Counts
<1>4. IsFiniteSet(taken) /\ Cardinality(taken) <= Cardinality(Holders(h))
  <2> DEFINE f == [r \in Holders(h) |-> task[r].group]
  <2>1. f \in Surjection(Holders(h), taken)
    BY DEF Surjection
  <2> QED BY <2>1, <1>2, FS_Surjection
<1>5. IsFiniteSet(gone) /\ IsFiniteSet(missing) /\ Cardinality(missing) <= Cardinality(gone)
  <2>1. gone \subseteq {h} \X AllGroups
    BY DEF Typed
  <2>2. IsFiniteSet(gone)
    BY <2>1, GroupCount, FS_Product, FS_Singleton, FS_Subset
  <2> DEFINE f == [l \in gone |-> l[2]]
  <2>3. f \in Surjection(gone, missing)
    BY DEF Surjection
  <2> QED BY <2>2, <2>3, FS_Surjection
<1>6. AllGroups \subseteq (ToSet(Queue(h)) \cup taken) \cup missing
  <2> SUFFICES ASSUME NEW g \in AllGroups, g \notin ToSet(Queue(h)), g \notin taken
               PROVE  g \in missing
    OBVIOUS
  <2>1. <<h, g>> \in lost
    BY DEF Covered
  <2>2. <<h, g>> \in gone /\ <<h, g>>[2] = g
    BY <2>1
  <2> QED BY <2>2
<1>7. /\ IsFiniteSet(ToSet(Queue(h))) /\ Cardinality(ToSet(Queue(h))) <= Len(Queue(h))
      /\ Len(Queue(h)) \in Nat
  BY SeqBound, LenProperties DEF Typed
<1>8. /\ IsFiniteSet(ToSet(Queue(h)) \cup taken)
      /\ Cardinality(ToSet(Queue(h)) \cup taken) <= Cardinality(ToSet(Queue(h))) + Cardinality(taken)
  BY <1>4, <1>7, UnionBound
<1>9. /\ IsFiniteSet((ToSet(Queue(h)) \cup taken) \cup missing)
      /\ Cardinality((ToSet(Queue(h)) \cup taken) \cup missing)
           <= Cardinality(ToSet(Queue(h)) \cup taken) + Cardinality(missing)
  BY <1>5, <1>8, UnionBound
<1>10. NumGroups <= Cardinality((ToSet(Queue(h)) \cup taken) \cup missing)
  BY <1>6, <1>9, GroupCount, FS_Subset
<1>11. /\ Cardinality(waiting) \in Nat /\ Cardinality(Holders(h)) \in Nat
       /\ Cardinality(taken) \in Nat /\ Cardinality(gone) \in Nat
       /\ Cardinality(missing) \in Nat /\ Cardinality(ToSet(Queue(h))) \in Nat
       /\ Cardinality(ToSet(Queue(h)) \cup taken) \in Nat
       /\ Cardinality((ToSet(Queue(h)) \cup taken) \cup missing) \in Nat
  BY <1>2, <1>4, <1>5, <1>7, <1>8, <1>9, FS_CardinalityType
<1>12. NumGroups <= Len(Queue(h)) + Cardinality(Holders(h)) + Cardinality(gone)
  <2> HIDE DEF waiting, gone, taken, missing
  <2> QED BY <1>4, <1>5, <1>7, <1>8, <1>9, <1>10, <1>11, Counts
<1> HIDE DEF waiting, gone
<1>13. Cardinality(waiting) + NumGroups
         <= Slots(h) + Len(Queue(h)) + Cardinality(gone)
  BY <1>3, <1>7, <1>11, <1>12, Counts
<1>14. CASE Slots(h) > NumGroups
  BY <1>7, <1>11, <1>13, <1>14, Counts DEF waiting, gone
<1>15. CASE ~(Slots(h) > NumGroups)
  BY <1>7, <1>11, <1>13, <1>15, Counts DEF waiting, gone
<1> QED BY <1>14, <1>15

-----------------------------------------------------------------------------
(* Initially *)

(* Nothing is asked for, leased or written yet: a fresh process and scheduler. *)
LEMMA InitIInv == Init => IInv
<1> SUFFICES ASSUME Init PROVE IInv
  OBVIOUS
<1> USE DEF Init, Idle, NoTask
<1>1. \A h \in Hosts : Queue(h) = Groups
  BY DEF Queue
<1>2. \A h \in Hosts : Queue(h) \in Seq(AllGroups) /\ IsInjective(Queue(h))
                       /\ ToSet(Queue(h)) = AllGroups
  BY <1>1, GroupsDisjoint
<1>3. Typed
  <2>1. task \in [Rollouts -> Tasks]
    BY GradingAssumption DEF Tasks, TaskStates
  <2>2. \A r \in Rollouts : task[r].at \notin Holding
    BY DEF Holding
  <2>3. archive \in [children : SUBSET Rollouts, visits : Nat] /\ kills \in 0 .. MaxKills
    BY GradingAssumption DEF NewArchive
  <2> QED BY <1>2, <2>1, <2>2, <2>3 DEF Typed
<1>4. Pooled
  BY DEF Pooled, IsInjective, ToSet
<1>5. Bounded
  <2>1. InThreads = {} /\ \A h \in Hosts : On(h) = {}
    BY DEF InThreads, On, Working, Waiting, Holding
  <2>2. Threads \in Nat
    BY GradingAssumption
  <2>3. Cardinality(InThreads) = 0 /\ \A h \in Hosts : Cardinality(On(h)) = 0
    BY <2>1, FS_EmptySet
  <2>4. \A h \in Hosts : Slots(h) \in Nat
    BY Counts
  <2> QED BY <2>2, <2>3, <2>4 DEF Bounded
<1>6. Leased
  BY <1>2 DEF Leased, Exclusive, Covered, Holders, Holding
<1>7. Files
  BY DEF Files, Working, Waiting, Holding
<1> QED BY <1>3, <1>4, <1>5, <1>6, <1>7 DEF IInv

-----------------------------------------------------------------------------
(* What an action does to the queue of a host and to a task *)

(* A request to the scheduler touches the queue of one host. *)
LEMMA QueueAfter ==
  ASSUME NEW h \in Hosts, NEW q, SetQueue(h, q)
  PROVE  /\ Queue(h)' = q /\ DOMAIN free' = DOMAIN free \cup {h}
         /\ \A k \in Hosts : k # h => Queue(k)' = Queue(k)
BY DEF SetQueue, Queue

(* get_cpu_group takes the first group of the queue of the task's host, or none. *)
LEMMA Leasing ==
  ASSUME Typed, NEW r \in Rollouts, Lease(r), NEW h \in Hosts, h = task[r].host
  PROVE  /\ DOMAIN free' \subseteq Hosts
         /\ \A k \in Hosts : k # h => Queue(k)' = Queue(k)
         /\ \/ /\ Queue(h) # <<>> /\ Head(Queue(h)) \in AllGroups
               /\ task' = [task EXCEPT ![r].at = "running", ![r].group = Head(Queue(h))]
               /\ Queue(h)' = Tail(Queue(h))
            \/ /\ task[r].at = "first" /\ task' = [task EXCEPT ![r].at = "polling"]
               /\ Queue(h)' = Queue(h)
<1>1. Queue(h) \in Seq(AllGroups) /\ DOMAIN free \subseteq Hosts
  BY DEF Typed, Tasks
<1>2. CASE Queue(h) = <<>>
  <2>1. SetQueue(h, <<>>) /\ task[r].at = "first" /\ To(r, "polling")
    BY <1>2 DEF Lease
  <2>2. Queue(h)' = <<>> /\ DOMAIN free' = DOMAIN free \cup {h}
        /\ \A k \in Hosts : k # h => Queue(k)' = Queue(k)
    BY <2>1, QueueAfter
  <2> QED BY <1>1, <1>2, <2>1, <2>2 DEF To
<1>3. CASE Queue(h) # <<>>
  <2>1. /\ SetQueue(h, Tail(Queue(h)))
        /\ task' = [task EXCEPT ![r].at = "running", ![r].group = Head(Queue(h))]
    BY <1>3 DEF Lease, Rest
  <2>2. Queue(h)' = Tail(Queue(h)) /\ DOMAIN free' = DOMAIN free \cup {h}
        /\ \A k \in Hosts : k # h => Queue(k)' = Queue(k)
    BY <2>1, QueueAfter
  <2>3. Head(Queue(h)) \in AllGroups
    BY <1>1, <1>3, HeadTailProperties
  <2> QED BY <1>1, <1>3, <2>1, <2>2, <2>3
<1> QED BY <1>2, <1>3

(* release_cpu_group appends the group a task holds to the queue of its host. *)
LEMMA Releasing ==
  ASSUME Typed, NEW r \in Rollouts, Release(r), NEW h \in Hosts, h = task[r].host
  PROVE  /\ DOMAIN free' \subseteq Hosts
         /\ task[r].at = "leaving" /\ task[r].group \in AllGroups
         /\ task' = [task EXCEPT ![r].at = "returning", ![r].group = {}]
         /\ Queue(h)' = Append(Queue(h), task[r].group)
         /\ \A k \in Hosts : k # h => Queue(k)' = Queue(k)
<1>1. DOMAIN free \subseteq Hosts
  BY DEF Typed
<1>2. SetQueue(h, Append(Queue(h), task[r].group))
  BY DEF Release, GivenBack
<1>3. task[r].at = "leaving" /\ task[r].group \in AllGroups
  BY DEF Release, Typed, Holding
<1>4. PICK q : q = Append(Queue(h), task[r].group)
  OBVIOUS
<1>5. /\ Queue(h)' = q /\ DOMAIN free' = DOMAIN free \cup {h}
      /\ \A k \in Hosts : k # h => Queue(k)' = Queue(k)
  BY <1>2, <1>4, QueueAfter
<1> QED BY <1>1, <1>3, <1>4, <1>5 DEF Release

(* Every other action leaves the scheduler alone. *)
LEMMA SchedulerKept ==
  ASSUME UNCHANGED free
  PROVE  \A h \in Hosts : Queue(h)' = Queue(h)
BY DEF Queue

-----------------------------------------------------------------------------
(* Type correctness of a step *)

(* Before its grading submits one, a rollout has no task. *)
LEMMA NoTaskType == NoTask \in Tasks /\ NoTask.at \notin Holding
BY Counts, GradingAssumption DEF NoTask, Tasks, TaskStates, Holding

(* A task that starts over or ends is a task without a group. *)
LEMMA ResetType ==
  ASSUME Typed, NEW r \in Rollouts, NEW at \in TaskStates \ Holding, Reset(r, at)
  PROVE  /\ task' \in [Rollouts -> Tasks]
         /\ \A s \in Rollouts : task'[s].at \in Holding => task'[s].group \in AllGroups
<1> DEFINE t == [NoTask EXCEPT !.at = at]
<1>1. t \in Tasks /\ t.at = at
  BY NoTaskType DEF Tasks
<1>2. task' = [task EXCEPT ![r] = t]
  BY DEF Reset
<1> HIDE DEF t
<1> QED BY <1>1, <1>2 DEF Typed

(* A task of which the fields change stays a task, as Ray and run_program keep it. *)
LEMMA TaskType ==
  ASSUME Typed, NEW r \in Rollouts, NEW t \in Tasks, task' = [task EXCEPT ![r] = t],
         t.at \in Holding => t.group \in AllGroups
  PROVE  /\ task' \in [Rollouts -> Tasks]
         /\ \A s \in Rollouts : task'[s].at \in Holding => task'[s].group \in AllGroups
BY DEF Typed

(* Every step keeps the types. *)
LEMMA TypedStep == Typed /\ Pooled /\ Next => Typed'
<1> SUFFICES ASSUME Typed, Pooled, Next PROVE Typed'
  OBVIOUS
<1> USE DEF episode, grading, disk, killed
<1> DEFINE Env == env' \in [Rollouts -> {"none", "grading", "done"}]
           Answer == answer' \in [Rollouts -> {"none", "valid", "failed", "timeout"}]
           Archive == archive' \in [children : SUBSET Rollouts, visits : Nat]
           TaskOK == /\ task' \in [Rollouts -> Tasks]
                     /\ \A s \in Rollouts : task'[s].at \in Holding => task'[s].group \in AllGroups
<1>0. /\ task \in [Rollouts -> Tasks]
      /\ \A r \in Rollouts : task[r].at \in Holding => task[r].group \in AllGroups
  BY DEF Typed
<1>a. ASSUME NEW r \in Rollouts, NEW a \in {"none", "valid", "failed", "timeout"}, Answered(r, a)
      PROVE  Env /\ Answer /\ Archive
  <2>1. Env /\ Answer
    BY <1>a DEF Answered, Typed
  <2>2. Archive
    BY <1>a DEF Answered, Typed
  <2> QED BY <2>1, <2>2
<1>1. ASSUME NEW r \in Rollouts, Step(r) PROVE Typed'
  <2>1. /\ thread' \in [Rollouts -> {"none", "queued", "waiting", "ended", "cancelled"}]
        /\ outcome' \in [Rollouts -> {"none", "valid", "failed"}]
    BY <1>1 DEF Step, Typed
  <2>2. Env /\ Answer /\ Archive
    BY <1>1, <1>a DEF Step, Typed
  <2>3. UNCHANGED <<task, free, disk, killed>>
    BY <1>1 DEF Step
  <2> QED BY <2>1, <2>2, <2>3, SchedulerKept DEF Typed
<1>2. ASSUME NEW r \in Rollouts, Deliver(r) PROVE Typed'
  <2>1. outcome[r] \in {"none", "valid", "failed"}
    BY DEF Typed
  <2>2. Env /\ Answer /\ Archive
    BY <1>2, <2>1, <1>a DEF Deliver
  <2>3. UNCHANGED <<grading, task, free, disk, killed>>
    BY <1>2 DEF Deliver
  <2> QED BY <2>2, <2>3, SchedulerKept DEF Typed
<1>3. ASSUME NEW r \in Rollouts, Expire(r) PROVE Typed'
  <2>1. Env /\ Answer /\ Archive
    BY <1>3, <1>a DEF Expire
  <2>2. thread' \in [Rollouts -> {"none", "queued", "waiting", "ended", "cancelled"}]
    BY <1>3 DEF Expire, Typed
  <2>3. UNCHANGED <<outcome, task, free, disk, killed>>
    BY <1>3 DEF Expire
  <2> QED BY <2>1, <2>2, <2>3, SchedulerKept DEF Typed
<1>4. ASSUME NEW r \in Rollouts, Begin(r) PROVE Typed'
  <2>1. /\ thread' \in [Rollouts -> {"none", "queued", "waiting", "ended", "cancelled"}]
        /\ outcome' \in [Rollouts -> {"none", "valid", "failed"}]
        /\ code' \subseteq Rollouts
    BY <1>4 DEF Begin, Typed
  <2>2. UNCHANGED task \/ Reset(r, "pending")
    BY <1>4 DEF Begin
  <2>3. "pending" \in TaskStates \ Holding
    BY DEF TaskStates, Holding
  <2>5. TaskOK
    BY <1>0, <2>2, <2>3, ResetType
  <2>6. UNCHANGED <<episode, free, results, killed>>
    BY <1>4 DEF Begin
  <2> QED BY <2>1, <2>5, <2>6, SchedulerKept DEF Typed
<1>5. ASSUME NEW r \in Rollouts, Collect(r) PROVE Typed'
  <2>1. /\ thread' \in [Rollouts -> {"none", "queued", "waiting", "ended", "cancelled"}]
        /\ outcome' \in [Rollouts -> {"none", "valid", "failed"}]
        /\ code' \subseteq Rollouts /\ results' \subseteq Rollouts
    BY <1>5 DEF Collect, Verdicts, ResultsRemoved, Typed
  <2>2. Reset(r, "none") /\ "none" \in TaskStates \ Holding
    BY <1>5 DEF Collect, TaskStates, Holding
  <2>5. TaskOK
    BY <2>2, ResetType
  <2>6. UNCHANGED <<episode, pool, free, killed>>
    BY <1>5 DEF Collect
  <2> QED BY <2>1, <2>5, <2>6, SchedulerKept DEF Typed
<1>6. ASSUME NEW r \in Rollouts, NEW h \in Hosts, Admit(r, h) PROVE Typed'
  <2>1. task' = [task EXCEPT ![r].at = "first", ![r].host = h]
        /\ UNCHANGED <<episode, grading, free, disk, killed>>
    BY <1>6 DEF Admit
  <2>2. TaskOK
    BY <1>0, <2>1 DEF Tasks, TaskStates, Working, Waiting, Holding
  <2> QED BY <2>1, <2>2, SchedulerKept DEF Typed
<1>7. ASSUME NEW r \in Rollouts, Lease(r) PROVE Typed'
  <2>1. PICK h \in Hosts : h = task[r].host
    BY <1>0 DEF Tasks
  <2>2. UNCHANGED <<episode, grading, disk, killed>>
    BY <1>7 DEF Lease
  <2>3. /\ DOMAIN free' \subseteq Hosts
        /\ \A k \in Hosts : k # h => Queue(k)' = Queue(k)
    BY <1>7, <2>1, Leasing
  <2>4. CASE /\ Queue(h) # <<>> /\ Head(Queue(h)) \in AllGroups
             /\ task' = [task EXCEPT ![r].at = "running", ![r].group = Head(Queue(h))]
             /\ Queue(h)' = Tail(Queue(h))
    <3> DEFINE t == [task[r] EXCEPT !.at = "running", !.group = Head(Queue(h))]
    <3>a. t \in Tasks /\ t.group \in AllGroups /\ task' = [task EXCEPT ![r] = t]
      BY <1>0, <2>4 DEF Tasks, TaskStates, Working, Holding
    <3>1. TaskOK
      <4> HIDE DEF t
      <4> QED BY <3>a, TaskType
    <3>2. Queue(h)' \in Seq(AllGroups)
      BY <2>4, HeadTailProperties DEF Typed
    <3> QED BY <2>2, <2>3, <3>1, <3>2 DEF Typed
  <2>5. CASE /\ task[r].at = "first" /\ task' = [task EXCEPT ![r].at = "polling"]
             /\ Queue(h)' = Queue(h)
    <3>1. TaskOK
      BY <1>0, <2>5 DEF Tasks, TaskStates, Working, Waiting, Holding
    <3> QED BY <2>2, <2>3, <2>5, <3>1 DEF Typed
  <2> QED BY <1>7, <2>1, <2>4, <2>5, Leasing
<1>8. ASSUME NEW r \in Rollouts, LeaseTimesOut(r) \/ Return(r) PROVE Typed'
  <2>1. /\ Reset(r, "raised") \/ Reset(r, "returned")
        /\ UNCHANGED <<episode, grading, free, disk, killed>>
    BY <1>8 DEF LeaseTimesOut, Return
  <2>2. {"raised", "returned"} \subseteq TaskStates \ Holding
    BY DEF TaskStates, Over, Holding
  <2>3. TaskOK
    BY <2>1, <2>2, ResetType
  <2> QED BY <2>1, <2>3, SchedulerKept DEF Typed
<1>9. ASSUME NEW r \in Rollouts, NEW ok \in BOOLEAN, ProgramEnds(r, ok) PROVE Typed'
  <2>1. UNCHANGED <<episode, grading, free, disk, killed>>
    BY <1>9 DEF ProgramEnds
  <2>2. TaskOK
    <3> DEFINE t == [task[r] EXCEPT !.at = IF ok THEN "saving" ELSE "leaving", !.ok = ok]
    <3>1. t \in Tasks /\ t.group = task[r].group /\ task' = [task EXCEPT ![r] = t]
      BY <1>0, <1>9 DEF ProgramEnds, Tasks, TaskStates, Working, Holding
    <3>2. task[r].group \in AllGroups
      BY <1>0, <1>9 DEF ProgramEnds, Holding
    <3> HIDE DEF t
    <3> QED BY <3>1, <3>2, TaskType
  <2> QED BY <2>1, <2>2, SchedulerKept DEF Typed
<1>10. ASSUME NEW r \in Rollouts, SaveResults(r) PROVE Typed'
  <2>1. results' \subseteq Rollouts /\ UNCHANGED <<episode, grading, free, code, killed>>
    BY <1>10 DEF SaveResults, Typed
  <2>2. TaskOK
    BY <1>0, <1>10 DEF SaveResults, To, Tasks, TaskStates, Working, Holding
  <2> QED BY <2>1, <2>2, SchedulerKept DEF Typed
<1>11. ASSUME NEW r \in Rollouts, Release(r) PROVE Typed'
  <2>1. PICK h \in Hosts : h = task[r].host
    BY <1>0 DEF Tasks
  <2>2. /\ DOMAIN free' \subseteq Hosts /\ task[r].group \in AllGroups
        /\ task' = [task EXCEPT ![r].at = "returning", ![r].group = {}]
        /\ Queue(h)' = Append(Queue(h), task[r].group)
        /\ \A k \in Hosts : k # h => Queue(k)' = Queue(k)
    BY <1>11, <2>1, Releasing
  <2>3. TaskOK
    <3> DEFINE t == [task[r] EXCEPT !.at = "returning", !.group = {}]
    <3>1. t \in Tasks /\ t.at \notin Holding /\ task' = [task EXCEPT ![r] = t]
      BY <1>0, <2>2 DEF Tasks, TaskStates, Working, Holding
    <3> HIDE DEF t
    <3> QED BY <3>1, TaskType
  <2>4. Queue(h)' \in Seq(AllGroups)
    BY <2>2, AppendProperties DEF Typed
  <2>5. UNCHANGED <<episode, grading, disk, killed>>
    BY <1>11 DEF Release
  <2>6. \A k \in Hosts : Queue(k)' \in Seq(AllGroups)
    BY <2>2, <2>4 DEF Typed
  <2> QED BY <2>2, <2>3, <2>5, <2>6 DEF Typed
<1>12. ASSUME NEW r \in Rollouts, WorkerKilled(r) PROVE Typed'
  <2>1. kills' \in 0 .. MaxKills /\ lost' \subseteq Hosts \X AllGroups
    BY <1>0, <1>12, GradingAssumption DEF WorkerKilled, Lose, Typed, Tasks
  <2>2. KilledWorker(r) \in Tasks /\ KilledWorker(r).at \notin Holding
    <3>1. task[r].tries \in 0 .. MaxRetries
      BY <1>0 DEF Tasks
    <3>2. CASE task[r].tries < MaxRetries
      <4>1. task[r].tries + 1 \in 0 .. MaxRetries
        BY <3>1, <3>2, Counts
      <4> QED BY <3>2, <4>1, NoTaskType DEF KilledWorker, Tasks, TaskStates, Holding
    <3>3. CASE ~(task[r].tries < MaxRetries)
      BY <3>3, NoTaskType DEF KilledWorker, Tasks, TaskStates, Over, Holding
    <3> QED BY <3>2, <3>3
  <2>3. TaskOK
    BY <1>0, <1>12, <2>2 DEF WorkerKilled
  <2>4. UNCHANGED <<episode, grading, free, disk>>
    BY <1>12 DEF WorkerKilled
  <2> QED BY <2>1, <2>3, <2>4, SchedulerKept DEF Typed
<1>13. ASSUME Restart PROVE Typed'
  <2>1. kills' \in 0 .. MaxKills /\ lost' \subseteq Hosts \X AllGroups
    BY <1>0, <1>13, GradingAssumption DEF Restart, Lose, Typed, Tasks
  <2>3. TaskOK
    BY <1>13, NoTaskType DEF Restart, Idle
  <2>4. Archive
    BY <1>13 DEF Restart, NewArchive
  <2>5. /\ env' = Idle("none") /\ answer' = Idle("none") /\ thread' = Idle("none")
        /\ outcome' = Idle("none") /\ code' = {} /\ results' = {} /\ UNCHANGED free
    BY <1>13 DEF Restart
  <2> QED BY <2>1, <2>3, <2>4, <2>5, SchedulerKept DEF Typed, Idle
<1>14. ASSUME OrphanEnds PROVE Typed'
  <2>1. UNCHANGED <<episode, grading, task, free, disk, kills, lost>>
    BY <1>14 DEF OrphanEnds
  <2> QED BY <2>1, SchedulerKept DEF Typed
<1> QED BY <1>1, <1>2, <1>3, <1>4, <1>5, <1>6, <1>7, <1>8, <1>9, <1>10, <1>11, <1>12,
           <1>13, <1>14 DEF Next, Progress, RunProgram

-----------------------------------------------------------------------------
(* The other parts of the invariant, step by step *)

\* What happens on the workers of Ray, the training process being alive.
OnWorkers(r) == (\E h \in Hosts : Admit(r, h)) \/ RunProgram(r) \/ WorkerKilled(r)

(* Workers touch neither the event loop's nor the threads' state, nor the code. *)
LEMMA WorkersApart ==
  ASSUME NEW r \in Rollouts, OnWorkers(r)
  PROVE  UNCHANGED <<episode, grading, code>>
BY DEF OnWorkers, RunProgram, Admit, Lease, LeaseTimesOut, ProgramEnds, SaveResults, Release,
       Return, WorkerKilled, disk

(* Every step is one of these. *)
LEMMA Cases ==
  ASSUME Next
  PROVE  \/ \E r \in Rollouts : Step(r) \/ Deliver(r) \/ Expire(r) \/ Begin(r) \/ Collect(r)
         \/ \E r \in Rollouts : OnWorkers(r)
         \/ Restart \/ OrphanEnds
BY DEF Next, Progress, OnWorkers

(* The pool: submit appends a grading that was not in it, a thread takes the first *)
(* one, and a cancelled one leaves it.                                          *)
LEMMA PooledStep == Typed /\ Pooled /\ Next => Pooled'
<1> SUFFICES ASSUME Typed, Pooled, Next PROVE Pooled'
  OBVIOUS
<1> USE DEF episode, grading
<1>0. /\ pool \in Seq(Rollouts) /\ IsInjective(pool)
      /\ ToSet(pool) = {r \in Rollouts : thread[r] = "queued"}
      /\ thread \in [Rollouts -> {"none", "queued", "waiting", "ended", "cancelled"}]
      /\ env \in [Rollouts -> {"none", "grading", "done"}]
  BY DEF Pooled, Typed
<1>a. ASSUME UNCHANGED <<pool, thread>>, \A r \in Rollouts : env[r] # "none" => env'[r] # "none"
      PROVE  Pooled'
  BY <1>a, <1>0 DEF Pooled
<1>1. ASSUME NEW r \in Rollouts, Step(r) PROVE Pooled'
  <2>1. CASE UNCHANGED grading /\ Answered(r, "failed")
    BY <2>1, <1>0, <1>a DEF Answered
  <2>2. CASE /\ env' = [env EXCEPT ![r] = "grading"]
             /\ thread' = [thread EXCEPT ![r] = "queued"] /\ pool' = Append(pool, r)
    <3>1. thread[r] = "none"
      BY <1>1 DEF Step, Pooled
    <3>2. r \notin ToSet(pool)
      BY <1>0, <3>1
    <3>3. /\ Append(pool, r) \in Seq(Rollouts) /\ IsInjective(Append(pool, r))
          /\ ToSet(Append(pool, r)) = ToSet(pool) \cup {r}
      BY <1>0, <3>2, AppendToInjective
    <3>4. ToSet(pool) \cup {r} = {q \in Rollouts : thread'[q] = "queued"}
      BY <1>0, <2>2
    <3>5. \A q \in Rollouts : env'[q] = "none" => thread'[q] = "none"
      BY <1>0, <2>2 DEF Pooled
    <3> QED BY <2>2, <3>3, <3>4, <3>5 DEF Pooled
  <2> QED BY <1>1, <2>1, <2>2 DEF Step
<1>2. ASSUME NEW r \in Rollouts, Deliver(r) PROVE Pooled'
  BY <1>2, <1>0, <1>a DEF Deliver, Answered
<1>3. ASSUME NEW r \in Rollouts, Expire(r) PROVE Pooled'
  <2>1. env' = [env EXCEPT ![r] = "done"]
    BY <1>3 DEF Expire, Answered
  <2>2. CASE thread[r] = "queued"
    <3> DEFINE i == CHOOSE i \in DOMAIN pool : pool[i] = r
    <3>1. i \in DOMAIN pool /\ pool[i] = r
      <4>1. r \in ToSet(pool)
        BY <1>0, <2>2
      <4>2. \E j \in DOMAIN pool : pool[j] = r
        BY <4>1 DEF ToSet
      <4> QED BY <4>2
    <3>2. thread' = [thread EXCEPT ![r] = "cancelled"] /\ pool' = RemoveAt(pool, i)
      BY <1>3, <2>2 DEF Expire, PoolWithout
    <3> HIDE DEF i
    <3>3. /\ RemoveAt(pool, i) \in Seq(Rollouts) /\ IsInjective(RemoveAt(pool, i))
          /\ ToSet(RemoveAt(pool, i)) = ToSet(pool) \ {r}
      BY <1>0, <3>1, RemoveFromInjective
    <3>4. ToSet(pool) \ {r} = {q \in Rollouts : thread'[q] = "queued"}
      BY <1>0, <3>2
    <3>5. \A q \in Rollouts : env'[q] = "none" => thread'[q] = "none"
      BY <1>0, <2>1, <3>2 DEF Pooled
    <3> QED BY <3>2, <3>3, <3>4, <3>5 DEF Pooled
  <2>3. CASE thread[r] # "queued"
    BY <1>3, <1>0, <1>a, <2>1, <2>3 DEF Expire
  <2> QED BY <2>2, <2>3
<1>4. ASSUME NEW r \in Rollouts, Begin(r) PROVE Pooled'
  <2>1. /\ pool # <<>> /\ r = Head(pool) /\ pool' = Tail(pool) /\ UNCHANGED env
        /\ \E t \in {"ended", "waiting"} : thread' = [thread EXCEPT ![r] = t]
    BY <1>4 DEF Begin
  <2>2. /\ Tail(pool) \in Seq(Rollouts) /\ IsInjective(Tail(pool)) /\ r \in ToSet(pool)
        /\ ToSet(Tail(pool)) = ToSet(pool) \ {r}
    BY <1>0, <2>1, TailOfInjective
  <2>3. ToSet(pool) \ {r} = {q \in Rollouts : thread'[q] = "queued"}
    BY <1>0, <2>1
  <2>4. thread[r] = "queued"
    BY <1>0, <2>2
  <2>5. \A q \in Rollouts : env'[q] = "none" => thread'[q] = "none"
    BY <1>0, <2>1, <2>4 DEF Pooled
  <2> QED BY <2>1, <2>2, <2>3, <2>5 DEF Pooled
<1>5. ASSUME NEW r \in Rollouts, Collect(r) PROVE Pooled'
  <2>1. /\ thread[r] = "waiting" /\ thread' = [thread EXCEPT ![r] = "ended"]
        /\ UNCHANGED <<env, pool>>
    BY <1>5 DEF Collect
  <2>2. ToSet(pool) = {q \in Rollouts : thread'[q] = "queued"}
    BY <1>0, <2>1
  <2> QED BY <1>0, <2>1, <2>2 DEF Pooled
<1>6. ASSUME NEW r \in Rollouts, OnWorkers(r) PROVE Pooled'
  BY <1>6, <1>a, WorkersApart
<1>7. CASE Restart
  BY <1>7, EmptySeq DEF Restart, Pooled, Idle, IsInjective, ToSet
<1>8. CASE OrphanEnds
  BY <1>8, <1>a DEF OrphanEnds
<1> QED BY <1>1, <1>2, <1>3, <1>4, <1>5, <1>6, <1>7, <1>8, Cases

(* A thread begins only if one is left, and Ray starts a task only where a slot is. *)
LEMMA BoundedStep == Typed /\ Bounded /\ Next => Bounded'
<1> SUFFICES ASSUME Typed, Bounded, Next PROVE Bounded'
  OBVIOUS
<1> USE DEF episode, grading
<1>0. /\ IsFiniteSet(InThreads) /\ Cardinality(InThreads) \in Nat
      /\ \A h \in Hosts : IsFiniteSet(On(h)) /\ Cardinality(On(h)) \in Nat
  BY GradingAssumption, FS_Subset, FS_CardinalityType DEF InThreads, On
<1>t. task \in [Rollouts -> Tasks]
      /\ thread \in [Rollouts -> {"none", "queued", "waiting", "ended", "cancelled"}]
  BY DEF Typed
<1>a. ASSUME InThreads' \subseteq InThreads PROVE Cardinality(InThreads)' <= Threads
  <2>1. IsFiniteSet(InThreads') /\ Cardinality(InThreads') <= Cardinality(InThreads)
    BY <1>0, <1>a, FS_Subset
  <2>2. Cardinality(InThreads') \in Nat
    BY <2>1, FS_CardinalityType
  <2> QED BY <1>0, <2>1, <2>2, Counts DEF Bounded
<1>b. ASSUME NEW h \in Hosts, On(h)' \subseteq On(h) PROVE Cardinality(On(h))' <= Slots(h)
  <2>1. IsFiniteSet(On(h)') /\ Cardinality(On(h)') <= Cardinality(On(h))
    BY <1>0, <1>b, FS_Subset
  <2>2. Cardinality(On(h)') \in Nat
    BY <2>1, FS_CardinalityType
  <2> QED BY <1>0, <2>1, <2>2, Counts DEF Bounded
<1>1. Cardinality(InThreads)' <= Threads
  <2>1. ASSUME NEW r \in Rollouts, Begin(r) PROVE Cardinality(InThreads)' <= Threads
    <3>1. InThreads' \subseteq InThreads \cup {r}
      BY <2>1, <1>t DEF Begin, InThreads
    <3>2. /\ Cardinality(InThreads') \in Nat
          /\ Cardinality(InThreads') <= Cardinality(InThreads) + 1
      BY <1>0, <3>1, OneMore
    <3>3. Cardinality(InThreads) < Threads
      BY <2>1 DEF Begin
    <3> QED BY <1>0, <3>2, <3>3, Counts
  <2>2. ASSUME NEW r \in Rollouts, Step(r) \/ Deliver(r) \/ Expire(r) \/ Collect(r)
        PROVE  InThreads' \subseteq InThreads
    BY <2>2, <1>t DEF Step, Deliver, Expire, Collect, InThreads
  <2>3. ASSUME NEW r \in Rollouts, OnWorkers(r) PROVE InThreads' \subseteq InThreads
    BY <2>3, WorkersApart DEF InThreads
  <2>4. CASE Restart
    BY <2>4, <1>a DEF Restart, Idle, InThreads
  <2>5. CASE OrphanEnds
    BY <2>5, <1>a DEF OrphanEnds, InThreads
  <2> QED BY <1>a, <2>1, <2>2, <2>3, <2>4, <2>5, Cases
<1>2. ASSUME NEW h \in Hosts PROVE Cardinality(On(h))' <= Slots(h)
  <2>1. ASSUME NEW r \in Rollouts, Admit(r, h) PROVE Cardinality(On(h))' <= Slots(h)
    <3>1. On(h)' \subseteq On(h) \cup {r}
      BY <2>1, <1>t DEF Admit, On, Tasks
    <3>2. Cardinality(On(h)') \in Nat /\ Cardinality(On(h)') <= Cardinality(On(h)) + 1
      BY <1>0, <3>1, OneMore
    <3>3. Cardinality(On(h)) < Slots(h)
      BY <2>1 DEF Admit
    <3> QED BY <1>0, <3>2, <3>3, Counts
  <2>2. ASSUME NEW r \in Rollouts, NEW k \in Hosts, k # h, Admit(r, k)
        PROVE  On(h)' \subseteq On(h)
    BY <2>2, <1>t DEF Admit, On, Tasks
  <2>3. ASSUME NEW r \in Rollouts, RunProgram(r) PROVE On(h)' \subseteq On(h)
    <3>1. CASE Lease(r)
      <4>1. /\ task[r].at \in Waiting
            /\ \E q : \/ task' = [task EXCEPT ![r].at = "polling"]
                      \/ task' = [task EXCEPT ![r].at = "running", ![r].group = q]
        BY <3>1 DEF Lease, To
      <4> QED BY <4>1, <1>t DEF On, Tasks, Working
    <3>2. CASE LeaseTimesOut(r) \/ Return(r)
      <4>1. \A s \in Rollouts : task'[s] = task[s] \/ task'[s].at \in Over
        BY <3>2, <1>t DEF LeaseTimesOut, Return, Reset, NoTask, Over, Tasks
      <4>2. Over \cap Working = {}
        BY DEF Over, Working, Waiting, Holding
      <4> QED BY <4>1, <4>2 DEF On
    <3>3. CASE \E ok \in BOOLEAN : ProgramEnds(r, ok)
      BY <3>3, <1>t DEF ProgramEnds, On, Tasks, Working, Holding
    <3>4. CASE SaveResults(r) \/ Release(r)
      BY <3>4, <1>t DEF SaveResults, To, Release, On, Tasks, Working, Holding
    <3> QED BY <2>3, <3>1, <3>2, <3>3, <3>4 DEF RunProgram
  <2>4. ASSUME NEW r \in Rollouts, WorkerKilled(r) PROVE On(h)' \subseteq On(h)
    <3>1. KilledWorker(r).at \notin Working
      BY DEF KilledWorker, NoTask, Working, Waiting, Holding
    <3>2. \A s \in Rollouts : task'[s] = IF s = r THEN KilledWorker(r) ELSE task[s]
      BY <2>4, <1>t DEF WorkerKilled
    <3> QED BY <3>1, <3>2 DEF On
  <2>5. ASSUME NEW r \in Rollouts, Begin(r) \/ Collect(r) PROVE On(h)' \subseteq On(h)
    <3>1. \A s \in Rollouts : task'[s] = task[s] \/ task'[s].at \in {"pending", "none"}
      BY <2>5, <1>t DEF Begin, Collect, Reset, NoTask
    <3> QED BY <3>1 DEF On, Working, Waiting, Holding
  <2>6. ASSUME NEW r \in Rollouts, Step(r) \/ Deliver(r) \/ Expire(r)
        PROVE  On(h)' \subseteq On(h)
    BY <2>6 DEF Step, Deliver, Expire, On
  <2>7. ASSUME Restart PROVE On(h)' \subseteq On(h)
    BY <2>7 DEF Restart, Idle, NoTask, On, Working, Waiting, Holding
  <2>8. ASSUME OrphanEnds PROVE On(h)' \subseteq On(h)
    BY <2>8 DEF OrphanEnds, On
  <2> QED BY <1>b, <2>1, <2>2, <2>3, <2>4, <2>5, <2>6, <2>7, <2>8, Cases DEF OnWorkers
<1> QED BY <1>1, <1>2 DEF Bounded, Slots

\* A step that leaves every lease as it is: some programs of before may end.
LeasesKept ==
  /\ \A h \in Hosts : Queue(h)' = Queue(h)
  /\ lost' = lost /\ orphans' \subseteq orphans
  /\ \A r \in Rollouts :
       /\ task'[r].at \in Holding <=> task[r].at \in Holding
       /\ task[r].at \in Holding =>
            task'[r].host = task[r].host /\ task'[r].group = task[r].group

(* Such a step keeps the leases apart and loses no group. *)
LEMMA KeptLeased == Leased /\ LeasesKept => Leased'
<1> SUFFICES ASSUME Leased, LeasesKept PROVE Leased'
  OBVIOUS
<1>1. \A h \in Hosts : Holders(h)' = Holders(h)
  BY DEF LeasesKept, Holders
<1>2. \A r \in Rollouts, h \in Hosts : r \in Holders(h) => task'[r].group = task[r].group
  BY DEF LeasesKept, Holders
<1>3. Exclusive'
  BY <1>1, <1>2 DEF Leased, Exclusive, LeasesKept, Holders
<1>4. Covered'
  BY <1>1, <1>2 DEF Leased, Covered, LeasesKept, Holders
<1> QED BY <1>3, <1>4 DEF Leased

(* get_cpu_group moves the first group of a queue to one task. *)
LEMMA LeaseLeased ==
  ASSUME Typed, Leased, NEW r \in Rollouts, Lease(r) PROVE Leased'
<1>t. task \in [Rollouts -> Tasks]
  BY DEF Typed
<1>1. PICK h \in Hosts : h = task[r].host
  BY <1>t DEF Tasks
<1>2. UNCHANGED killed /\ task[r].at \in Waiting
  BY DEF Lease
<1>3. \A k \in Hosts : k # h => Queue(k)' = Queue(k)
  BY <1>1, Leasing
<1>4. CASE /\ task[r].at = "first" /\ task' = [task EXCEPT ![r].at = "polling"]
           /\ Queue(h)' = Queue(h)
  <2>1. LeasesKept
    BY <1>t, <1>2, <1>3, <1>4 DEF LeasesKept, killed, Tasks, Holding
  <2> QED BY <2>1, KeptLeased
<1>5. CASE /\ Queue(h) # <<>> /\ Head(Queue(h)) \in AllGroups
           /\ task' = [task EXCEPT ![r].at = "running", ![r].group = Head(Queue(h))]
           /\ Queue(h)' = Tail(Queue(h))
  <2> DEFINE g == Head(Queue(h))
  <2>1. /\ IsInjective(Tail(Queue(h))) /\ g \in ToSet(Queue(h))
        /\ ToSet(Tail(Queue(h))) = ToSet(Queue(h)) \ {g}
    BY <1>5, TailOfInjective DEF Leased, Exclusive, Typed
  <2>2. /\ task'[r].at = "running" /\ task'[r].host = h /\ task'[r].group = g
        /\ \A s \in Rollouts : s # r => task'[s] = task[s]
    BY <1>t, <1>1, <1>5 DEF Tasks
  <2>3. g \in AllGroups /\ r \notin Holders(h) /\ UNCHANGED <<lost, orphans>>
    BY <1>2, <1>5 DEF Holders, Waiting, Holding, killed
  <2> HIDE DEF g
  <2>4. Holders(h)' = Holders(h) \cup {r} /\ \A k \in Hosts : k # h => Holders(k)' = Holders(k)
    BY <1>1, <1>2, <2>2 DEF Holders, Holding, Waiting
  <2>5. /\ IsInjective(Queue(h)') /\ ToSet(Queue(h)') = ToSet(Queue(h)) \ {g}
    BY <1>5, <2>1
  <2>6. \A s \in Holders(h) : task'[s].group = task[s].group /\ task[s].group # g
    BY <2>1, <2>2, <2>3 DEF Leased, Exclusive, Holders
  <2>7. <<h, g>> \notin lost
    BY <2>1 DEF Leased, Exclusive
  <2>8. \A k \in Hosts : IsInjective(Queue(k)')
    BY <1>3, <2>5 DEF Leased, Exclusive
  <2>9. ASSUME NEW k \in Hosts, NEW s \in Holders(k)'
        PROVE  /\ task'[s].group \notin ToSet(Queue(k)') /\ <<k, task'[s].group>> \notin lost
               /\ \A q \in Holders(k)' : q # s => task'[q].group # task'[s].group
    <3>1. CASE k = h
      BY <3>1, <2>2, <2>4, <2>5, <2>6, <2>7 DEF Leased, Exclusive
    <3>2. CASE k # h
      <4>1. r \notin Holders(k) /\ Queue(k)' = Queue(k) /\ Holders(k)' = Holders(k)
        BY <3>2, <1>1, <1>3, <2>4 DEF Holders
      <4>2. \A q \in Holders(k) : task'[q] = task[q]
        BY <4>1, <2>2 DEF Holders
      <4> QED BY <2>9, <4>1, <4>2 DEF Leased, Exclusive
    <3> QED BY <3>1, <3>2
  <2>10. \A k \in Hosts : \A f \in ToSet(Queue(k)') : <<k, f>> \notin lost
    BY <1>3, <2>5 DEF Leased, Exclusive
  <2>11. Exclusive'
    BY <2>3, <2>8, <2>9, <2>10 DEF Leased, Exclusive
  <2>12. ASSUME NEW k \in Hosts, NEW f \in AllGroups
         PROVE  \/ f \in ToSet(Queue(k)')
                \/ \E s \in Holders(k)' : task'[s].group = f
                \/ <<k, f>> \in lost
    <3>1. CASE k = h /\ f = g
      BY <3>1, <2>2, <2>4
    <3>2. CASE k = h /\ f # g
      BY <3>2, <2>4, <2>5, <2>6 DEF Leased, Covered
    <3>3. CASE k # h
      <4>1. r \notin Holders(k) /\ Queue(k)' = Queue(k) /\ Holders(k)' = Holders(k)
        BY <3>3, <1>1, <1>3, <2>4 DEF Holders
      <4>2. \A q \in Holders(k) : task'[q] = task[q]
        BY <4>1, <2>2 DEF Holders
      <4> QED BY <4>1, <4>2 DEF Leased, Covered
    <3> QED BY <3>1, <3>2, <3>3
  <2>13. Covered'
    BY <2>3, <2>12 DEF Covered, AllGroups, Groups, FirstCpu, NumGroups
  <2> QED BY <2>11, <2>13 DEF Leased
<1> QED BY <1>1, <1>4, <1>5, Leasing

(* release_cpu_group moves the group of one task back to the queue. *)
LEMMA ReleaseLeased ==
  ASSUME Typed, Leased, NEW r \in Rollouts, Release(r) PROVE Leased'
<1>t. task \in [Rollouts -> Tasks]
  BY DEF Typed
<1>1. PICK h \in Hosts : h = task[r].host
  BY <1>t DEF Tasks
<1>2. PICK g : g = task[r].group
  OBVIOUS
<1>3. /\ task[r].at = "leaving" /\ g \in AllGroups
      /\ task' = [task EXCEPT ![r].at = "returning", ![r].group = {}]
      /\ Queue(h)' = Append(Queue(h), g)
      /\ \A k \in Hosts : k # h => Queue(k)' = Queue(k)
  BY <1>1, <1>2, Releasing
<1>4. UNCHANGED <<lost, orphans>>
  BY DEF Release, killed
<1>5. r \in Holders(h) /\ \A k \in Hosts : k # h => r \notin Holders(k)
  BY <1>1, <1>3 DEF Holders, Holding
<1>6. g \notin ToSet(Queue(h)) /\ <<h, g>> \notin lost
  BY <1>2, <1>5 DEF Leased, Exclusive
<1>7. IsInjective(Queue(h)') /\ ToSet(Queue(h)') = ToSet(Queue(h)) \cup {g}
  BY <1>3, <1>6, AppendToInjective DEF Leased, Exclusive, Typed
<1>8. /\ task'[r].at = "returning"
      /\ \A s \in Rollouts : s # r => task'[s] = task[s]
  BY <1>t, <1>3 DEF Tasks
<1>9. \A k \in Hosts : Holders(k)' = Holders(k) \ {r}
  BY <1>8 DEF Holders, Holding
<1>10. \A k \in Hosts : \A s \in Holders(k)' : s \in Holders(k) /\ task'[s] = task[s]
  BY <1>8, <1>9 DEF Holders
<1>11. \A s \in Holders(h)' : task[s].group # g
  <2>1. \A s \in Holders(h) : s # r => task[s].group # task[r].group
    BY <1>5 DEF Leased, Exclusive
  <2>2. Holders(h)' = Holders(h) \ {r}
    BY <1>9
  <2> QED BY <1>2, <2>1, <2>2
<1>12. Exclusive'
  <2>1. \A k \in Hosts : IsInjective(Queue(k)')
    BY <1>3, <1>7 DEF Leased, Exclusive
  <2>2. ASSUME NEW k \in Hosts, NEW s \in Holders(k)'
        PROVE  /\ task'[s].group \notin ToSet(Queue(k)') /\ <<k, task'[s].group>> \notin lost
               /\ \A q \in Holders(k)' : q # s => task'[q].group # task'[s].group
    <3>1. task[s].group \notin ToSet(Queue(k)) /\ <<k, task[s].group>> \notin lost
          /\ \A q \in Holders(k) : q # s => task[q].group # task[s].group
      BY <1>10 DEF Leased, Exclusive
    <3>2. CASE k = h
      BY <3>1, <3>2, <1>7, <1>10, <1>11
    <3>3. CASE k # h
      BY <3>1, <3>3, <1>3, <1>10
    <3> QED BY <3>2, <3>3
  <2>3. \A k \in Hosts : \A f \in ToSet(Queue(k)') : <<k, f>> \notin lost
    BY <1>3, <1>6, <1>7 DEF Leased, Exclusive
  <2> QED BY <1>4, <2>1, <2>2, <2>3 DEF Leased, Exclusive
<1>13. Covered'
  <2>1. ASSUME NEW k \in Hosts, NEW f \in AllGroups
        PROVE  \/ f \in ToSet(Queue(k)')
               \/ \E s \in Holders(k)' : task'[s].group = f
               \/ <<k, f>> \in lost
    <3>1. CASE f \in ToSet(Queue(k)) \/ <<k, f>> \in lost
      BY <3>1, <1>3, <1>7
    <3>2. ASSUME NEW s \in Holders(k), task[s].group = f, s # r
          PROVE  \E q \in Holders(k)' : task'[q].group = f
      BY <3>2, <1>9, <1>10
    <3>3. CASE r \in Holders(k) /\ task[r].group = f
      BY <3>3, <1>2, <1>5, <1>7
    <3> QED BY <3>1, <3>2, <3>3 DEF Leased, Covered
  <2> QED BY <1>4, <2>1 DEF Covered, AllGroups, Groups, FirstCpu, NumGroups
<1> QED BY <1>12, <1>13 DEF Leased

(* A kill makes the groups of the killed holders lost, and a program that goes on *)
(* without its worker has a group to itself.                                    *)
LEMMA LoseLeased ==
  ASSUME Typed, Leased, NEW K \in SUBSET Rollouts, Lose(K), UNCHANGED free,
         \A r \in Rollouts : IF r \in K THEN task'[r].at \notin Holding ELSE task'[r] = task[r]
  PROVE  Leased'
<1>1. \A h \in Hosts : Queue(h)' = Queue(h)
  BY SchedulerKept
<1>2. \A h \in Hosts : Holders(h)' = Holders(h) \ K
  BY DEF Holders
<1>3. \A h \in Hosts : \A s \in Holders(h)' : s \in Holders(h) /\ task'[s] = task[s]
  BY <1>2 DEF Holders
<1>4. lost' = lost \cup {<<task[r].host, task[r].group>> : r \in {s \in K : task[s].at \in Holding}}
  BY DEF Lose
<1>5. ASSUME NEW h \in Hosts, NEW g, <<h, g>> \in lost', <<h, g>> \notin lost
      PROVE  \E r \in K \cap Holders(h) : task[r].group = g
  <2>1. PICK r \in K : task[r].at \in Holding /\ <<h, g>> = <<task[r].host, task[r].group>>
    BY <1>4, <1>5
  <2> QED BY <2>1 DEF Holders
<1>6. \A h \in Hosts : \A r \in K \cap Holders(h) : <<h, task[r].group>> \in lost'
  BY <1>4 DEF Holders
<1>7. lost \subseteq lost'
  BY <1>4
<1>8. ASSUME NEW o \in orphans', o \notin orphans
      PROVE  \E r \in K : /\ o = [host |-> task[r].host, cpus |-> task[r].group, kill |-> kills]
                          /\ task[r].host \in Hosts /\ r \in Holders(task[r].host)
                          /\ o.host = task[r].host /\ o.cpus = task[r].group
  <2>1. PICK r \in {s \in K : task[s].at = "running"} :
          o = [host |-> task[r].host, cpus |-> task[r].group, kill |-> kills]
    BY <1>8 DEF Lose
  <2>2. r \in K /\ task[r].at = "running" /\ task[r].host \in Hosts
    BY <2>1 DEF Typed, Tasks
  <2>3. r \in Holders(task[r].host)
    BY <2>2 DEF Holders, Holding
  <2> QED BY <2>1, <2>2, <2>3
<1>9. Exclusive'
  <2>1. ASSUME NEW h \in Hosts, NEW s \in Holders(h)'
        PROVE  /\ task'[s].group \notin ToSet(Queue(h)') /\ <<h, task'[s].group>> \notin lost'
               /\ \A q \in Holders(h)' : q # s => task'[q].group # task'[s].group
    <3>1. s \in Holders(h) /\ task'[s] = task[s] /\ s \notin K
      BY <1>2, <1>3
    <3>2. <<h, task[s].group>> \notin lost'
      BY <3>1, <1>5 DEF Leased, Exclusive
    <3> QED BY <3>1, <3>2, <1>1, <1>3 DEF Leased, Exclusive
  <2>2. ASSUME NEW h \in Hosts, NEW g \in ToSet(Queue(h)') PROVE <<h, g>> \notin lost'
    BY <1>1, <1>5 DEF Leased, Exclusive
  <2>3. \A o \in orphans' : o.host \in Hosts /\ <<o.host, o.cpus>> \in lost'
    BY <1>6, <1>7, <1>8 DEF Leased, Exclusive
  <2>4. ASSUME NEW o \in orphans', NEW p \in orphans', o.host = p.host, o.cpus = p.cpus
        PROVE  o = p
    <3>1. ASSUME NEW x \in orphans', x \notin orphans
          PROVE  <<x.host, x.cpus>> \notin lost
      BY <3>1, <1>8 DEF Leased, Exclusive
    <3>2. \A x \in orphans : <<x.host, x.cpus>> \in lost
      BY DEF Leased, Exclusive
    <3>3. CASE o \in orphans /\ p \in orphans
      BY <3>3, <2>4 DEF Leased, Exclusive
    <3>4. CASE o \notin orphans /\ p \notin orphans
      <4>1. PICK r \in K : /\ o = [host |-> task[r].host, cpus |-> task[r].group, kill |-> kills]
                           /\ task[r].host \in Hosts /\ r \in Holders(task[r].host)
                           /\ o.host = task[r].host /\ o.cpus = task[r].group
        BY <3>4, <1>8
      <4>2. PICK s \in K : /\ p = [host |-> task[s].host, cpus |-> task[s].group, kill |-> kills]
                           /\ task[s].host \in Hosts /\ s \in Holders(task[s].host)
                           /\ p.host = task[s].host /\ p.cpus = task[s].group
        BY <3>4, <1>8
      <4> QED BY <4>1, <4>2, <2>4
    <3> QED BY <3>1, <3>2, <3>3, <3>4, <2>4
  <2> QED BY <1>1, <2>1, <2>2, <2>3, <2>4 DEF Leased, Exclusive
<1>10. Covered'
  <2>1. ASSUME NEW h \in Hosts, NEW g \in AllGroups
        PROVE  \/ g \in ToSet(Queue(h)')
               \/ \E s \in Holders(h)' : task'[s].group = g
               \/ <<h, g>> \in lost'
    <3>1. CASE g \in ToSet(Queue(h)) \/ <<h, g>> \in lost
      BY <3>1, <1>1, <1>7
    <3>2. ASSUME NEW s \in Holders(h), task[s].group = g
          PROVE  (\E q \in Holders(h)' : task'[q].group = g) \/ <<h, g>> \in lost'
      BY <3>2, <1>2, <1>3, <1>6
    <3> QED BY <3>1, <3>2 DEF Leased, Covered
  <2> QED BY <2>1 DEF Covered, AllGroups, Groups, FirstCpu, NumGroups
<1> QED BY <1>9, <1>10 DEF Leased

(* Every step keeps the leases apart and loses no group but with its holder. *)
LEMMA LeasedStep == IInv /\ Next => Leased'
<1> SUFFICES ASSUME IInv, Next PROVE Leased'
  OBVIOUS
<1> USE DEF killed
<1>0. Typed /\ Pooled /\ Leased /\ Files
  BY DEF IInv
<1>t. /\ task \in [Rollouts -> Tasks]
      /\ thread \in [Rollouts -> {"none", "queued", "waiting", "ended", "cancelled"}]
  BY <1>0 DEF Typed
<1>q. \A r \in Rollouts : thread[r] = "queued" => task[r].at = "none"
  BY <1>0 DEF Files
<1>1. ASSUME NEW r \in Rollouts, Step(r) \/ Deliver(r) \/ Expire(r) PROVE Leased'
  <2>1. UNCHANGED <<task, free, killed>>
    BY <1>1 DEF Step, Deliver, Expire
  <2> QED BY <2>1, <1>0, SchedulerKept, KeptLeased DEF LeasesKept
<1>2. ASSUME NEW r \in Rollouts, Begin(r) \/ Collect(r) PROVE Leased'
  <2>1. UNCHANGED <<free, killed>>
    BY <1>2 DEF Begin, Collect
  <2>2. task[r].at \notin Holding
    <3>1. CASE Begin(r)
      <4>1. r \in ToSet(pool)
        BY <3>1, <1>0, TailOfInjective DEF Begin, Pooled
      <4> QED BY <4>1, <1>0, <1>q DEF Pooled, Holding
    <3>2. CASE Collect(r)
      BY <3>2 DEF Collect, Over, Holding
    <3> QED BY <1>2, <3>1, <3>2
  <2>3. \A s \in Rollouts : task'[s] = task[s] \/ (s = r /\ task'[s].at \in {"pending", "none"})
    BY <1>2, <1>t DEF Begin, Collect, Reset, NoTask
  <2>4. {"pending", "none"} \cap Holding = {}
    BY DEF Holding
  <2> QED BY <2>1, <2>2, <2>3, <2>4, <1>0, SchedulerKept, KeptLeased DEF LeasesKept
<1>3. ASSUME NEW r \in Rollouts, NEW h \in Hosts, Admit(r, h) PROVE Leased'
  <2>1. LeasesKept
    BY <1>3, <1>t, SchedulerKept DEF Admit, LeasesKept, Tasks, Holding
  <2> QED BY <2>1, <1>0, KeptLeased
<1>4. ASSUME NEW r \in Rollouts, Lease(r) PROVE Leased'
  BY <1>4, <1>0, LeaseLeased
<1>5. ASSUME NEW r \in Rollouts, LeaseTimesOut(r) \/ Return(r) PROVE Leased'
  <2>1. /\ UNCHANGED <<free, killed>>
        /\ task[r].at \notin Holding
    BY <1>5 DEF LeaseTimesOut, LimitReached, Return, Holding
  <2>2. \A s \in Rollouts : task'[s] = task[s] \/ (s = r /\ task'[s].at \in Over)
    BY <1>5, <1>t DEF LeaseTimesOut, Return, Reset, NoTask, Over
  <2>3. Over \cap Holding = {}
    BY DEF Over, Holding
  <2> QED BY <2>1, <2>2, <2>3, <1>0, SchedulerKept, KeptLeased DEF LeasesKept
<1>6. ASSUME NEW r \in Rollouts, NEW ok \in BOOLEAN, ProgramEnds(r, ok) PROVE Leased'
  <2>1. LeasesKept
    BY <1>6, <1>t, SchedulerKept DEF ProgramEnds, LeasesKept, Tasks, Holding
  <2> QED BY <2>1, <1>0, KeptLeased
<1>7. ASSUME NEW r \in Rollouts, SaveResults(r) PROVE Leased'
  <2>1. LeasesKept
    BY <1>7, <1>t, SchedulerKept DEF SaveResults, To, LeasesKept, Tasks, Holding
  <2> QED BY <2>1, <1>0, KeptLeased
<1>8. ASSUME NEW r \in Rollouts, Release(r) PROVE Leased'
  BY <1>8, <1>0, ReleaseLeased
<1>9. ASSUME NEW r \in Rollouts, WorkerKilled(r) PROVE Leased'
  <2>1. KilledWorker(r).at \notin Holding
    BY DEF KilledWorker, NoTask, Holding
  <2>2. Lose({r}) /\ UNCHANGED free
    BY <1>9 DEF WorkerKilled
  <2>3. \A s \in Rollouts : IF s \in {r} THEN task'[s].at \notin Holding ELSE task'[s] = task[s]
    BY <1>9, <1>t, <2>1 DEF WorkerKilled
  <2> QED BY <2>2, <2>3, <1>0, LoseLeased
<1>10. CASE Restart
  <2>1. Lose(Rollouts) /\ UNCHANGED free
    BY <1>10 DEF Restart
  <2>2. \A s \in Rollouts : task'[s].at \notin Holding
    BY <1>10, NoTaskType DEF Restart, Idle
  <2> QED BY <2>1, <2>2, <1>0, LoseLeased
<1>11. CASE OrphanEnds
  <2>1. orphans' \subseteq orphans /\ UNCHANGED <<task, free, lost>>
    BY <1>11 DEF OrphanEnds
  <2> QED BY <2>1, <1>0, SchedulerKept, KeptLeased DEF LeasesKept
<1> QED BY <1>1, <1>2, <1>3, <1>4, <1>5, <1>6, <1>7, <1>8, <1>9, <1>10, <1>11
        DEF Next, Progress, RunProgram

(* The thread writes the code before it submits the task and removes the files when *)
(* the task is over.                                                              *)
LEMMA FilesStep == Typed /\ Pooled /\ Files /\ Next => Files'
<1> SUFFICES ASSUME Typed, Pooled, Files, Next PROVE Files'
  OBVIOUS
<1> USE DEF episode, grading, disk, killed
<1>t. /\ task \in [Rollouts -> Tasks]
      /\ thread \in [Rollouts -> {"none", "queued", "waiting", "ended", "cancelled"}]
      /\ kills \in Nat /\ code \subseteq Rollouts /\ results \subseteq Rollouts
  BY Counts DEF Typed
<1>1. ASSUME NEW r \in Rollouts, Step(r) \/ Deliver(r) \/ Expire(r) PROVE Files'
  <2>1. UNCHANGED <<task, code, results, kills>>
    BY <1>1 DEF Step, Deliver, Expire
  <2>2. \A s \in Rollouts : thread[s] = "waiting" => thread'[s] = "waiting"
    BY <1>1, <1>t DEF Step, Deliver, Expire, Pooled
  <2> QED BY <2>1, <2>2, <1>t DEF Files
<1>2. ASSUME NEW r \in Rollouts, Begin(r) PROVE Files'
  <2>1. thread[r] = "queued"
    <3>1. r \in ToSet(pool)
      BY <1>2, TailOfInjective DEF Begin, Pooled
    <3> QED BY <3>1 DEF Pooled
  <2>2. task[r].at = "none" /\ r \notin code /\ (kills = 0 => r \notin results)
    BY <2>1 DEF Files
  <2>3. UNCHANGED <<results, kills>>
    BY <1>2 DEF Begin
  <2>4. CASE thread' = [thread EXCEPT ![r] = "ended"] /\ UNCHANGED <<task, code>>
    BY <2>1, <2>2, <2>3, <2>4, <1>t DEF Files
  <2>5. CASE thread' = [thread EXCEPT ![r] = "waiting"] /\ code' = code \cup {r}
             /\ Reset(r, "pending")
    <3>1. \A s \in Rollouts :
            /\ s = r => task'[s].at = "pending" /\ thread'[s] = "waiting"
            /\ s # r => task'[s] = task[s] /\ thread'[s] = thread[s]
      BY <2>5, <1>t DEF Reset, NoTask
    <3>2. \A s \in code' : thread'[s] = "waiting"
      BY <2>5, <3>1, <1>t DEF Files
    <3>3. \A s \in Rollouts : task'[s].at \in Working \cup {"pending"} => s \in code'
      BY <2>5, <3>1 DEF Files
    <3>4. "pending" \notin {"none", "saving"}
      OBVIOUS
    <3>5. kills' = 0 => \A s \in results' : s # r
      BY <2>2, <2>3
    <3> QED BY <2>3, <3>1, <3>2, <3>3, <3>4, <3>5, <1>t DEF Files
  <2> QED BY <1>2, <2>4, <2>5 DEF Begin
<1>3. ASSUME NEW r \in Rollouts, Collect(r) PROVE Files'
  <2>1. \A s \in Rollouts :
          /\ s = r => task'[s].at = "none" /\ thread'[s] = "ended"
          /\ s # r => task'[s] = task[s] /\ thread'[s] = thread[s]
    BY <1>3, <1>t DEF Collect, Reset, NoTask
  <2>2. code' = code \ {r} /\ UNCHANGED kills /\ task[r].at \in Over
    BY <1>3 DEF Collect
  <2>3. results' \subseteq results /\ (task[r].at = "returned" => r \notin results')
    BY <1>3 DEF Collect, ResultsRemoved
  <2>4. kills' = 0 => r \notin results'
    BY <2>2, <2>3 DEF Files, Over
  <2>5. \A s \in Rollouts : task'[s].at \in Working \cup {"pending"} => s \in code'
    BY <2>1, <2>2 DEF Files, Working, Waiting, Holding
  <2>6. \A s \in code' : thread'[s] = "waiting"
    BY <2>1, <2>2, <1>t DEF Files
  <2> QED BY <2>1, <2>2, <2>3, <2>4, <2>5, <2>6, <1>t DEF Files
<1>4. ASSUME NEW r \in Rollouts, OnWorkers(r) PROVE Files'
  <2>1. UNCHANGED <<thread, code>>
    BY <1>4, WorkersApart
  <2>a. ASSUME \A s \in Rollouts \ {r} : task'[s] = task[s], r \in code,
               task'[r].at = "saving" => task'[r].ok, results' \subseteq results \cup {r},
               kills' \in Nat, kills' >= kills,
               (kills' = 0 /\ r \in results') =>
                 /\ task'[r].at \in {"leaving", "returning", "returned"}
                 /\ task'[r].at # "returned" => task'[r].ok
        PROVE  Files'
    <3>1. thread[r] = "waiting"
      BY <2>a DEF Files
    <3>2. kills' = 0 => kills = 0
      BY <2>a, <1>t
    <3> QED BY <2>1, <2>a, <3>1, <3>2, <1>t DEF Files
  <2>2. ASSUME NEW h \in Hosts, Admit(r, h) PROVE Files'
    BY <2>2, <2>a, <1>t DEF Admit, Files, Tasks
  <2>3. CASE Lease(r)
    <3>1. /\ task[r].at \in Waiting /\ UNCHANGED <<results, kills>>
          /\ \E q : \/ task' = [task EXCEPT ![r].at = "polling"]
                    \/ task' = [task EXCEPT ![r].at = "running", ![r].group = q]
      BY <2>3 DEF Lease, To
    <3>2. r \in code /\ ~(kills = 0 /\ r \in results)
      BY <3>1 DEF Files, Working, Waiting
    <3> QED BY <2>a, <3>1, <3>2, <1>t DEF Tasks
  <2>4. CASE LeaseTimesOut(r)
    <3>1. /\ task[r].at = "polling" /\ UNCHANGED <<results, kills>>
      BY <2>4 DEF LeaseTimesOut, LimitReached
    <3>2. r \in code /\ ~(kills = 0 /\ r \in results)
      BY <3>1 DEF Files, Working, Waiting
    <3> QED BY <2>4, <2>a, <3>1, <3>2, <1>t DEF LeaseTimesOut, Reset, NoTask
  <2>5. ASSUME NEW ok \in BOOLEAN, ProgramEnds(r, ok) PROVE Files'
    <3>1. /\ task[r].at = "running" /\ UNCHANGED <<results, kills>>
      BY <2>5 DEF ProgramEnds
    <3>2. r \in code /\ ~(kills = 0 /\ r \in results)
      BY <3>1 DEF Files, Working, Holding
    <3>3. task'[r].at = "saving" => task'[r].ok
      BY <2>5, <1>t DEF ProgramEnds, Tasks
    <3> QED BY <2>5, <2>a, <3>1, <3>2, <3>3, <1>t DEF ProgramEnds
  <2>6. CASE SaveResults(r)
    <3>1. /\ task[r].at = "saving" /\ results' = results \cup {r} /\ UNCHANGED kills
      BY <2>6 DEF SaveResults
    <3>2. r \in code /\ task[r].ok
      BY <3>1 DEF Files, Working, Holding
    <3>3. task'[r].at = "leaving" /\ task'[r].ok = task[r].ok
          /\ \A s \in Rollouts \ {r} : task'[s] = task[s]
      BY <2>6, <1>t DEF SaveResults, To, Tasks
    <3> QED BY <2>a, <3>1, <3>2, <3>3, <1>t
  <2>7. CASE Release(r)
    <3>1. /\ task[r].at = "leaving" /\ UNCHANGED <<results, kills>>
      BY <2>7 DEF Release
    <3>2. r \in code /\ (kills = 0 /\ r \in results => task[r].ok)
      BY <3>1 DEF Files, Working, Holding
    <3>3. task'[r].at = "returning" /\ task'[r].ok = task[r].ok
          /\ \A s \in Rollouts \ {r} : task'[s] = task[s]
      BY <2>7, <1>t DEF Release, Tasks
    <3> QED BY <2>a, <3>1, <3>2, <3>3, <1>t
  <2>8. CASE Return(r)
    <3>1. /\ task[r].at = "returning" /\ UNCHANGED <<results, kills>>
      BY <2>8 DEF Return
    <3>2. r \in code /\ (kills = 0 /\ r \in results => task[r].ok)
      BY <3>1 DEF Files, Working
    <3>3. task'[r].at = (IF task[r].ok THEN "returned" ELSE "raised")
          /\ \A s \in Rollouts \ {r} : task'[s] = task[s]
      BY <2>8, <1>t DEF Return, Reset, NoTask
    <3> QED BY <2>a, <3>1, <3>2, <3>3, <1>t
  <2>9. CASE WorkerKilled(r)
    <3>1. task[r].at \in Working /\ kills' = kills + 1 /\ UNCHANGED results
      BY <2>9 DEF WorkerKilled, Lose
    <3>2. task'[r].at \in {"pending", "raised"} /\ \A s \in Rollouts \ {r} : task'[s] = task[s]
      BY <2>9, <1>t DEF WorkerKilled, KilledWorker, NoTask
    <3>3. r \in code
      BY <3>1 DEF Files
    <3> QED BY <2>a, <3>1, <3>2, <3>3, <1>t
  <2> QED BY <1>4, <2>2, <2>3, <2>4, <2>5, <2>6, <2>7, <2>8, <2>9 DEF OnWorkers, RunProgram
<1>5. CASE Restart
  BY <1>5 DEF Restart, Idle, NoTask, Files, Working, Waiting, Holding
<1>6. CASE OrphanEnds
  BY <1>6 DEF OrphanEnds, Files
<1> QED BY <1>1, <1>2, <1>3, <1>4, <1>5, <1>6, Cases

(* env.step reports an answer when it goes from waiting for one to done, and at no *)
(* other time.                                                                   *)
LEMMA AnswersStep == Typed /\ AnswersCounted /\ Next => AnswersCounted'
<1> SUFFICES ASSUME Typed, AnswersCounted, Next PROVE AnswersCounted'
  OBVIOUS
<1> USE DEF episode
<1> DEFINE Done == {r \in Rollouts : env[r] = "done"}
<1>t. /\ env \in [Rollouts -> {"none", "grading", "done"}]
      /\ answer \in [Rollouts -> {"none", "valid", "failed", "timeout"}]
      /\ archive \in [children : SUBSET Rollouts, visits : Nat]
  BY DEF Typed
<1>a. ASSUME NEW r \in Rollouts, NEW a, Answered(r, a), env[r] # "done" PROVE AnswersCounted'
  <2>1. IsFiniteSet(Done) /\ r \notin Done
    BY GradingAssumption, FS_Subset, <1>a
  <2>2. Cardinality(Done \cup {r}) = Cardinality(Done) + 1
    BY <2>1, FS_AddElement
  <2>3. Done' = Done \cup {r}
    BY <1>a, <1>t DEF Answered
  <2>4. archive'.visits = archive.visits + 1
    BY <1>a DEF Answered
  <2>5. archive'.visits = Cardinality(Done')
    BY <2>2, <2>3, <2>4 DEF AnswersCounted
  <2>6. \A q \in archive'.children : q \in archive.children \/ (q = r /\ a = "valid")
    BY <1>a DEF Answered
  <2>7. \A q \in archive'.children : env'[q] = "done" /\ answer'[q] = "valid"
    <3> SUFFICES ASSUME NEW q \in archive'.children
                 PROVE  env'[q] = "done" /\ answer'[q] = "valid"
      OBVIOUS
    <3>1. CASE q = r /\ a = "valid"
      BY <3>1, <1>a, <1>t DEF Answered
    <3>2. CASE q \in archive.children
      <4>1. q \in Rollouts /\ env[q] = "done" /\ answer[q] = "valid"
        BY <3>2, <1>t DEF AnswersCounted
      <4> QED BY <4>1, <1>a, <1>t DEF Answered
    <3> QED BY <3>1, <3>2, <2>6
  <2> QED BY <2>5, <2>7 DEF AnswersCounted
<1>b. ASSUME UNCHANGED <<archive, answer>>,
             \A r \in Rollouts : env'[r] = "done" <=> env[r] = "done"
      PROVE  AnswersCounted'
  <2>1. Done' = Done
    BY <1>b
  <2>2. archive'.visits = Cardinality(Done')
    BY <1>b, <2>1 DEF AnswersCounted
  <2>3. \A q \in archive'.children : env'[q] = "done" /\ answer'[q] = "valid"
    BY <1>b, <1>t DEF AnswersCounted
  <2> QED BY <2>2, <2>3 DEF AnswersCounted
<1>1. ASSUME NEW r \in Rollouts, Step(r) PROVE AnswersCounted'
  BY <1>1, <1>a, <1>b, <1>t DEF Step
<1>2. ASSUME NEW r \in Rollouts, Deliver(r) PROVE AnswersCounted'
  BY <1>2, <1>a DEF Deliver, Awaited
<1>3. ASSUME NEW r \in Rollouts, Expire(r) PROVE AnswersCounted'
  BY <1>3, <1>a DEF Expire
<1>4. ASSUME NEW r \in Rollouts, Begin(r) \/ Collect(r) PROVE AnswersCounted'
  BY <1>4, <1>b DEF Begin, Collect
<1>5. ASSUME NEW r \in Rollouts, OnWorkers(r) PROVE AnswersCounted'
  BY <1>5, <1>b, WorkersApart
<1>6. CASE Restart
  <2>1. Done' = {} /\ archive' = NewArchive
    BY <1>6 DEF Restart, Idle
  <2>2. archive'.visits = Cardinality(Done') /\ archive'.children = {}
    BY <2>1, FS_EmptySet DEF NewArchive
  <2> QED BY <2>2 DEF AnswersCounted
<1>7. CASE OrphanEnds
  BY <1>7, <1>b DEF OrphanEnds
<1> QED BY <1>1, <1>2, <1>3, <1>4, <1>5, <1>6, <1>7, Cases

-----------------------------------------------------------------------------
(* The theorems *)

(* The inductive invariant holds in every state that grading can reach. *)
THEOREM GradingInvariant == Spec => [](IInv /\ AnswersCounted)
<1> DEFINE I == IInv /\ AnswersCounted
<1>1. Init => I
  <2> SUFFICES ASSUME Init PROVE AnswersCounted
    BY InitIInv
  <2>1. {r \in Rollouts : env[r] = "done"} = {}
    BY DEF Init, Idle
  <2> QED BY <2>1, FS_EmptySet DEF Init, NewArchive, AnswersCounted
<1>2. I /\ [Next]_vars => I'
  <2> SUFFICES ASSUME I, [Next]_vars PROVE I'
    OBVIOUS
  <2>1. CASE Next
    BY <2>1, TypedStep, PooledStep, BoundedStep, LeasedStep, FilesStep, AnswersStep DEF IInv
  <2>2. CASE UNCHANGED vars
    <3> USE <2>2 DEF vars, episode, grading, disk, killed
    <3>1. Typed' /\ Pooled' /\ Bounded'
      BY SchedulerKept DEF IInv, Typed, Pooled, Bounded, InThreads, On
    <3>2. Leased'
      BY SchedulerKept, KeptLeased DEF IInv, LeasesKept
    <3>3. Files' /\ AnswersCounted'
      BY DEF IInv, Files, AnswersCounted
    <3> QED BY <3>1, <3>2, <3>3 DEF IInv
  <2> QED BY <2>1, <2>2
<1> QED BY <1>1, <1>2, PTL DEF Spec

(* The state of the grading stays well formed: the pool holds a grading once, and *)
(* neither the threads nor a host have more to do than they may.                 *)
THEOREM GradingTypeCorrect == Spec => []GradingTypeOK
<1>1. IInv => GradingTypeOK
  <2> SUFFICES ASSUME IInv PROVE GradingTypeOK
    OBVIOUS
  <2>1. Typed /\ Pooled /\ Bounded
    BY DEF IInv
  <2>2. \A r \in Rollouts :
          /\ task[r].at \in TaskStates /\ task[r].host \in Hosts /\ task[r].ok \in BOOLEAN
          /\ task[r].tries \in 0 .. MaxRetries
          /\ task[r].group \in Range(Groups) \cup {{}}
    BY <2>1 DEF Typed, Tasks, AllGroups
  <2>3. code \cup results \cup archive.children \subseteq Rollouts
    BY <2>1 DEF Typed
  <2> QED BY <2>1, <2>2, <2>3 DEF GradingTypeOK, Typed, Pooled, Bounded
<1> QED BY <1>1, GradingInvariant, PTL

(* Two programs never run on the same CPU, whatever was killed: get_cpu_group and *)
(* release_cpu_group.                                                            *)
THEOREM ProgramsApart == Spec => []OneProgramPerCpu
<1>1. IInv => OneProgramPerCpu
  BY LeasesApart DEF IInv, Leased
<1> QED BY <1>1, GradingInvariant, PTL

(* A task that Ray has started waits in get_cpu_group only for groups that were lost *)
(* with their holders or that the scheduler does not know of.                       *)
THEOREM NoWaitWithoutLoss == Spec => []WaitsOnlyForLost
<1>1. IInv => WaitsOnlyForLost
  BY CoverSuffices DEF IInv, Leased
<1> QED BY <1>1, GradingInvariant, PTL

(* env.step reports every rollout to the sampler once and takes no late result. *)
THEOREM OneAnswerEach == Spec => []AnswersCounted
<1> QED BY GradingInvariant, PTL

(* The code of a rollout is there as long as Ray may run it, and results stay behind *)
(* only after a kill: the finally clauses of run_eval_code and run_program.         *)
THEOREM FilesFollow == Spec => []FilesFollowTask
<1>1. IInv => FilesFollowTask
  <2> SUFFICES ASSUME IInv PROVE FilesFollowTask
    OBVIOUS
  <2>1. Files /\ kills \in Nat /\ results \subseteq Rollouts
    BY Counts DEF IInv, Typed
  <2>2. \A r \in results : thread[r] = "ended" => kills > 0
    BY <2>1 DEF Files
  <2> QED BY <2>1, <2>2 DEF Files, FilesFollowTask
<1> QED BY <1>1, GradingInvariant, PTL
=============================================================================
