--------------------------- MODULE PipeTraining_proofs ---------------------------
(* Proofs about pipelined fine-tuning, for every number of ranks, tasks, data   *)
(* points and epochs and every order of the messages: a task's batch is at one  *)
(* place of the ring, no rank falls behind, and what is saved is whole.         *)
EXTENDS PipeTraining, InjectiveSequences, FiniteSetTheorems

-----------------------------------------------------------------------------
(* The inductive invariant *)

Cuts == Tasks \X Nat
Progresses == [step : Nat \ {0}, epoch : Nat \ {0}, idx : Nat]

\* The types.
Fields ==
  /\ ready \in Seq(Tasks) /\ running \in Seq(Tasks) /\ locked \subseteq Tasks
  /\ known \in [Ranks -> SUBSET Tasks] /\ attached \in [Ranks -> SUBSET Tasks]
  /\ progress \in [Ranks -> [Tasks -> Progresses]]
  /\ unapplied \in [Ranks -> [Tasks -> Nat]]
  /\ saved \in [Ranks -> SUBSET Tasks] /\ failed \subseteq Ranks \ {0}
  /\ cached \in [Ranks -> SUBSET Cuts]
  /\ acts \in [Ranks -> SUBSET Cuts] /\ grads \in [Ranks -> SUBSET Cuts]
  /\ comm \in [Ranks -> Seq(Message)] /\ cut \in [Tasks -> Nat]

\* A task is in one queue of the head, once, and in none when it has ended; only a
\* running task has a batch on its way.
Queued ==
  /\ IsInjective(ready) /\ IsInjective(running) /\ ToSet(ready) \cap ToSet(running) = {}
  /\ ToSet(ready) \subseteq known[0] /\ ToSet(running) \subseteq known[0]
  /\ saved[0] \subseteq known[0]
  /\ saved[0] \cap ToSet(ready) = {} /\ saved[0] \cap ToSet(running) = {}
  /\ locked \subseteq ToSet(running)

\* The batch of a locked task is the last one cut, at one place of the ring; the
\* ranks behind it keep its activations.
Sent(t) == <<t, cut[t]>>
Up(b, q) ==
  /\ \A r \in Ranks : (b \in acts[r] <=> r = q) /\ b \notin grads[r]
  /\ \A r \in Ranks : b \in cached[r] <=> q = 0 \/ r < q
Down(b, q) ==
  /\ \A r \in Ranks : b \notin acts[r] /\ (b \in grads[r] <=> r = q)
  /\ \A r \in Ranks : b \in cached[r] <=> r <= q
InRing ==
  /\ inputs = {Sent(t) : t \in locked}
  /\ \A r \in Ranks : cached[r] \cup acts[r] \cup grads[r] \subseteq inputs
  /\ \A t \in locked : \E q \in Ranks : Up(Sent(t), q) \/ Down(Sent(t), q)

\* The ranks that the gradient of the last batch cut has passed have taken its step,
\* the others are one behind: the failed ones aside.
Passed(r, t) == t \in locked => \E q \in Ranks : q < r /\ Sent(t) \in grads[q]
InPace ==
  \A r \in Ranks \ failed, t \in Tasks :
    progress[r][t].step = IF Passed(r, t) THEN cut[t] + 1 ELSE cut[t]

\* On the head the step follows from the epoch and the place in the dataset; on the
\* others every step is an epoch.
PerEpoch(t) == (DataLen[t] + MiniBatch - 1) \div MiniBatch
HeadPlace(t, p) ==
  LET j == p.step - 1 - (p.epoch - 1) * PerEpoch(t)
  IN  j \in Nat /\ p.idx = j * MiniBatch /\ p.idx < DataLen[t]
InEpoch ==
  /\ \A t \in Tasks :
       /\ HeadPlace(t, progress[0][t])
       /\ t \notin saved[0] => progress[0][t].epoch <= NumEpochs
  /\ \A r \in Ranks \ {0}, t \in Tasks :
       progress[r][t].idx = 0 /\ progress[r][t].epoch = progress[r][t].step
  /\ \A r \in Ranks, t \in Tasks : progress[r][t].step <= Total(t) + 1
                                   /\ progress[r][t].epoch <= Total(t) + 1

\* No more gradients wait than steps were taken since the last that applied them.
Applied ==
  /\ \A r \in Ranks, t \in Tasks : unapplied[r][t] <= (progress[r][t].step - 1) % Accumulate
  /\ \A r \in Ranks \ {0}, t \in Tasks : progress[r][t].step = Total(t) + 1 => unapplied[r][t] = 0

\* A rank is told to end a task, and ends it, after the head has.
Ended ==
  /\ \A r \in Ranks : saved[r] \subseteq saved[0]
  /\ \A r \in Ranks : \A m \in ToSet(comm[r]) : m.do = "done" => m.task \in saved[0]

PipeInv == Fields /\ Queued /\ InRing /\ InPace /\ InEpoch /\ Applied /\ Ended /\ SavedWhole


-----------------------------------------------------------------------------
(* Numbers *)

(* What the assumptions say of the constants. *)
LEMMA PipeBounds ==
  /\ LastRank \in Nat /\ LastRank >= 1 /\ Concurrency \in Nat /\ Concurrency >= 1
  /\ MiniBatch \in Nat /\ MiniBatch >= 1 /\ Accumulate \in Nat /\ Accumulate >= 1
  /\ NumEpochs \in Nat /\ NumEpochs >= 1
  /\ \A t \in Tasks : DataLen[t] \in Nat /\ DataLen[t] >= 1
  /\ Ranks = 0 .. LastRank /\ 0 \in Ranks /\ 1 \in Ranks
  /\ \A r \in Ranks : r \in Nat /\ r <= LastRank
BY PipeAssumption DEF Ranks

(* The ranks are a ring. *)
LEMMA Ring ==
  ASSUME NEW r \in Ranks
  PROVE  /\ Next1(r) = IF r = LastRank THEN 0 ELSE r + 1
         /\ Prev1(r) = IF r = 0 THEN LastRank ELSE r - 1
         /\ Next1(r) \in Ranks /\ Prev1(r) \in Ranks /\ Next1(r) # r /\ Prev1(r) # r
<1>0. r \in Nat /\ r <= LastRank /\ LastRank \in Nat /\ LastRank >= 1
  BY PipeBounds
<1> DEFINE n == LastRank + 1
<1>a. \A x \in Nat : x < n => x % n = x
  BY <1>0
<1>b. n % n = 0
  BY <1>0
<1>c. \A x \in Nat : x < n => (x + n) % n = x
  <2> SUFFICES ASSUME NEW x \in Nat, x < n PROVE (x + n) % n = x
    OBVIOUS
  <2>1. n \in Nat /\ n > 0
    BY <1>0
  <2> HIDE DEF n
  <2>2. (x + n) % n \in 0 .. n - 1 /\ x + n = n * ((x + n) \div n) + ((x + n) % n)
    BY <2>1
  <2>3. PICK q \in Int, s \in 0 .. n - 1 : q = (x + n) \div n /\ s = (x + n) % n
    BY <2>1, <2>2
  <2>4. x + n = n * q + s
    BY <2>2, <2>3
  <2>5. q = 1
    <3>1. q >= 1
      <4> SUFFICES ASSUME q <= 0 PROVE FALSE
        BY <2>3
      <4>1. n * q <= 0
        BY <2>1, <2>3
      <4> QED BY <2>1, <2>3, <2>4, <4>1
    <3>2. q <= 1
      <4> SUFFICES ASSUME q >= 2 PROVE FALSE
        BY <2>3
      <4>1. n * q >= n * 2
        BY <2>1, <2>3
      <4> QED BY <2>1, <2>3, <2>4, <4>1
    <3> QED BY <2>3, <3>1, <3>2
  <2> QED BY <2>1, <2>3, <2>4, <2>5
<1>1. Next1(r) = IF r = LastRank THEN 0 ELSE r + 1
  <2>1. CASE r = LastRank
    BY <1>0, <1>b, <2>1 DEF Next1
  <2>2. CASE r # LastRank
    <3>1. r + 1 \in Nat /\ r + 1 < n
      BY <1>0, <2>2
    <3> QED BY <1>a, <2>2, <3>1 DEF Next1
  <2> QED BY <2>1, <2>2
<1>2. Prev1(r) = IF r = 0 THEN LastRank ELSE r - 1
  <2>1. CASE r = 0
    <3>1. LastRank < n /\ 0 + LastRank = LastRank
      BY <1>0
    <3> QED BY <1>0, <1>a, <2>1, <3>1 DEF Prev1
  <2>2. CASE r # 0
    <3>1. r - 1 \in Nat /\ r - 1 < n /\ (r - 1) + n = r + LastRank
      BY <1>0, <2>2
    <3> QED BY <1>c, <2>2, <3>1 DEF Prev1
  <2> QED BY <2>1, <2>2
<1> QED BY <1>0, <1>1, <1>2, PipeBounds

(* The number of batches in an epoch. *)
LEMMA BatchesPerEpoch ==
  ASSUME NEW t \in Tasks
  PROVE  /\ PerEpoch(t) \in Nat /\ PerEpoch(t) >= 1
         /\ (PerEpoch(t) - 1) * MiniBatch < DataLen[t] /\ DataLen[t] <= PerEpoch(t) * MiniBatch
         /\ Total(t) = NumEpochs * PerEpoch(t) /\ Total(t) \in Nat /\ Total(t) >= NumEpochs
<1>0. DataLen[t] \in Nat /\ DataLen[t] >= 1 /\ MiniBatch \in Nat /\ MiniBatch >= 1
      /\ NumEpochs \in Nat /\ NumEpochs >= 1
  BY PipeBounds
<1>1. PICK D \in Nat, M \in Nat : D = DataLen[t] /\ M = MiniBatch
  BY <1>0
<1>2. PICK x \in Nat : x = D + M - 1
  BY <1>0, <1>1
<1>3. x \div M \in Int /\ x % M \in 0 .. M - 1 /\ x = M * (x \div M) + (x % M)
  BY <1>0, <1>1
<1>4. PICK P \in Int, s \in 0 .. M - 1 : P = x \div M /\ s = x % M
  BY <1>3
<1>5. D + M - 1 = M * P + s
  BY <1>2, <1>3, <1>4
<1>6. P >= 1
  <2> SUFFICES ASSUME P <= 0 PROVE FALSE
    BY <1>4
  <2>1. M * P <= 0
    BY <1>4
  <2> QED BY <1>0, <1>1, <1>4, <1>5, <2>1
<1>7. M * P = P * M /\ (P - 1) * M = P * M - M
  BY <1>4
<1>8. (P - 1) * M < D /\ D <= P * M
  BY <1>0, <1>1, <1>4, <1>5, <1>7
<1>9. PerEpoch(t) = P
  BY <1>1, <1>2, <1>4 DEF PerEpoch
<1>10. Total(t) = NumEpochs * P
  BY <1>9 DEF Total, PerEpoch
<1>11. NumEpochs * P \in Nat /\ NumEpochs * P >= NumEpochs
  BY <1>0, <1>4, <1>6
<1> QED BY <1>1, <1>4, <1>6, <1>8, <1>9, <1>10, <1>11

(* Where the head is in the dataset says how many steps it has taken, and at the end *)
(* of the last epoch these are all.                                                  *)
LEMMA HeadAdvance ==
  ASSUME NEW t \in Tasks, NEW p \in Progresses, HeadPlace(t, p), p.epoch <= NumEpochs
  PROVE  LET over == p.idx + MiniBatch >= DataLen[t]
             q == [step |-> p.step + 1,
                   epoch |-> IF over THEN p.epoch + 1 ELSE p.epoch,
                   idx |-> IF over THEN 0 ELSE p.idx + MiniBatch]
         IN  /\ p.step <= Total(t) /\ HeadPlace(t, q)
             /\ q.epoch > NumEpochs => q.epoch = NumEpochs + 1 /\ q.step = Total(t) + 1
<1>1. PICK P \in Nat : P = PerEpoch(t)
  BY BatchesPerEpoch
<1>2. PICK D \in Nat, M \in Nat, E \in Nat : D = DataLen[t] /\ M = MiniBatch /\ E = NumEpochs
  BY PipeBounds
<1>3. PICK s \in Nat, e \in Nat, i \in Nat : s = p.step /\ e = p.epoch /\ i = p.idx
  BY DEF Progresses
<1>4. s >= 1 /\ e >= 1 /\ e <= E /\ M >= 1 /\ D >= 1 /\ P >= 1 /\ E >= 1
  BY <1>1, <1>2, <1>3, PipeBounds, BatchesPerEpoch DEF Progresses
<1>5. (P - 1) * M < D /\ D <= P * M /\ Total(t) = E * P
  BY <1>1, <1>2, BatchesPerEpoch
<1>6. PICK w \in Int : w = (e - 1) * P
  BY <1>1, <1>3
<1>7. PICK j \in Nat : j = s - 1 - w /\ i = j * M /\ i < D
  BY <1>1, <1>2, <1>3, <1>6 DEF HeadPlace
<1>8. e * P = w + P
  BY <1>1, <1>3, <1>6
<1>9. e * P <= E * P
  BY <1>1, <1>2, <1>3, <1>4
<1>10. E * P \in Nat /\ e * P \in Nat
  BY <1>1, <1>2, <1>3
<1>m. \A a, b \in Nat : a <= b => a * M <= b * M
  BY <1>2
<1>11. j + 1 <= P
  <2> SUFFICES ASSUME P <= j PROVE FALSE
    BY <1>1, <1>7
  <2>1. P * M <= j * M
    BY <1>1, <1>7, <1>m
  <2> QED BY <1>1, <1>2, <1>5, <1>7, <2>1
<1>12. (j + 1) * M = i + M
  BY <1>2, <1>7
<1>13. s <= E * P
  BY <1>3, <1>6, <1>7, <1>8, <1>9, <1>10, <1>11
<1>14. CASE i + M >= D
  <2>1. j + 1 = P
    <3> SUFFICES ASSUME j + 1 <= P - 1 PROVE FALSE
      BY <1>1, <1>7, <1>11
    <3>1. P - 1 \in Nat /\ j + 1 \in Nat
      BY <1>1, <1>4, <1>7
    <3>2. (j + 1) * M <= (P - 1) * M
      BY <1>m, <3>1
    <3>3. (P - 1) * M \in Int
      BY <1>2, <3>1
    <3> QED BY <1>2, <1>3, <1>5, <1>12, <1>14, <3>2, <3>3
  <2>2. (s + 1) - 1 - e * P = 0 /\ ((e + 1) - 1) * P = e * P
    <3>1. (e + 1) - 1 = e
      BY <1>3
    <3>2. s - 1 - w + 1 = P
      BY <1>7, <2>1
    <3>3. (s + 1) - 1 - (w + P) = 0
      BY <1>1, <1>3, <1>6, <3>2
    <3> QED BY <1>8, <3>1, <3>3
  <2>3. 0 * M = 0
    BY <1>2
  <2>4. e + 1 > E => e = E /\ s + 1 = E * P + 1
    <3>1. e + 1 > E => e = E
      BY <1>2, <1>3, <1>4
    <3>2. s + 1 = (w + P) + 1
      <4>1. s - 1 - w + 1 = P
        BY <1>7, <2>1
      <4> QED BY <1>1, <1>3, <1>6, <4>1
    <3> QED BY <1>8, <3>1, <3>2
  <2>5. HeadPlace(t, [step |-> s + 1, epoch |-> e + 1, idx |-> 0])
    BY <1>1, <1>2, <1>4, <2>2, <2>3 DEF HeadPlace
  <2> QED BY <1>1, <1>2, <1>3, <1>5, <1>13, <1>14, <2>4, <2>5
<1>15. CASE ~(i + M >= D)
  <2>1. (s + 1) - 1 - (e - 1) * P = j + 1 /\ j + 1 \in Nat
    BY <1>3, <1>6, <1>7
  <2>2. i + M < D
    BY <1>2, <1>3, <1>15
  <2>3. HeadPlace(t, [step |-> s + 1, epoch |-> e, idx |-> i + M])
    BY <1>1, <1>2, <1>12, <2>1, <2>2 DEF HeadPlace
  <2>4. ~(e > E)
    BY <1>2, <1>3, <1>4
  <2> QED BY <1>1, <1>2, <1>3, <1>5, <1>13, <1>15, <2>3, <2>4
<1> QED BY <1>14, <1>15

(* Between two multiples of accumulate_step_ the remainder grows by one. *)
LEMMA NextRemainder ==
  ASSUME NEW x \in Nat, NEW A \in Nat \ {0}, (x + 1) % A # 0
  PROVE  (x % A) + 1 = (x + 1) % A
<1>1. /\ x % A \in 0 .. A - 1 /\ x = A * (x \div A) + (x % A) /\ x \div A \in Int
      /\ (x + 1) % A \in 0 .. A - 1 /\ x + 1 = A * ((x + 1) \div A) + ((x + 1) % A)
      /\ (x + 1) \div A \in Int
  OBVIOUS
<1>2. PICK q \in Int, s \in 0 .. A - 1 : q = x \div A /\ s = x % A
  BY <1>1
<1>3. PICK p \in Int, u \in 0 .. A - 1 : p = (x + 1) \div A /\ u = (x + 1) % A
  BY <1>1
<1>4. x = A * q + s /\ x + 1 = A * p + u /\ u # 0
  BY <1>1, <1>2, <1>3
<1>5. PICK d \in Int : d = p - q
  BY <1>2, <1>3
<1>6. A * p = A * q + A * d
  BY <1>2, <1>3, <1>5
<1>7. PICK y \in Int : y = A * q
  BY <1>2
<1>8. PICK z \in Int : z = A * d
  BY <1>5
<1>9. z + u = s + 1
  BY <1>2, <1>3, <1>4, <1>6, <1>7, <1>8
<1>10. d <= 0
  <2> SUFFICES ASSUME d >= 1 PROVE FALSE
    BY <1>5
  <2>1. z >= A
    BY <1>5, <1>8
  <2> QED BY <1>2, <1>3, <1>4, <1>9, <2>1
<1>11. d >= 0
  <2> SUFFICES ASSUME d <= -1 PROVE FALSE
    BY <1>5
  <2>1. z <= -A
    BY <1>5, <1>8
  <2> QED BY <1>2, <1>3, <1>8, <1>9, <2>1
<1>12. z = 0
  BY <1>5, <1>8, <1>10, <1>11
<1> QED BY <1>2, <1>3, <1>9, <1>12


-----------------------------------------------------------------------------
(* Messages and steps *)

(* The members of a sequence after another. *)
LEMMA ConcatMembers ==
  ASSUME NEW S, NEW s \in Seq(S), NEW u \in Seq(S)
  PROVE  s \o u \in Seq(S) /\ ToSet(s \o u) \subseteq ToSet(s) \cup ToSet(u)
<1>1. PICK t : t = s \o u
  OBVIOUS
<1>2. /\ t \in Seq(S) /\ Len(t) = Len(s) + Len(u) /\ Len(s) \in Nat /\ Len(u) \in Nat
      /\ DOMAIN s = 1 .. Len(s) /\ DOMAIN u = 1 .. Len(u) /\ DOMAIN t = 1 .. Len(t)
      /\ \A i \in 1 .. Len(s) + Len(u) : t[i] = IF i <= Len(s) THEN s[i] ELSE u[i - Len(s)]
  BY <1>1, ConcatProperties, LenProperties
<1>3. ASSUME NEW i \in DOMAIN t PROVE t[i] \in ToSet(s) \cup ToSet(u)
  <2>1. CASE i <= Len(s)
    <3>1. i \in DOMAIN s /\ t[i] = s[i]
      BY <1>2, <2>1
    <3> QED BY <3>1 DEF ToSet
  <2>2. CASE ~(i <= Len(s))
    <3>1. i - Len(s) \in DOMAIN u /\ i \in 1 .. Len(s) + Len(u)
      BY <1>2, <2>2
    <3>2. t[i] = u[i - Len(s)]
      BY <1>2, <2>2, <3>1
    <3> QED BY <3>1, <3>2 DEF ToSet
  <2> QED BY <2>1, <2>2
<1> QED BY <1>1, <1>2, <1>3 DEF ToSet

(* The sequence of one member. *)
LEMMA SingleMember ==
  ASSUME NEW S, NEW e \in S
  PROVE  <<e>> \in Seq(S) /\ ToSet(<<e>>) = {e}
<1>1. PICK s : s = <<e>>
  OBVIOUS
<1>2. s \in Seq(S) /\ Len(s) = 1 /\ s[1] = e
  BY <1>1
<1>3. DOMAIN s = {1}
  BY <1>2, LenProperties
<1> QED BY <1>1, <1>2, <1>3 DEF ToSet

(* send_comm adds the messages to the queue of the next rank, if there is one. *)
LEMMA Told ==
  ASSUME Fields, NEW r \in Ranks, NEW msgs \in Seq(Message)
  PROVE  /\ Tell(r, msgs) \in [Ranks -> Seq(Message)]
         /\ \A q \in Ranks : ToSet(Tell(r, msgs)[q]) \subseteq ToSet(comm[q]) \cup ToSet(msgs)
         /\ r = 0 => Tell(r, msgs)[0] = comm[0]
<1>1. CASE r = LastRank
  BY <1>1, PipeBounds DEF Tell, Fields
<1>2. CASE r # LastRank
  <2>1. r + 1 \in Ranks /\ r + 1 # 0
    BY <1>2, PipeBounds
  <2>2. Tell(r, msgs) = [comm EXCEPT ![r + 1] = comm[r + 1] \o msgs]
    BY <1>2 DEF Tell
  <2>3. /\ comm[r + 1] \o msgs \in Seq(Message)
        /\ ToSet(comm[r + 1] \o msgs) \subseteq ToSet(comm[r + 1]) \cup ToSet(msgs)
    BY <2>1, ConcatMembers DEF Fields
  <2>4. \A q \in Ranks : Tell(r, msgs)[q] = IF q = r + 1 THEN comm[r + 1] \o msgs ELSE comm[q]
    BY <2>1, <2>2 DEF Fields
  <2>5. Tell(r, msgs) \in [Ranks -> Seq(Message)]
    BY <2>1, <2>2, <2>3 DEF Fields
  <2> QED BY <2>1, <2>3, <2>4, <2>5, PipeBounds
<1> QED BY <1>1, <1>2

(* A message taken off and passed on: no queue holds one that none held. *)
LEMMA PassedOn ==
  ASSUME Fields, NEW r \in Ranks, NEW i \in DOMAIN comm[r], PassOn(r, i)
  PROVE  /\ comm' \in [Ranks -> Seq(Message)] /\ comm[r][i] \in Message
         /\ \A q \in Ranks : \A m \in ToSet(comm'[q]) : \E p \in Ranks : m \in ToSet(comm[p])
<1>1. comm[r] \in Seq(Message) /\ comm[r][i] \in Message
  BY ElementOfSeq, LenProperties DEF Fields
<1>2. PICK msgs \in Seq(Message) : msgs = <<comm[r][i]>> /\ ToSet(msgs) = {comm[r][i]}
  BY <1>1, SingleMember
<1>3. PICK c : c = Tell(r, msgs)
  OBVIOUS
<1>4. /\ c \in [Ranks -> Seq(Message)]
      /\ \A q \in Ranks : ToSet(c[q]) \subseteq ToSet(comm[q]) \cup ToSet(msgs)
  BY <1>3, Told
<1>5. comm[r][i] \in ToSet(comm[r])
  BY DEF ToSet
<1>6. comm' = [c EXCEPT ![r] = RemoveAt(c[r], i)]
  BY <1>2, <1>3 DEF PassOn
<1>7. c[r] = comm[r]
  <2>1. r + 1 # r
    BY PipeBounds
  <2> QED BY <1>3, <2>1 DEF Tell
<1>8. RemoveAt(c[r], i) \in Seq(Message) /\ ToSet(RemoveAt(c[r], i)) \subseteq ToSet(comm[r])
  BY <1>1, <1>7, RemoveAtSubset
<1>9. comm' \in [Ranks -> Seq(Message)]
  BY <1>4, <1>6, <1>8
<1>10. ASSUME NEW q \in Ranks, NEW m \in ToSet(comm'[q])
       PROVE  \E p \in Ranks : m \in ToSet(comm[p])
  <2>1. CASE q = r
    <3>1. comm'[q] = RemoveAt(c[r], i)
      BY <1>4, <1>6, <2>1
    <3> QED BY <1>8, <1>10, <3>1
  <2>2. CASE q # r
    <3>1. comm'[q] = c[q]
      BY <1>4, <1>6, <2>2
    <3> QED BY <1>2, <1>4, <1>5, <1>10, <3>1
  <2> QED BY <2>1, <2>2
<1> QED BY <1>1, <1>9, <1>10

(* A message taken off and not passed on. *)
LEMMA TakenOff ==
  ASSUME Fields, NEW r \in Ranks, NEW i \in DOMAIN comm[r],
         comm' = [comm EXCEPT ![r] = RemoveAt(@, i)]
  PROVE  /\ comm' \in [Ranks -> Seq(Message)]
         /\ \A q \in Ranks : ToSet(comm'[q]) \subseteq ToSet(comm[q])
<1>1. comm[r] \in Seq(Message)
  BY DEF Fields
<1>2. RemoveAt(comm[r], i) \in Seq(Message) /\ ToSet(RemoveAt(comm[r], i)) \subseteq ToSet(comm[r])
  BY <1>1, RemoveAtSubset
<1> QED BY <1>2 DEF Fields

(* A step of a task on a rank changes that task on that rank. *)
LEMMA Stepped ==
  ASSUME Fields, NEW r \in Ranks, NEW b \in Cuts, TaskStep(r, b)
  PROVE  /\ progress' \in [Ranks -> [Tasks -> Progresses]]
         /\ unapplied' \in [Ranks -> [Tasks -> Nat]]
         /\ \A q \in Ranks, u \in Tasks : q # r \/ u # b[1] =>
              progress'[q][u] = progress[q][u] /\ unapplied'[q][u] = unapplied[q][u]
         /\ b[1] \in Tasks /\ progress'[r][b[1]] = Advanced(r, b[1])
         /\ Applies(r, b[1]) => unapplied'[r][b[1]] = 0
         /\ ~Applies(r, b[1]) => unapplied'[r][b[1]] \in {unapplied[r][b[1]], unapplied[r][b[1]] + 1}
<1>1. PICK t \in Tasks : t = b[1]
  BY DEF Cuts
<1>2. progress[r][t] \in Progresses /\ unapplied[r][t] \in Nat
  BY DEF Fields
<1>3. Advanced(r, t) \in Progresses
  <2>1. PICK p \in Progresses : p = progress[r][t]
    BY <1>2
  <2>2. /\ p.step + 1 \in Nat \ {0} /\ p.epoch + 1 \in Nat \ {0} /\ p.epoch \in Nat \ {0}
        /\ p.idx + MiniBatch \in Nat /\ 0 \in Nat
    BY PipeBounds DEF Progresses
  <2>3. PICK over : over = (p.idx + MiniBatch >= Points(r, t))
    OBVIOUS
  <2>4. Advanced(r, t) = [step |-> p.step + 1,
                          epoch |-> IF over THEN p.epoch + 1 ELSE p.epoch,
                          idx |-> IF over THEN 0 ELSE p.idx + MiniBatch]
    BY <2>1, <2>3 DEF Advanced
  <2> QED BY <2>2, <2>4 DEF Progresses
<1>4. PICK h \in Nat : /\ h \in {unapplied[r][t], unapplied[r][t] + 1}
                       /\ unapplied' = [unapplied EXCEPT ![r][t] = IF Applies(r, t) THEN 0 ELSE h]
  <2>1. unapplied[r][t] + (IF <<r, b>> \in bare THEN 0 ELSE 1) \in {unapplied[r][t], unapplied[r][t] + 1}
        /\ unapplied[r][t] + 1 \in Nat
    BY <1>2
  <2> QED BY <1>1, <1>2, <2>1 DEF TaskStep
<1>5. progress' = [progress EXCEPT ![r][t] = Advanced(r, t)]
  BY <1>1 DEF TaskStep
<1> HIDE DEF Advanced, Applies
<1>6. /\ progress' \in [Ranks -> [Tasks -> Progresses]] /\ progress'[r][t] = Advanced(r, t)
      /\ \A q \in Ranks, u \in Tasks : q # r \/ u # t => progress'[q][u] = progress[q][u]
  BY <1>3, <1>5 DEF Fields
<1>7. /\ unapplied' \in [Ranks -> [Tasks -> Nat]]
      /\ unapplied'[r][t] = IF Applies(r, t) THEN 0 ELSE h
      /\ \A q \in Ranks, u \in Tasks : q # r \/ u # t => unapplied'[q][u] = unapplied[q][u]
  BY <1>4 DEF Fields
<1> QED BY <1>1, <1>4, <1>6, <1>7


-----------------------------------------------------------------------------
(* The types and the queues *)

(* Every step is one of these. *)
LEMMA PipeCases ==
  ASSUME Fields, PipeNext
  PROVE  \/ \E t \in Tasks : AddTask(t)
         \/ ProcessInput
         \/ \E b \in Cuts : ProcessOutput(b) \/ HeadBackward(b)
         \/ \E r \in Ranks \ {0} : r \notin failed /\ \E b \in Cuts : ProcessForward(r, b)
         \/ \E r \in Ranks \ {0} : r \notin failed /\ \E b \in Cuts : ProcessBackward(r, b)
         \/ \E r \in Ranks \ {0} : r \notin failed /\ \E i \in DOMAIN comm[r] : ProcessAdd(r, i)
         \/ \E r \in Ranks \ {0} : r \notin failed /\ \E i \in DOMAIN comm[r] : ProcessUnknown(r, i)
         \/ \E r \in Ranks \ {0} : r \notin failed /\ \E i \in DOMAIN comm[r] : ProcessRunning(r, i)
         \/ \E r \in Ranks \ {0} : r \notin failed /\ \E i \in DOMAIN comm[r] : ProcessDone(r, i)
<1>1. \A r \in Ranks : acts[r] \subseteq Cuts /\ grads[r] \subseteq Cuts
  BY DEF Fields
<1>2. CASE \E t \in Tasks : AddTask(t)
  BY <1>2
<1>3. CASE HeadWorker
  BY <1>1, <1>3, PipeBounds DEF HeadWorker
<1>4. ASSUME NEW r \in Ranks \ {0}, Worker(r)
      PROVE  /\ r \notin failed
             /\ \/ \E b \in Cuts : ProcessForward(r, b) \/ ProcessBackward(r, b)
                \/ \E i \in DOMAIN comm[r] :
                     ProcessAdd(r, i) \/ ProcessUnknown(r, i) \/ ProcessRunning(r, i) \/ ProcessDone(r, i)
  <2>1. Arrivable(r) \subseteq DOMAIN comm[r]
    <3>1. comm[r] \in Seq(Message)
      BY DEF Fields
    <3>2. comm[r] # <<>> => 1 \in DOMAIN comm[r]
      BY <3>1, LenProperties, EmptySeq
    <3> QED BY <3>2 DEF Arrivable
  <2>2. CASE \E i \in Arrivable(r) :
               ProcessAdd(r, i) \/ ProcessUnknown(r, i) \/ ProcessRunning(r, i) \/ ProcessDone(r, i)
    BY <1>4, <2>1, <2>2 DEF Worker
  <2>3. CASE \E b \in grads[r] : ProcessBackward(r, b)
    BY <1>1, <1>4, <2>3 DEF Worker
  <2>4. CASE \E b \in acts[r] : ProcessForward(r, b)
    BY <1>1, <1>4, <2>4 DEF Worker
  <2> QED BY <1>4, <2>2, <2>3, <2>4 DEF Worker
<1> QED BY <1>2, <1>3, <1>4 DEF PipeNext

(* _dispatch_task_in moves tasks from the front of ready_ to the end of running_. *)
LEMMA TasksAdmitted ==
  ASSUME Fields, Queued
  PROVE  LET now == running \o Admitted
             rest == SubSeq(ready, Len(Admitted) + 1, Len(ready))
         IN  /\ Admitted \in Seq(Tasks) /\ now \in Seq(Tasks) /\ rest \in Seq(Tasks)
             /\ IsInjective(now) /\ IsInjective(rest)
             /\ ToSet(now) = ToSet(running) \cup ToSet(Admitted)
             /\ ToSet(ready) = ToSet(Admitted) \cup ToSet(rest)
             /\ ToSet(Admitted) \cap ToSet(rest) = {}
<1>1. ready \in Seq(Tasks) /\ running \in Seq(Tasks) /\ IsInjective(ready) /\ IsInjective(running)
      /\ ToSet(ready) \cap ToSet(running) = {} /\ Len(ready) \in Nat /\ Len(running) \in Nat
  BY LenProperties DEF Fields, Queued
<1>2. PICK l \in Int : /\ l <= Len(ready) /\ Admitted = SubSeq(ready, 1, l)
  <2>1. PICK room \in Int : room = Concurrency + 1 - Len(running)
    <3>1. Concurrency \in Int /\ Len(running) \in Int
      BY <1>1, PipeBounds
    <3>2. \A x, y \in Int : x + 1 - y \in Int
      OBVIOUS
    <3> QED BY <3>1, <3>2
  <2>2. (IF room < Len(ready) THEN room ELSE Len(ready)) \in Int
        /\ (IF room < Len(ready) THEN room ELSE Len(ready)) <= Len(ready)
    BY <1>1, <2>1
  <2> QED BY <2>1, <2>2 DEF Admitted
<1>3. PICK k \in 0 .. Len(ready) : Admitted = SubSeq(ready, 1, k)
  <2>1. CASE l >= 0
    BY <1>1, <1>2, <2>1
  <2>2. CASE l < 0
    <3>1. SubSeq(ready, 1, l) = <<>> /\ SubSeq(ready, 1, 0) = <<>>
      <4>1. l < 1 /\ 1 \in Int /\ 0 \in Int
        BY <2>2
      <4> QED BY <4>1, SubSeqEmpty
    <3> QED BY <1>1, <1>2, <3>1
  <2> QED BY <2>1, <2>2
<1>4. PICK a, c : a = SubSeq(ready, 1, k) /\ c = SubSeq(ready, k + 1, Len(ready))
  OBVIOUS
<1>5. /\ a \in Seq(Tasks) /\ c \in Seq(Tasks) /\ Len(a) = k /\ IsInjective(a) /\ IsInjective(c)
      /\ ToSet(a) \cup ToSet(c) = ToSet(ready) /\ ToSet(a) \cap ToSet(c) = {}
  BY <1>1, <1>4, SplitInjective
<1>6. ToSet(running) \cap ToSet(a) = {}
  BY <1>1, <1>5
<1>7. /\ running \o a \in Seq(Tasks) /\ IsInjective(running \o a)
      /\ ToSet(running \o a) = ToSet(running) \cup ToSet(a)
  BY <1>1, <1>5, <1>6, ConcatInjective
<1> QED BY <1>3, <1>4, <1>5, <1>7

(* The messages about the tasks admitted. *)
LEMMA RunningMessages ==
  ASSUME NEW s \in Seq(Tasks)
  PROVE  LET msgs == [i \in DOMAIN s |-> [do |-> "running", task |-> s[i]]]
         IN  msgs \in Seq(Message) /\ \A m \in ToSet(msgs) : m.do # "done"
<1>1. Len(s) \in Nat /\ DOMAIN s = 1 .. Len(s) /\ \A i \in DOMAIN s : s[i] \in Tasks
  BY LenProperties, ElementOfSeq
<1> DEFINE msgs == [i \in DOMAIN s |-> [do |-> "running", task |-> s[i]]]
<1>2. msgs \in [1 .. Len(s) -> Message]
  BY <1>1 DEF Message
<1>3. msgs \in Seq(Message)
  BY <1>1, <1>2, SeqDef
<1>4. \A m \in ToSet(msgs) : m.do = "running"
  BY DEF ToSet
<1> QED BY <1>3, <1>4

(* Every step keeps the types. *)
LEMMA FieldsStep ==
  ASSUME Fields, Queued, PipeNext
  PROVE  Fields'
<1> USE DEF dispatcher, tasksAt
<1>1. ASSUME NEW t \in Tasks, AddTask(t) PROVE Fields'
  <2>1. <<[do |-> "add", task |-> t]>> \in Seq(Message)
    BY SingleMember DEF Message
  <2>2. comm' \in [Ranks -> Seq(Message)]
    BY <1>1, <2>1, Told, PipeBounds DEF AddTask
  <2>3. ready' \in Seq(Tasks)
    BY <1>1, AppendProperties DEF AddTask, Fields
  <2> QED BY <1>1, <2>2, <2>3 DEF AddTask, Fields
<1>2. CASE ProcessInput
  <2>1. PICK a : a = Admitted
    OBVIOUS
  <2>2. /\ a \in Seq(Tasks) /\ running \o a \in Seq(Tasks)
        /\ SubSeq(ready, Len(a) + 1, Len(ready)) \in Seq(Tasks)
        /\ ToSet(a) \subseteq Tasks /\ ToSet(running \o a) \subseteq Tasks
    <3>1. a \in Seq(Tasks) /\ running \o a \in Seq(Tasks)
          /\ SubSeq(ready, Len(a) + 1, Len(ready)) \in Seq(Tasks)
      BY <2>1, TasksAdmitted
    <3>2. \A s \in Seq(Tasks) : ToSet(s) \subseteq Tasks
      BY ElementOfSeq, LenProperties DEF ToSet
    <3> QED BY <3>1, <3>2
  <2>3. comm' \in [Ranks -> Seq(Message)]
    <3>1. PICK msgs : msgs = [i \in DOMAIN a |-> [do |-> "running", task |-> a[i]]]
      OBVIOUS
    <3>2. msgs \in Seq(Message) /\ comm' = Tell(0, msgs)
      BY <1>2, <2>1, <2>2, <3>1, RunningMessages DEF ProcessInput
    <3> QED BY <3>2, Told, PipeBounds
  <2>4. /\ locked' \subseteq Tasks /\ cut' \in [Tasks -> Nat]
        /\ cached' \in [Ranks -> SUBSET Cuts] /\ acts' \in [Ranks -> SUBSET Cuts]
    <3>1. CASE UNCHANGED <<locked, cut, inputs, cached, acts>>
      BY <3>1 DEF Fields
    <3>2. ASSUME NEW t \in ToSet(running \o a), Cut(t)
          PROVE  /\ locked' \subseteq Tasks /\ cut' \in [Tasks -> Nat]
                 /\ cached' \in [Ranks -> SUBSET Cuts] /\ acts' \in [Ranks -> SUBSET Cuts]
      <4>1. t \in Tasks /\ cut[t] + 1 \in Nat
        BY <2>2, <3>2 DEF Fields
      <4>2. <<t, cut[t] + 1>> \in Cuts
        BY <4>1 DEF Cuts
      <4> QED BY <3>2, <4>1, <4>2 DEF Cut, Send, Fields
    <3> QED BY <1>2, <2>1, <3>1, <3>2 DEF ProcessInput
  <2>5. /\ running' = running \o a /\ ready' = SubSeq(ready, Len(a) + 1, Len(ready))
        /\ attached' = [attached EXCEPT ![0] = @ \cup ToSet(a)]
        /\ UNCHANGED <<known, progress, unapplied, saved, failed, grads>>
    BY <1>2, <2>1 DEF ProcessInput
  <2> QED BY <2>2, <2>3, <2>4, <2>5 DEF Fields
<1>3. ASSUME NEW b \in Cuts, ProcessOutput(b) PROVE Fields'
  <2>1. Prev1(0) \in Ranks
    BY Ring, PipeBounds
  <2> QED BY <1>3, <2>1 DEF ProcessOutput, Send, Fields
<1>4. ASSUME NEW b \in Cuts, HeadBackward(b) PROVE Fields'
  <2>1. /\ progress' \in [Ranks -> [Tasks -> Progresses]] /\ unapplied' \in [Ranks -> [Tasks -> Nat]]
        /\ b[1] \in Tasks
    BY <1>4, Stepped, PipeBounds DEF HeadBackward
  <2>2. /\ running' \in Seq(Tasks) /\ attached' \in [Ranks -> SUBSET Tasks]
        /\ saved' \in [Ranks -> SUBSET Tasks] /\ comm' \in [Ranks -> Seq(Message)]
    <3>1. CASE UNCHANGED <<running, attached, saved, comm>>
      BY <3>1 DEF Fields
    <3>2. CASE /\ \E i \in DOMAIN running : running' = RemoveAt(running, i)
               /\ EndTask(0, b[1])
               /\ comm' = Tell(0, <<[do |-> "done", task |-> b[1]]>>)
      <4>1. running' \in Seq(Tasks)
        BY <3>2, RemoveAtSubset DEF Fields
      <4>2. <<[do |-> "done", task |-> b[1]]>> \in Seq(Message)
        BY <2>1, SingleMember DEF Message
      <4>3. comm' \in [Ranks -> Seq(Message)]
        BY <3>2, <4>2, Told, PipeBounds
      <4> QED BY <2>1, <3>2, <4>1, <4>3 DEF EndTask, Fields
    <3> QED BY <1>4, <3>1, <3>2 DEF HeadBackward, DispatchTaskOut
  <2> QED BY <1>4, <2>1, <2>2 DEF HeadBackward, Released, Fields
<1>5. ASSUME NEW r \in Ranks \ {0}, NEW b \in Cuts, ProcessForward(r, b) PROVE Fields'
  <2>1. Next1(r) \in Ranks
    BY Ring
  <2> QED BY <1>5, <2>1 DEF ProcessForward, Send, Fields
<1>6. ASSUME NEW r \in Ranks \ {0}, NEW b \in Cuts, ProcessBackward(r, b) PROVE Fields'
  <2>1. Prev1(r) \in Ranks
    BY Ring
  <2>2. /\ cached' = [cached EXCEPT ![r] = @ \ {b}]
        /\ grads' = [grads EXCEPT ![r] = @ \ {b}, ![Prev1(r)] = @ \cup {b}]
        /\ UNCHANGED <<dispatcher, known, attached, saved, acts, comm, cut>>
    BY <1>6 DEF ProcessBackward
  <2>3. /\ progress' \in [Ranks -> [Tasks -> Progresses]] /\ unapplied' \in [Ranks -> [Tasks -> Nat]]
        /\ failed' \subseteq Ranks \ {0}
    <3>1. CASE TaskStep(r, b) /\ UNCHANGED failed
      BY <3>1, Stepped DEF Fields
    <3>2. CASE failed' = failed \cup {r} /\ UNCHANGED <<progress, unapplied>>
      BY <3>2 DEF Fields
    <3> QED BY <1>6, <3>1, <3>2 DEF ProcessBackward
  <2> QED BY <2>1, <2>2, <2>3 DEF Fields
<1>7. ASSUME NEW r \in Ranks \ {0}, NEW i \in DOMAIN comm[r],
             ProcessAdd(r, i) \/ ProcessRunning(r, i) \/ ProcessDone(r, i)
      PROVE  Fields'
  <2>1. comm' \in [Ranks -> Seq(Message)] /\ comm[r][i] \in Message
    BY <1>7, PassedOn DEF ProcessAdd, ProcessRunning, ProcessDone
  <2>2. comm[r][i].task \in Tasks
    BY <2>1 DEF Message
  <2>3. CASE ProcessAdd(r, i)
    BY <2>1, <2>2, <2>3 DEF ProcessAdd, Fields
  <2>4. CASE ProcessRunning(r, i)
    <3>1. /\ attached' \in [Ranks -> SUBSET Tasks] /\ failed' \subseteq Ranks \ {0}
          /\ UNCHANGED <<dispatcher, known, progress, unapplied, saved, cached, acts, grads, cut>>
      <4>1. PICK t \in Tasks : t = comm[r][i].task
        BY <2>2
      <4>2. /\ \/ failed' = failed \cup {r} /\ attached' = attached
               \/ attached' = [attached EXCEPT ![r] = @ \cup {t}] /\ failed' = failed
            /\ UNCHANGED <<dispatcher, known, progress, unapplied, saved, cached, acts, grads, cut>>
        BY <2>4, <4>1 DEF ProcessRunning
      <4>3. attached \in [Ranks -> SUBSET Tasks] /\ failed \subseteq Ranks \ {0}
        BY DEF Fields
      <4>4. attached' \in [Ranks -> SUBSET Tasks]
        BY <4>2, <4>3
      <4>5. failed' \subseteq Ranks \ {0}
        BY <4>2, <4>3
      <4> QED BY <4>2, <4>4, <4>5
    <3> QED BY <2>1, <3>1 DEF Fields
  <2>5. CASE ProcessDone(r, i)
    BY <2>1, <2>2, <2>5 DEF ProcessDone, EndTask, Fields
  <2> QED BY <1>7, <2>3, <2>4, <2>5
<1>8. ASSUME NEW r \in Ranks \ {0}, NEW i \in DOMAIN comm[r], ProcessUnknown(r, i) PROVE Fields'
  <2>1. comm' \in [Ranks -> Seq(Message)]
    BY <1>8, TakenOff DEF ProcessUnknown
  <2> QED BY <1>8, <2>1 DEF ProcessUnknown, Fields
<1> QED BY <1>1, <1>2, <1>3, <1>4, <1>5, <1>6, <1>7, <1>8, PipeCases


(* A batch on its way is the last one cut of a locked task. *)
LEMMA OnItsWay ==
  ASSUME Fields, InRing, NEW r \in Ranks, NEW b \in acts[r] \cup grads[r] \cup cached[r]
  PROVE  b \in Cuts /\ b[1] \in locked /\ b = Sent(b[1]) /\ b \in inputs
BY DEF Fields, InRing, Sent

(* Every step keeps the queues of the head. *)
LEMMA QueuedStep ==
  ASSUME Fields, Queued, InRing, PipeNext
  PROVE  Queued'
<1> USE DEF dispatcher, tasksAt
<1>0. ready \in Seq(Tasks) /\ running \in Seq(Tasks) /\ locked \subseteq Tasks
  BY DEF Fields
<1>u. ASSUME UNCHANGED <<ready, running, locked>>, known'[0] = known[0], saved'[0] = saved[0]
      PROVE  Queued'
  BY <1>u DEF Queued
<1>1. ASSUME NEW t \in Tasks, AddTask(t) PROVE Queued'
  <2>1. t \notin known[0] /\ known'[0] = known[0] \cup {t} /\ ready' = Append(ready, t)
        /\ UNCHANGED <<running, locked, saved>>
    BY <1>1, PipeBounds DEF AddTask, Fields
  <2>2. t \notin ToSet(ready) /\ t \notin ToSet(running) /\ t \notin saved[0]
    BY <2>1 DEF Queued
  <2>3. IsInjective(ready') /\ ToSet(ready') = ToSet(ready) \cup {t}
    <3>1. IsInjective(ready)
      BY DEF Queued
    <3> QED BY <1>0, <2>1, <2>2, <3>1, AppendToInjective
  <2> QED BY <2>1, <2>2, <2>3 DEF Queued
<1>2. CASE ProcessInput
  <2>1. PICK a, c, w : a = Admitted /\ c = SubSeq(ready, Len(a) + 1, Len(ready)) /\ w = running \o a
    OBVIOUS
  <2>2. /\ IsInjective(w) /\ IsInjective(c) /\ ToSet(w) = ToSet(running) \cup ToSet(a)
        /\ ToSet(ready) = ToSet(a) \cup ToSet(c) /\ ToSet(a) \cap ToSet(c) = {}
    BY <2>1, TasksAdmitted
  <2>3. running' = w /\ ready' = c /\ UNCHANGED <<known, saved>>
    BY <1>2, <2>1 DEF ProcessInput
  <2>4. locked' \subseteq locked \cup ToSet(w)
    BY <1>2, <2>1 DEF ProcessInput, Cut
  <2> QED BY <2>2, <2>3, <2>4 DEF Queued
<1>3. ASSUME NEW b \in Cuts, ProcessOutput(b) PROVE Queued'
  BY <1>3, <1>u DEF ProcessOutput
<1>4. ASSUME NEW b \in Cuts, HeadBackward(b) PROVE Queued'
  <2>1. PICK t \in Tasks : t = b[1]
    BY DEF Cuts
  <2>2. UNCHANGED <<ready, known>> /\ locked' = locked \ {t} /\ DispatchTaskOut(t)
    BY <1>4, <2>1 DEF HeadBackward, Released
  <2>3. CASE UNCHANGED <<running, saved>>
    BY <2>2, <2>3 DEF Queued
  <2>4. CASE (\E i \in DOMAIN running : running[i] = t /\ running' = RemoveAt(running, i)) /\ EndTask(0, t)
    <3>1. PICK i \in DOMAIN running : running[i] = t /\ running' = RemoveAt(running, i)
      BY <2>4
    <3>2. IsInjective(running') /\ ToSet(running') = ToSet(running) \ {t}
      BY <1>0, <3>1, RemoveFromInjective DEF Queued
    <3>3. t \in ToSet(running)
      BY <3>1 DEF ToSet
    <3>4. saved'[0] = saved[0] \cup {t}
      BY <2>4, PipeBounds DEF EndTask, Fields
    <3> QED BY <2>2, <3>2, <3>3, <3>4 DEF Queued
  <2> QED BY <2>2, <2>3, <2>4 DEF DispatchTaskOut
<1>5. ASSUME NEW r \in Ranks \ {0}, NEW b \in Cuts, ProcessForward(r, b) \/ ProcessBackward(r, b)
      PROVE  Queued'
  BY <1>5, <1>u DEF ProcessForward, ProcessBackward
<1>6. ASSUME NEW r \in Ranks \ {0}, NEW i \in DOMAIN comm[r],
             ProcessAdd(r, i) \/ ProcessUnknown(r, i) \/ ProcessRunning(r, i) \/ ProcessDone(r, i)
      PROVE  Queued'
  <2>1. /\ UNCHANGED <<ready, running, locked>>
        /\ known' = known \/ known' = [known EXCEPT ![r] = @ \cup {comm[r][i].task}]
        /\ saved' = saved \/ saved' = [saved EXCEPT ![r] = @ \cup {comm[r][i].task}]
    BY <1>6 DEF ProcessAdd, ProcessUnknown, ProcessRunning, ProcessDone, EndTask
  <2>2. known'[0] = known[0] /\ saved'[0] = saved[0]
    BY <2>1, PipeBounds DEF Fields
  <2> QED BY <1>u, <2>1, <2>2
<1> QED BY <1>1, <1>2, <1>3, <1>4, <1>5, <1>6, PipeCases

-----------------------------------------------------------------------------
(* The ring *)

(* A batch stays where it is when a step moves another one. *)
LEMMA Unmoved ==
  ASSUME InRing, NEW u \in locked, cut'[u] = cut[u],
         \A r \in Ranks : /\ (Sent(u) \in acts'[r] <=> Sent(u) \in acts[r])
                          /\ (Sent(u) \in grads'[r] <=> Sent(u) \in grads[r])
                          /\ (Sent(u) \in cached'[r] <=> Sent(u) \in cached[r])
  PROVE  \E q \in Ranks : (Up(Sent(u), q) \/ Down(Sent(u), q))'
<1>1. PICK q \in Ranks : Up(Sent(u), q) \/ Down(Sent(u), q)
  BY DEF InRing
<1>2. PICK b : b = Sent(u) /\ b = (Sent(u))'
  BY DEF Sent
<1>3. Up(b, q) \/ Down(b, q)
  BY <1>1, <1>2
<1>4. \A r \in Ranks : /\ (b \in acts'[r] <=> b \in acts[r])
                       /\ (b \in grads'[r] <=> b \in grads[r])
                       /\ (b \in cached'[r] <=> b \in cached[r])
  BY <1>2
<1>5. (Up(b, q))' \/ (Down(b, q))'
  BY <1>3, <1>4 DEF Up, Down
<1>6. (Up(Sent(u), q))' <=> (Up(b, q))'
  BY <1>2 DEF Up
<1>7. (Down(Sent(u), q))' <=> (Down(b, q))'
  BY <1>2 DEF Down
<1> QED BY <1>5, <1>6, <1>7

(* The batch that comes to a rank is at no other, and who keeps its activations. *)
LEMMA AtRank ==
  ASSUME Fields, InRing, NEW r \in Ranks, NEW b
  PROVE  (b \in acts[r] => Up(b, r)) /\ (b \in grads[r] => Down(b, r))
<1>1. ASSUME b \in acts[r] \cup grads[r]
      PROVE  \E q \in Ranks : Up(b, q) \/ Down(b, q)
  BY <1>1, OnItsWay DEF InRing
<1> QED BY <1>1 DEF Up, Down

(* Every step moves at most one batch, by one place. *)
LEMMA InRingStep ==
  ASSUME Fields, Queued, InRing, PipeNext
  PROVE  InRing'
<1> USE DEF dispatcher, tasksAt
<1>0. /\ acts \in [Ranks -> SUBSET Cuts] /\ grads \in [Ranks -> SUBSET Cuts]
      /\ cached \in [Ranks -> SUBSET Cuts] /\ cut \in [Tasks -> Nat] /\ locked \subseteq Tasks
  BY DEF Fields
<1>a. inputs = {Sent(t) : t \in locked}
      /\ \A r \in Ranks : acts[r] \subseteq inputs /\ grads[r] \subseteq inputs /\ cached[r] \subseteq inputs
  BY DEF InRing
<1>u. ASSUME UNCHANGED <<locked, inputs, cached, acts, grads, cut>> PROVE InRing'
  BY <1>u DEF InRing, Up, Down, Sent
(* A batch that moves: the others stay. *)
<1>m. ASSUME NEW t \in locked, NEW q \in Ranks, UNCHANGED <<locked, inputs, cut>>,
             (Up(Sent(t), q) \/ Down(Sent(t), q))',
             \A r \in Ranks : \A x : x # Sent(t) =>
               /\ x \in acts'[r] <=> x \in acts[r]
               /\ x \in grads'[r] <=> x \in grads[r]
               /\ x \in cached'[r] <=> x \in cached[r]
      PROVE  InRing'
  <2>1. inputs' = {(Sent(u))' : u \in locked'}
    BY <1>a, <1>m DEF Sent
  <2>2. Sent(t) \in inputs
    BY <1>a
  <2>3. \A r \in Ranks : (cached[r] \cup acts[r] \cup grads[r] \subseteq inputs)'
    BY <1>a, <1>m, <2>2
  <2>4. ASSUME NEW u \in locked' PROVE \E p \in Ranks : (Up(Sent(u), p) \/ Down(Sent(u), p))'
    <3>1. CASE u = t
      BY <1>m, <3>1
    <3>2. CASE u # t
      <4>1. Sent(u) # Sent(t) /\ u \in locked /\ cut'[u] = cut[u]
        BY <1>m, <2>4, <3>2 DEF Sent
      <4>2. \A r \in Ranks : /\ (Sent(u) \in acts'[r] <=> Sent(u) \in acts[r])
                             /\ (Sent(u) \in grads'[r] <=> Sent(u) \in grads[r])
                             /\ (Sent(u) \in cached'[r] <=> Sent(u) \in cached[r])
        BY <1>m, <4>1
      <4> QED BY <4>1, <4>2, Unmoved
    <3> QED BY <3>1, <3>2
  <2> QED BY <2>1, <2>3, <2>4 DEF InRing
<1>1. ASSUME NEW t \in Tasks, AddTask(t) PROVE InRing'
  BY <1>1, <1>u DEF AddTask
<1>2. CASE ProcessInput
  <2>1. CASE UNCHANGED <<locked, cut, inputs, cached, acts>>
    BY <1>2, <1>u, <2>1 DEF ProcessInput
  <2>2. ASSUME NEW t \in ToSet(running \o Admitted), t \notin locked, Cut(t) PROVE InRing'
    <3>1. PICK b : b = <<t, cut[t] + 1>>
      OBVIOUS
    <3>2. t \in Tasks
      <4>1. running \o Admitted \in Seq(Tasks)
        BY TasksAdmitted
      <4> QED BY <4>1, ElementOfSeq, LenProperties DEF ToSet
    <3>3. /\ locked' = locked \cup {t} /\ cut' = [cut EXCEPT ![t] = @ + 1]
          /\ inputs' = inputs \cup {b} /\ grads' = grads
          /\ cached' = [cached EXCEPT ![0] = @ \cup {b}] /\ acts' = [acts EXCEPT ![1] = @ \cup {b}]
      BY <1>2, <2>2, <3>1 DEF ProcessInput, Cut, Send
    <3>4. (Sent(t))' = b /\ \A u \in locked : (Sent(u))' = Sent(u) /\ u # t /\ Sent(u) # b
      BY <1>0, <2>2, <3>1, <3>2, <3>3 DEF Sent
    <3>5. \A r \in Ranks : b \notin acts[r] /\ b \notin grads[r] /\ b \notin cached[r]
      BY <1>a, <3>4
    <3>6. \A r \in Ranks : /\ acts'[r] = (IF r = 1 THEN acts[r] \cup {b} ELSE acts[r])
                           /\ cached'[r] = (IF r = 0 THEN cached[r] \cup {b} ELSE cached[r])
      BY <1>0, <3>3
    <3>7. inputs' = {(Sent(u))' : u \in locked'}
      BY <1>a, <3>3, <3>4
    <3>8. \A r \in Ranks : (cached[r] \cup acts[r] \cup grads[r] \subseteq inputs)'
      BY <1>a, <3>3, <3>6
    <3>9. (Up(b, 1))'
      <4>1. \A r \in Ranks : b \in acts'[r] <=> r = 1
        BY <3>5, <3>6
      <4>2. \A r \in Ranks : b \notin grads'[r]
        BY <3>3, <3>5
      <4>3. \A r \in Ranks : b \in cached'[r] <=> r = 0
        BY <3>5, <3>6
      <4>4. \A r \in Ranks : r = 0 <=> 1 = 0 \/ r < 1
        BY PipeBounds
      <4>5. \A r \in Ranks : b \in cached'[r] <=> 1 = 0 \/ r < 1
        BY <4>3, <4>4
      <4> QED BY <4>1, <4>2, <4>5 DEF Up
    <3>10. ASSUME NEW u \in locked' PROVE \E p \in Ranks : (Up(Sent(u), p) \/ Down(Sent(u), p))'
      <4>1. CASE u = t
        <5>1. (Up(Sent(u), 1))'
          BY <3>4, <3>9, <4>1 DEF Up
        <5> QED BY <5>1, PipeBounds
      <4>2. CASE u # t
        <5>1. u \in locked /\ Sent(u) # b /\ cut'[u] = cut[u]
          BY <1>0, <3>2, <3>3, <3>4, <4>2
        <5>2. \A r \in Ranks : /\ (Sent(u) \in acts'[r] <=> Sent(u) \in acts[r])
                               /\ (Sent(u) \in grads'[r] <=> Sent(u) \in grads[r])
                               /\ (Sent(u) \in cached'[r] <=> Sent(u) \in cached[r])
          BY <3>3, <3>6, <5>1
        <5> QED BY <5>1, <5>2, Unmoved
      <4> QED BY <4>1, <4>2
    <3> QED BY <3>7, <3>8, <3>10 DEF InRing
  <2> QED BY <1>2, <2>1, <2>2 DEF ProcessInput, CanRun
<1>3. ASSUME NEW b \in Cuts, ProcessOutput(b) PROVE InRing'
  <2>1. b \in acts[0] /\ 0 \in Ranks /\ Prev1(0) = LastRank /\ LastRank \in Ranks
    BY <1>3, Ring, PipeBounds DEF ProcessOutput
  <2>2. b[1] \in locked /\ b = Sent(b[1]) /\ Up(b, 0)
    BY <2>1, OnItsWay, AtRank
  <2>3. /\ UNCHANGED <<locked, inputs, cut, cached>> /\ acts' = [acts EXCEPT ![0] = @ \ {b}]
        /\ grads' = [grads EXCEPT ![LastRank] = @ \cup {b}]
    BY <1>3, <2>1 DEF ProcessOutput, Send
  <2>4. \A r \in Ranks : /\ acts'[r] = (IF r = 0 THEN acts[r] \ {b} ELSE acts[r])
                         /\ grads'[r] = (IF r = LastRank THEN grads[r] \cup {b} ELSE grads[r])
    BY <1>0, <2>1, <2>3
  <2>5. (Down(b, LastRank))'
    <3>1. \A r \in Ranks : (b \in acts[r] <=> r = 0) /\ b \notin grads[r] /\ b \in cached[r]
      BY <2>2 DEF Up
    <3>2. \A r \in Ranks : b \notin acts'[r] /\ (b \in grads'[r] <=> r = LastRank)
      <4>1. \A r \in Ranks : b \notin acts'[r]
        BY <2>4, <3>1
      <4>2. \A r \in Ranks : b \in grads'[r] <=> r = LastRank
        BY <2>4, <3>1
      <4> QED BY <4>1, <4>2
    <3>3. \A r \in Ranks : b \in cached'[r] <=> r <= LastRank
      BY <2>3, <3>1, PipeBounds
    <3> QED BY <3>2, <3>3 DEF Down
  <2>6. (Down(Sent(b[1]), LastRank))'
    BY <2>2, <2>3, <2>5 DEF Down, Sent
  <2>7. \A r \in Ranks : \A x : x # b =>
         /\ x \in acts'[r] <=> x \in acts[r]
         /\ x \in grads'[r] <=> x \in grads[r]
         /\ x \in cached'[r] <=> x \in cached[r]
    BY <2>3, <2>4
  <2> QED BY <1>m, <2>1, <2>2, <2>3, <2>6, <2>7
<1>4. ASSUME NEW b \in Cuts, HeadBackward(b) PROVE InRing'
  <2>1. b \in grads[0] /\ 0 \in Ranks
    BY <1>4, PipeBounds DEF HeadBackward
  <2>2. b[1] \in locked /\ b = Sent(b[1]) /\ Down(b, 0)
    BY <2>1, OnItsWay, AtRank
  <2>3. /\ UNCHANGED <<acts, cut>> /\ grads' = [grads EXCEPT ![0] = @ \ {b}]
        /\ cached' = [cached EXCEPT ![0] = @ \ {b}]
        /\ locked' = locked \ {b[1]} /\ inputs' = inputs \ {b}
    BY <1>4 DEF HeadBackward, Released
  <2>4. \A r \in Ranks : /\ grads'[r] = grads[r] \ {b} /\ acts'[r] = acts[r] \ {b}
                         /\ cached'[r] = cached[r] \ {b}
    <3>1. \A r \in Ranks : /\ grads'[r] = (IF r = 0 THEN grads[r] \ {b} ELSE grads[r])
                           /\ cached'[r] = (IF r = 0 THEN cached[r] \ {b} ELSE cached[r])
      BY <1>0, <2>3
    <3>2. \A r \in Ranks : b \notin acts[r] /\ (r # 0 => b \notin grads[r] /\ b \notin cached[r])
      BY <2>2, PipeBounds DEF Down
    <3> QED BY <2>3, <3>1, <3>2
  <2>5. \A u \in locked : u # b[1] => Sent(u) # b
    BY <2>2 DEF Sent
  <2>6. inputs' = {(Sent(u))' : u \in locked'}
    <3>1. inputs' = {Sent(u) : u \in locked \ {b[1]}}
      BY <1>a, <2>2, <2>3, <2>5
    <3> QED BY <2>3, <3>1 DEF Sent
  <2>7. \A r \in Ranks : (cached[r] \cup acts[r] \cup grads[r] \subseteq inputs)'
    BY <1>a, <2>3, <2>4
  <2>8. ASSUME NEW u \in locked' PROVE \E p \in Ranks : (Up(Sent(u), p) \/ Down(Sent(u), p))'
    <3>1. u \in locked /\ Sent(u) # b /\ cut'[u] = cut[u]
      BY <2>3, <2>5, <2>8
    <3> QED BY <2>4, <3>1, Unmoved
  <2> QED BY <2>6, <2>7, <2>8 DEF InRing
<1>5. ASSUME NEW r \in Ranks \ {0}, NEW b \in Cuts, ProcessForward(r, b) PROVE InRing'
  <2>1. b \in acts[r] /\ Next1(r) \in Ranks /\ Next1(r) # r
        /\ Next1(r) = IF r = LastRank THEN 0 ELSE r + 1
    BY <1>5, Ring DEF ProcessForward
  <2>2. b[1] \in locked /\ b = Sent(b[1]) /\ Up(b, r)
    BY <2>1, OnItsWay, AtRank
  <2>3. /\ UNCHANGED <<locked, inputs, cut, grads>> /\ cached' = [cached EXCEPT ![r] = @ \cup {b}]
        /\ acts' = [acts EXCEPT ![r] = @ \ {b}, ![Next1(r)] = @ \cup {b}]
    BY <1>5 DEF ProcessForward, Send
  <2>4. \A q \in Ranks : /\ acts'[q] = (IF q = Next1(r) THEN acts[q] \cup {b}
                                        ELSE IF q = r THEN acts[q] \ {b} ELSE acts[q])
                         /\ cached'[q] = (IF q = r THEN cached[q] \cup {b} ELSE cached[q])
    BY <1>0, <2>1, <2>3
  <2>6. (Up(b, Next1(r)))'
    <3>0. \A q \in Ranks : (b \in acts[q] <=> q = r) /\ b \notin grads[q]
      BY <2>2 DEF Up
    <3>4. \A q \in Ranks : b \in acts'[q] <=> q = Next1(r)
      BY <2>4, <3>0
    <3>1. \A q \in Ranks : (b \in acts'[q] <=> q = Next1(r)) /\ b \notin grads'[q]
      BY <2>3, <3>0, <3>4
    <3>2. \A q \in Ranks : b \in cached'[q] <=> (r = 0 \/ q < r) \/ q = r
      BY <2>2, <2>4 DEF Up
    <3>3. \A q \in Ranks : b \in cached'[q] <=> Next1(r) = 0 \/ q < Next1(r)
      BY <2>1, <3>2, PipeBounds
    <3> QED BY <3>1, <3>3 DEF Up
  <2>7. (Up(Sent(b[1]), Next1(r)))'
    BY <2>2, <2>3, <2>6 DEF Up, Sent
  <2>8. \A q \in Ranks : \A x : x # b =>
         /\ x \in acts'[q] <=> x \in acts[q]
         /\ x \in grads'[q] <=> x \in grads[q]
         /\ x \in cached'[q] <=> x \in cached[q]
    <3>1. ASSUME NEW q \in Ranks, NEW x, x # b PROVE x \in acts'[q] <=> x \in acts[q]
      <4>1. CASE q = Next1(r)
        BY <2>4, <3>1, <4>1
      <4>2. CASE q # Next1(r) /\ q = r
        BY <2>4, <3>1, <4>2
      <4>3. CASE q # Next1(r) /\ q # r
        BY <2>4, <3>1, <4>3
      <4> QED BY <4>1, <4>2, <4>3
    <3>2. \A q \in Ranks : \A x : x # b => (x \in cached'[q] <=> x \in cached[q])
      BY <2>4
    <3> QED BY <2>3, <3>1, <3>2
  <2> QED BY <1>m, <2>1, <2>2, <2>3, <2>7, <2>8
<1>6. ASSUME NEW r \in Ranks \ {0}, NEW b \in Cuts, ProcessBackward(r, b) PROVE InRing'
  <2>1. b \in grads[r] /\ Prev1(r) \in Ranks /\ Prev1(r) # r /\ Prev1(r) = r - 1
    BY <1>6, Ring DEF ProcessBackward
  <2>2. b[1] \in locked /\ b = Sent(b[1]) /\ Down(b, r)
    BY <2>1, OnItsWay, AtRank
  <2>3. /\ UNCHANGED <<locked, inputs, cut, acts>> /\ cached' = [cached EXCEPT ![r] = @ \ {b}]
        /\ grads' = [grads EXCEPT ![r] = @ \ {b}, ![Prev1(r)] = @ \cup {b}]
    BY <1>6 DEF ProcessBackward
  <2>4. \A q \in Ranks : /\ grads'[q] = (IF q = Prev1(r) THEN grads[q] \cup {b}
                                         ELSE IF q = r THEN grads[q] \ {b} ELSE grads[q])
                         /\ cached'[q] = (IF q = r THEN cached[q] \ {b} ELSE cached[q])
    BY <1>0, <2>1, <2>3
  <2>5. \A q \in Ranks : (q <= r /\ q # r) <=> q <= Prev1(r)
    BY <2>1, PipeBounds
  <2>6. (Down(b, Prev1(r)))'
    <3>0. \A q \in Ranks : b \notin acts[q] /\ (b \in grads[q] <=> q = r)
      BY <2>2 DEF Down
    <3>4. \A q \in Ranks : b \in grads'[q] <=> q = Prev1(r)
      BY <2>4, <3>0
    <3>1. \A q \in Ranks : b \notin acts'[q] /\ (b \in grads'[q] <=> q = Prev1(r))
      BY <2>3, <3>0, <3>4
    <3>2. \A q \in Ranks : b \in cached'[q] <=> q <= r /\ q # r
      BY <2>2, <2>4 DEF Down
    <3> QED BY <2>5, <3>1, <3>2 DEF Down
  <2>7. (Down(Sent(b[1]), Prev1(r)))'
    BY <2>2, <2>3, <2>6 DEF Down, Sent
  <2>8. \A q \in Ranks : \A x : x # b =>
         /\ x \in acts'[q] <=> x \in acts[q]
         /\ x \in grads'[q] <=> x \in grads[q]
         /\ x \in cached'[q] <=> x \in cached[q]
    <3>1. ASSUME NEW q \in Ranks, NEW x, x # b PROVE x \in grads'[q] <=> x \in grads[q]
      <4>1. CASE q = Prev1(r)
        BY <2>4, <3>1, <4>1
      <4>2. CASE q # Prev1(r) /\ q = r
        BY <2>4, <3>1, <4>2
      <4>3. CASE q # Prev1(r) /\ q # r
        BY <2>4, <3>1, <4>3
      <4> QED BY <4>1, <4>2, <4>3
    <3>2. \A q \in Ranks : \A x : x # b => (x \in cached'[q] <=> x \in cached[q])
      BY <2>4
    <3> QED BY <2>3, <3>1, <3>2
  <2> QED BY <1>m, <2>1, <2>2, <2>3, <2>7, <2>8
<1>7. ASSUME NEW r \in Ranks \ {0}, NEW i \in DOMAIN comm[r],
             ProcessAdd(r, i) \/ ProcessUnknown(r, i) \/ ProcessRunning(r, i) \/ ProcessDone(r, i)
      PROVE  InRing'
  BY <1>7, <1>u DEF ProcessAdd, ProcessUnknown, ProcessRunning, ProcessDone
<1> QED BY <1>1, <1>2, <1>3, <1>4, <1>5, <1>6, <1>7, PipeCases


-----------------------------------------------------------------------------
(* The pace *)

(* The gradient of a batch has passed the ranks above the one it is at. *)
LEMMA PassedAbove ==
  ASSUME Fields, InRing, NEW r \in Ranks, NEW b \in grads[r], NEW q \in Ranks
  PROVE  Passed(q, b[1]) <=> r < q
<1>1. b[1] \in locked /\ b = Sent(b[1]) /\ Down(b, r)
  BY OnItsWay, AtRank
<1>2. \A p \in Ranks : b \in grads[p] <=> p = r
  BY <1>1 DEF Down
<1>3. Passed(q, b[1]) <=> \E p \in Ranks : p < q /\ b \in grads[p]
  BY <1>1 DEF Passed
<1> QED BY <1>2, <1>3

(* Every step keeps the ranks in pace with the gradients. *)
LEMMA InPaceStep ==
  ASSUME Fields, Queued, InRing, InPace, PipeNext
  PROVE  InPace'
<1> USE DEF dispatcher, tasksAt
<1>0. /\ grads \in [Ranks -> SUBSET Cuts] /\ cut \in [Tasks -> Nat] /\ locked \subseteq Tasks
      /\ failed \subseteq Ranks /\ progress \in [Ranks -> [Tasks -> Progresses]]
      /\ 0 \in Ranks /\ 0 \notin failed /\ \A r \in Ranks : r \in Nat /\ r <= LastRank
  BY PipeBounds DEF Fields
<1>b. \A b \in Cuts : b[1] \in Tasks
  BY DEF Cuts
<1>n. \A r \in Ranks, t \in Tasks : progress[r][t].step \in Nat /\ cut[t] \in Nat
  BY <1>0 DEF Progresses
(* What one rank says of one task stays true when its step and the gradient stay. *)
<1>s. ASSUME NEW r \in Ranks \ failed, NEW t \in Tasks,
             progress'[r][t] = progress[r][t], cut'[t] = cut[t], (Passed(r, t))' <=> Passed(r, t)
      PROVE  (progress[r][t].step = IF Passed(r, t) THEN cut[t] + 1 ELSE cut[t])'
  BY <1>s DEF InPace
<1>u. ASSUME UNCHANGED <<locked, grads, cut, progress>>, failed \subseteq failed' PROVE InPace'
  <2> SUFFICES ASSUME NEW r \in Ranks \ failed', NEW t \in Tasks
               PROVE  (progress[r][t].step = IF Passed(r, t) THEN cut[t] + 1 ELSE cut[t])'
    BY DEF InPace
  <2>1. (Passed(r, t))' <=> Passed(r, t)
    BY <1>u DEF Passed, Sent
  <2> QED BY <1>s, <1>u, <2>1
<1>1. ASSUME NEW t \in Tasks, AddTask(t) PROVE InPace'
  BY <1>1, <1>u DEF AddTask
<1>2. CASE ProcessInput
  <2>1. CASE UNCHANGED <<locked, cut, inputs, cached, acts>>
    BY <1>2, <1>u, <2>1 DEF ProcessInput
  <2>2. ASSUME NEW t \in ToSet(running \o Admitted), t \notin locked, Cut(t) PROVE InPace'
    <3>1. t \in Tasks
      <4>1. running \o Admitted \in Seq(Tasks)
        BY TasksAdmitted
      <4> QED BY <4>1, ElementOfSeq, LenProperties DEF ToSet
    <3>2. /\ locked' = locked \cup {t} /\ cut' = [cut EXCEPT ![t] = @ + 1]
          /\ UNCHANGED <<grads, progress, failed>>
      BY <1>2, <2>2 DEF ProcessInput, Cut
    <3>3. cut'[t] = cut[t] + 1 /\ \A u \in Tasks : u # t => cut'[u] = cut[u]
      BY <1>0, <3>1, <3>2
    <3> SUFFICES ASSUME NEW r \in Ranks \ failed, NEW u \in Tasks
                 PROVE  (progress[r][u].step = IF Passed(r, u) THEN cut[u] + 1 ELSE cut[u])'
      BY <3>2 DEF InPace
    <3>4. CASE u = t
      <4>1. ~(Passed(r, t))'
        <5>1. \A q \in Ranks : <<t, cut[t] + 1>> \notin grads[q]
          <6> SUFFICES ASSUME NEW q \in Ranks, NEW b \in grads[q], b = <<t, cut[t] + 1>> PROVE FALSE
            OBVIOUS
          <6>1. b[1] \in locked
            BY OnItsWay
          <6> QED BY <2>2, <6>1
        <5>2. (Sent(t))' = <<t, cut[t] + 1>> /\ t \in locked'
          BY <3>2, <3>3 DEF Sent
        <5> QED BY <3>2, <5>1, <5>2 DEF Passed
      <4>2. Passed(r, t)
        BY <2>2 DEF Passed
      <4>3. progress[r][t].step = cut[t] + 1
        BY <3>1, <4>2 DEF InPace
      <4> QED BY <3>2, <3>3, <3>4, <4>1, <4>3
    <3>5. CASE u # t
      <4>1. (Passed(r, u))' <=> Passed(r, u)
        <5>1. (Sent(u))' = Sent(u) /\ (u \in locked' <=> u \in locked)
          BY <3>2, <3>3, <3>5 DEF Sent
        <5> QED BY <3>2, <5>1 DEF Passed
      <4> QED BY <1>s, <3>2, <3>3, <3>5, <4>1
    <3> QED BY <3>4, <3>5
  <2> QED BY <1>2, <2>1, <2>2 DEF ProcessInput, CanRun
<1>3. ASSUME NEW b \in Cuts, ProcessOutput(b) PROVE InPace'
  <2>1. Prev1(0) = LastRank /\ LastRank \in Ranks
    BY Ring, PipeBounds
  <2>2. UNCHANGED <<locked, cut, progress, failed>> /\ grads' = [grads EXCEPT ![LastRank] = @ \cup {b}]
    BY <1>3, <2>1 DEF ProcessOutput, Send
  <2> SUFFICES ASSUME NEW r \in Ranks \ failed, NEW t \in Tasks
               PROVE  (progress[r][t].step = IF Passed(r, t) THEN cut[t] + 1 ELSE cut[t])'
    BY <2>2 DEF InPace
  <2>3. \A q \in Ranks : q < r => grads'[q] = grads[q]
    <3>1. \A q \in Ranks : q < r => q # LastRank
      BY <1>0, PipeBounds
    <3> QED BY <1>0, <2>1, <2>2, <3>1
  <2>4. (Passed(r, t))' <=> Passed(r, t)
    <3>1. (Sent(t))' = Sent(t) /\ locked' = locked
      BY <2>2 DEF Sent
    <3> QED BY <2>3, <3>1 DEF Passed
  <2> QED BY <1>s, <2>2, <2>4
<1>4. ASSUME NEW b \in Cuts, HeadBackward(b) PROVE InPace'
  <2>1. PICK t \in Tasks : t = b[1]
    BY <1>b
  <2>2. /\ b \in grads[0] /\ grads' = [grads EXCEPT ![0] = @ \ {b}] /\ TaskStep(0, b)
        /\ locked' = locked \ {t} /\ UNCHANGED <<cut, failed>>
    BY <1>4, <2>1 DEF HeadBackward, Released
  <2>3. progress'[0][t] = Advanced(0, t)
        /\ \A q \in Ranks, u \in Tasks : q # 0 \/ u # t => progress'[q][u] = progress[q][u]
    BY <1>0, <2>1, <2>2, Stepped
  <2> SUFFICES ASSUME NEW r \in Ranks \ failed, NEW u \in Tasks
               PROVE  (progress[r][u].step = IF Passed(r, u) THEN cut[u] + 1 ELSE cut[u])'
    BY <2>2 DEF InPace
  <2>4. CASE u = t
    <3>1. (Passed(r, t))'
      BY <2>2 DEF Passed
    <3>2. Passed(r, t) <=> 0 < r
      BY <1>0, <2>1, <2>2, PassedAbove
    <3>3. progress'[r][t].step = cut[t] + 1
      <4>1. CASE r = 0
        <5>1. progress[0][t].step = cut[t]
          BY <1>0, <3>2, <4>1 DEF InPace
        <5>2. Advanced(0, t).step = progress[0][t].step + 1
          BY DEF Advanced
        <5> QED BY <2>3, <4>1, <5>1, <5>2
      <4>2. CASE r # 0
        <5>1. 0 < r
          BY <1>0, <4>2
        <5>2. progress[r][t].step = cut[t] + 1
          BY <3>2, <5>1 DEF InPace
        <5> QED BY <2>3, <4>2, <5>2
      <4> QED BY <4>1, <4>2
    <3> QED BY <2>2, <2>4, <3>1, <3>3
  <2>5. CASE u # t
    <3>1. (Passed(r, u))' <=> Passed(r, u)
      <4>1. (Sent(u))' = Sent(u) /\ (u \in locked' <=> u \in locked) /\ Sent(u) # b
        BY <2>1, <2>2, <2>5 DEF Sent
      <4>2. \A q \in Ranks : Sent(u) \in grads'[q] <=> Sent(u) \in grads[q]
        BY <1>0, <2>2, <4>1
      <4> QED BY <4>1, <4>2 DEF Passed
    <3> QED BY <1>s, <2>2, <2>3, <2>5, <3>1
  <2> QED BY <2>4, <2>5
<1>5. ASSUME NEW r \in Ranks \ {0}, NEW b \in Cuts, ProcessForward(r, b) PROVE InPace'
  BY <1>5, <1>u DEF ProcessForward
<1>6. ASSUME NEW r \in Ranks \ {0}, NEW b \in Cuts, ProcessBackward(r, b) PROVE InPace'
  <2>1. PICK t \in Tasks : t = b[1]
    BY <1>b
  <2>2. /\ b \in grads[r] /\ grads' = [grads EXCEPT ![r] = @ \ {b}, ![Prev1(r)] = @ \cup {b}]
        /\ UNCHANGED <<cut, locked>> /\ Prev1(r) = r - 1 /\ r - 1 \in Ranks
    <3>1. Prev1(r) = r - 1 /\ Prev1(r) \in Ranks
      BY Ring
    <3> QED BY <1>6, <3>1 DEF ProcessBackward
  <2>3. /\ failed \subseteq failed'
        /\ r \notin failed' => progress'[r][t] = Advanced(r, t)
        /\ \A q \in Ranks, u \in Tasks : q # r \/ u # t => progress'[q][u] = progress[q][u]
    <3>1. CASE TaskStep(r, b) /\ UNCHANGED failed
      BY <2>1, <3>1, Stepped
    <3>2. CASE failed' = failed \cup {r} /\ UNCHANGED <<progress, unapplied>>
      BY <3>2
    <3> QED BY <1>6, <3>1, <3>2 DEF ProcessBackward
  <2>4. t \in locked /\ b = Sent(t) /\ Down(b, r)
    BY <2>1, <2>2, OnItsWay, AtRank
  <2>5. \A q \in Ranks : b \in grads'[q] <=> q = r - 1
    <3>1. \A q \in Ranks : b \in grads[q] <=> q = r
      BY <2>4 DEF Down
    <3>2. PICK p \in Ranks : p = r - 1 /\ p # r
      BY <1>0, <2>2
    <3>3. \A q \in Ranks : grads'[q] = (IF q = p THEN grads[q] \cup {b}
                                        ELSE IF q = r THEN grads[q] \ {b} ELSE grads[q])
      BY <1>0, <2>2, <3>2
    <3>4. \A q \in Ranks : b \in grads'[q] <=> q = p
      BY <3>1, <3>3
    <3> QED BY <3>2, <3>4
  <2> SUFFICES ASSUME NEW q \in Ranks \ failed', NEW u \in Tasks
               PROVE  (progress[q][u].step = IF Passed(q, u) THEN cut[u] + 1 ELSE cut[u])'
    BY DEF InPace
  <2>6. q \in Ranks \ failed
    BY <2>3
  <2>7. CASE u = t
    <3>1. (Passed(q, t))' <=> r - 1 < q
      <4>1. (Sent(t))' = b /\ t \in locked'
        BY <2>2, <2>4 DEF Sent
      <4>2. (Passed(q, t))' <=> \E p \in Ranks : p < q /\ b \in grads'[p]
        BY <4>1 DEF Passed
      <4> QED BY <2>2, <2>5, <4>2
    <3>2. Passed(q, t) <=> r < q
      BY <2>1, <2>2, PassedAbove
    <3>3. CASE q = r
      <4>1. progress[r][t].step = cut[t]
        <5>1. ~Passed(r, t)
          BY <1>0, <3>2, <3>3
        <5> QED BY <2>6, <3>3, <5>1 DEF InPace
      <4>2. Advanced(r, t).step = progress[r][t].step + 1
        BY DEF Advanced
      <4>3. (Passed(r, t))'
        <5>1. r - 1 < r
          BY <1>0
        <5> QED BY <3>1, <3>3, <5>1
      <4>4. progress'[r][t].step = cut[t] + 1
        BY <2>3, <3>3, <4>1, <4>2
      <4> QED BY <2>2, <2>7, <3>3, <4>3, <4>4
    <3>4. CASE q # r
      <4>0. q \in Nat /\ r \in Nat
        BY <1>0, <2>6
      <4>1. r - 1 < q <=> r < q
        <5>1. \A x, y \in Nat : x # y => (y - 1 < x <=> y < x)
          OBVIOUS
        <5> QED BY <3>4, <4>0, <5>1
      <4> QED BY <1>s, <2>2, <2>3, <2>6, <2>7, <3>1, <3>2, <3>4, <4>1
    <3> QED BY <3>3, <3>4
  <2>8. CASE u # t
    <3>1. (Passed(q, u))' <=> Passed(q, u)
      <4>1. (Sent(u))' = Sent(u) /\ locked' = locked /\ Sent(u) # b
        BY <2>1, <2>2, <2>8 DEF Sent
      <4>2. PICK p \in Ranks : p = Prev1(r) /\ p # r
        BY <2>2, Ring
      <4>3. \A v \in Ranks : grads'[v] = (IF v = p THEN grads[v] \cup {b}
                                          ELSE IF v = r THEN grads[v] \ {b} ELSE grads[v])
        BY <1>0, <2>2, <4>2
      <4>5. ASSUME NEW v \in Ranks PROVE Sent(u) \in grads'[v] <=> Sent(u) \in grads[v]
        <5>1. CASE v = p
          BY <4>1, <4>3, <5>1
        <5>2. CASE v # p /\ v = r
          BY <4>1, <4>3, <5>2
        <5>3. CASE v # p /\ v # r
          BY <4>1, <4>3, <5>3
        <5> QED BY <5>1, <5>2, <5>3
      <4> QED BY <4>1, <4>5 DEF Passed
    <3> QED BY <1>s, <2>2, <2>3, <2>6, <2>8, <3>1
  <2> QED BY <2>7, <2>8
<1>7. ASSUME NEW r \in Ranks \ {0}, NEW i \in DOMAIN comm[r],
             ProcessAdd(r, i) \/ ProcessUnknown(r, i) \/ ProcessRunning(r, i) \/ ProcessDone(r, i)
      PROVE  InPace'
  <2>1. UNCHANGED <<locked, grads, cut, progress>> /\ failed \subseteq failed'
    BY <1>7 DEF ProcessAdd, ProcessUnknown, ProcessRunning, ProcessDone
  <2> QED BY <1>u, <2>1
<1> QED BY <1>1, <1>2, <1>3, <1>4, <1>5, <1>6, <1>7, PipeCases


-----------------------------------------------------------------------------
(* The epochs, the gradients that wait, and what is saved *)

(* A rank steps a task for a gradient that came to it, or no task at all; nothing *)
(* saved is forgotten, and on the others a step saves nothing.                    *)
LEMMA StepsOfTasks ==
  ASSUME Fields, PipeNext
  PROVE  /\ \/ UNCHANGED <<progress, unapplied>>
            \/ \E b \in grads[0] : HeadBackward(b) /\ TaskStep(0, b)
            \/ \E r \in Ranks \ ({0} \cup failed) : \E b \in grads[r] :
                 TaskStep(r, b) /\ saved' = saved
         /\ \A r \in Ranks : saved[r] \subseteq saved'[r]
<1> USE DEF dispatcher, tasksAt
<1>0. saved \in [Ranks -> SUBSET Tasks] /\ 0 \in Ranks
  BY PipeBounds DEF Fields
<1>e. ASSUME NEW r \in Ranks, NEW t, saved' = saved \/ EndTask(r, t)
      PROVE  \A q \in Ranks : saved[q] \subseteq saved'[q]
  BY <1>0, <1>e DEF EndTask
<1>1. ASSUME NEW t \in Tasks, AddTask(t) PROVE UNCHANGED <<progress, unapplied, saved>>
  BY <1>1 DEF AddTask
<1>2. CASE ProcessInput
  BY <1>2 DEF ProcessInput
<1>3. ASSUME NEW b \in Cuts, ProcessOutput(b) PROVE UNCHANGED <<progress, unapplied, saved>>
  BY <1>3 DEF ProcessOutput
<1>4. ASSUME NEW b \in Cuts, HeadBackward(b)
      PROVE  /\ b \in grads[0] /\ TaskStep(0, b)
             /\ \A q \in Ranks : saved[q] \subseteq saved'[q]
  BY <1>0, <1>4, <1>e DEF HeadBackward, DispatchTaskOut
<1>5. ASSUME NEW r \in Ranks \ {0}, NEW b \in Cuts, ProcessForward(r, b)
      PROVE  UNCHANGED <<progress, unapplied, saved>>
  BY <1>5 DEF ProcessForward
<1>6. ASSUME NEW r \in Ranks \ {0}, NEW b \in Cuts, ProcessBackward(r, b)
      PROVE  /\ b \in grads[r] /\ saved' = saved
             /\ TaskStep(r, b) \/ UNCHANGED <<progress, unapplied>>
  BY <1>6 DEF ProcessBackward
<1>7. ASSUME NEW r \in Ranks \ {0}, NEW i \in DOMAIN comm[r],
             ProcessAdd(r, i) \/ ProcessUnknown(r, i) \/ ProcessRunning(r, i)
      PROVE  UNCHANGED <<progress, unapplied, saved>>
  BY <1>7 DEF ProcessAdd, ProcessUnknown, ProcessRunning
<1>8. ASSUME NEW r \in Ranks \ {0}, NEW i \in DOMAIN comm[r], ProcessDone(r, i)
      PROVE  /\ UNCHANGED <<progress, unapplied>>
             /\ \A q \in Ranks : saved[q] \subseteq saved'[q]
  BY <1>8, <1>e DEF ProcessDone
<1> QED BY <1>1, <1>2, <1>3, <1>4, <1>5, <1>6, <1>7, <1>8, PipeCases

(* A rank a gradient comes to is level with the head, which has batches left. *)
LEMMA BatchesLeft ==
  ASSUME Fields, Queued, InRing, InPace, InEpoch,
         NEW r \in Ranks \ failed, NEW b \in grads[r]
  PROVE  /\ b \in Cuts /\ b[1] \in Tasks /\ b[1] \in locked /\ b[1] \notin saved[0]
         /\ progress[0][b[1]] \in Progresses /\ progress[0][b[1]].epoch <= NumEpochs
         /\ HeadPlace(b[1], progress[0][b[1]])
         /\ progress[r][b[1]].step = progress[0][b[1]].step
         /\ progress[r][b[1]].step <= Total(b[1])
<1>0. 0 \in Ranks /\ 0 \notin failed /\ \A q \in Ranks : q \in Nat
  BY PipeBounds DEF Fields
<1>1. b[1] \in locked /\ b \in Cuts
  BY OnItsWay
<1>2. b[1] \in Tasks
  BY <1>1 DEF Cuts
<1>3. b[1] \notin saved[0]
  BY <1>1 DEF Queued
<1>4. ~Passed(0, b[1]) /\ ~Passed(r, b[1])
  <2>1. (Passed(0, b[1]) <=> r < 0) /\ (Passed(r, b[1]) <=> r < r)
    BY <1>0, PassedAbove
  <2> QED BY <1>0, <2>1
<1>5. progress[r][b[1]].step = progress[0][b[1]].step
  BY <1>0, <1>2, <1>4 DEF InPace
<1>6. progress[0][b[1]] \in Progresses
  BY <1>0, <1>2 DEF Fields
<1>7. HeadPlace(b[1], progress[0][b[1]]) /\ progress[0][b[1]].epoch <= NumEpochs
  BY <1>2, <1>3 DEF InEpoch
<1>8. progress[0][b[1]].step <= Total(b[1])
  BY <1>2, <1>6, <1>7, HeadAdvance
<1> QED BY <1>1, <1>2, <1>3, <1>5, <1>6, <1>7, <1>8

(* The head's step of a task with batches left: the end of the last epoch is the *)
(* end of the batches.                                                           *)
LEMMA HeadStep ==
  ASSUME NEW t \in Tasks, progress[0][t] \in Progresses, progress[0][t].epoch <= NumEpochs,
         HeadPlace(t, progress[0][t])
  PROVE  /\ HeadPlace(t, Advanced(0, t))
         /\ Advanced(0, t).step <= Total(t) + 1 /\ Advanced(0, t).epoch <= Total(t) + 1
         /\ IsDone(Advanced(0, t)) => Advanced(0, t).step = Total(t) + 1
         /\ ~IsDone(Advanced(0, t)) => Advanced(0, t).epoch <= NumEpochs
<1>1. PICK p \in Progresses : p = progress[0][t]
  OBVIOUS
<1>2. p.step \in Nat /\ p.epoch \in Nat /\ NumEpochs \in Nat /\ Total(t) \in Nat /\ Total(t) >= NumEpochs
  BY BatchesPerEpoch, PipeBounds DEF Progresses
<1>3. PICK q : q = Advanced(0, t)
  OBVIOUS
<1>4. PICK over : over = (p.idx + MiniBatch >= DataLen[t])
  OBVIOUS
<1>5. q = [step |-> p.step + 1, epoch |-> IF over THEN p.epoch + 1 ELSE p.epoch,
           idx |-> IF over THEN 0 ELSE p.idx + MiniBatch]
  BY <1>1, <1>3, <1>4 DEF Advanced, Points
<1>6. /\ p.step <= Total(t) /\ HeadPlace(t, q)
      /\ q.epoch > NumEpochs => q.epoch = NumEpochs + 1 /\ q.step = Total(t) + 1
  BY <1>1, <1>4, <1>5, HeadAdvance
<1>7. q.step = p.step + 1 /\ q.epoch \in Nat
  BY <1>2, <1>5
<1>8. q.epoch <= Total(t) + 1
  BY <1>2, <1>6, <1>7
<1> QED BY <1>2, <1>3, <1>6, <1>7, <1>8 DEF IsDone

(* The step of another rank: every batch is an epoch to it. *)
LEMMA RankStep ==
  ASSUME Fields, InEpoch, NEW r \in Ranks \ {0}, NEW t \in Tasks
  PROVE  /\ progress[r][t].step \in Nat \ {0} /\ Advanced(r, t).idx = 0
         /\ Advanced(r, t).step = progress[r][t].step + 1
         /\ Advanced(r, t).epoch = progress[r][t].step + 1
<1>1. progress[r][t].step \in Nat \ {0} /\ progress[r][t].idx = 0
      /\ progress[r][t].epoch = progress[r][t].step
  BY DEF Fields, InEpoch, Progresses
<1>2. Points(r, t) = 0 /\ 0 + MiniBatch >= 0
  BY PipeBounds DEF Points
<1> QED BY <1>1, <1>2 DEF Advanced

(* Every step keeps each rank's place in the epochs. *)
LEMMA InEpochStep ==
  ASSUME Fields, Queued, InRing, InPace, InEpoch, PipeNext
  PROVE  InEpoch'
<1>0. 0 \in Ranks /\ 0 \notin failed
  BY PipeBounds DEF Fields
<1>s. saved[0] \subseteq saved'[0]
  BY <1>0, StepsOfTasks
<1>1. CASE UNCHANGED progress
  BY <1>1, <1>s DEF InEpoch, HeadPlace
(* What a step must show of the one task it steps. *)
<1>2. ASSUME NEW r \in Ranks, NEW t \in Tasks,
             \A q \in Ranks, u \in Tasks : q # r \/ u # t => progress'[q][u] = progress[q][u],
             r = 0 => /\ HeadPlace(t, progress'[0][t])
                      /\ t \notin saved'[0] => progress'[0][t].epoch <= NumEpochs,
             r # 0 => progress'[r][t].idx = 0 /\ progress'[r][t].epoch = progress'[r][t].step,
             progress'[r][t].step <= Total(t) + 1, progress'[r][t].epoch <= Total(t) + 1
      PROVE  InEpoch'
  <2>1. ASSUME NEW u \in Tasks
        PROVE  /\ HeadPlace(u, progress'[0][u])
               /\ u \notin saved'[0] => progress'[0][u].epoch <= NumEpochs
    <3>1. CASE r = 0 /\ u = t
      BY <1>2, <3>1
    <3>2. CASE ~(r = 0 /\ u = t)
      <4>1. progress'[0][u] = progress[0][u]
        BY <1>0, <1>2, <3>2
      <4> QED BY <1>s, <4>1 DEF InEpoch
    <3> QED BY <3>1, <3>2
  <2>2. ASSUME NEW q \in Ranks \ {0}, NEW u \in Tasks
        PROVE  progress'[q][u].idx = 0 /\ progress'[q][u].epoch = progress'[q][u].step
    <3>1. CASE q = r /\ u = t
      BY <1>2, <3>1
    <3>2. CASE ~(q = r /\ u = t)
      <4>1. progress'[q][u] = progress[q][u]
        BY <1>2, <3>2
      <4> QED BY <4>1 DEF InEpoch
    <3> QED BY <3>1, <3>2
  <2>3. ASSUME NEW q \in Ranks, NEW u \in Tasks
        PROVE  progress'[q][u].step <= Total(u) + 1 /\ progress'[q][u].epoch <= Total(u) + 1
    <3>1. CASE q = r /\ u = t
      BY <1>2, <3>1
    <3>2. CASE ~(q = r /\ u = t)
      <4>1. progress'[q][u] = progress[q][u]
        BY <1>2, <3>2
      <4> QED BY <4>1 DEF InEpoch
    <3> QED BY <3>1, <3>2
  <2> QED BY <2>1, <2>2, <2>3 DEF InEpoch, HeadPlace
<1>3. ASSUME NEW b \in grads[0], HeadBackward(b), TaskStep(0, b) PROVE InEpoch'
  <2>1. PICK t \in Tasks : t = b[1]
    BY <1>0, BatchesLeft
  <2>2. /\ progress'[0][t] = Advanced(0, t)
        /\ \A q \in Ranks, u \in Tasks : q # 0 \/ u # t => progress'[q][u] = progress[q][u]
    <3>1. b \in Cuts
      BY <1>0, BatchesLeft
    <3> QED BY <1>0, <1>3, <2>1, <3>1, Stepped
  <2>3. /\ HeadPlace(t, Advanced(0, t))
        /\ Advanced(0, t).step <= Total(t) + 1 /\ Advanced(0, t).epoch <= Total(t) + 1
        /\ ~IsDone(Advanced(0, t)) => Advanced(0, t).epoch <= NumEpochs
    BY <1>0, <2>1, BatchesLeft, HeadStep
  <2>4. IsDone(Advanced(0, t)) => t \in saved'[0]
    <3>1. IsDone(Advanced(0, t)) => saved' = [saved EXCEPT ![0] = @ \cup {t}]
      BY <1>3, <2>1 DEF HeadBackward, DispatchTaskOut, EndTask
    <3> QED BY <1>0, <3>1 DEF Fields
  <2> HIDE DEF Advanced
  <2>5. /\ HeadPlace(t, progress'[0][t])
        /\ t \notin saved'[0] => progress'[0][t].epoch <= NumEpochs
        /\ progress'[0][t].step <= Total(t) + 1 /\ progress'[0][t].epoch <= Total(t) + 1
    BY <2>2, <2>3, <2>4
  <2> QED BY <1>0, <1>2, <2>2, <2>5
<1>4. ASSUME NEW r \in Ranks \ ({0} \cup failed), NEW b \in grads[r], TaskStep(r, b) PROVE InEpoch'
  <2>1. PICK t \in Tasks : t = b[1]
    BY BatchesLeft
  <2>2. /\ progress'[r][t] = Advanced(r, t)
        /\ \A q \in Ranks, u \in Tasks : q # r \/ u # t => progress'[q][u] = progress[q][u]
    <3>1. b \in Cuts
      BY BatchesLeft
    <3> QED BY <1>4, <2>1, <3>1, Stepped
  <2>3. progress[r][t].step <= Total(t) /\ Total(t) \in Nat
    BY <2>1, BatchesLeft, BatchesPerEpoch
  <2>4. /\ progress[r][t].step \in Nat \ {0} /\ progress'[r][t].idx = 0
        /\ progress'[r][t].step = progress[r][t].step + 1
        /\ progress'[r][t].epoch = progress[r][t].step + 1
    BY <2>2, RankStep
  <2>5. progress'[r][t].step <= Total(t) + 1 /\ progress'[r][t].epoch <= Total(t) + 1
    BY <2>3, <2>4
  <2> QED BY <1>2, <2>2, <2>4, <2>5
<1> QED BY <1>1, <1>3, <1>4, StepsOfTasks


(* Every step keeps the bound on the gradients that wait. *)
LEMMA AppliedStep ==
  ASSUME Fields, Queued, InRing, InPace, InEpoch, Applied, PipeNext
  PROVE  Applied'
<1>1. CASE UNCHANGED <<progress, unapplied>>
  BY <1>1 DEF Applied
<1>2. ASSUME NEW r \in Ranks \ failed, NEW b \in grads[r], TaskStep(r, b) PROVE Applied'
  <2>1. b \in Cuts
    BY BatchesLeft
  <2>2. PICK t \in Tasks : t = b[1]
    BY <2>1 DEF Cuts
  <2>3. /\ \A q \in Ranks, u \in Tasks : q # r \/ u # t =>
             progress'[q][u] = progress[q][u] /\ unapplied'[q][u] = unapplied[q][u]
        /\ progress'[r][t] = Advanced(r, t)
        /\ Applies(r, t) => unapplied'[r][t] = 0
        /\ ~Applies(r, t) => unapplied'[r][t] \in {unapplied[r][t], unapplied[r][t] + 1}
    BY <1>2, <2>1, <2>2, Stepped
  <2>4. PICK s \in Nat \ {0} : s = progress[r][t].step
    BY DEF Fields, Progresses
  <2>5. progress'[r][t].step = s + 1
    BY <2>3, <2>4 DEF Advanced
  <2>6. PICK A \in Nat \ {0} : A = Accumulate
    BY PipeBounds
  <2>7. unapplied[r][t] \in Nat /\ unapplied[r][t] <= (s - 1) % A
    BY <2>4, <2>6 DEF Applied, Fields
  <2>8. unapplied'[r][t] <= ((s + 1) - 1) % A
    <3>1. (s + 1) - 1 = s /\ s % A \in Nat
      BY <2>4, <2>6
    <3>2. CASE Applies(r, t)
      BY <2>3, <3>1, <3>2
    <3>3. CASE ~Applies(r, t)
      <4>1. s % A # 0
        BY <2>4, <2>6, <3>3 DEF Applies
      <4>2. PICK x \in Nat : x = s - 1 /\ s = x + 1
        BY <2>4
      <4>3. (x % A) + 1 = s % A
        BY <2>6, <4>1, <4>2, NextRemainder
      <4>4. x % A \in Nat
        BY <2>6, <4>2
      <4>5. unapplied'[r][t] <= (x % A) + 1
        BY <2>3, <2>7, <3>3, <4>2, <4>4
      <4> QED BY <3>1, <4>3, <4>5
    <3> QED BY <3>2, <3>3
  <2>9. r # 0 /\ progress'[r][t].step = Total(t) + 1 => unapplied'[r][t] = 0
    <3> SUFFICES ASSUME r # 0, progress'[r][t].step = Total(t) + 1 PROVE unapplied'[r][t] = 0
      OBVIOUS
    <3>1. Advanced(r, t).epoch = s + 1
      BY <2>4, RankStep
    <3>2. s + 1 = Total(t) + 1
      BY <2>5
    <3>3. Total(t) \in Nat /\ Total(t) >= NumEpochs /\ NumEpochs \in Nat
      BY BatchesPerEpoch, PipeBounds
    <3>4. Advanced(r, t).epoch >= NumEpochs
      BY <3>1, <3>2, <3>3
    <3> QED BY <2>3, <3>4 DEF Applies
  <2>10. ASSUME NEW q \in Ranks, NEW u \in Tasks
         PROVE  /\ unapplied'[q][u] <= (progress'[q][u].step - 1) % Accumulate
                /\ q # 0 /\ progress'[q][u].step = Total(u) + 1 => unapplied'[q][u] = 0
    <3>1. CASE q = r /\ u = t
      BY <2>5, <2>6, <2>8, <2>9, <3>1
    <3>2. CASE ~(q = r /\ u = t)
      <4>1. progress'[q][u] = progress[q][u] /\ unapplied'[q][u] = unapplied[q][u]
        BY <2>3, <3>2
      <4> QED BY <4>1 DEF Applied
    <3> QED BY <3>1, <3>2
  <2> QED BY <2>10 DEF Applied, Total
<1>3. 0 \in Ranks \ failed
  BY PipeBounds DEF Fields
<1> QED BY <1>1, <1>2, <1>3, StepsOfTasks

(* Every step keeps the order of the ends. *)
LEMMA EndedStep ==
  ASSUME Fields, Queued, Ended, PipeNext
  PROVE  Ended'
<1> USE DEF dispatcher, tasksAt
<1>0. 0 \in Ranks /\ saved \in [Ranks -> SUBSET Tasks] /\ comm \in [Ranks -> Seq(Message)]
  BY PipeBounds DEF Fields
<1>g. saved[0] \subseteq saved'[0]
  BY <1>0, StepsOfTasks
(* What a step must show. *)
<1>u. ASSUME \A r \in Ranks : saved'[r] \subseteq saved[r] \cup saved'[0],
             \A q \in Ranks : \A m \in ToSet(comm'[q]) :
               m.do # "done" \/ m.task \in saved'[0] \/ \E p \in Ranks : m \in ToSet(comm[p])
      PROVE  Ended'
  BY <1>g, <1>u DEF Ended
<1>1. ASSUME NEW t \in Tasks, AddTask(t) PROVE Ended'
  <2>1. PICK m \in Message : m = [do |-> "add", task |-> t]
    BY DEF Message
  <2>2. PICK msgs \in Seq(Message) : msgs = <<m>> /\ ToSet(msgs) = {m}
    BY SingleMember
  <2>3. \A q \in Ranks : ToSet(comm'[q]) \subseteq ToSet(comm[q]) \cup {m}
    BY <1>0, <1>1, <2>1, <2>2, Told DEF AddTask
  <2>4. m.do # "done"
    BY <2>1
  <2>5. saved' = saved
    BY <1>1 DEF AddTask
  <2> QED BY <1>u, <2>3, <2>4, <2>5
<1>2. CASE ProcessInput
  <2>1. PICK a : a = Admitted
    OBVIOUS
  <2>2. a \in Seq(Tasks)
    BY <2>1, TasksAdmitted
  <2>3. PICK msgs : msgs = [i \in DOMAIN a |-> [do |-> "running", task |-> a[i]]]
    OBVIOUS
  <2>4. msgs \in Seq(Message) /\ \A m \in ToSet(msgs) : m.do # "done"
    BY <2>2, <2>3, RunningMessages
  <2>5. comm' = Tell(0, msgs) /\ saved' = saved
    BY <1>2, <2>1, <2>3 DEF ProcessInput
  <2>6. \A q \in Ranks : ToSet(comm'[q]) \subseteq ToSet(comm[q]) \cup ToSet(msgs)
    BY <1>0, <2>4, <2>5, Told
  <2> QED BY <1>u, <2>4, <2>5, <2>6
<1>3. ASSUME UNCHANGED <<saved, comm>> PROVE Ended'
  BY <1>3 DEF Ended
<1>4. ASSUME NEW b \in Cuts, HeadBackward(b) PROVE Ended'
  <2>1. CASE UNCHANGED <<saved, comm>>
    BY <1>3, <2>1
  <2>2. CASE EndTask(0, b[1]) /\ comm' = Tell(0, <<[do |-> "done", task |-> b[1]]>>)
    <3>1. PICK m \in Message : m = [do |-> "done", task |-> b[1]]
      BY DEF Message, Cuts
    <3>2. PICK msgs \in Seq(Message) : msgs = <<m>> /\ ToSet(msgs) = {m}
      BY SingleMember
    <3>3. \A q \in Ranks : ToSet(comm'[q]) \subseteq ToSet(comm[q]) \cup {m}
      BY <1>0, <2>2, <3>1, <3>2, Told
    <3>4. m.task \in saved'[0] /\ \A q \in Ranks : q # 0 => saved'[q] = saved[q]
      BY <1>0, <2>2, <3>1 DEF EndTask
    <3>5. \A q \in Ranks : saved'[q] \subseteq saved[q] \cup saved'[0]
      BY <3>4
    <3> QED BY <1>u, <3>3, <3>4, <3>5
  <2> QED BY <1>4, <2>1, <2>2 DEF HeadBackward, DispatchTaskOut
<1>5. ASSUME NEW r \in Ranks \ {0}, NEW i \in DOMAIN comm[r],
             ProcessAdd(r, i) \/ ProcessRunning(r, i) \/ ProcessDone(r, i)
      PROVE  Ended'
  <2>1. \A q \in Ranks : \A m \in ToSet(comm'[q]) : \E p \in Ranks : m \in ToSet(comm[p])
    BY <1>5, PassedOn DEF ProcessAdd, ProcessRunning, ProcessDone
  <2>2. CASE UNCHANGED saved
    BY <1>u, <2>1, <2>2
  <2>3. CASE comm[r][i].do = "done" /\ EndTask(r, comm[r][i].task)
    <3>1. comm[r][i] \in ToSet(comm[r])
      BY DEF ToSet
    <3>2. comm[r][i].task \in saved[0]
      BY <2>3, <3>1 DEF Ended
    <3>3. \A q \in Ranks : saved'[q] \subseteq saved[q] \cup {comm[r][i].task}
      BY <1>0, <2>3 DEF EndTask
    <3>4. \A q \in Ranks : saved'[q] \subseteq saved[q] \cup saved'[0]
      BY <1>g, <3>2, <3>3
    <3> QED BY <1>u, <2>1, <3>4
  <2> QED BY <1>5, <2>2, <2>3 DEF ProcessAdd, ProcessRunning, ProcessDone
<1>6. ASSUME NEW r \in Ranks \ {0}, NEW i \in DOMAIN comm[r], ProcessUnknown(r, i) PROVE Ended'
  <2>1. \A q \in Ranks : ToSet(comm'[q]) \subseteq ToSet(comm[q])
    BY <1>6, TakenOff DEF ProcessUnknown
  <2>2. saved' = saved
    BY <1>6 DEF ProcessUnknown
  <2> QED BY <1>u, <2>1, <2>2
<1>7. ASSUME NEW b \in Cuts, ProcessOutput(b) PROVE Ended'
  BY <1>3, <1>7 DEF ProcessOutput
<1>8. ASSUME NEW r \in Ranks \ {0}, NEW b \in Cuts, ProcessForward(r, b) \/ ProcessBackward(r, b)
      PROVE  Ended'
  BY <1>3, <1>8 DEF ProcessForward, ProcessBackward
<1> QED BY <1>1, <1>2, <1>4, <1>5, <1>6, <1>7, <1>8, PipeCases

(* Every step keeps what was saved whole, and saves only what is. *)
LEMMA SavedWholeStep ==
  ASSUME Fields, Queued, InRing, InPace, InEpoch, Applied, Ended, SavedWhole, PipeNext
  PROVE  SavedWhole'
<1> USE DEF dispatcher, tasksAt
<1>0. /\ 0 \in Ranks /\ 0 \notin failed /\ saved \in [Ranks -> SUBSET Tasks]
      /\ attached \in [Ranks -> SUBSET Tasks]
  BY PipeBounds DEF Fields
(* What was saved takes no step any more. *)
<1>1. ASSUME NEW r \in Ranks, NEW t \in saved[r]
      PROVE  progress'[r][t].step = Total(t) + 1 /\ unapplied'[r][t] = 0
  <2>1. t \in Tasks /\ t \in saved[0] /\ progress[r][t].step = Total(t) + 1 /\ unapplied[r][t] = 0
    BY <1>0 DEF Ended, SavedWhole
  <2>2. ASSUME NEW q \in Ranks \ failed, NEW b \in grads[q], TaskStep(q, b)
        PROVE  progress'[r][t] = progress[r][t] /\ unapplied'[r][t] = unapplied[r][t]
    <3>1. b \in Cuts /\ b[1] # t
      BY <2>1, BatchesLeft
    <3> QED BY <2>1, <2>2, <3>1, Stepped
  <2>3. progress'[r][t] = progress[r][t] /\ unapplied'[r][t] = unapplied[r][t]
    BY <1>0, <2>2, StepsOfTasks
  <2> QED BY <2>1, <2>3
(* What a step must show. *)
<1>u. ASSUME NEW r \in Ranks, NEW t, \A q \in Ranks : q # r => saved'[q] = saved[q],
             saved'[r] \subseteq saved[r] \cup {t},
             t \in saved'[r] => t \in saved[r] \/ /\ progress'[r][t].step = Total(t) + 1
                                                  /\ unapplied'[r][t] = 0,
             \A q \in Ranks : \A u \in saved'[q] : u \notin attached'[q]
      PROVE  SavedWhole'
  <2> SUFFICES ASSUME NEW q \in Ranks, NEW u \in saved'[q]
               PROVE  progress'[q][u].step = Total(u) + 1 /\ unapplied'[q][u] = 0
    BY <1>u DEF SavedWhole, Total
  <2>1. u \in saved[q] \/ (q = r /\ u = t)
    BY <1>u
  <2> QED BY <1>1, <1>u, <2>1
<1>a. \A q \in Ranks : \A u \in saved[q] : u \notin attached[q]
  BY DEF SavedWhole
<1>2. ASSUME UNCHANGED <<saved, attached>> PROVE SavedWhole'
  BY <1>0, <1>2, <1>a, <1>u
<1>3. CASE ProcessInput
  <2>1. saved' = saved /\ attached' = [attached EXCEPT ![0] = @ \cup ToSet(Admitted)]
    BY <1>3 DEF ProcessInput
  <2>2. saved[0] \cap ToSet(Admitted) = {}
    BY TasksAdmitted DEF Queued
  <2>3. \A q \in Ranks : \A u \in saved'[q] : u \notin attached'[q]
    BY <1>0, <1>a, <2>1, <2>2
  <2> QED BY <1>0, <1>u, <2>1, <2>3
<1>4. ASSUME NEW b \in Cuts, HeadBackward(b) PROVE SavedWhole'
  <2>1. b \in grads[0] /\ TaskStep(0, b)
    BY <1>4 DEF HeadBackward
  <2>2. PICK t \in Tasks : t = b[1]
    BY <1>0, <2>1, BatchesLeft
  <2>3. CASE ~IsDone(Advanced(0, t))
    BY <1>2, <1>4, <2>2, <2>3 DEF HeadBackward, DispatchTaskOut
  <2>4. CASE IsDone(Advanced(0, t))
    <3>1. /\ saved' = [saved EXCEPT ![0] = @ \cup {t}]
          /\ attached' = [attached EXCEPT ![0] = @ \ {t}]
      BY <1>4, <2>2, <2>4 DEF HeadBackward, DispatchTaskOut, EndTask
    <3>2. progress'[0][t] = Advanced(0, t) /\ (Applies(0, t) => unapplied'[0][t] = 0)
      BY <1>0, <2>1, <2>2, Stepped
    <3>3. Advanced(0, t).step = Total(t) + 1
      BY <1>0, <2>1, <2>2, <2>4, BatchesLeft, HeadStep
    <3>4. Applies(0, t)
      <4>1. Advanced(0, t).epoch \in Nat
        <5>1. progress[0][t].epoch \in Nat
          BY <1>0 DEF Fields, Progresses
        <5> QED BY <5>1 DEF Advanced
      <4>2. Advanced(0, t).epoch > NumEpochs /\ NumEpochs \in Nat
        BY <2>4, PipeBounds DEF IsDone
      <4>3. Advanced(0, t).epoch >= NumEpochs
        BY <4>1, <4>2
      <4> QED BY <4>3 DEF Applies
    <3>5. progress'[0][t].step = Total(t) + 1 /\ unapplied'[0][t] = 0
      BY <3>2, <3>3, <3>4
    <3>6. \A q \in Ranks : \A u \in saved'[q] : u \notin attached'[q]
      BY <1>0, <1>a, <3>1
    <3>7. saved'[0] \subseteq saved[0] \cup {t} /\ \A q \in Ranks : q # 0 => saved'[q] = saved[q]
      BY <1>0, <3>1
    <3> QED BY <1>0, <1>u, <3>5, <3>6, <3>7
  <2> QED BY <2>3, <2>4
<1>5. ASSUME NEW r \in Ranks \ {0}, NEW i \in DOMAIN comm[r], r \notin failed, ProcessDone(r, i)
      PROVE  SavedWhole'
  <2>1. comm[r][i] \in Message /\ comm[r][i] \in ToSet(comm[r])
    BY <1>5, PassedOn DEF ProcessDone, ToSet
  <2>2. PICK t \in Tasks : t = comm[r][i].task
    BY <2>1 DEF Message
  <2>3. /\ saved' = [saved EXCEPT ![r] = @ \cup {t}] /\ attached' = [attached EXCEPT ![r] = @ \ {t}]
        /\ UNCHANGED <<progress, unapplied>> /\ comm[r][i].do = "done"
    BY <1>5, <2>2 DEF ProcessDone, EndTask
  <2>4. t \in saved[0]
    BY <2>1, <2>2, <2>3 DEF Ended
  <2>5. t \notin locked
    BY <2>4 DEF Queued
  <2>6. progress[r][t].step = progress[0][t].step
    <3>1. Passed(r, t) /\ Passed(0, t)
      BY <2>5 DEF Passed
    <3> QED BY <1>0, <1>5, <3>1 DEF InPace
  <2>7. progress[0][t].step = Total(t) + 1
    BY <1>0, <2>4 DEF SavedWhole
  <2>8. progress'[r][t].step = Total(t) + 1 /\ unapplied'[r][t] = 0
    BY <2>3, <2>6, <2>7 DEF Applied
  <2>9. \A q \in Ranks : \A u \in saved'[q] : u \notin attached'[q]
    BY <1>0, <1>a, <2>3
  <2>10. saved'[r] \subseteq saved[r] \cup {t} /\ \A q \in Ranks : q # r => saved'[q] = saved[q]
    BY <1>0, <2>3
  <2> QED BY <1>u, <2>8, <2>9, <2>10
<1>6. ASSUME NEW r \in Ranks \ {0}, NEW i \in DOMAIN comm[r], ProcessRunning(r, i)
      PROVE  SavedWhole'
  <2>1. PICK t : t = comm[r][i].task
    OBVIOUS
  <2>2. /\ saved' = saved
        /\ \/ t \notin saved[r] /\ attached' = [attached EXCEPT ![r] = @ \cup {t}]
           \/ attached' = attached
    BY <1>6, <2>1 DEF ProcessRunning
  <2>3. \A q \in Ranks : \A u \in saved'[q] : u \notin attached'[q]
    <3>1. CASE t \notin saved[r] /\ attached' = [attached EXCEPT ![r] = @ \cup {t}]
      <4>1. \A q \in Ranks : attached'[q] \subseteq attached[q] \cup {t}
                            /\ (q # r => attached'[q] = attached[q])
        BY <1>0, <3>1
      <4> QED BY <1>a, <2>2, <3>1, <4>1
    <3>2. CASE attached' = attached
      BY <1>a, <2>2, <3>2
    <3> QED BY <2>2, <3>1, <3>2
  <2> QED BY <1>0, <1>u, <2>2, <2>3
<1>7. ASSUME NEW r \in Ranks \ {0}, NEW i \in DOMAIN comm[r], ProcessAdd(r, i) \/ ProcessUnknown(r, i)
      PROVE  SavedWhole'
  BY <1>2, <1>7 DEF ProcessAdd, ProcessUnknown
<1>8. ASSUME NEW b \in Cuts, ProcessOutput(b) PROVE SavedWhole'
  BY <1>2, <1>8 DEF ProcessOutput
<1>9. ASSUME NEW r \in Ranks \ {0}, NEW b \in Cuts, ProcessForward(r, b) \/ ProcessBackward(r, b)
      PROVE  SavedWhole'
  BY <1>2, <1>9 DEF ProcessForward, ProcessBackward
<1>10. ASSUME NEW t \in Tasks, AddTask(t) PROVE SavedWhole'
  BY <1>2, <1>10 DEF AddTask
<1> QED BY <1>3, <1>4, <1>5, <1>6, <1>7, <1>8, <1>9, <1>10, PipeCases


-----------------------------------------------------------------------------
(* The theorems *)

(* Nothing has been cut, sent or saved. *)
LEMMA PipeStarts ==
  ASSUME PipeInit
  PROVE  PipeInv
<1>1. Fields
  <2>1. <<>> \in Seq(Tasks) /\ <<>> \in Seq(Message)
    OBVIOUS
  <2>2. FirstProgress \in Progresses
    BY DEF FirstProgress, Progresses
  <2>3. /\ progress \in [Ranks -> [Tasks -> Progresses]]
        /\ unapplied \in [Ranks -> [Tasks -> Nat]] /\ cut \in [Tasks -> Nat]
        /\ comm \in [Ranks -> Seq(Message)] /\ ready \in Seq(Tasks) /\ running \in Seq(Tasks)
    BY <2>1, <2>2 DEF PipeInit
  <2>4. /\ known \in [Ranks -> SUBSET Tasks] /\ attached \in [Ranks -> SUBSET Tasks]
        /\ saved \in [Ranks -> SUBSET Tasks] /\ failed \subseteq Ranks \ {0}
        /\ cached \in [Ranks -> SUBSET Cuts] /\ locked \subseteq Tasks
        /\ acts \in [Ranks -> SUBSET Cuts] /\ grads \in [Ranks -> SUBSET Cuts]
    BY DEF PipeInit
  <2> QED BY <2>3, <2>4 DEF Fields
<1>2. Queued
  <2>1. ready = <<>> /\ running = <<>> /\ locked = {} /\ saved[0] = {}
    BY PipeBounds DEF PipeInit
  <2>2. DOMAIN ready = {} /\ DOMAIN running = {}
    BY <2>1
  <2>3. ToSet(ready) = {} /\ ToSet(running) = {}
    BY <2>2 DEF ToSet
  <2>4. IsInjective(ready) /\ IsInjective(running)
    BY <2>2 DEF IsInjective
  <2> QED BY <2>1, <2>3, <2>4 DEF Queued
<1>3. InRing
  BY DEF PipeInit, InRing
<1>4. \A r \in Ranks, t \in Tasks : /\ progress[r][t] = FirstProgress /\ unapplied[r][t] = 0
                                    /\ saved[r] = {} /\ comm[r] = <<>> /\ cut[t] = 0
  BY DEF PipeInit
<1>5. FirstProgress.step = 1 /\ FirstProgress.epoch = 1 /\ FirstProgress.idx = 0
  BY DEF FirstProgress
<1>6. InPace
  <2>1. \A r \in Ranks, t \in Tasks : Passed(r, t)
    BY DEF PipeInit, Passed
  <2> QED BY <1>4, <1>5, <2>1 DEF InPace
<1>7. InEpoch
  <2>1. ASSUME NEW t \in Tasks PROVE HeadPlace(t, FirstProgress) /\ 1 <= NumEpochs /\ 1 <= Total(t) + 1
    <3>1. PerEpoch(t) \in Nat /\ Total(t) \in Nat /\ Total(t) >= NumEpochs
      BY BatchesPerEpoch
    <3>2. DataLen[t] \in Nat /\ DataLen[t] >= 1 /\ MiniBatch \in Nat /\ NumEpochs \in Nat /\ NumEpochs >= 1
      BY PipeBounds
    <3>3. 1 - 1 - (1 - 1) * PerEpoch(t) = 0 /\ 0 * MiniBatch = 0
      BY <3>1, <3>2
    <3>4. HeadPlace(t, FirstProgress)
      BY <1>5, <3>2, <3>3 DEF HeadPlace
    <3> QED BY <3>1, <3>2, <3>4
  <2> QED BY <1>4, <1>5, <2>1, PipeBounds DEF InEpoch
<1>8. Applied
  <2>1. \A r \in Ranks, t \in Tasks : unapplied[r][t] = 0 /\ progress[r][t].step = 1
    BY <1>4, <1>5
  <2>2. 0 <= (1 - 1) % Accumulate
    BY PipeBounds
  <2> QED BY <2>1, <2>2 DEF Applied
<1>9. Ended
  <2>1. ToSet(<<>>) = {}
    BY DEF ToSet
  <2>2. \A r \in Ranks : saved[r] = {} /\ comm[r] = <<>>
    BY DEF PipeInit
  <2> QED BY <2>1, <2>2 DEF Ended
<1>10. SavedWhole
  BY DEF PipeInit, SavedWhole
<1> QED BY <1>1, <1>2, <1>3, <1>6, <1>7, <1>8, <1>9, <1>10 DEF PipeInv

(* PipeInv is an inductive invariant of the pipeline: what follows rests on it. *)
THEOREM PipeInvariant == PipeSpec => []PipeInv
<1>1. PipeInit => PipeInv
  BY PipeStarts
<1>2. PipeInv /\ [PipeNext]_pvars => PipeInv'
  <2> SUFFICES ASSUME PipeInv, [PipeNext]_pvars PROVE PipeInv'
    OBVIOUS
  <2>1. CASE PipeNext
    <3>1. Fields /\ Queued /\ InRing /\ InPace /\ InEpoch /\ Applied /\ Ended /\ SavedWhole
      BY DEF PipeInv
    <3>2. Fields' /\ Queued' /\ InRing' /\ InPace'
      BY <2>1, <3>1, FieldsStep, QueuedStep, InRingStep, InPaceStep
    <3>3. InEpoch' /\ Applied' /\ Ended' /\ SavedWhole'
      BY <2>1, <3>1, InEpochStep, AppliedStep, EndedStep, SavedWholeStep
    <3> QED BY <3>2, <3>3 DEF PipeInv
  <2>2. CASE UNCHANGED pvars
    <3> USE <2>2 DEF pvars, dispatcher, tasksAt
    <3>1. Fields' /\ Queued' /\ InRing'
      BY DEF PipeInv, Fields, Queued, InRing, Up, Down, Sent
    <3>2. InPace' /\ InEpoch' /\ Applied'
      BY DEF PipeInv, InPace, InEpoch, Applied, Passed, Sent, HeadPlace
    <3>3. Ended' /\ SavedWhole'
      BY DEF PipeInv, Ended, SavedWhole
    <3> QED BY <3>1, <3>2, <3>3 DEF PipeInv
  <2> QED BY <2>1, <2>2
<1> QED BY <1>1, <1>2, PTL DEF PipeSpec

(* A locked task has batches left, and the one on its way is the next of them. *)
LEMMA SentIsBatch ==
  ASSUME PipeInv, NEW t \in locked
  PROVE  t \in Tasks /\ cut[t] \in 1 .. Total(t) /\ Sent(t) \in Batches
<1>0. t \in Tasks /\ 0 \in Ranks \ failed /\ t \notin saved[0] /\ \A q \in Ranks : ~(q < 0)
  BY PipeBounds DEF PipeInv, Fields, Queued
<1>1. progress[0][t] \in Progresses
  BY <1>0 DEF PipeInv, Fields
<1>2. HeadPlace(t, progress[0][t]) /\ progress[0][t].epoch <= NumEpochs
  BY <1>0 DEF PipeInv, InEpoch
<1>3. ~Passed(0, t)
  BY <1>0 DEF Passed
<1>4. progress[0][t].step = cut[t]
  BY <1>0, <1>3 DEF PipeInv, InPace
<1>5. progress[0][t].step <= Total(t)
  BY <1>0, <1>1, <1>2, HeadAdvance
<1>6. cut[t] \in 1 .. Total(t)
  BY <1>0, <1>1, <1>4, <1>5, BatchesPerEpoch DEF Progresses
<1>7. Sent(t) \in {t} \X (1 .. Total(t))
  BY <1>6 DEF Sent
<1> QED BY <1>0, <1>6, <1>7 DEF Batches

(* The types of the dispatcher, of the tasks on every rank and of the channels. *)
THEOREM PipeTypeCorrect == PipeSpec => []PipeTypeOK
<1>1. PipeInv => PipeTypeOK
  <2> SUFFICES ASSUME PipeInv PROVE PipeTypeOK
    OBVIOUS
  <2>1. Fields
    BY DEF PipeInv
  <2>2. ASSUME NEW r \in Ranks, NEW t \in Tasks
        PROVE  /\ progress[r][t].step \in 1 .. Total(t) + 1
               /\ progress[r][t].epoch \in 1 .. Total(t) + 1
               /\ progress[r][t].idx \in 0 .. DataLen[t]
               /\ unapplied[r][t] \in 0 .. Accumulate
    <3>1. PICK p \in Progresses : p = progress[r][t]
      BY <2>1 DEF Fields
    <3>2. Total(t) \in Nat /\ DataLen[t] \in Nat /\ Accumulate \in Nat \ {0}
      BY BatchesPerEpoch, PipeBounds
    <3>3. p.step \in Nat \ {0} /\ p.epoch \in Nat \ {0} /\ p.idx \in Nat
      BY DEF Progresses
    <3>4. p.step <= Total(t) + 1 /\ p.epoch <= Total(t) + 1
      BY <3>1 DEF PipeInv, InEpoch
    <3>5. p.idx <= DataLen[t]
      <4>1. CASE r = 0
        <5>1. p.idx < DataLen[t]
          BY <3>1, <4>1 DEF PipeInv, InEpoch, HeadPlace
        <5> QED BY <3>2, <3>3, <5>1
      <4>2. CASE r # 0
        <5>1. p.idx = 0
          BY <3>1, <4>2 DEF PipeInv, InEpoch
        <5> QED BY <3>2, <5>1
      <4> QED BY <4>1, <4>2
    <3>6. unapplied[r][t] \in Nat /\ unapplied[r][t] <= (p.step - 1) % Accumulate
      BY <2>1, <3>1 DEF PipeInv, Fields, Applied
    <3>7. PICK x \in Nat : x = p.step - 1
      BY <3>3
    <3>8. x % Accumulate \in 0 .. Accumulate - 1
      BY <3>2
    <3>9. unapplied[r][t] \in 0 .. Accumulate
      BY <3>2, <3>6, <3>7, <3>8
    <3> QED BY <3>1, <3>2, <3>3, <3>4, <3>5, <3>9
  <2>3. \A r \in Ranks : cached[r] \cup acts[r] \cup grads[r] \cup inputs \subseteq Batches
    <3>1. \A b \in inputs : b \in Batches
      BY SentIsBatch DEF PipeInv, InRing
    <3> QED BY <3>1 DEF PipeInv, InRing
  <2> QED BY <2>1, <2>2, <2>3 DEF Fields, PipeTypeOK
<1> QED BY <1>1, PipeInvariant, PTL

(* A task has at most one batch in the pipeline, exactly while it is locked; it is in *)
(* one place, and the ranks behind it are the ones that keep its activations.         *)
THEOREM BatchesAccounted == PipeSpec => []Accounted
<1>1. PipeInv => Accounted
  <2> SUFFICES ASSUME PipeInv PROVE Accounted
    OBVIOUS
  <2>0. InRing /\ inputs = {Sent(t) : t \in locked} /\ \A t : Sent(t)[1] = t
    BY DEF PipeInv, InRing, Sent
  <2>1. ASSUME NEW t \in Tasks
        PROVE  Cardinality({b \in inputs : b[1] = t}) = IF t \in locked THEN 1 ELSE 0
    <3>1. CASE t \in locked
      <4>1. {b \in inputs : b[1] = t} = {Sent(t)}
        BY <2>0, <3>1
      <4> QED BY <3>1, <4>1, FS_Singleton
    <3>2. CASE t \notin locked
      <4>1. {b \in inputs : b[1] = t} = {}
        BY <2>0, <3>2
      <4> QED BY <3>2, <4>1, FS_EmptySet
    <3> QED BY <3>1, <3>2
  <2>2. ASSUME NEW b \in inputs
        PROVE  \E p \in Places(b) :
                 Places(b) = {p} /\ {r \in Ranks : b \in cached[r]} = Behind(p)
    <3>1. PICK q \in Ranks : Up(b, q) \/ Down(b, q)
      BY <2>0 DEF InRing
    <3>2. CASE Up(b, q)
      <4>1. {r \in Ranks : b \in acts[r]} = {q} /\ {r \in Ranks : b \in grads[r]} = {}
        BY <3>2 DEF Up
      <4>2. Places(b) = {<<"acts", q>>}
        BY <4>1 DEF Places
      <4>3. Behind(<<"acts", q>>) = IF q = 0 THEN Ranks ELSE 0 .. q - 1
        BY DEF Behind
      <4>4. {r \in Ranks : b \in cached[r]} = {r \in Ranks : q = 0 \/ r < q}
        BY <3>2 DEF Up
      <4>5. {r \in Ranks : q = 0 \/ r < q} = IF q = 0 THEN Ranks ELSE 0 .. q - 1
        BY PipeBounds
      <4> QED BY <4>2, <4>3, <4>4, <4>5
    <3>3. CASE Down(b, q)
      <4>1. {r \in Ranks : b \in grads[r]} = {q} /\ {r \in Ranks : b \in acts[r]} = {}
        BY <3>3 DEF Down
      <4>2. Places(b) = {<<"grads", q>>}
        BY <4>1 DEF Places
      <4>3. Behind(<<"grads", q>>) = 0 .. q
        BY DEF Behind
      <4>4. {r \in Ranks : b \in cached[r]} = {r \in Ranks : r <= q}
        BY <3>3 DEF Down
      <4>5. {r \in Ranks : r <= q} = 0 .. q
        BY PipeBounds
      <4> QED BY <4>2, <4>3, <4>4, <4>5
    <3> QED BY <3>1, <3>2, <3>3
  <2>3. \A r \in Ranks : cached[r] \cup acts[r] \cup grads[r] \subseteq inputs
    BY <2>0 DEF InRing
  <2> QED BY <2>1, <2>2, <2>3 DEF Accounted
<1> QED BY <1>1, PipeInvariant, PTL

(* No rank computes a batch before it has taken the step of the batch before it. *)
THEOREM NeverStale == PipeSpec => []UpToDate
<1>1. PipeInv => UpToDate
  <2> SUFFICES ASSUME PipeInv, NEW r \in Ranks \ ({0} \cup failed), NEW b \in acts[r]
               PROVE  progress[r][b[1]].step = b[2]
    BY DEF UpToDate
  <2>0. Fields /\ InRing /\ InPace
    BY DEF PipeInv
  <2>1. b \in Cuts /\ b[1] \in locked /\ b = Sent(b[1]) /\ Up(b, r)
    BY <2>0, OnItsWay, AtRank
  <2>2. ~Passed(r, b[1])
    BY <2>1 DEF Passed, Up
  <2>3. b[1] \in Tasks /\ b[2] = cut[b[1]]
    <3>1. PICK t : t = b[1]
      OBVIOUS
    <3>2. b = <<t, cut[t]>> /\ t \in Tasks
      BY <2>1, <3>1 DEF Sent, Cuts
    <3> QED BY <3>1, <3>2
  <2> QED BY <2>0, <2>2, <2>3 DEF InPace
<1> QED BY <1>1, PipeInvariant, PTL

(* What a rank saves as a task's adapter has been through all the task's batches and *)
(* all their gradients, in whatever order the messages came.                         *)
THEOREM SavedIsWhole == PipeSpec => []SavedWhole
<1>1. PipeInv => SavedWhole
  BY DEF PipeInv
<1> QED BY <1>1, PipeInvariant, PTL
=============================================================================
