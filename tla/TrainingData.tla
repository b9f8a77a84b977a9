---------------------------- MODULE TrainingData ----------------------------
(***************************************************************************)
(* From rollouts and examples to what the optimizer is given:               *)
(* trajectory_to_data and assemble_training_data of rl/data_processing.py,   *)
(* one loop over the transitions of an episode, and datum_from_model_input_  *)
(* weights of supervised/common.py, which cuts an example to a length.       *)
(*                                                                          *)
(* An observation is a sequence of elements, each a text token or an image,   *)
(* which stands for several tokens.  If an observation extends the episode so *)
(* far, the transition is appended to the datum under construction, else a   *)
(* new one is begun.  Four lists grow side by side and are shifted by one     *)
(* token when a datum is made.                                              *)
(*                                                                          *)
(* A log probability is abstracted to the sampled token it belongs to, an     *)
(* advantage to the trajectory it was computed for, and a weight to its      *)
(* position in the example.                                                 *)
(***************************************************************************)
EXTENDS Integers, FiniteSets, SequencesExt

CONSTANTS
  Tokens,          \* text tokens
  Images,          \* image chunks
  ImageLength,     \* tokens an image stands for
  Pad,             \* the 0 put in the targets for an image
  GroupSize,       \* trajectories of a group
  NumGroups,       \* groups of the batch
  MaxTransitions,  \* bound: transitions of the batch
  MaxOb,           \* bound: elements of an observation that does not go on from the last
  MaxAc,           \* bound: tokens of an action
  MaxExample       \* bound: elements of a supervised example

ASSUME DataAssumption ==
  /\ Tokens \cap Images = {} /\ Pad \notin Tokens \cup Images
  /\ {ImageLength, GroupSize, NumGroups} \subseteq Nat \ {0}
  /\ {MaxTransitions, MaxOb, MaxAc, MaxExample} \subseteq Nat

Elements == Tokens \cup Images

\* _flat_ob_token_len, and the tokens of a sequence; images give the value v.
Width(e) == IF e \in Images THEN ImageLength ELSE 1
Times(n, v) == [i \in 1 .. n |-> v]
Expand(s, V(_)) == FlattenSeq([i \in DOMAIN s |-> Times(Width(s[i]), V(s[i]))])
Length(s) == Len(Expand(s, LAMBDA e : e))

VARIABLES
  group,   \* i_group of assemble_training_data
  member,  \* i_traj
  steps,   \* transitions of this trajectory so far
  acc,     \* SequenceAccumulator
  made,    \* data made of this trajectory so far
  data,    \* data_D, with metadata_D
  raised,  \* a ValueError ended the batch
  done,    \* history: the trajectories that are in data
  example  \* a supervised example, and what it was cut to

vars == <<group, member, steps, acc, made, data, raised, done, example>>

-----------------------------------------------------------------------------
(* One datum *)

\* create_rightshifted_model_input_and_leftshifted_targets
Shiftable(s) == s # <<>> /\ Last(s) \in Tokens /\ Length(s) >= 2
Inputs(s) == Front(s)
Targets(s) == Tail(Expand(s, LAMBDA e : IF e \in Images THEN Pad ELSE e))

Cleared == [full |-> <<>>, logprobs |-> <<>>, advantages |-> <<>>, mask |-> <<>>]

\* make_datum_from_state
Datum(a) ==
  [inputs |-> Inputs(a.full), targets |-> Targets(a.full),
   logprobs |-> Tail(a.logprobs), advantages |-> Tail(a.advantages), mask |-> Tail(a.mask)]

-----------------------------------------------------------------------------
(* trajectory_to_data *)

None == <<0, 0, 0, 0>>  \* where nothing was sampled
Here == <<group, member>>

\* A token of the action: the transition and the position it was sampled at.
Sampled(ac) == [j \in DOMAIN ac |-> <<group, member, Len(steps) + 1, j>>]

GoesOnIfLonger(ob) == Len(acc.full) <= Len(ob)  \* fault: the elements are not compared
GoesOn(ob) == IsPrefix(acc.full, ob)
Base(ob) == IF GoesOn(ob) THEN acc ELSE Cleared

Appended(ob, ac, mask) ==
  LET base == Base(ob)
      delta == SubSeq(ob, Len(base.full) + 1, Len(ob))
      none(v) == Times(Length(delta), v)
  IN [full |-> base.full \o delta \o ac,
      logprobs |-> base.logprobs \o none(None) \o Sampled(ac),
      advantages |-> base.advantages \o none(<<0, 0>>) \o Times(Len(ac), Here),
      mask |-> base.mask \o none(FALSE) \o mask]

NewDatum == IF Shiftable(acc.full) THEN <<Datum(acc)>> ELSE <<>>

\* One transition of the trajectory, as the episode produced it.
Transition(ob, ac, mask) ==
  /\ ~raised /\ example = <<>>
  /\ steps' = Append(steps, [ob |-> ob, ac |-> ac, mask |-> mask])
  /\ IF GoesOn(ob)
       THEN /\ acc' = Appended(ob, ac, mask) /\ UNCHANGED <<made, raised>>
       ELSE /\ made' = made \o NewDatum /\ raised' = (NewDatum = <<>>)
            /\ acc' = Appended(ob, ac, mask)
  /\ UNCHANGED <<group, member, data, done, example>>

\* The rest of the trajectory becomes a datum, and the next trajectory is begun
\* with the class of its accumulator anew.
EndTrajectory ==
  /\ ~raised /\ steps # <<>>
  /\ raised' = (NewDatum = <<>>)
  /\ data' = data \o [i \in DOMAIN (made \o NewDatum) |->
                       [datum |-> (made \o NewDatum)[i], group_idx |-> group, traj_idx |-> member]]
  /\ done' = done \cup {[group |-> group, member |-> member, steps |-> steps]}
  /\ steps' = <<>> /\ acc' = Cleared /\ made' = <<>>
  /\ IF member < GroupSize THEN member' = member + 1 /\ group' = group
     ELSE member' = 1 /\ group' = group + 1
  /\ UNCHANGED example

-----------------------------------------------------------------------------
(* datum_from_model_input_weights *)

\* Text is cut off token by token from the end, an image as a whole.
CutTo(s, max) ==
  LET cut[n \in 0 .. Len(s)] ==
        IF n = 0 \/ Length(SubSeq(s, 1, n)) <= max THEN n ELSE cut[n - 1]
  IN SubSeq(s, 1, cut[Len(s)])

WithTrailingImages(s) == s  \* fault: trailing images stay
WithoutTrailingImages(s) ==
  LET text[n \in 0 .. Len(s)] == IF n = 0 \/ s[n] \in Tokens THEN n ELSE text[n - 1]
  IN SubSeq(s, 1, text[Len(s)])

\* max = 0: no limit
Supervised(s, max) ==
  LET kept == WithoutTrailingImages(IF max = 0 THEN s ELSE CutTo(s, max))
      targets == Targets(kept)
  IN IF ~Shiftable(kept) THEN <<>>
     ELSE <<[inputs |-> Inputs(kept), targets |-> targets,
             weights |-> SubSeq([i \in 1 .. Length(s) |-> i], 2, Len(targets) + 1)]>>

Supervise(s, max) ==
  /\ steps = <<>> /\ data = <<>> /\ ~raised /\ example = <<>>
  /\ example' = <<[full |-> s, max |-> max, datum |-> Supervised(s, max)]>>
  /\ UNCHANGED <<group, member, steps, acc, made, data, raised, done>>

-----------------------------------------------------------------------------
SeqsUpTo(S, n) == UNION {[1 .. k -> S] : k \in 0 .. n}

Rolled == Len(steps) + FoldSet(LAMBDA t, n : n + Len(t.steps), 0, done)

\* An observation that has the episode so far in it, and a little more or nothing.
Continuations ==
  IF steps = <<>> THEN {}
  ELSE {Last(steps).ob \o Last(steps).ac \o more : more \in SeqsUpTo(Elements, 1)}

Init ==
  /\ group = 1 /\ member = 1 /\ steps = <<>> /\ acc = Cleared /\ made = <<>>
  /\ data = <<>> /\ raised = FALSE /\ done = {} /\ example = <<>>

Next ==
  \/ /\ group <= NumGroups /\ Rolled < MaxTransitions
     /\ \E ob \in (SeqsUpTo(Elements, MaxOb) \ {<<>>}) \cup Continuations, ac \in SeqsUpTo(Tokens, MaxAc) :
          \E mask \in [DOMAIN ac -> BOOLEAN] : Transition(ob, ac, mask)
  \/ EndTrajectory
  \/ \E s \in SeqsUpTo(Elements, MaxExample), max \in 0 .. MaxExample + 1 : Supervise(s, max)

Spec == Init /\ [][Next]_vars

-----------------------------------------------------------------------------
(* Properties *)

Same(e) == e
Before(s, p) == SubSeq(Expand(s, Same), 1, p)

\* What a datum trains: the positions under the mask.
Trained(d) ==
  {[context |-> Before(d.inputs, p), token |-> d.targets[p], logprob |-> d.logprobs[p],
    advantage |-> d.advantages[p]] : p \in {q \in DOMAIN d.mask : d.mask[q]}}

\* What a trajectory sampled, with the context each token was sampled in.
Drawn(t) ==
  UNION {{[context |-> Expand(t.steps[k].ob \o SubSeq(t.steps[k].ac, 1, j - 1), Same),
           token |-> t.steps[k].ac[j], logprob |-> <<t.group, t.member, k, j>>,
           advantage |-> <<t.group, t.member>>]
            : j \in {i \in DOMAIN t.steps[k].ac : t.steps[k].mask[i]}} : k \in DOMAIN t.steps}

\* However the transitions of an episode are merged, each sampled token that is not
\* masked is trained exactly once, in the context it was sampled in, with its own log
\* probability and the advantage of its trajectory, and nothing else is: the indices
\* of trajectory_to_data, and the metadata of assemble_training_data.
SampledOnce ==
  ~raised =>
    /\ \A t \in done :
         Drawn(t) = UNION {Trained(data[i].datum) : i \in {j \in DOMAIN data :
                             data[j].group_idx = t.group /\ data[j].traj_idx = t.member}}
    /\ \A i, j \in DOMAIN data : i # j => Trained(data[i].datum) \cap Trained(data[j].datum) = {}
    /\ \A i \in DOMAIN data :
         LET d == data[i].datum IN
         /\ Len(d.targets) = Length(d.inputs) /\ Len(d.mask) = Len(d.targets)
         /\ \A p \in DOMAIN d.mask : d.advantages[p] # <<0, 0>> <=> d.logprobs[p] # None

\* An example cut to a length keeps its tokens aligned: the weight of a target is the
\* one the token had in the example, an image is kept whole or not at all, no text is
\* given up that would have fitted, and what is left can be trained on whenever it has
\* two tokens (datum_from_model_input_weights).
WeightsOnTargets ==
  \A i \in DOMAIN example :
    LET full == example[i].full
        limit == IF example[i].max = 0 THEN Length(full) ELSE example[i].max
        fits == {n \in DOMAIN full : full[n] \in Tokens /\ Length(SubSeq(full, 1, n)) <= limit}
        tokens == Expand(full, LAMBDA e : IF e \in Images THEN Pad ELSE e)
    IN /\ (\E n \in fits : Length(SubSeq(full, 1, n)) >= 2) => example[i].datum # <<>>
       /\ \A j \in DOMAIN example[i].datum :
            LET d == example[i].datum[j] IN
            /\ \A p \in DOMAIN d.targets :
                 /\ d.weights[p] = p + 1 /\ d.targets[p] = tokens[p + 1]
                 /\ Before(d.inputs, p) = Before(full, p)
            /\ Len(d.weights) = Len(d.targets) /\ Length(d.inputs) = Len(d.targets)
            /\ Len(d.targets) < limit
            /\ \A n \in fits : Length(SubSeq(full, 1, n)) <= Len(d.targets) + 1
=============================================================================
