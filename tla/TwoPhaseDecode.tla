--------------------------- MODULE TwoPhaseDecode ---------------------------
(***************************************************************************)
(* generate_batch_multi_adapter_two_phase of ug_ttt/rl/ensemble.py, and the  *)
(* part of do_group_rollout_batched that calls it and reads its result: a    *)
(* group of sequences is decoded in lock step, each by the adapter it is     *)
(* assigned to, over one key/value cache whose position is shared.           *)
(*                                                                          *)
(* Sequences finish at different steps (they are then fed end-of-sequence    *)
(* tokens), are stopped early when the mutual information of their last      *)
(* window is low (they get the prefill and a wrap-up budget inside the first *)
(* phase), or run out of the first phase (they get the prefill and the       *)
(* second phase together).  Every step of a decoding loop is an action.      *)
(*                                                                          *)
(* Tokens are abstracted to what decides the control: an ordinary token, a   *)
(* stop token or the k-th token of the prefill.  The cache holds at each     *)
(* position which of the sequence's own tokens was fed there.                *)
(***************************************************************************)
EXTENDS Integers, FiniteSets, SequencesExt

CONSTANTS
  N,              \* len(adapter_assignments), the group size
  K,              \* adapters of the ensemble
  PromptLen,      \* len(prompt_tokens)
  Phase1Max,      \* phase1_max_tokens
  ContextWindow,  \* context_window
  ContextBuffer,  \* context_buffer
  PrefillLen,     \* len(prefill_tokens)
  MiEnabled,      \* streaming_mi_enabled
  MinGen,         \* mi_min_gen
  CheckInterval,  \* mi_check_interval
  WrapBudget      \* mi_wrap_budget

Phase1Output == Phase1Max - PromptLen

\* The prompt is shorter than the first phase (else ValueError), the first phase
\* and the prefill leave the context window its buffer, as the defaults do, and
\* a single sequence without early stop is not decoded here.
ASSUME DecodeAssumption ==
  /\ {N, K, PromptLen, PrefillLen, MinGen, CheckInterval} \subseteq Nat \ {0}
  /\ {Phase1Max, ContextWindow, ContextBuffer, WrapBudget} \subseteq Nat
  /\ PromptLen < Phase1Max
  /\ Phase1Max + PrefillLen + ContextBuffer <= ContextWindow
  /\ MiEnabled \in BOOLEAN /\ (N > 1 \/ MiEnabled)

VARIABLES
  assignment,   \* adapter_assignments
  phase,        \* the loop the call is in
  step,         \* step of that loop
  curPos,       \* cur_pos: the next free position of the cache
  cache,        \* kv_cache_batch: which own token each position holds
  tokens,       \* all_tokens, without the prompt
  finished,     \* finished
  miStopped,    \* mi_stopped
  stopStep,     \* mi_stop_step
  cursor,       \* mi_prefill_cursor
  wrapLeft,     \* mi_wrap_remaining
  needsPhase2,  \* needs_phase2
  phase1Count,  \* phase1_gen_counts
  rollouts      \* the Rollout objects of the group, once built

mi == <<miStopped, stopStep, cursor, wrapLeft>>
split == <<needsPhase2, phase1Count>>
vars == <<assignment, phase, step, curPos, cache, tokens, finished, mi, split, rollouts>>

Group == 1 .. N      \* original positions
Batch == 1 .. N      \* batch positions: the group ordered by adapter
Adapters == 0 .. K - 1
Positions == PromptLen .. ContextWindow - 1

Word == 0
StopToken == -1
IsForced(t) == t > 0

-----------------------------------------------------------------------------
(* Grouping by adapter *)

Assignments == {[i \in Group |-> (e * N + i - 1) % K] : e \in 0 .. K - 1}

\* The batch is stably sorted by adapter.
BatchPosUnsorted(i) == i  \* fault: the results are taken to be in batch order
BatchPos(i) ==
  Cardinality({j \in Group : \/ assignment[j] < assignment[i]
                             \/ assignment[j] = assignment[i] /\ j <= i})

\* adapter_configs: adapter k decodes the batch range [start, end).
DecodedBy(b) ==
  CHOOSE k \in Adapters : /\ Cardinality({j \in Group : assignment[j] < k}) < b
                          /\ b <= Cardinality({j \in Group : assignment[j] <= k})

-----------------------------------------------------------------------------
(* The forward pass *)

\* 0 stands for a dummy end-of-sequence token.
FedLast(b) == Len(tokens[b])
FedThinking(b) ==  \* fault: sequences stopped early are fed dummies
  IF finished[b] \/ miStopped[b] THEN 0 ELSE FedLast(b)
Fed(b) == IF finished[b] THEN 0 ELSE FedLast(b)
FedToPhase2(b) == IF finished[b] \/ ~needsPhase2[b] THEN 0 ELSE FedLast(b)

\* One pass of the model: the fed tokens take the current position.
Forward(fed) ==
  /\ cache' = [b \in Batch |-> [cache[b] EXCEPT ![curPos] = fed[b]]]
  /\ curPos' = curPos + 1

-----------------------------------------------------------------------------
(* Phases 1 to 4: the prompt and the first token of every sequence *)

Init ==
  /\ assignment \in Assignments
  /\ phase = "prompt" /\ step = 0
  /\ curPos = PromptLen
  /\ cache = [b \in Batch |-> [p \in Positions |-> 0]]
  /\ tokens = [b \in Batch |-> <<>>]
  /\ finished = [b \in Batch |-> FALSE]
  /\ miStopped = [b \in Batch |-> FALSE]
  /\ stopStep = [b \in Batch |-> -1]
  /\ cursor = [b \in Batch |-> 0]
  /\ wrapLeft = [b \in Batch |-> 0]
  /\ needsPhase2 = [b \in Batch |-> FALSE]
  /\ phase1Count = [b \in Batch |-> 0]
  /\ rollouts = <<>>

\* The tokens sampled for the sequences of S; those of stops are stop tokens.
Drawn(b, stops) == IF b \in stops THEN StopToken ELSE Word

FirstTokens ==
  /\ phase = "prompt"
  /\ \E stops \in SUBSET Batch :
       /\ tokens' = [b \in Batch |-> <<Drawn(b, stops)>>]
       /\ finished' = [b \in Batch |-> b \in stops]
  /\ phase' = "think" /\ step' = 1
  /\ UNCHANGED <<assignment, curPos, cache, mi, split, rollouts>>

-----------------------------------------------------------------------------
(* Phase 5a: thinking, and what follows it in sequences stopped early *)

AllFinished == \A b \in Batch : finished[b]

IsCheckpoint == MiEnabled /\ step >= MinGen /\ (step - MinGen) % CheckInterval = 0

\* The sequences whose window is scored at this step.
Checked == {b \in Batch : ~finished[b] /\ ~miStopped[b]}

\* The sequences of low fall below the threshold.
MiCheck(low) ==
  /\ miStopped' = [b \in Batch |-> miStopped[b] \/ b \in low]
  /\ stopStep' = [b \in Batch |-> IF b \in low THEN step ELSE stopStep[b]]

\* Cursor and wrap budget as the check leaves them.
CursorAfter(b, low) == IF b \in low THEN 0 ELSE cursor[b]
WrapAfter(b, low) == IF b \in low THEN WrapBudget ELSE wrapLeft[b]

InjectsOneMore(b, low) ==  \* fault: off by one
  miStopped'[b] /\ CursorAfter(b, low) <= PrefillLen
Injects(b, low) == miStopped'[b] /\ CursorAfter(b, low) < PrefillLen
Wraps(b, low) == miStopped'[b] /\ ~Injects(b, low) /\ WrapAfter(b, low) > 0
Thinks(b) == ~miStopped'[b]

\* One step of the loop over range(1, phase1_max_output).
ThinkStep ==
  /\ phase = "think" /\ step < Phase1Output /\ ~AllFinished
  /\ \E low \in SUBSET (IF IsCheckpoint THEN Checked ELSE {}),
        stops \in SUBSET {b \in Batch : ~finished[b]} :
       LET Live == {b \in Batch : ~finished[b]}
           Injecting == {b \in Live : Injects(b, low)}
           Wrapping == {b \in Live : Wraps(b, low)}
           Sampling == Wrapping \cup {b \in Live : Thinks(b)}
       IN  /\ MiCheck(low)
           /\ stops \subseteq Sampling
           /\ tokens' = [b \in Batch |->
                CASE b \in Injecting -> Append(tokens[b], CursorAfter(b, low) + 1)
                  [] b \in Sampling -> Append(tokens[b], Drawn(b, stops))
                  [] OTHER -> tokens[b]]
           /\ cursor' = [b \in Batch |-> CursorAfter(b, low) + (IF b \in Injecting THEN 1 ELSE 0)]
           /\ wrapLeft' = [b \in Batch |-> WrapAfter(b, low) - (IF b \in Wrapping THEN 1 ELSE 0)]
           /\ finished' = [b \in Batch |->
                \/ finished[b] \/ b \in stops
                \/ b \in Wrapping /\ WrapAfter(b, low) = 1
                \/ b \in Live \ (Injecting \cup Sampling)]
  /\ Forward([b \in Batch |-> Fed(b)])
  /\ step' = step + 1
  /\ UNCHANGED <<assignment, phase, split, rollouts>>

\* The sequences that go on to the second phase.
NeedsPhase2Unfinished(b) == ~finished[b]  \* fault: those stopped early too
NeedsPhase2(b) == ~finished[b] /\ ~miStopped[b]

EndThinking ==
  /\ phase = "think" /\ (step >= Phase1Output \/ AllFinished)
  /\ phase1Count' = [b \in Batch |-> Len(tokens[b])]
  /\ needsPhase2' = [b \in Batch |-> NeedsPhase2(b)]
  /\ phase' = IF \E b \in Batch : NeedsPhase2(b) THEN "inject" ELSE "assemble"
  /\ step' = 0
  /\ UNCHANGED <<assignment, curPos, cache, tokens, finished, mi, rollouts>>

-----------------------------------------------------------------------------
(* Phases 5b and 5c: prefill and code of the sequences that ran out *)

InjectStep ==
  /\ phase = "inject" /\ step < PrefillLen
  /\ tokens' = [b \in Batch |-> IF needsPhase2[b] /\ ~finished[b]
                                  THEN Append(tokens[b], step + 1) ELSE tokens[b]]
  /\ Forward([b \in Batch |-> FedToPhase2(b)])
  /\ step' = step + 1
  /\ UNCHANGED <<assignment, phase, finished, mi, split, rollouts>>

Phase2Budget ==
  ContextWindow - PromptLen - Max({phase1Count[b] : b \in Batch}) - PrefillLen - ContextBuffer

EndInject ==
  /\ phase = "inject" /\ step = PrefillLen
  /\ phase' = "code" /\ step' = 0
  /\ UNCHANGED <<assignment, curPos, cache, tokens, finished, mi, split, rollouts>>

\* Every unfinished sequence takes part, one stopped too late in the first
\* phase included.
CodeStep ==
  /\ phase = "code" /\ step < Phase2Budget /\ ~AllFinished
  /\ \E stops \in SUBSET {b \in Batch : ~finished[b]} :
       /\ tokens' = [b \in Batch |-> IF finished[b] THEN tokens[b]
                                       ELSE Append(tokens[b], Drawn(b, stops))]
       /\ finished' = [b \in Batch |-> finished[b] \/ b \in stops]
  /\ Forward([b \in Batch |-> Fed(b)])
  /\ step' = step + 1
  /\ UNCHANGED <<assignment, phase, mi, split, rollouts>>

EndCode ==
  /\ phase = "code" /\ (step >= Phase2Budget \/ AllFinished)
  /\ phase' = "assemble"
  /\ UNCHANGED <<assignment, step, curPos, cache, tokens, finished, mi, split, rollouts>>

-----------------------------------------------------------------------------
(* Phase 6: masks; and the rollouts built from the results *)

Repeat(x, n) == [j \in 1 .. n |-> x]

\* prompt 0 | thinking 1 | prefill 0 | code 1, cut or padded to T - 1 entries
Blocks(b, thought, forced) ==
  LET rest == Len(tokens[b]) - thought - forced
      mask == Repeat(0, PromptLen - 1) \o Repeat(1, thought) \o Repeat(0, forced)
                \o Repeat(1, IF rest > 0 THEN rest ELSE 0)
      expected == PromptLen + Len(tokens[b]) - 1
  IN  [j \in 1 .. expected |-> IF j <= Len(mask) THEN mask[j] ELSE 1]

NoMask == <<>>

MaskWholePhase1(b) ==  \* fault: thinking is taken to fill the first phase
  IF miStopped[b] THEN Blocks(b, phase1Count[b], cursor[b])
  ELSE IF needsPhase2[b] THEN Blocks(b, phase1Count[b], PrefillLen)
  ELSE NoMask
Mask(b) ==
  IF miStopped[b] THEN Blocks(b, stopStep[b], cursor[b])
  ELSE IF needsPhase2[b] THEN Blocks(b, phase1Count[b], PrefillLen)
  ELSE NoMask

\* p1_ones: the ones after the prompt, before the first zero
LeadingOnesFrom(mask, from) ==
  LET zeros == {j \in from .. Len(mask) : mask[j] = 0}
  IN  (IF zeros = {} THEN Len(mask) + 1 ELSE Min(zeros)) - from

\* prefill_info["start"], counted in tokens after the prompt
PrefillStartInMask(mask) == LeadingOnesFrom(mask, 1)  \* fault: the prompt is not skipped
PrefillStart(mask) == LeadingOnesFrom(mask, PromptLen)

\* The rollout of original position i, from the result reordered to it.
Rollout(i) ==
  LET b == BatchPos(i) IN
  [ adapter |-> assignment[i], decodedBy |-> DecodedBy(b), tokens |-> tokens[b],
    mask |-> Mask(b), stopped |-> miStopped[b], cursor |-> cursor[b],
    prefillStart |-> IF Mask(b) = NoMask THEN -1 ELSE PrefillStart(Mask(b)) ]

BuildRollouts ==
  /\ phase = "assemble"
  /\ rollouts' = [i \in Group |-> Rollout(i)]
  /\ phase' = "done"
  /\ UNCHANGED <<assignment, step, curPos, cache, tokens, finished, mi, split>>

\* The call has returned.
Returned == phase = "done" /\ UNCHANGED vars

-----------------------------------------------------------------------------
(* Specification *)

Next ==
  \/ FirstTokens \/ ThinkStep \/ EndThinking
  \/ InjectStep \/ EndInject \/ CodeStep \/ EndCode
  \/ BuildRollouts \/ Returned

\* The loops run in one thread that is always scheduled.
Fairness == WF_vars(Next)

Spec == Init /\ [][Next]_vars /\ Fairness

-----------------------------------------------------------------------------
(* Properties *)

\* A sequence stopped too late: the first phase ended before its prefill and
\* wrap-up did.
IsLate(b) == miStopped[b] /\ ~finished[b] /\ phase \notin {"prompt", "think"}

\* Every variable has its type.
DecodeTypeOK ==
  /\ assignment \in [Group -> Adapters]
  /\ phase \in {"prompt", "think", "inject", "code", "assemble", "done"}
  /\ step \in 0 .. ContextWindow
  /\ curPos \in PromptLen .. ContextWindow
  /\ cache \in [Batch -> [Positions -> 0 .. ContextWindow]]
  /\ tokens \in [Batch -> Seq(StopToken .. PrefillLen)]
  /\ finished \in [Batch -> BOOLEAN] /\ miStopped \in [Batch -> BOOLEAN]
  /\ stopStep \in [Batch -> -1 .. Phase1Output]
  /\ cursor \in [Batch -> 0 .. PrefillLen] /\ wrapLeft \in [Batch -> 0 .. WrapBudget]
  /\ needsPhase2 \in [Batch -> BOOLEAN] /\ phase1Count \in [Batch -> 0 .. Phase1Output]
  /\ rollouts = <<>> \/ DOMAIN rollouts = Group

\* The next token of a sequence is predicted from its own tokens: up to the
\* shared position the cache holds the tokens of the sequence, in order and
\* without a gap, all but the last, which is fed next; whatever the other
\* sequences of the batch do.  (A sequence stopped too late is the exception:
\* phase 5b feeds it dummy tokens and phase 5c goes on with it.)
CacheFollowsTokens ==
  \A b \in Batch :
    phase \in {"think", "inject", "code"} /\ ~finished[b] /\ ~IsLate(b) =>
      /\ curPos = PromptLen + Len(tokens[b]) - 1
      /\ \A p \in PromptLen .. curPos - 1 : cache[b][p] = p - PromptLen + 1

\* A rollout is trained on exactly the tokens the policy sampled: its mask is 1
\* where a sampled token is predicted and 0 where a token of the prefill is, for
\* every way a sequence can end; without a mask nothing was injected.
MaskIsSampled ==
  \A i \in DOMAIN rollouts :
    LET r == rollouts[i] IN
    IF r.mask = NoMask THEN \A j \in DOMAIN r.tokens : ~IsForced(r.tokens[j])
    ELSE /\ Len(r.mask) = PromptLen + Len(r.tokens) - 1
         /\ \A j \in DOMAIN r.tokens :
              (r.mask[PromptLen - 1 + j] = 1) <=> ~IsForced(r.tokens[j])

\* A rollout trains the adapter that sampled its tokens, though the batch was
\* decoded in another order than the group's.
AdapterKept == \A i \in DOMAIN rollouts : rollouts[i].adapter = rollouts[i].decodedBy

\* prefill_info points at the prefill: the whole of it starts there, in every
\* rollout that got the whole of one.
PrefillLocated ==
  \A i \in DOMAIN rollouts :
    LET r == rollouts[i] IN
    r.mask # NoMask /\ (r.stopped => r.cursor = PrefillLen) =>
      SubSeq(r.tokens, r.prefillStart + 1, r.prefillStart + PrefillLen)
        = [k \in 1 .. PrefillLen |-> k]

\* What the batch does to each of its sequences is two-phase decoding of that
\* sequence alone, and it ends.
Stage(b) ==
  LET forced == Cardinality({j \in DOMAIN tokens[b] : IsForced(tokens[b][j])})
  IN  IF finished[b] \/ phase \in {"assemble", "done"} THEN "finished"
      ELSE IF IsLate(b) THEN "late"
      ELSE IF forced = 0 THEN "think"
      ELSE IF forced < PrefillLen THEN "prefill" ELSE "code"

Alone == INSTANCE DecodedSequences WITH
  stage <- [b \in Batch |-> Stage(b)], early <- miStopped,
  CodeBudget <- ContextWindow - Phase1Max - PrefillLen - ContextBuffer

EachAlone == Alone!Spec

\* What the comment in the mask's construction says ("should == len(prefill_tokens)"):
\* a sequence stopped early got the whole prefill.
PrefillComplete ==
  \A i \in DOMAIN rollouts : rollouts[i].stopped => rollouts[i].cursor = PrefillLen

=============================================================================
