-------------------------- MODULE DecodedSequences --------------------------
(***************************************************************************)
(* What two-phase generation promises each sequence of a group, as if it    *)
(* were decoded alone (the function generate_two_phase of                    *)
(* ug_ttt/rl/ensemble.py, with the early stop its batched twin adds):        *)
(* thinking tokens until a stop token, the budget or a low mutual            *)
(* information; then the whole prefill in order; then code tokens until a    *)
(* stop token or their budget.  The sequences do not affect one another.     *)
(*                                                                          *)
(* A sequence stopped so late that prefill and code do not fit the first     *)
(* phase leaves the protocol (RunOut): generate_batch_multi_adapter_two_phase *)
(* promises it nothing but an end.                                           *)
(***************************************************************************)
EXTENDS Integers, Sequences

CONSTANTS
  Group,         \* the sequences
  Phase1Output,  \* phase1_max_output: thinking tokens at most
  PrefillLen,    \* len(prefill_tokens)
  CodeBudget,    \* phase2_budget
  MinGen,        \* mi_min_gen: thinking tokens before an early stop
  WrapBudget     \* mi_wrap_budget: code tokens after an early stop

VARIABLES
  tokens,  \* the tokens of each sequence after the prompt
  stage,   \* "think", "prefill", "code", "late" or "finished"
  early    \* thinking was cut off by mutual information

vars == <<tokens, stage, early>>

\* A token is an ordinary sampled one, a sampled stop token, or the k-th token
\* of the prefill, k >= 1.
Word == 0
StopToken == -1

\* Code tokens so far: those after the last token of the prefill.
Coded(s) ==
  Len(tokens[s]) - (CHOOSE i \in DOMAIN tokens[s] : tokens[s][i] = PrefillLen)
Budget(s) == IF early[s] THEN WrapBudget ELSE CodeBudget

Init ==
  /\ tokens = [s \in Group |-> <<>>]
  /\ stage = [s \in Group |-> "think"]
  /\ early = [s \in Group |-> FALSE]

Sampled(s, next) ==
  \E t \in {Word, StopToken} :
    /\ tokens'[s] = Append(tokens[s], t)
    /\ stage'[s] = IF t = StopToken THEN "finished" ELSE next

Forced(s, k) ==
  /\ tokens'[s] = Append(tokens[s], k)
  /\ stage'[s] = IF k = PrefillLen THEN "code" ELSE "prefill"

Ends(s) == stage'[s] = "finished" /\ tokens'[s] = tokens[s]

Think(s) ==
  /\ stage[s] = "think" /\ Len(tokens[s]) < Phase1Output
  /\ Sampled(s, "think")
  /\ early'[s] = early[s]

\* The end of thinking is marked by the first token of the prefill.
StopThinking(s) ==
  /\ stage[s] = "think"
  /\ \/ Len(tokens[s]) = Phase1Output /\ ~early'[s]
     \/ Len(tokens[s]) \in MinGen .. Phase1Output - 1 /\ early'[s]
  /\ Forced(s, 1)

Prefill(s) ==
  /\ stage[s] = "prefill"
  /\ Forced(s, tokens[s][Len(tokens[s])] + 1)
  /\ early'[s] = early[s]

Code(s) ==
  /\ stage[s] = "code" /\ Coded(s) < Budget(s)
  /\ Sampled(s, IF early[s] /\ Coded(s) + 1 = WrapBudget THEN "finished" ELSE "code")
  /\ early'[s] = early[s]

Exhausted(s) ==
  /\ stage[s] = "code" /\ Coded(s) >= Budget(s)
  /\ Ends(s)
  /\ early'[s] = early[s]

RunOut(s) ==
  /\ early[s] /\ stage[s] \in {"prefill", "code"} /\ Len(tokens[s]) = Phase1Output
  /\ \/ stage'[s] = "late" /\ tokens'[s] = tokens[s]
     \/ Ends(s)
  /\ early'[s] = early[s]

Late(s) ==
  /\ stage[s] = "late"
  /\ Sampled(s, "late") \/ Ends(s)
  /\ early'[s] = early[s]

Step(s) ==
  \/ Think(s) \/ StopThinking(s) \/ Prefill(s) \/ Code(s)
  \/ Exhausted(s) \/ RunOut(s) \/ Late(s)

Stays(s) == tokens'[s] = tokens[s] /\ stage'[s] = stage[s] /\ early'[s] = early[s]

Next == \A s \in Group : Step(s) \/ Stays(s)

Ending == \A s \in Group : <>(stage[s] = "finished")

Spec == Init /\ [][Next]_vars /\ Ending

=============================================================================
