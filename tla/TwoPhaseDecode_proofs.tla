-------------------------- MODULE TwoPhaseDecode_proofs --------------------------
(* Proofs about batched two-phase decoding, for every size of the group and of   *)
(* the ensemble, every budget and every interval of the checks: each sequence    *)
(* sees its own tokens only, and is trained on what its adapter sampled.         *)
EXTENDS TwoPhaseDecode, FiniteSetTheorems, SequenceTheorems, TLAPS

-----------------------------------------------------------------------------
(* The inductive invariant *)

\* Each pass of the model adds at most one token to a sequence and one position to
\* the cache; where the loops stand says how many passes there were.
Paced ==
  /\ \A b \in Batch : Len(tokens[b]) <= curPos - PromptLen + 1
  /\ phase = "prompt" => curPos = PromptLen /\ \A b \in Batch : tokens[b] = <<>>
  /\ phase = "think" =>
       /\ step \in 1 .. Phase1Output /\ curPos = PromptLen + step - 1
       /\ \A b \in Batch : Len(tokens[b]) = step \/ finished[b]
  /\ phase \in {"inject", "code"} => \E b \in Batch : phase1Count[b] = Phase1Output
  /\ phase = "inject" => step <= PrefillLen /\ curPos = Phase1Max - 1 + step
  /\ phase = "code" => step <= Phase2Budget /\ curPos = Phase1Max - 1 + PrefillLen + step

\* Which sequences the second phase is for.
Divided ==
  /\ \A b \in Batch : needsPhase2[b] => ~miStopped[b] /\ phase \notin {"prompt", "think"}
  /\ phase = "prompt" => \A b \in Batch : ~miStopped[b]
  /\ phase \in {"inject", "code"} =>
       \A b \in Batch : finished[b] \/ miStopped[b] \/ needsPhase2[b]
  /\ phase = "inject" => \A b \in Batch : needsPhase2[b] => ~finished[b]

\* How a sequence is made up: the length of its thinking, then of its prefill.
Thought(b) ==
  IF miStopped[b] THEN stopStep[b] ELSE IF needsPhase2[b] THEN phase1Count[b] ELSE Len(tokens[b])
Forced(b) ==
  IF miStopped[b] THEN cursor[b]
  ELSE IF needsPhase2[b] THEN (IF phase = "inject" THEN step ELSE PrefillLen)
  ELSE 0
Parts(s, thought, forced) ==
  /\ thought \in Nat /\ forced \in Nat /\ thought + forced <= Len(s)
  /\ \A j \in 1 .. Len(s) :
       IF j \in thought + 1 .. thought + forced THEN s[j] = j - thought ELSE ~IsForced(s[j])
MadeUp ==
  /\ \A b \in Batch : Parts(tokens[b], Thought(b), Forced(b))
  /\ phase = "think" => \A b \in Batch : miStopped[b] /\ cursor[b] < PrefillLen =>
       Len(tokens[b]) = stopStep[b] + cursor[b]
  /\ phase = "inject" => \A b \in Batch : needsPhase2[b] =>
       Len(tokens[b]) = phase1Count[b] + step

\* The rollouts are built from the state the loops have left.
Built == rollouts = IF phase = "done" THEN [i \in Group |-> Rollout(i)] ELSE <<>>

DecodeInv == DecodeTypeOK /\ Paced /\ Divided /\ MadeUp /\ CacheFollowsTokens /\ Built

-----------------------------------------------------------------------------
(* Constants and positions *)

(* What the assumption says of the constants. *)
LEMMA DecodeBounds ==
  /\ N \in Nat /\ N >= 1 /\ K \in Nat /\ K >= 1 /\ PromptLen \in Nat /\ PromptLen >= 1
  /\ PrefillLen \in Nat /\ PrefillLen >= 1 /\ MinGen \in Nat /\ MinGen >= 1
  /\ CheckInterval \in Nat /\ CheckInterval >= 1 /\ WrapBudget \in Nat
  /\ Phase1Max \in Nat /\ ContextWindow \in Nat /\ ContextBuffer \in Nat
  /\ Phase1Max + PrefillLen + ContextBuffer <= ContextWindow
  /\ Phase1Output \in Nat /\ Phase1Output >= 1 /\ PromptLen + Phase1Output = Phase1Max
BY DecodeAssumption DEF Phase1Output

(* The second phase gets what the first and the prefill leave of the context window. *)
LEMMA Phase2BudgetIs ==
  ASSUME DecodeTypeOK, NEW c \in Batch, phase1Count[c] = Phase1Output
  PROVE  /\ Phase2Budget = ContextWindow - Phase1Max - PrefillLen - ContextBuffer
         /\ Phase2Budget \in Nat
<1>1. \A b \in Batch : phase1Count[b] \in 0 .. Phase1Output
  BY DEF DecodeTypeOK
<1> DEFINE S == {phase1Count[b] : b \in Batch}
<1>2. Phase1Output \in S /\ \A x \in S : x <= Phase1Output /\ x \in Nat
  BY <1>1, DecodeBounds
<1>3. Max(S) = Phase1Output
  <2>1. Max(S) \in S /\ \A y \in S : Max(S) >= y
    <3>1. \E x \in S : \A y \in S : x >= y
      BY <1>2, DecodeBounds
    <3> HIDE DEF S
    <3> QED BY <3>1 DEF Max
  <2>2. PICK m, o : m = Max(S) /\ o = Phase1Output
    OBVIOUS
  <2>3. m \in Nat /\ m <= o
    BY <1>2, <2>1, <2>2
  <2>4. m >= o /\ o \in Nat
    BY <1>2, <2>1, <2>2, DecodeBounds
  <2> QED BY <2>2, <2>3, <2>4
<1>4. Phase2Budget = ContextWindow - PromptLen - Phase1Output - PrefillLen - ContextBuffer
  BY <1>3 DEF Phase2Budget
<1> QED BY <1>4, DecodeBounds

(* No pass of the model runs past the end of the cache. *)
LEMMA RoomInCache ==
  ASSUME DecodeTypeOK, Paced,
         \/ phase = "think" /\ step < Phase1Output
         \/ phase = "inject" /\ step < PrefillLen
         \/ phase = "code" /\ step < Phase2Budget
  PROVE  curPos \in Positions /\ curPos + 1 \in PromptLen .. ContextWindow
         /\ step \in Nat /\ step + 1 \in 0 .. ContextWindow
<1>0. curPos \in Nat /\ curPos >= PromptLen /\ step \in Nat
  BY DecodeBounds DEF DecodeTypeOK
<1>1. CASE phase = "think" /\ step < Phase1Output
  <2>1. curPos = PromptLen + step - 1
    BY <1>1 DEF Paced
  <2> QED BY <1>0, <1>1, <2>1, DecodeBounds DEF Positions
<1>2. CASE phase = "inject" /\ step < PrefillLen
  <2>1. curPos = Phase1Max - 1 + step
    BY <1>2 DEF Paced
  <2> QED BY <1>0, <1>2, <2>1, DecodeBounds DEF Positions
<1>3. CASE phase = "code" /\ step < Phase2Budget
  <2>1. curPos = Phase1Max - 1 + PrefillLen + step /\ \E c \in Batch : phase1Count[c] = Phase1Output
    BY <1>3 DEF Paced
  <2>2. Phase2Budget = ContextWindow - Phase1Max - PrefillLen - ContextBuffer
    BY <2>1, Phase2BudgetIs
  <2> QED BY <1>0, <1>3, <2>1, <2>2, DecodeBounds DEF Positions
<1> QED BY <1>1, <1>2, <1>3

(* What is fed to an unfinished sequence, and a dummy to others, is in the range. *)
LEMMA FedInRange ==
  ASSUME DecodeTypeOK, Paced, NEW b \in Batch
  PROVE  /\ tokens[b] \in Seq(StopToken .. PrefillLen) /\ Len(tokens[b]) \in 0 .. ContextWindow
         /\ Fed(b) \in 0 .. ContextWindow /\ FedToPhase2(b) \in 0 .. ContextWindow
<1>1. tokens[b] \in Seq(StopToken .. PrefillLen)
  BY DEF DecodeTypeOK
<1>2. PICK l \in Nat : l = Len(tokens[b])
  BY <1>1, LenProperties
<1>3. l <= curPos - PromptLen + 1 /\ curPos \in PromptLen .. ContextWindow
  BY <1>2 DEF Paced, DecodeTypeOK
<1>4. l \in 0 .. ContextWindow /\ 0 \in 0 .. ContextWindow
  BY <1>2, <1>3, DecodeBounds
<1> QED BY <1>1, <1>2, <1>4 DEF Fed, FedToPhase2, FedLast

(* A pass of the model writes one position. *)
LEMMA ForwardWrites ==
  ASSUME cache \in [Batch -> [Positions -> 0 .. ContextWindow]], curPos \in Positions,
         NEW fed \in [Batch -> 0 .. ContextWindow], Forward(fed)
  PROVE  /\ cache' \in [Batch -> [Positions -> 0 .. ContextWindow]] /\ curPos' = curPos + 1
         /\ \A b \in Batch : cache'[b][curPos] = fed[b]
         /\ \A b \in Batch, p \in Positions : p # curPos => cache'[b][p] = cache[b][p]
<1>1. cache' = [b \in Batch |-> [cache[b] EXCEPT ![curPos] = fed[b]]] /\ curPos' = curPos + 1
  BY DEF Forward
<1>2. \A b \in Batch : cache[b] \in [Positions -> 0 .. ContextWindow] /\ fed[b] \in 0 .. ContextWindow
  OBVIOUS
<1>3. \A b \in Batch : cache'[b] = [cache[b] EXCEPT ![curPos] = fed[b]]
  BY <1>1
<1>4. \A b \in Batch : cache'[b] \in [Positions -> 0 .. ContextWindow]
  <2>1. ASSUME NEW P, NEW R, NEW f \in [P -> R], NEW x, NEW y \in R
        PROVE  [f EXCEPT ![x] = y] \in [P -> R]
    OBVIOUS
  <2>2. PICK R : R = 0 .. ContextWindow
    OBVIOUS
  <2>3. \A b \in Batch : [cache[b] EXCEPT ![curPos] = fed[b]] \in [Positions -> R]
    BY <1>2, <2>1, <2>2
  <2> QED BY <1>3, <2>2, <2>3
<1>5. cache' \in [Batch -> [Positions -> 0 .. ContextWindow]]
  BY <1>1, <1>4
<1> QED BY <1>1, <1>2, <1>3, <1>5

(* A token added to a sequence. *)
LEMMA OneMore ==
  ASSUME NEW s \in Seq(StopToken .. PrefillLen), NEW x \in StopToken .. PrefillLen
  PROVE  /\ Append(s, x) \in Seq(StopToken .. PrefillLen) /\ Len(s) \in Nat
         /\ Len(Append(s, x)) = Len(s) + 1 /\ Append(s, x)[Len(s) + 1] = x
         /\ \A j \in 1 .. Len(s) : Append(s, x)[j] = s[j]
BY AppendProperties, LenProperties

(* A token the policy samples. *)
LEMMA DrawnIs ==
  ASSUME NEW b, NEW stops
  PROVE  /\ Drawn(b, stops) \in {Word, StopToken} /\ Drawn(b, stops) \in StopToken .. PrefillLen
         /\ ~IsForced(Drawn(b, stops)) /\ Word # StopToken
         /\ b \in stops <=> Drawn(b, stops) = StopToken
<1>1. Word \in StopToken .. PrefillLen /\ StopToken \in StopToken .. PrefillLen
  BY DecodeBounds DEF Word, StopToken
<1>2. ~IsForced(Word) /\ ~IsForced(StopToken) /\ Word # StopToken
  BY DEF Word, StopToken, IsForced
<1> QED BY <1>1, <1>2 DEF Drawn

-----------------------------------------------------------------------------
(* One step of the thinking loop, for one sequence *)

\* The check of its window, which leaves it the cursor c and the wrap budget w.
Low(b, c, w) ==
  /\ IsCheckpoint /\ ~finished[b] /\ ~miStopped[b] /\ miStopped'[b] /\ stopStep'[b] = step
  /\ c = 0 /\ w = WrapBudget
Unchecked(b, c, w) ==
  /\ miStopped'[b] = miStopped[b] /\ stopStep'[b] = stopStep[b]
  /\ c = cursor[b] /\ w = wrapLeft[b]

\* What the step then does to it.
Rests(b, c, w) ==
  /\ finished[b] /\ finished'[b] /\ tokens'[b] = tokens[b] /\ cursor'[b] = c /\ wrapLeft'[b] = w
Prefills(b, c, w) ==
  /\ ~finished[b] /\ miStopped'[b] /\ c < PrefillLen
  /\ tokens'[b] = Append(tokens[b], c + 1) /\ cursor'[b] = c + 1 /\ wrapLeft'[b] = w
  /\ ~finished'[b]
WrapsUp(b, c, w, x) ==
  /\ ~finished[b] /\ miStopped'[b] /\ c >= PrefillLen /\ w > 0
  /\ tokens'[b] = Append(tokens[b], x) /\ cursor'[b] = c /\ wrapLeft'[b] = w - 1
  /\ finished'[b] <=> x = StopToken \/ w = 1
ThinksOn(b, c, w, x) ==
  /\ ~finished[b] /\ ~miStopped'[b]
  /\ tokens'[b] = Append(tokens[b], x) /\ cursor'[b] = c /\ wrapLeft'[b] = w
  /\ finished'[b] <=> x = StopToken
Exhausts(b, c, w) ==
  /\ ~finished[b] /\ miStopped'[b] /\ c >= PrefillLen /\ w <= 0
  /\ tokens'[b] = tokens[b] /\ cursor'[b] = c /\ wrapLeft'[b] = w /\ finished'[b]

(* A step of the loop is one of these for every sequence. *)
LEMMA ThinkEach ==
  ASSUME DecodeTypeOK, ThinkStep, NEW b \in Batch
  PROVE  \E c \in 0 .. PrefillLen, w \in 0 .. WrapBudget, x \in {Word, StopToken} :
           /\ Low(b, c, w) \/ Unchecked(b, c, w)
           /\ \/ Rests(b, c, w) \/ Prefills(b, c, w) \/ WrapsUp(b, c, w, x)
              \/ ThinksOn(b, c, w, x) \/ Exhausts(b, c, w)
<1>1. PICK low \in SUBSET (IF IsCheckpoint THEN Checked ELSE {}),
           stops \in SUBSET {e \in Batch : ~finished[e]} :
        LET Live == {e \in Batch : ~finished[e]}
            Injecting == {e \in Live : Injects(e, low)}
            Wrapping == {e \in Live : Wraps(e, low)}
            Sampling == Wrapping \cup {e \in Live : Thinks(e)}
        IN  /\ MiCheck(low)
            /\ stops \subseteq Sampling
            /\ tokens' = [e \in Batch |->
                 CASE e \in Injecting -> Append(tokens[e], CursorAfter(e, low) + 1)
                   [] e \in Sampling -> Append(tokens[e], Drawn(e, stops))
                   [] OTHER -> tokens[e]]
            /\ cursor' = [e \in Batch |-> CursorAfter(e, low) + (IF e \in Injecting THEN 1 ELSE 0)]
            /\ wrapLeft' = [e \in Batch |-> WrapAfter(e, low) - (IF e \in Wrapping THEN 1 ELSE 0)]
            /\ finished' = [e \in Batch |->
                 \/ finished[e] \/ e \in stops
                 \/ e \in Wrapping /\ WrapAfter(e, low) = 1
                 \/ e \in Live \ (Injecting \cup Sampling)]
  BY DEF ThinkStep
<1> DEFINE Live == {e \in Batch : ~finished[e]}
           Injecting == {e \in Live : Injects(e, low)}
           Wrapping == {e \in Live : Wraps(e, low)}
           Sampling == Wrapping \cup {e \in Live : Thinks(e)}
<1>2. cursor[b] \in 0 .. PrefillLen /\ wrapLeft[b] \in 0 .. WrapBudget
  BY DEF DecodeTypeOK
<1>3. PICK c \in 0 .. PrefillLen, w \in 0 .. WrapBudget : c = CursorAfter(b, low) /\ w = WrapAfter(b, low)
  <2>1. CursorAfter(b, low) \in 0 .. PrefillLen
    BY <1>2, DecodeBounds DEF CursorAfter
  <2>2. WrapAfter(b, low) \in 0 .. WrapBudget
    BY <1>2, DecodeBounds DEF WrapAfter
  <2> QED BY <2>1, <2>2
<1>4. Low(b, c, w) \/ Unchecked(b, c, w)
  <2>1. CASE b \in low
    <3>1. IsCheckpoint /\ ~finished[b] /\ ~miStopped[b]
      BY <1>1, <2>1 DEF Checked
    <3>2. miStopped'[b] /\ stopStep'[b] = step /\ c = 0 /\ w = WrapBudget
      BY <1>1, <1>3, <2>1 DEF MiCheck, CursorAfter, WrapAfter
    <3> QED BY <3>1, <3>2 DEF Low
  <2>2. CASE b \notin low
    <3>1. stopStep'[b] = stopStep[b] /\ c = cursor[b] /\ w = wrapLeft[b]
      BY <1>1, <1>3, <2>2 DEF MiCheck, CursorAfter, WrapAfter
    <3>2. miStopped'[b] = miStopped[b]
      <4>1. miStopped'[b] = (miStopped[b] \/ b \in low) /\ miStopped[b] \in BOOLEAN
        BY <1>1 DEF MiCheck, DecodeTypeOK
      <4> QED BY <2>2, <4>1
    <3> QED BY <3>1, <3>2 DEF Unchecked
  <2> QED BY <2>1, <2>2
<1>5. /\ b \in Injecting <=> ~finished[b] /\ miStopped'[b] /\ c < PrefillLen
      /\ b \in Wrapping <=> ~finished[b] /\ miStopped'[b] /\ ~(c < PrefillLen) /\ w > 0
      /\ b \in Sampling <=> b \in Wrapping \/ (~finished[b] /\ ~miStopped'[b])
      /\ b \in Live <=> ~finished[b]
  BY <1>3 DEF Injects, Wraps, Thinks
<1>6. PICK x \in {Word, StopToken} : x = Drawn(b, stops) /\ (b \in stops <=> x = StopToken)
  BY DrawnIs
<1>7. b \in stops => b \in Sampling
  BY <1>1
<1>8. /\ tokens'[b] = CASE b \in Injecting -> Append(tokens[b], c + 1)
                        [] b \in Sampling -> Append(tokens[b], x)
                        [] OTHER -> tokens[b]
      /\ cursor'[b] = c + (IF b \in Injecting THEN 1 ELSE 0)
      /\ wrapLeft'[b] = w - (IF b \in Wrapping THEN 1 ELSE 0)
  BY <1>1, <1>3, <1>6
<1>9. finished'[b] <=> \/ finished[b] \/ x = StopToken
                       \/ b \in Wrapping /\ w = 1
                       \/ b \in Live \ (Injecting \cup Sampling)
  BY <1>1, <1>3, <1>6
<1>10. c + 0 = c /\ w - 0 = w
  OBVIOUS
<1> HIDE DEF Live, Injecting, Wrapping, Sampling
<1>11. CASE finished[b]
  <2>1. b \notin Injecting /\ b \notin Sampling /\ b \notin Wrapping
    BY <1>5, <1>11
  <2>2. Rests(b, c, w)
    BY <1>8, <1>9, <1>10, <1>11, <2>1 DEF Rests
  <2> QED BY <1>4, <2>2
<1>12. CASE ~finished[b] /\ miStopped'[b] /\ c < PrefillLen
  <2>1. b \in Injecting /\ b \notin Sampling /\ b \notin Wrapping
    BY <1>5, <1>12
  <2>2. x # StopToken
    BY <1>6, <1>7, <2>1
  <2>3. Prefills(b, c, w)
    BY <1>8, <1>9, <1>10, <1>12, <2>1, <2>2 DEF Prefills
  <2> QED BY <1>4, <2>3
<1>13. CASE ~finished[b] /\ miStopped'[b] /\ ~(c < PrefillLen) /\ w > 0
  <2>1. b \notin Injecting /\ b \in Sampling /\ b \in Wrapping
    BY <1>5, <1>13
  <2>2. c >= PrefillLen
    BY <1>13, DecodeBounds
  <2>3. WrapsUp(b, c, w, x)
    BY <1>8, <1>9, <1>10, <1>13, <2>1, <2>2 DEF WrapsUp
  <2> QED BY <1>4, <2>3
<1>14. CASE ~finished[b] /\ ~miStopped'[b]
  <2>1. b \notin Injecting /\ b \in Sampling /\ b \notin Wrapping
    BY <1>5, <1>14
  <2>2. ThinksOn(b, c, w, x)
    BY <1>8, <1>9, <1>10, <1>14, <2>1 DEF ThinksOn
  <2> QED BY <1>4, <2>2
<1>15. CASE ~finished[b] /\ miStopped'[b] /\ ~(c < PrefillLen) /\ ~(w > 0)
  <2>1. b \notin Injecting /\ b \notin Sampling /\ b \notin Wrapping /\ b \in Live
    BY <1>5, <1>15
  <2>2. c >= PrefillLen /\ w <= 0
    BY <1>15, DecodeBounds
  <2>3. Exhausts(b, c, w)
    BY <1>8, <1>9, <1>10, <1>15, <2>1, <2>2 DEF Exhausts
  <2> QED BY <1>4, <2>3
<1> QED BY <1>11, <1>12, <1>13, <1>14, <1>15

-----------------------------------------------------------------------------
(* How a sequence is made up *)

(* A token of the prefill goes on with the prefill. *)
LEMMA PartsForced ==
  ASSUME NEW s \in Seq(StopToken .. PrefillLen), NEW t, NEW f, NEW x \in StopToken .. PrefillLen,
         Parts(s, t, f), Len(s) = t + f, x = f + 1
  PROVE  Parts(Append(s, x), t, f + 1)
<1>1. PICK r : r = Append(s, x)
  OBVIOUS
<1>2. Len(s) \in Nat /\ Len(r) = Len(s) + 1 /\ r[Len(s) + 1] = x /\ \A j \in 1 .. Len(s) : r[j] = s[j]
  BY <1>1, OneMore
<1>3. t \in Nat /\ f \in Nat /\ \A j \in 1 .. Len(s) :
        IF j \in t + 1 .. t + f THEN s[j] = j - t ELSE ~IsForced(s[j])
  BY DEF Parts
<1>4. ASSUME NEW j \in 1 .. Len(r)
      PROVE  IF j \in t + 1 .. t + (f + 1) THEN r[j] = j - t ELSE ~IsForced(r[j])
  <2>1. CASE j = Len(s) + 1
    <3>1. j \in t + 1 .. t + (f + 1) /\ j - t = f + 1
      BY <1>3, <2>1
    <3> QED BY <1>2, <2>1, <3>1
  <2>2. CASE j # Len(s) + 1
    <3>1. j \in 1 .. Len(s)
      BY <1>2, <2>2
    <3>2. j \in t + 1 .. t + (f + 1) <=> j \in t + 1 .. t + f
      BY <1>2, <1>3, <3>1
    <3> QED BY <1>2, <1>3, <3>1, <3>2
  <2> QED BY <2>1, <2>2
<1>5. f + 1 \in Nat /\ t + (f + 1) <= Len(r)
  BY <1>2, <1>3
<1> QED BY <1>1, <1>3, <1>4, <1>5 DEF Parts

(* A sampled token is neither thinking nor prefill once these have ended. *)
LEMMA PartsFree ==
  ASSUME NEW s \in Seq(StopToken .. PrefillLen), NEW t, NEW f, NEW x \in StopToken .. PrefillLen,
         Parts(s, t, f), ~IsForced(x)
  PROVE  Parts(Append(s, x), t, f)
<1>1. PICK r : r = Append(s, x)
  OBVIOUS
<1>2. Len(s) \in Nat /\ Len(r) = Len(s) + 1 /\ r[Len(s) + 1] = x /\ \A j \in 1 .. Len(s) : r[j] = s[j]
  BY <1>1, OneMore
<1>3. t \in Nat /\ f \in Nat /\ t + f <= Len(s) /\ \A j \in 1 .. Len(s) :
        IF j \in t + 1 .. t + f THEN s[j] = j - t ELSE ~IsForced(s[j])
  BY DEF Parts
<1>4. ASSUME NEW j \in 1 .. Len(r)
      PROVE  IF j \in t + 1 .. t + f THEN r[j] = j - t ELSE ~IsForced(r[j])
  <2>1. CASE j = Len(s) + 1
    <3>1. j \notin t + 1 .. t + f
      BY <1>2, <1>3, <2>1
    <3> QED BY <1>2, <2>1, <3>1
  <2>2. CASE j # Len(s) + 1
    <3>1. j \in 1 .. Len(s)
      BY <1>2, <2>2
    <3> QED BY <1>2, <1>3, <3>1
  <2> QED BY <2>1, <2>2
<1>5. t + f <= Len(r)
  BY <1>2, <1>3
<1> QED BY <1>1, <1>3, <1>4, <1>5 DEF Parts

(* A sequence without a prefill is thinking from end to end. *)
LEMMA PartsThought ==
  ASSUME NEW s \in Seq(StopToken .. PrefillLen), NEW t, Parts(s, t, 0)
  PROVE  Parts(s, Len(s), 0)
<1>1. Len(s) \in Nat
  BY LenProperties
<1>2. t \in Nat /\ \A j \in 1 .. Len(s) :
        IF j \in t + 1 .. t + 0 THEN s[j] = j - t ELSE ~IsForced(s[j])
  BY DEF Parts
<1>3. ASSUME NEW j \in 1 .. Len(s), NEW u \in Nat PROVE j \notin u + 1 .. u + 0
  BY <1>1
<1>4. \A j \in 1 .. Len(s) : IF j \in Len(s) + 1 .. Len(s) + 0 THEN s[j] = j - Len(s) ELSE ~IsForced(s[j])
  BY <1>1, <1>2, <1>3
<1>5. 0 \in Nat /\ Len(s) + 0 <= Len(s)
  BY <1>1
<1> QED BY <1>1, <1>4, <1>5 DEF Parts

-----------------------------------------------------------------------------
(* The cache *)

(* A sequence that is fed its last token and gets another one stays in the cache *)
(* without a gap.                                                                *)
LEMMA CacheGrows ==
  ASSUME DecodeTypeOK, curPos \in Positions, NEW fed \in [Batch -> 0 .. ContextWindow], Forward(fed),
         NEW b \in Batch, curPos = PromptLen + Len(tokens[b]) - 1,
         \A p \in PromptLen .. curPos - 1 : cache[b][p] = p - PromptLen + 1,
         fed[b] = Len(tokens[b]), Len(tokens'[b]) = Len(tokens[b]) + 1
  PROVE  /\ curPos' = PromptLen + Len(tokens'[b]) - 1
         /\ \A p \in PromptLen .. curPos' - 1 : cache'[b][p] = p - PromptLen + 1
<1>1. /\ curPos' = curPos + 1 /\ cache'[b][curPos] = fed[b]
      /\ \A p \in Positions : p # curPos => cache'[b][p] = cache[b][p]
  BY ForwardWrites DEF DecodeTypeOK
<1>2. Len(tokens[b]) \in Nat /\ curPos \in Nat /\ curPos >= PromptLen
  BY LenProperties, DecodeBounds DEF DecodeTypeOK
<1>3. curPos' = PromptLen + Len(tokens'[b]) - 1
  BY <1>1, <1>2, DecodeBounds
<1>4. ASSUME NEW p \in PromptLen .. curPos' - 1
      PROVE  cache'[b][p] = p - PromptLen + 1
  <2>1. PICK c, l, n, w : c = curPos /\ l = Len(tokens[b]) /\ n = PromptLen /\ w = ContextWindow
    OBVIOUS
  <2>2. c \in Nat /\ l \in Nat /\ n \in Nat /\ w \in Nat /\ c = n + l - 1 /\ c \in n .. w - 1
    BY <1>2, <2>1, DecodeBounds DEF Positions
  <2>3. p \in n .. (c + 1) - 1
    BY <1>1, <2>1
  <2>4. CASE p = c
    <3>1. l = p - n + 1
      BY <2>2, <2>4
    <3> QED BY <1>1, <2>1, <2>4, <3>1
  <2>5. CASE p # c
    <3>1. p \in n .. c - 1 /\ p \in n .. w - 1
      BY <2>2, <2>3, <2>5
    <3>2. cache'[b][p] = cache[b][p]
      BY <1>1, <2>1, <2>5, <3>1 DEF Positions
    <3>3. cache[b][p] = p - PromptLen + 1
      BY <2>1, <3>1
    <3> QED BY <3>2, <3>3
  <2> QED BY <2>4, <2>5
<1> QED BY <1>3, <1>4

-----------------------------------------------------------------------------
(* The thinking loop keeps the invariant *)

(* The parts of the step that are common to all sequences. *)
LEMMA ThinkFrame ==
  ASSUME DecodeTypeOK, Paced, ThinkStep
  PROVE  /\ phase = "think" /\ phase' = "think" /\ step \in Nat /\ step < Phase1Output
         /\ step' = step + 1 /\ step' \in 0 .. ContextWindow
         /\ curPos \in Positions /\ curPos' = curPos + 1 /\ curPos' \in PromptLen .. ContextWindow
         /\ cache' \in [Batch -> [Positions -> 0 .. ContextWindow]]
         /\ UNCHANGED <<assignment, needsPhase2, phase1Count, rollouts>>
         /\ Forward([b \in Batch |-> Fed(b)]) /\ [b \in Batch |-> Fed(b)] \in [Batch -> 0 .. ContextWindow]
<1>1. /\ phase = "think" /\ phase' = "think" /\ step < Phase1Output /\ step' = step + 1
      /\ UNCHANGED <<assignment, needsPhase2, phase1Count, rollouts>>
      /\ Forward([b \in Batch |-> Fed(b)])
  BY DEF ThinkStep, split
<1>2. /\ curPos \in Positions /\ curPos + 1 \in PromptLen .. ContextWindow
      /\ step \in Nat /\ step + 1 \in 0 .. ContextWindow
  BY <1>1, RoomInCache
<1>3. [b \in Batch |-> Fed(b)] \in [Batch -> 0 .. ContextWindow]
  BY FedInRange
<1>4. curPos' = curPos + 1 /\ cache' \in [Batch -> [Positions -> 0 .. ContextWindow]]
  BY <1>1, <1>2, <1>3, ForwardWrites DEF DecodeTypeOK
<1> QED BY <1>1, <1>2, <1>3, <1>4

(* A thinking step changes functions over the batch into functions over the batch. *)
LEMMA ThinkFunctions ==
  ASSUME DecodeTypeOK, ThinkStep
  PROVE  /\ tokens' = [b \in Batch |-> tokens'[b]] /\ finished' = [b \in Batch |-> finished'[b]]
         /\ miStopped' = [b \in Batch |-> miStopped'[b]] /\ stopStep' = [b \in Batch |-> stopStep'[b]]
         /\ cursor' = [b \in Batch |-> cursor'[b]] /\ wrapLeft' = [b \in Batch |-> wrapLeft'[b]]
         /\ \A b \in Batch : miStopped'[b] \in BOOLEAN /\ finished'[b] \in BOOLEAN
<1>1. PICK low \in SUBSET (IF IsCheckpoint THEN Checked ELSE {}),
           stops \in SUBSET {e \in Batch : ~finished[e]} :
        LET Live == {e \in Batch : ~finished[e]}
            Injecting == {e \in Live : Injects(e, low)}
            Wrapping == {e \in Live : Wraps(e, low)}
            Sampling == Wrapping \cup {e \in Live : Thinks(e)}
        IN  /\ MiCheck(low)
            /\ stops \subseteq Sampling
            /\ tokens' = [e \in Batch |->
                 CASE e \in Injecting -> Append(tokens[e], CursorAfter(e, low) + 1)
                   [] e \in Sampling -> Append(tokens[e], Drawn(e, stops))
                   [] OTHER -> tokens[e]]
            /\ cursor' = [e \in Batch |-> CursorAfter(e, low) + (IF e \in Injecting THEN 1 ELSE 0)]
            /\ wrapLeft' = [e \in Batch |-> WrapAfter(e, low) - (IF e \in Wrapping THEN 1 ELSE 0)]
            /\ finished' = [e \in Batch |->
                 \/ finished[e] \/ e \in stops
                 \/ e \in Wrapping /\ WrapAfter(e, low) = 1
                 \/ e \in Live \ (Injecting \cup Sampling)]
  BY DEF ThinkStep
<1>2. tokens' = [b \in Batch |-> tokens'[b]]
  BY <1>1
<1>3. cursor' = [b \in Batch |-> cursor'[b]]
  BY <1>1
<1>4. wrapLeft' = [b \in Batch |-> wrapLeft'[b]]
  BY <1>1
<1>5. finished' = [b \in Batch |-> finished'[b]] /\ \A b \in Batch : finished'[b] \in BOOLEAN
  BY <1>1
<1>6. /\ miStopped' = [b \in Batch |-> miStopped'[b]] /\ stopStep' = [b \in Batch |-> stopStep'[b]]
      /\ \A b \in Batch : miStopped'[b] \in BOOLEAN
  <2>1. /\ miStopped' = [b \in Batch |-> miStopped[b] \/ b \in low]
        /\ stopStep' = [b \in Batch |-> IF b \in low THEN step ELSE stopStep[b]]
    BY <1>1 DEF MiCheck
  <2>2. stopStep' = [b \in Batch |-> stopStep'[b]]
    BY <2>1
  <2> QED BY <2>1, <2>2
<1> QED BY <1>2, <1>3, <1>4, <1>5, <1>6

(* The step keeps every sequence typed, and adds at most one token to it: exactly *)
(* one if it is not finished after the step.                                      *)
LEMMA ThinkTyped ==
  ASSUME DecodeTypeOK, Paced, ThinkStep, NEW b \in Batch
  PROVE  /\ tokens'[b] \in Seq(StopToken .. PrefillLen) /\ stopStep'[b] \in -1 .. Phase1Output
         /\ cursor'[b] \in 0 .. PrefillLen /\ wrapLeft'[b] \in 0 .. WrapBudget
         /\ Len(tokens'[b]) <= Len(tokens[b]) + 1
         /\ ~finished'[b] => ~finished[b] /\ Len(tokens'[b]) = Len(tokens[b]) + 1
<1>1. PICK c \in 0 .. PrefillLen, w \in 0 .. WrapBudget, x \in {Word, StopToken} :
        /\ Low(b, c, w) \/ Unchecked(b, c, w)
        /\ \/ Rests(b, c, w) \/ Prefills(b, c, w) \/ WrapsUp(b, c, w, x)
           \/ ThinksOn(b, c, w, x) \/ Exhausts(b, c, w)
  BY ThinkEach
<1>2. /\ tokens[b] \in Seq(StopToken .. PrefillLen) /\ stopStep[b] \in -1 .. Phase1Output
      /\ Len(tokens[b]) \in Nat
  BY LenProperties DEF DecodeTypeOK
<1>3. stopStep'[b] \in -1 .. Phase1Output
  <2>1. CASE Low(b, c, w)
    <3>1. stopStep'[b] = step /\ step \in Nat /\ step < Phase1Output
      BY <2>1, ThinkFrame DEF Low
    <3> QED BY <3>1, DecodeBounds
  <2>2. CASE Unchecked(b, c, w)
    BY <1>2, <2>2 DEF Unchecked
  <2> QED BY <1>1, <2>1, <2>2
<1>4. x \in StopToken .. PrefillLen
  BY <1>1, DecodeBounds DEF Word, StopToken
<1>5. CASE Rests(b, c, w)
  BY <1>2, <1>3, <1>5 DEF Rests
<1>6. CASE Prefills(b, c, w)
  <2>1. c + 1 \in 0 .. PrefillLen /\ c + 1 \in StopToken .. PrefillLen
    BY <1>6, DecodeBounds DEF Prefills, StopToken
  <2>2. Append(tokens[b], c + 1) \in Seq(StopToken .. PrefillLen)
        /\ Len(Append(tokens[b], c + 1)) = Len(tokens[b]) + 1
    BY <1>2, <2>1, OneMore
  <2> QED BY <1>2, <1>3, <1>6, <2>1, <2>2 DEF Prefills
<1>7. CASE WrapsUp(b, c, w, x)
  <2>1. Append(tokens[b], x) \in Seq(StopToken .. PrefillLen)
        /\ Len(Append(tokens[b], x)) = Len(tokens[b]) + 1
    BY <1>2, <1>4, OneMore
  <2>2. w - 1 \in 0 .. WrapBudget
    BY <1>7, DecodeBounds DEF WrapsUp
  <2> QED BY <1>2, <1>3, <1>7, <2>1, <2>2 DEF WrapsUp
<1>8. CASE ThinksOn(b, c, w, x)
  <2>1. Append(tokens[b], x) \in Seq(StopToken .. PrefillLen)
        /\ Len(Append(tokens[b], x)) = Len(tokens[b]) + 1
    BY <1>2, <1>4, OneMore
  <2> QED BY <1>2, <1>3, <1>8, <2>1 DEF ThinksOn
<1>9. CASE Exhausts(b, c, w)
  BY <1>2, <1>3, <1>9 DEF Exhausts
<1> QED BY <1>1, <1>5, <1>6, <1>7, <1>8, <1>9

(* The step keeps how a sequence is made up. *)
LEMMA ThinkMadeUp ==
  ASSUME DecodeTypeOK, Paced, Divided, MadeUp, ThinkStep, NEW b \in Batch
  PROVE  /\ Parts(tokens'[b], Thought(b)', Forced(b)')
         /\ miStopped'[b] /\ cursor'[b] < PrefillLen => Len(tokens'[b]) = stopStep'[b] + cursor'[b]
<1>1. PICK c \in 0 .. PrefillLen, w \in 0 .. WrapBudget, x \in {Word, StopToken} :
        /\ Low(b, c, w) \/ Unchecked(b, c, w)
        /\ \/ Rests(b, c, w) \/ Prefills(b, c, w) \/ WrapsUp(b, c, w, x)
           \/ ThinksOn(b, c, w, x) \/ Exhausts(b, c, w)
  BY ThinkEach
<1>2. /\ tokens[b] \in Seq(StopToken .. PrefillLen) /\ Len(tokens[b]) \in Nat
      /\ miStopped[b] \in BOOLEAN /\ miStopped'[b] \in BOOLEAN
  BY LenProperties, ThinkFunctions DEF DecodeTypeOK
<1>3. phase = "think" /\ ~needsPhase2[b] /\ ~needsPhase2'[b]
  BY ThinkFrame DEF Divided
<1>4. /\ miStopped[b] => Parts(tokens[b], stopStep[b], cursor[b])
      /\ ~miStopped[b] => Parts(tokens[b], Len(tokens[b]), 0)
      /\ miStopped[b] /\ cursor[b] < PrefillLen => Len(tokens[b]) = stopStep[b] + cursor[b]
  BY <1>3 DEF MadeUp, Thought, Forced
<1>5. /\ miStopped'[b] => Thought(b)' = stopStep'[b] /\ Forced(b)' = cursor'[b]
      /\ ~miStopped'[b] => Thought(b)' = Len(tokens'[b]) /\ Forced(b)' = 0
  BY <1>3 DEF Thought, Forced
<1>6. x \in StopToken .. PrefillLen /\ ~IsForced(x)
  BY <1>1, DecodeBounds DEF Word, StopToken, IsForced
<1>7. CASE ~miStopped'[b]
  <2>1. ~miStopped[b]
    BY <1>1, <1>7 DEF Low, Unchecked
  <2>2. tokens'[b] = tokens[b] \/ tokens'[b] = Append(tokens[b], x)
    BY <1>1, <1>7 DEF Rests, Prefills, WrapsUp, ThinksOn, Exhausts
  <2>3. Parts(tokens'[b], Len(tokens'[b]), 0)
    <3>1. CASE tokens'[b] = tokens[b]
      BY <1>4, <2>1, <3>1
    <3>2. CASE tokens'[b] = Append(tokens[b], x)
      <4>1. Parts(Append(tokens[b], x), Len(tokens[b]), 0) /\ Append(tokens[b], x) \in Seq(StopToken .. PrefillLen)
        BY <1>2, <1>4, <1>6, <2>1, PartsFree, OneMore
      <4> QED BY <3>2, <4>1, PartsThought
    <3> QED BY <2>2, <3>1, <3>2
  <2> QED BY <1>5, <1>7, <2>3
<1>8. CASE miStopped'[b]
  <2>1. PICK t : t = stopStep'[b]
    OBVIOUS
  <2>2. Parts(tokens[b], t, c) /\ (c < PrefillLen => Len(tokens[b]) = t + c)
    <3>1. CASE Low(b, c, w)
      <4>1. ~finished[b] /\ ~miStopped[b] /\ t = step /\ c = 0 /\ step \in Nat
        BY <2>1, <3>1, ThinkFrame DEF Low
      <4>2. Len(tokens[b]) = step
        BY <1>3, <4>1 DEF Paced
      <4> QED BY <1>4, <4>1, <4>2
    <3>2. CASE Unchecked(b, c, w)
      BY <1>4, <1>8, <2>1, <3>2 DEF Unchecked
    <3> QED BY <1>1, <3>1, <3>2
  <2>3. Parts(tokens'[b], t, cursor'[b]) /\ (cursor'[b] < PrefillLen => Len(tokens'[b]) = t + cursor'[b])
    <3>1. CASE Rests(b, c, w) \/ Exhausts(b, c, w)
      BY <2>2, <3>1 DEF Rests, Exhausts
    <3>2. CASE Prefills(b, c, w)
      <4>1. c < PrefillLen /\ tokens'[b] = Append(tokens[b], c + 1) /\ cursor'[b] = c + 1
        BY <3>2 DEF Prefills
      <4>2. c + 1 \in StopToken .. PrefillLen /\ c \in Nat
        BY <4>1, DecodeBounds DEF StopToken
      <4>3. Parts(Append(tokens[b], c + 1), t, c + 1) /\ Len(Append(tokens[b], c + 1)) = Len(tokens[b]) + 1
        BY <1>2, <2>2, <4>1, <4>2, PartsForced, OneMore
      <4>4. t \in Nat
        BY <2>2 DEF Parts
      <4>5. Len(tokens[b]) + 1 = t + (c + 1)
        BY <2>2, <4>1, <4>2, <4>4
      <4> QED BY <4>1, <4>3, <4>5
    <3>3. CASE WrapsUp(b, c, w, x)
      <4>1. ~(c < PrefillLen) /\ tokens'[b] = Append(tokens[b], x) /\ cursor'[b] = c
        BY <3>3, DecodeBounds DEF WrapsUp
      <4>2. Parts(Append(tokens[b], x), t, c)
        BY <1>2, <1>6, <2>2, PartsFree
      <4> QED BY <4>1, <4>2
    <3>4. ~ThinksOn(b, c, w, x)
      BY <1>8 DEF ThinksOn
    <3> QED BY <1>1, <3>1, <3>2, <3>3, <3>4
  <2> QED BY <1>5, <1>8, <2>1, <2>3
<1> QED BY <1>7, <1>8

(* The step keeps the invariant. *)
LEMMA ThinkKeeps == DecodeInv /\ ThinkStep => DecodeInv'
<1> SUFFICES ASSUME DecodeInv, ThinkStep PROVE DecodeInv'
  OBVIOUS
<1>1. DecodeTypeOK /\ Paced /\ Divided /\ MadeUp /\ CacheFollowsTokens /\ Built
  BY DEF DecodeInv
<1>2. /\ phase = "think" /\ phase' = "think" /\ step \in Nat /\ step < Phase1Output
      /\ step' = step + 1 /\ step' \in 0 .. ContextWindow
      /\ curPos \in Positions /\ curPos' = curPos + 1 /\ curPos' \in PromptLen .. ContextWindow
      /\ cache' \in [Batch -> [Positions -> 0 .. ContextWindow]]
      /\ UNCHANGED <<assignment, needsPhase2, phase1Count, rollouts>>
      /\ Forward([b \in Batch |-> Fed(b)]) /\ [b \in Batch |-> Fed(b)] \in [Batch -> 0 .. ContextWindow]
  BY <1>1, ThinkFrame
<1>3. \A b \in Batch :
        /\ tokens'[b] \in Seq(StopToken .. PrefillLen) /\ stopStep'[b] \in -1 .. Phase1Output
        /\ cursor'[b] \in 0 .. PrefillLen /\ wrapLeft'[b] \in 0 .. WrapBudget
        /\ Len(tokens'[b]) <= Len(tokens[b]) + 1
        /\ ~finished'[b] => ~finished[b] /\ Len(tokens'[b]) = Len(tokens[b]) + 1
  BY <1>1, ThinkTyped
<1>4. \A b \in Batch : Len(tokens[b]) \in Nat /\ Len(tokens'[b]) \in Nat
  BY <1>1, <1>3, LenProperties DEF DecodeTypeOK
<1>5. DecodeTypeOK'
  <2>1. tokens' \in [Batch -> Seq(StopToken .. PrefillLen)] /\ stopStep' \in [Batch -> -1 .. Phase1Output]
    BY <1>1, <1>3, ThinkFunctions
  <2>2. cursor' \in [Batch -> 0 .. PrefillLen] /\ wrapLeft' \in [Batch -> 0 .. WrapBudget]
    BY <1>1, <1>3, ThinkFunctions
  <2>3. finished' \in [Batch -> BOOLEAN] /\ miStopped' \in [Batch -> BOOLEAN]
    BY <1>1, ThinkFunctions
  <2> QED BY <1>1, <1>2, <2>1, <2>2, <2>3 DEF DecodeTypeOK
<1>6. Paced'
  <2>1. step' \in 1 .. Phase1Output /\ curPos' = PromptLen + step' - 1
    <3>1. curPos = PromptLen + step - 1
      BY <1>1, <1>2 DEF Paced
    <3> QED BY <1>2, <3>1, DecodeBounds
  <2>2. ASSUME NEW b \in Batch
        PROVE  Len(tokens'[b]) <= curPos' - PromptLen + 1 /\ (Len(tokens'[b]) = step' \/ finished'[b])
    <3>1. Len(tokens[b]) <= curPos - PromptLen + 1 /\ (Len(tokens[b]) = step \/ finished[b])
      BY <1>1, <1>2 DEF Paced
    <3>2. curPos \in Nat
      BY <1>2, DecodeBounds DEF Positions
    <3>3. Len(tokens'[b]) <= curPos' - PromptLen + 1
      BY <1>2, <1>3, <1>4, <3>1, <3>2, DecodeBounds
    <3>4. ~finished'[b] => Len(tokens'[b]) = step'
      BY <1>2, <1>3, <3>1
    <3> QED BY <3>3, <3>4
  <2> QED BY <1>2, <2>1, <2>2 DEF Paced
<1>7. Divided'
  BY <1>1, <1>2 DEF Divided
<1>8. MadeUp'
  BY <1>1, <1>2, ThinkMadeUp DEF MadeUp
<1>9. CacheFollowsTokens'
  <2>1. ASSUME NEW b \in Batch, ~finished'[b]
        PROVE  /\ curPos' = PromptLen + Len(tokens'[b]) - 1
               /\ \A p \in PromptLen .. curPos' - 1 : cache'[b][p] = p - PromptLen + 1
    <3>1. ~finished[b] /\ Len(tokens'[b]) = Len(tokens[b]) + 1
      BY <1>3, <2>1
    <3>2. ~IsLate(b)
      BY <1>2 DEF IsLate
    <3>3. /\ curPos = PromptLen + Len(tokens[b]) - 1
          /\ \A p \in PromptLen .. curPos - 1 : cache[b][p] = p - PromptLen + 1
      BY <1>1, <1>2, <3>1, <3>2 DEF CacheFollowsTokens
    <3>4. [e \in Batch |-> Fed(e)][b] = Len(tokens[b])
      BY <3>1 DEF Fed, FedLast
    <3> QED BY <1>1, <1>2, <3>1, <3>3, <3>4, CacheGrows
  <2> QED BY <2>1 DEF CacheFollowsTokens
<1>10. Built'
  BY <1>1, <1>2 DEF Built
<1> QED BY <1>5, <1>6, <1>7, <1>8, <1>9, <1>10 DEF DecodeInv

-----------------------------------------------------------------------------
(* The other steps keep the invariant *)

(* The first tokens of the group. *)
LEMMA FirstKeeps == DecodeInv /\ FirstTokens => DecodeInv'
<1> SUFFICES ASSUME DecodeInv, FirstTokens PROVE DecodeInv'
  OBVIOUS
<1>1. DecodeTypeOK /\ Paced /\ Divided /\ MadeUp /\ CacheFollowsTokens /\ Built
  BY DEF DecodeInv
<1>2. PICK stops \in SUBSET Batch :
        /\ tokens' = [b \in Batch |-> <<Drawn(b, stops)>>]
        /\ finished' = [b \in Batch |-> b \in stops]
  BY DEF FirstTokens
<1>3. /\ phase = "prompt" /\ phase' = "think" /\ step' = 1 /\ curPos = PromptLen
      /\ UNCHANGED <<assignment, curPos, cache, miStopped, stopStep, cursor, wrapLeft>>
      /\ UNCHANGED <<needsPhase2, phase1Count, rollouts>>
  BY <1>1 DEF FirstTokens, mi, split, Paced
<1>4. \A b \in Batch : ~miStopped[b] /\ ~needsPhase2[b]
  BY <1>1, <1>3 DEF Divided
<1>5. ASSUME NEW b \in Batch
      PROVE  /\ tokens'[b] \in Seq(StopToken .. PrefillLen) /\ Len(tokens'[b]) = 1
             /\ Parts(tokens'[b], Len(tokens'[b]), 0)
  <2>1. PICK x \in StopToken .. PrefillLen : x = Drawn(b, stops) /\ ~IsForced(x)
    BY DrawnIs
  <2>2. tokens'[b] = <<x>>
    BY <1>2, <2>1
  <2>3. <<x>> \in Seq(StopToken .. PrefillLen) /\ Len(<<x>>) = 1 /\ <<x>>[1] = x
    OBVIOUS
  <2>4. Parts(<<x>>, 1, 0)
    <3>1. \A j \in 1 .. 1 : j = 1 /\ j \notin 1 + 1 .. 1 + 0
      OBVIOUS
    <3>2. 1 \in Nat /\ 0 \in Nat /\ 1 + 0 <= 1
      OBVIOUS
    <3> QED BY <2>1, <2>3, <3>1, <3>2 DEF Parts
  <2> QED BY <2>2, <2>3, <2>4
<1>6. DecodeTypeOK'
  <2>1. tokens' \in [Batch -> Seq(StopToken .. PrefillLen)] /\ finished' \in [Batch -> BOOLEAN]
    BY <1>2, <1>5
  <2>2. 1 \in 0 .. ContextWindow
    BY DecodeBounds
  <2> QED BY <1>1, <1>3, <2>1, <2>2 DEF DecodeTypeOK
<1>7. Paced'
  <2>1. 1 \in 1 .. Phase1Output /\ PromptLen = PromptLen + 1 - 1 /\ 1 <= PromptLen - PromptLen + 1
    BY DecodeBounds
  <2> QED BY <1>3, <1>5, <2>1 DEF Paced
<1>8. Divided'
  BY <1>3, <1>4 DEF Divided
<1>9. MadeUp'
  BY <1>3, <1>4, <1>5 DEF MadeUp, Thought, Forced
<1>10. CacheFollowsTokens'
  <2>1. PromptLen = PromptLen + 1 - 1 /\ \A p \in PromptLen .. PromptLen - 1 : FALSE
    BY DecodeBounds
  <2> QED BY <1>3, <1>5, <2>1 DEF CacheFollowsTokens
<1>11. Built'
  BY <1>1, <1>3 DEF Built
<1> QED BY <1>6, <1>7, <1>8, <1>9, <1>10, <1>11 DEF DecodeInv

(* The division of the sequences after the thinking loop. *)
LEMMA EndThinkingKeeps == DecodeInv /\ EndThinking => DecodeInv'
<1> SUFFICES ASSUME DecodeInv, EndThinking PROVE DecodeInv'
  OBVIOUS
<1>1. DecodeTypeOK /\ Paced /\ Divided /\ MadeUp /\ CacheFollowsTokens /\ Built
  BY DEF DecodeInv
<1>2. /\ phase = "think" /\ (step >= Phase1Output \/ AllFinished)
      /\ phase1Count' = [b \in Batch |-> Len(tokens[b])]
      /\ needsPhase2' = [b \in Batch |-> ~finished[b] /\ ~miStopped[b]]
      /\ phase' = (IF \E b \in Batch : ~finished[b] /\ ~miStopped[b] THEN "inject" ELSE "assemble")
      /\ step' = 0
      /\ UNCHANGED <<assignment, curPos, cache, tokens, finished, miStopped, stopStep, cursor, wrapLeft, rollouts>>
  BY DEF EndThinking, NeedsPhase2, mi
<1>3. /\ \A b \in Batch : tokens[b] \in Seq(StopToken .. PrefillLen) /\ Len(tokens[b]) \in Nat
      /\ \A b \in Batch : finished[b] \in BOOLEAN /\ miStopped[b] \in BOOLEAN
  BY <1>1, LenProperties DEF DecodeTypeOK
<1>4. step \in 1 .. Phase1Output /\ curPos = PromptLen + step - 1
      /\ \A b \in Batch : Len(tokens[b]) <= curPos - PromptLen + 1 /\ (Len(tokens[b]) = step \/ finished[b])
  BY <1>1, <1>2 DEF Paced
<1>5. \A b \in Batch : Len(tokens[b]) \in 0 .. Phase1Output
  <2>1. \A l, s, p, o, c \in Nat : s \in 1 .. o /\ c = p + s - 1 /\ l <= c - p + 1 => l \in 0 .. o
    OBVIOUS
  <2>2. step \in Nat /\ curPos \in Nat
    BY <1>4, DecodeBounds
  <2> QED BY <1>3, <1>4, <2>1, <2>2, DecodeBounds
<1>6. DecodeTypeOK'
  <2>1. phase1Count' \in [Batch -> 0 .. Phase1Output]
    BY <1>2, <1>5
  <2>2. needsPhase2' \in [Batch -> BOOLEAN]
    BY <1>2
  <2>3. 0 \in 0 .. ContextWindow
    BY DecodeBounds
  <2> QED BY <1>1, <1>2, <2>1, <2>2, <2>3 DEF DecodeTypeOK
<1>7. ASSUME phase' = "inject"
      PROVE  step = Phase1Output /\ \E b \in Batch : phase1Count'[b] = Phase1Output
  <2>1. PICK b \in Batch : ~finished[b]
    BY <1>2, <1>7
  <2>2. step = Phase1Output
    BY <1>2, <1>4, <2>1, DecodeBounds DEF AllFinished
  <2> QED BY <1>2, <1>4, <2>1, <2>2
<1>8. phase' \in {"inject", "assemble"}
  BY <1>2
<1>9. Paced'
  <2>1. ASSUME phase' = "inject" PROVE 0 <= PrefillLen /\ curPos = Phase1Max - 1 + 0
    BY <1>4, <1>7, <2>1, DecodeBounds
  <2> QED BY <1>1, <1>2, <1>7, <1>8, <2>1 DEF Paced
<1>10. Divided'
  BY <1>2, <1>3, <1>8 DEF Divided
<1>11. MadeUp'
  <2>1. ASSUME NEW b \in Batch
        PROVE  Parts(tokens'[b], Thought(b)', Forced(b)')
    <3>1. /\ miStopped[b] => Parts(tokens[b], stopStep[b], cursor[b])
          /\ ~miStopped[b] => Parts(tokens[b], Len(tokens[b]), 0)
      BY <1>1, <1>2 DEF MadeUp, Thought, Forced, Divided
    <3>2. CASE miStopped[b]
      BY <1>2, <3>1, <3>2 DEF Thought, Forced
    <3>3. CASE ~miStopped[b] /\ ~finished[b]
      <4>1. phase' = "inject" /\ needsPhase2'[b] /\ phase1Count'[b] = Len(tokens[b])
        BY <1>2, <3>3
      <4> QED BY <1>2, <3>1, <3>3, <4>1 DEF Thought, Forced
    <3>4. CASE ~miStopped[b] /\ finished[b]
      BY <1>2, <3>1, <3>4 DEF Thought, Forced
    <3> QED BY <3>2, <3>3, <3>4
  <2>2. \A b \in Batch : Len(tokens'[b]) = phase1Count'[b] + step'
    BY <1>2, <1>3
  <2> QED BY <1>8, <2>1, <2>2 DEF MadeUp
<1>12. CacheFollowsTokens'
  <2>1. ASSUME NEW b \in Batch, ~finished[b]
        PROVE  /\ curPos = PromptLen + Len(tokens[b]) - 1
               /\ \A p \in PromptLen .. curPos - 1 : cache[b][p] = p - PromptLen + 1
    BY <1>1, <1>2, <2>1 DEF CacheFollowsTokens, IsLate
  <2> QED BY <1>2, <2>1 DEF CacheFollowsTokens
<1>13. Built'
  BY <1>1, <1>2, <1>8 DEF Built
<1> QED BY <1>6, <1>9, <1>10, <1>11, <1>12, <1>13 DEF DecodeInv

(* A token of the prefill for the sequences of the second phase. *)
LEMMA InjectKeeps == DecodeInv /\ InjectStep => DecodeInv'
<1> SUFFICES ASSUME DecodeInv, InjectStep PROVE DecodeInv'
  OBVIOUS
<1>1. DecodeTypeOK /\ Paced /\ Divided /\ MadeUp /\ CacheFollowsTokens /\ Built
  BY DEF DecodeInv
<1>2. /\ phase = "inject" /\ phase' = "inject" /\ step < PrefillLen /\ step' = step + 1
      /\ tokens' = [b \in Batch |-> IF needsPhase2[b] /\ ~finished[b]
                                      THEN Append(tokens[b], step + 1) ELSE tokens[b]]
      /\ Forward([b \in Batch |-> FedToPhase2(b)])
      /\ UNCHANGED <<assignment, finished, miStopped, stopStep, cursor, wrapLeft, needsPhase2, phase1Count, rollouts>>
  BY DEF InjectStep, mi, split
<1>3. /\ curPos \in Positions /\ curPos + 1 \in PromptLen .. ContextWindow
      /\ step \in Nat /\ step + 1 \in 0 .. ContextWindow
  BY <1>1, <1>2, RoomInCache
<1>4. [b \in Batch |-> FedToPhase2(b)] \in [Batch -> 0 .. ContextWindow]
  BY <1>1, FedInRange
<1>5. curPos' = curPos + 1 /\ cache' \in [Batch -> [Positions -> 0 .. ContextWindow]]
  BY <1>1, <1>2, <1>3, <1>4, ForwardWrites DEF DecodeTypeOK
<1>6. PICK x : x = step + 1
  OBVIOUS
<1>7. x \in StopToken .. PrefillLen /\ x = step + 1
  BY <1>2, <1>3, <1>6, DecodeBounds DEF StopToken
<1>8. ASSUME NEW b \in Batch
      PROVE  /\ tokens[b] \in Seq(StopToken .. PrefillLen) /\ Len(tokens[b]) \in Nat
             /\ tokens'[b] \in Seq(StopToken .. PrefillLen)
             /\ needsPhase2[b] => tokens'[b] = Append(tokens[b], x) /\ Len(tokens'[b]) = Len(tokens[b]) + 1
             /\ ~needsPhase2[b] => tokens'[b] = tokens[b]
             /\ Len(tokens'[b]) <= Len(tokens[b]) + 1
  <2>1. tokens[b] \in Seq(StopToken .. PrefillLen)
    BY <1>1 DEF DecodeTypeOK
  <2>2. Len(tokens[b]) \in Nat /\ Len(tokens[b]) <= Len(tokens[b]) + 1
    BY <2>1, LenProperties
  <2>3. Append(tokens[b], x) \in Seq(StopToken .. PrefillLen) /\ Len(Append(tokens[b], x)) = Len(tokens[b]) + 1
    BY <1>7, <2>1, OneMore
  <2>4. needsPhase2[b] => ~finished[b]
    BY <1>1, <1>2 DEF Divided
  <2>5. needsPhase2[b] => tokens'[b] = Append(tokens[b], x)
    BY <1>2, <1>6, <2>4
  <2>6. ~needsPhase2[b] => tokens'[b] = tokens[b]
    BY <1>2
  <2>7. CASE needsPhase2[b]
    <3>1. tokens'[b] \in Seq(StopToken .. PrefillLen) /\ Len(tokens'[b]) = Len(tokens[b]) + 1
      BY <2>3, <2>5, <2>7
    <3> QED BY <2>1, <2>2, <2>5, <2>7, <3>1
  <2>8. CASE ~needsPhase2[b]
    BY <2>1, <2>2, <2>6, <2>8
  <2> QED BY <2>7, <2>8
<1>9. DecodeTypeOK'
  <2>1. tokens' \in [Batch -> Seq(StopToken .. PrefillLen)]
    BY <1>2, <1>8
  <2> QED BY <1>1, <1>2, <1>3, <1>5, <2>1 DEF DecodeTypeOK
<1>10. Paced'
  <2>1. curPos = Phase1Max - 1 + step /\ step <= PrefillLen /\ \A b \in Batch : Len(tokens[b]) <= curPos - PromptLen + 1
    BY <1>1, <1>2 DEF Paced
  <2>2. curPos \in Nat
    BY <1>3, DecodeBounds DEF Positions
  <2>3. curPos' = Phase1Max - 1 + step' /\ step' <= PrefillLen
    BY <1>2, <1>3, <1>5, <2>1, DecodeBounds
  <2>4. \A b \in Batch : Len(tokens'[b]) <= curPos' - PromptLen + 1
    <3>1. \A l, m, c, n \in Nat : l <= c - n + 1 /\ m <= l + 1 => m <= (c + 1) - n + 1
      OBVIOUS
    <3>2. \A b \in Batch : Len(tokens'[b]) \in Nat
      BY <1>8, LenProperties
    <3> QED BY <1>5, <1>8, <2>1, <2>2, <3>1, <3>2, DecodeBounds
  <2>5. \E b \in Batch : phase1Count'[b] = Phase1Output
    BY <1>1, <1>2 DEF Paced
  <2> QED BY <1>2, <2>3, <2>4, <2>5 DEF Paced
<1>11. Divided'
  BY <1>1, <1>2 DEF Divided
<1>12. MadeUp'
  <2>1. ASSUME NEW b \in Batch
        PROVE  /\ Parts(tokens'[b], Thought(b)', Forced(b)')
               /\ needsPhase2'[b] => Len(tokens'[b]) = phase1Count'[b] + step'
    <3>1. Parts(tokens[b], Thought(b), Forced(b)) /\ (needsPhase2[b] => Len(tokens[b]) = phase1Count[b] + step)
      BY <1>1, <1>2 DEF MadeUp
    <3>2. CASE ~needsPhase2[b]
      BY <1>2, <1>8, <3>1, <3>2 DEF Thought, Forced
    <3>3. CASE needsPhase2[b]
      <4>1. ~miStopped[b]
        BY <1>1, <3>3 DEF Divided
      <4>2. Parts(tokens[b], phase1Count[b], step)
        BY <1>2, <3>1, <3>3, <4>1 DEF Thought, Forced
      <4>3. Parts(Append(tokens[b], x), phase1Count[b], step + 1)
        BY <1>7, <1>8, <3>1, <3>3, <4>2, PartsForced
      <4>4. Parts(tokens'[b], Thought(b)', Forced(b)')
        BY <1>2, <1>8, <3>3, <4>1, <4>3 DEF Thought, Forced
      <4>5. phase1Count[b] \in Nat
        BY <4>2 DEF Parts
      <4>6. Len(tokens'[b]) = phase1Count'[b] + step'
        BY <1>2, <1>3, <1>8, <3>1, <3>3, <4>5
      <4> QED BY <4>4, <4>6
    <3> QED BY <3>2, <3>3
  <2> QED BY <1>2, <2>1 DEF MadeUp
<1>13. CacheFollowsTokens'
  <2>1. ASSUME NEW b \in Batch, ~finished[b], ~IsLate(b)'
        PROVE  /\ curPos' = PromptLen + Len(tokens'[b]) - 1
               /\ \A p \in PromptLen .. curPos' - 1 : cache'[b][p] = p - PromptLen + 1
    <3>1. ~miStopped[b] /\ ~IsLate(b)
      BY <1>2, <2>1 DEF IsLate
    <3>2. needsPhase2[b]
      BY <1>1, <1>2, <2>1, <3>1 DEF Divided
    <3>3. /\ curPos = PromptLen + Len(tokens[b]) - 1
          /\ \A p \in PromptLen .. curPos - 1 : cache[b][p] = p - PromptLen + 1
      BY <1>1, <1>2, <2>1, <3>1 DEF CacheFollowsTokens
    <3>4. [e \in Batch |-> FedToPhase2(e)][b] = Len(tokens[b])
      BY <2>1, <3>2 DEF FedToPhase2, FedLast
    <3> QED BY <1>1, <1>2, <1>3, <1>4, <1>8, <3>2, <3>3, <3>4, CacheGrows
  <2> QED BY <1>2, <2>1 DEF CacheFollowsTokens
<1>14. Built'
  BY <1>1, <1>2 DEF Built
<1> QED BY <1>9, <1>10, <1>11, <1>12, <1>13, <1>14 DEF DecodeInv

(* A token of the code. *)
LEMMA CodeKeeps == DecodeInv /\ CodeStep => DecodeInv'
<1> SUFFICES ASSUME DecodeInv, CodeStep PROVE DecodeInv'
  OBVIOUS
<1>1. DecodeTypeOK /\ Paced /\ Divided /\ MadeUp /\ CacheFollowsTokens /\ Built
  BY DEF DecodeInv
<1>2. PICK stops \in SUBSET {b \in Batch : ~finished[b]} :
        /\ tokens' = [b \in Batch |-> IF finished[b] THEN tokens[b]
                                        ELSE Append(tokens[b], Drawn(b, stops))]
        /\ finished' = [b \in Batch |-> finished[b] \/ b \in stops]
  BY DEF CodeStep
<1>3. /\ phase = "code" /\ phase' = "code" /\ step < Phase2Budget /\ step' = step + 1
      /\ Forward([b \in Batch |-> Fed(b)])
      /\ UNCHANGED <<assignment, miStopped, stopStep, cursor, wrapLeft, needsPhase2, phase1Count, rollouts>>
  BY DEF CodeStep, mi, split
<1>4. /\ curPos \in Positions /\ curPos + 1 \in PromptLen .. ContextWindow
      /\ step \in Nat /\ step + 1 \in 0 .. ContextWindow
  BY <1>1, <1>3, RoomInCache
<1>5. [b \in Batch |-> Fed(b)] \in [Batch -> 0 .. ContextWindow]
  BY <1>1, FedInRange
<1>6. curPos' = curPos + 1 /\ cache' \in [Batch -> [Positions -> 0 .. ContextWindow]]
  BY <1>1, <1>3, <1>4, <1>5, ForwardWrites DEF DecodeTypeOK
<1>7. ASSUME NEW b \in Batch
      PROVE  /\ tokens[b] \in Seq(StopToken .. PrefillLen) /\ Len(tokens[b]) \in Nat
             /\ tokens'[b] \in Seq(StopToken .. PrefillLen)
             /\ finished[b] => finished'[b] /\ tokens'[b] = tokens[b]
             /\ ~finished[b] => Len(tokens'[b]) = Len(tokens[b]) + 1
             /\ Len(tokens'[b]) <= Len(tokens[b]) + 1
             /\ \A t, f : Parts(tokens[b], t, f) => Parts(tokens'[b], t, f)
  <2>1. tokens[b] \in Seq(StopToken .. PrefillLen)
    BY <1>1 DEF DecodeTypeOK
  <2>2. Len(tokens[b]) \in Nat /\ Len(tokens[b]) <= Len(tokens[b]) + 1
    BY <2>1, LenProperties
  <2>3. PICK x \in StopToken .. PrefillLen : x = Drawn(b, stops) /\ ~IsForced(x)
    BY DrawnIs
  <2>4. Append(tokens[b], x) \in Seq(StopToken .. PrefillLen) /\ Len(Append(tokens[b], x)) = Len(tokens[b]) + 1
    BY <2>1, <2>3, OneMore
  <2>5. \A t, f : Parts(tokens[b], t, f) => Parts(Append(tokens[b], x), t, f)
    BY <2>1, <2>3, PartsFree
  <2>6. finished[b] => finished'[b] /\ tokens'[b] = tokens[b]
    BY <1>2
  <2>7. ~finished[b] => tokens'[b] = Append(tokens[b], x)
    BY <1>2, <2>3
  <2>8. CASE finished[b]
    BY <2>1, <2>2, <2>6, <2>8
  <2>9. CASE ~finished[b]
    <3>1. tokens'[b] \in Seq(StopToken .. PrefillLen) /\ Len(tokens'[b]) = Len(tokens[b]) + 1
      BY <2>4, <2>7, <2>9
    <3>2. \A t, f : Parts(tokens[b], t, f) => Parts(tokens'[b], t, f)
      BY <2>5, <2>7, <2>9, Zenon
    <3>3. Len(tokens'[b]) <= Len(tokens[b]) + 1
      BY <2>2, <3>1
    <3> QED BY <2>1, <2>2, <2>9, <3>1, <3>2, <3>3, Zenon
  <2> QED BY <2>8, <2>9
<1>8. DecodeTypeOK'
  <2>1. tokens' \in [Batch -> Seq(StopToken .. PrefillLen)]
    BY <1>2, <1>7
  <2>2. finished' \in [Batch -> BOOLEAN]
    BY <1>2
  <2> QED BY <1>1, <1>3, <1>4, <1>6, <2>1, <2>2 DEF DecodeTypeOK
<1>9. Paced'
  <2>1. /\ curPos = Phase1Max - 1 + PrefillLen + step /\ \A b \in Batch : Len(tokens[b]) <= curPos - PromptLen + 1
        /\ \E b \in Batch : phase1Count[b] = Phase1Output
    BY <1>1, <1>3 DEF Paced
  <2>2. curPos \in Nat
    BY <1>4, DecodeBounds DEF Positions
  <2>3. curPos' = Phase1Max - 1 + PrefillLen + step'
    BY <1>3, <1>4, <1>6, <2>1, DecodeBounds
  <2>4. \A b \in Batch : Len(tokens'[b]) <= curPos' - PromptLen + 1
    <3>1. \A l, m, c, n \in Nat : l <= c - n + 1 /\ m <= l + 1 => m <= (c + 1) - n + 1
      OBVIOUS
    <3>2. \A b \in Batch : Len(tokens'[b]) \in Nat
      BY <1>7, LenProperties
    <3> QED BY <1>6, <1>7, <2>1, <2>2, <3>1, <3>2, DecodeBounds
  <2>5. step' <= Phase2Budget'
    <3>1. Phase2Budget' = Phase2Budget
      BY <1>3 DEF Phase2Budget
    <3>2. Phase2Budget \in Nat
      BY <1>1, <2>1, Phase2BudgetIs
    <3> QED BY <1>3, <1>4, <3>1, <3>2
  <2> QED BY <1>3, <2>1, <2>3, <2>4, <2>5 DEF Paced
<1>10. Divided'
  BY <1>1, <1>3, <1>7 DEF Divided
<1>11. MadeUp'
  <2>1. ASSUME NEW b \in Batch, ~(miStopped[b] \/ needsPhase2[b])
        PROVE  tokens'[b] = tokens[b]
    BY <1>1, <1>3, <1>7, <2>1 DEF Divided
  <2>2. ASSUME NEW b \in Batch
        PROVE  Parts(tokens'[b], Thought(b)', Forced(b)')
    <3>1. Parts(tokens[b], Thought(b), Forced(b))
      BY <1>1 DEF MadeUp
    <3>2. Thought(b)' = Thought(b) /\ Forced(b)' = Forced(b)
      BY <1>3, <2>1 DEF Thought, Forced
    <3> QED BY <1>7, <3>1, <3>2
  <2> QED BY <1>3, <2>2 DEF MadeUp
<1>12. CacheFollowsTokens'
  <2>1. ASSUME NEW b \in Batch, ~finished'[b], ~IsLate(b)'
        PROVE  /\ curPos' = PromptLen + Len(tokens'[b]) - 1
               /\ \A p \in PromptLen .. curPos' - 1 : cache'[b][p] = p - PromptLen + 1
    <3>1. ~finished[b] /\ ~IsLate(b)
      BY <1>3, <1>7, <2>1 DEF IsLate
    <3>2. /\ curPos = PromptLen + Len(tokens[b]) - 1
          /\ \A p \in PromptLen .. curPos - 1 : cache[b][p] = p - PromptLen + 1
      BY <1>1, <1>3, <3>1 DEF CacheFollowsTokens
    <3>3. [e \in Batch |-> Fed(e)][b] = Len(tokens[b])
      BY <3>1 DEF Fed, FedLast
    <3> QED BY <1>1, <1>3, <1>4, <1>5, <1>7, <3>1, <3>2, <3>3, CacheGrows
  <2> QED BY <1>3, <2>1 DEF CacheFollowsTokens
<1>13. Built'
  BY <1>1, <1>3 DEF Built
<1> QED BY <1>8, <1>9, <1>10, <1>11, <1>12, <1>13 DEF DecodeInv

(* The steps between the loops. *)
LEMMA EndInjectKeeps == DecodeInv /\ EndInject => DecodeInv'
<1> SUFFICES ASSUME DecodeInv, EndInject PROVE DecodeInv'
  OBVIOUS
<1>1. DecodeTypeOK /\ Paced /\ Divided /\ MadeUp /\ CacheFollowsTokens /\ Built
  BY DEF DecodeInv
<1>2. /\ phase = "inject" /\ step = PrefillLen /\ phase' = "code" /\ step' = 0
      /\ UNCHANGED <<assignment, curPos, cache, tokens, finished, miStopped, stopStep, cursor, wrapLeft>>
      /\ UNCHANGED <<needsPhase2, phase1Count, rollouts>>
  BY DEF EndInject, mi, split
<1>3. DecodeTypeOK'
  <2>1. 0 \in 0 .. ContextWindow
    BY DecodeBounds
  <2> QED BY <1>1, <1>2, <2>1 DEF DecodeTypeOK
<1>4. Paced'
  <2>1. /\ curPos = Phase1Max - 1 + step /\ \A b \in Batch : Len(tokens[b]) <= curPos - PromptLen + 1
        /\ \E b \in Batch : phase1Count[b] = Phase1Output
    BY <1>1, <1>2 DEF Paced
  <2>2. curPos' = Phase1Max - 1 + PrefillLen + 0
    BY <1>2, <2>1, DecodeBounds
  <2>3. Phase2Budget' = Phase2Budget
    BY <1>2 DEF Phase2Budget
  <2>4. 0 <= Phase2Budget
    BY <1>1, <2>1, Phase2BudgetIs
  <2> QED BY <1>2, <2>1, <2>2, <2>3, <2>4 DEF Paced
<1>5. Divided'
  BY <1>1, <1>2 DEF Divided
<1>6. MadeUp'
  BY <1>1, <1>2 DEF MadeUp, Thought, Forced
<1>7. CacheFollowsTokens'
  BY <1>1, <1>2 DEF CacheFollowsTokens, IsLate
<1>8. Built'
  BY <1>1, <1>2 DEF Built
<1> QED BY <1>3, <1>4, <1>5, <1>6, <1>7, <1>8 DEF DecodeInv

(* The end of the second phase. *)
LEMMA EndCodeKeeps == DecodeInv /\ EndCode => DecodeInv'
<1> SUFFICES ASSUME DecodeInv, EndCode PROVE DecodeInv'
  OBVIOUS
<1>1. DecodeTypeOK /\ Paced /\ Divided /\ MadeUp /\ CacheFollowsTokens /\ Built
  BY DEF DecodeInv
<1>2. /\ phase = "code" /\ phase' = "assemble"
      /\ UNCHANGED <<assignment, step, curPos, cache, tokens, finished, miStopped, stopStep, cursor, wrapLeft>>
      /\ UNCHANGED <<needsPhase2, phase1Count, rollouts>>
  BY DEF EndCode, mi, split
<1>3. DecodeTypeOK'
  BY <1>1, <1>2 DEF DecodeTypeOK
<1>4. Paced'
  BY <1>1, <1>2 DEF Paced
<1>5. Divided'
  BY <1>1, <1>2 DEF Divided
<1>6. MadeUp'
  BY <1>1, <1>2 DEF MadeUp, Thought, Forced
<1>7. CacheFollowsTokens'
  BY <1>2 DEF CacheFollowsTokens
<1>8. Built'
  BY <1>1, <1>2 DEF Built
<1> QED BY <1>3, <1>4, <1>5, <1>6, <1>7, <1>8 DEF DecodeInv

(* A rollout is built from variables that its step leaves alone. *)
LEMMA RolloutKept ==
  ASSUME UNCHANGED <<assignment, tokens, miStopped, stopStep, cursor, needsPhase2, phase1Count>>
  PROVE  \A i \in Group : Rollout(i)' = Rollout(i)
<1>1. \A b, t, f : Blocks(b, t, f)' = Blocks(b, t, f)
  BY DEF Blocks
<1>2. \A b : Mask(b)' = Mask(b)
  BY <1>1 DEF Mask, NoMask
<1>3. \A i : BatchPos(i)' = BatchPos(i)
  BY DEF BatchPos
<1>4. \A b : DecodedBy(b)' = DecodedBy(b)
  BY DEF DecodedBy
<1> QED BY <1>2, <1>3, <1>4 DEF Rollout

(* The group's rollouts. *)
LEMMA BuildKeeps == DecodeInv /\ BuildRollouts => DecodeInv'
<1> SUFFICES ASSUME DecodeInv, BuildRollouts PROVE DecodeInv'
  OBVIOUS
<1>1. DecodeTypeOK /\ Paced /\ Divided /\ MadeUp /\ CacheFollowsTokens /\ Built
  BY DEF DecodeInv
<1>2. /\ phase = "assemble" /\ phase' = "done" /\ rollouts' = [i \in Group |-> Rollout(i)]
      /\ UNCHANGED <<assignment, step, curPos, cache, tokens, finished, miStopped, stopStep, cursor, wrapLeft>>
      /\ UNCHANGED <<needsPhase2, phase1Count>>
  BY DEF BuildRollouts, mi, split
<1>3. DecodeTypeOK'
  <2>1. DOMAIN rollouts' = Group
    BY <1>2
  <2> QED BY <1>1, <1>2, <2>1 DEF DecodeTypeOK
<1>4. Paced'
  BY <1>1, <1>2 DEF Paced
<1>5. Divided'
  BY <1>1, <1>2 DEF Divided
<1>6. MadeUp'
  BY <1>1, <1>2 DEF MadeUp, Thought, Forced
<1>7. CacheFollowsTokens'
  BY <1>2 DEF CacheFollowsTokens
<1>8. Built'
  BY <1>2, RolloutKept DEF Built
<1> QED BY <1>3, <1>4, <1>5, <1>6, <1>7, <1>8 DEF DecodeInv

(* A step that changes nothing. *)
LEMMA IdleKeeps == DecodeInv /\ UNCHANGED vars => DecodeInv'
<1> SUFFICES ASSUME DecodeInv, UNCHANGED vars PROVE DecodeInv'
  OBVIOUS
<1>1. DecodeTypeOK /\ Paced /\ Divided /\ MadeUp /\ CacheFollowsTokens /\ Built
  BY DEF DecodeInv
<1>2. /\ UNCHANGED <<phase, assignment, step, curPos, cache, tokens, finished, miStopped, stopStep, cursor, wrapLeft>>
      /\ UNCHANGED <<needsPhase2, phase1Count, rollouts>>
  BY DEF vars, mi, split
<1>3. DecodeTypeOK'
  BY <1>1, <1>2 DEF DecodeTypeOK
<1>4. Paced'
  BY <1>1, <1>2 DEF Paced, Phase2Budget
<1>5. Divided'
  BY <1>1, <1>2 DEF Divided
<1>6. MadeUp'
  BY <1>1, <1>2 DEF MadeUp, Thought, Forced
<1>7. CacheFollowsTokens'
  BY <1>1, <1>2 DEF CacheFollowsTokens, IsLate
<1>8. Built'
  BY <1>1, <1>2, RolloutKept DEF Built
<1> QED BY <1>3, <1>4, <1>5, <1>6, <1>7, <1>8 DEF DecodeInv

(* The first state. *)
LEMMA DecodeStarts == Init => DecodeInv
<1> SUFFICES ASSUME Init PROVE DecodeInv
  OBVIOUS
<1>1. DecodeTypeOK
  <2>1. assignment \in [Group -> Adapters]
    <3>1. PICK e \in 0 .. K - 1 : assignment = [i \in Group |-> (e * N + i - 1) % K]
      BY DEF Init, Assignments
    <3>2. \A i \in Group : (e * N + i - 1) % K \in Adapters
      <4>1. \A x \in Int, k \in Nat : k >= 1 => x % k \in 0 .. k - 1
        OBVIOUS
      <4>2. \A i \in Group : e * N + i - 1 \in Int
        BY <3>1, DecodeBounds DEF Group
      <4> QED BY <4>1, <4>2, DecodeBounds DEF Adapters
    <3> QED BY <3>1, <3>2
  <2>2. /\ 0 \in 0 .. ContextWindow /\ PromptLen \in PromptLen .. ContextWindow
        /\ 0 \in 0 .. PrefillLen /\ 0 \in 0 .. WrapBudget /\ 0 \in 0 .. Phase1Output /\ -1 \in -1 .. Phase1Output
    BY DecodeBounds
  <2>3. cache \in [Batch -> [Positions -> 0 .. ContextWindow]]
    BY <2>2 DEF Init
  <2>4. tokens \in [Batch -> Seq(StopToken .. PrefillLen)]
    BY DEF Init
  <2> QED BY <2>1, <2>2, <2>3, <2>4 DEF Init, DecodeTypeOK
<1>2. Paced
  BY DecodeBounds DEF Init, Paced
<1>3. Divided
  BY DEF Init, Divided
<1>4. MadeUp
  <2>1. \A b \in Batch : tokens[b] = <<>> /\ ~miStopped[b] /\ ~needsPhase2[b] /\ phase = "prompt"
    BY DEF Init
  <2>2. Parts(<<>>, 0, 0) /\ Len(<<>>) = 0
    BY DEF Parts
  <2> QED BY <2>1, <2>2 DEF MadeUp, Thought, Forced
<1>5. CacheFollowsTokens
  BY DEF Init, CacheFollowsTokens
<1>6. Built
  BY DEF Init, Built
<1> QED BY <1>1, <1>2, <1>3, <1>4, <1>5, <1>6 DEF DecodeInv

(* Where the loops stand, what the cache holds and how the sequences are made up *)
(* agree in every reachable state.                                               *)
THEOREM DecodeInvariant == Spec => []DecodeInv
<1>1. DecodeInv /\ [Next]_vars => DecodeInv'
  BY FirstKeeps, ThinkKeeps, EndThinkingKeeps, InjectKeeps, EndInjectKeeps, CodeKeeps, EndCodeKeeps,
     BuildKeeps, IdleKeeps DEF Next, Returned
<1> QED BY DecodeStarts, <1>1, PTL DEF Spec

(* Every variable has its type. *)
THEOREM DecodeTypeCorrect == Spec => []DecodeTypeOK
<1>1. DecodeInv => DecodeTypeOK
  BY DEF DecodeInv
<1> QED BY DecodeInvariant, <1>1, PTL

(* The next token of a sequence is predicted from its own tokens, whatever the *)
(* other sequences of the batch do.                                            *)
THEOREM OwnTokensOnly == Spec => []CacheFollowsTokens
<1>1. DecodeInv => CacheFollowsTokens
  BY DEF DecodeInv
<1> QED BY DecodeInvariant, <1>1, PTL

-----------------------------------------------------------------------------
(* Masks *)

\* What a mask is made of.
Bits == {0, 1}

\* s is the sequence s1 of length n1 followed by the sequence s2 of length n2.
Joins(s, s1, n1, s2, n2) ==
  /\ s \in Seq(Bits) /\ Len(s) = n1 + n2
  /\ \A j \in 1 .. n1 + n2 : s[j] = IF j <= n1 THEN s1[j] ELSE s2[j - n1]

(* Two sequences of known lengths, one after the other. *)
LEMMA Joined ==
  ASSUME NEW s1 \in Seq(Bits), NEW s2 \in Seq(Bits), NEW n1 \in Nat, NEW n2 \in Nat,
         Len(s1) = n1, Len(s2) = n2
  PROVE  Joins(s1 \o s2, s1, n1, s2, n2)
BY ConcatProperties DEF Joins

(* A run of one value. *)
LEMMA Repeated ==
  ASSUME NEW x \in Bits, NEW n \in Nat
  PROVE  /\ Repeat(x, n) \in Seq(Bits) /\ Len(Repeat(x, n)) = n
         /\ \A j \in 1 .. n : Repeat(x, n)[j] = x
BY DEF Repeat, Bits

(* A mask is as long as its sequence less one, and is zero at the prefill alone. *)
LEMMA BlocksAre ==
  ASSUME NEW b \in Batch, tokens[b] \in Seq(StopToken .. PrefillLen), NEW t, NEW f,
         Parts(tokens[b], t, f), NEW m, m = Blocks(b, t, f)
  PROVE  /\ t \in Nat /\ f \in Nat /\ Len(tokens[b]) \in Nat /\ t + f <= Len(tokens[b])
         /\ Len(m) = PromptLen + Len(tokens[b]) - 1
         /\ \A j \in 1 .. Len(tokens[b]) :
              /\ m[PromptLen - 1 + j] = IF j \in t + 1 .. t + f THEN 0 ELSE 1
              /\ IsForced(tokens[b][j]) <=> j \in t + 1 .. t + f
<1>1. PICK l, p : l = Len(tokens[b]) /\ p = PromptLen
  OBVIOUS
<1>2. l \in Nat /\ p \in Nat /\ p >= 1
  BY <1>1, LenProperties, DecodeBounds
<1>3. /\ t \in Nat /\ f \in Nat /\ t + f <= l
      /\ \A j \in 1 .. l : IF j \in t + 1 .. t + f THEN tokens[b][j] = j - t ELSE ~IsForced(tokens[b][j])
  BY <1>1 DEF Parts
<1>4. ASSUME NEW j \in 1 .. l PROVE IsForced(tokens[b][j]) <=> j \in t + 1 .. t + f
  <2>1. j \in t + 1 .. t + f => j - t > 0
    BY <1>2, <1>3
  <2> QED BY <1>3, <2>1 DEF IsForced
<1>5. PICK r : r = l - t - f
  OBVIOUS
<1>6. r \in Nat /\ (IF r > 0 THEN r ELSE 0) = r
  BY <1>2, <1>3, <1>5
<1>7. PICK z1, z2, z3, z4 :
        z1 = Repeat(0, p - 1) /\ z2 = Repeat(1, t) /\ z3 = Repeat(0, f) /\ z4 = Repeat(1, r)
  OBVIOUS
<1>8. PICK u, v, mask : u = z1 \o z2 /\ v = u \o z3 /\ mask = v \o z4
  OBVIOUS
<1>9. PICK q, y, w : q = p - 1 /\ y = q + t /\ w = q + t + f
  OBVIOUS
<1>n. q \in Nat /\ y \in Nat /\ w \in Nat /\ q <= y /\ y <= w /\ w = y + f /\ y - q = t /\ w - y = f
  BY <1>2, <1>3, <1>9
<1>r. /\ z1 \in Seq(Bits) /\ Len(z1) = q /\ \A j \in 1 .. q : z1[j] = 0
      /\ z2 \in Seq(Bits) /\ Len(z2) = t /\ \A j \in 1 .. t : z2[j] = 1
      /\ z3 \in Seq(Bits) /\ Len(z3) = f /\ \A j \in 1 .. f : z3[j] = 0
      /\ z4 \in Seq(Bits) /\ Len(z4) = r /\ \A j \in 1 .. r : z4[j] = 1
  BY <1>3, <1>6, <1>7, <1>9, <1>n, Repeated DEF Bits
<1>10. /\ u \in Seq(Bits) /\ Len(u) = y
       /\ \A j \in 1 .. y : u[j] = IF j <= q THEN 0 ELSE 1
  <2>1. /\ u \in Seq(Bits) /\ Len(u) = q + t
        /\ \A j \in 1 .. q + t : u[j] = IF j <= q THEN z1[j] ELSE z2[j - q]
    <3>1. z1 \in Seq(Bits) /\ Len(z1) = q /\ z2 \in Seq(Bits) /\ Len(z2) = t /\ q \in Nat /\ t \in Nat
      BY <1>3, <1>n, <1>r
    <3>2. Joins(z1 \o z2, z1, q, z2, t)
      BY <3>1, Joined
    <3> QED BY <1>8, <3>2 DEF Joins
  <2>2. \A j \in 1 .. y : IF j <= q THEN j \in 1 .. q ELSE j - q \in 1 .. t
    BY <1>3, <1>n
  <2> QED BY <1>9, <1>r, <2>1, <2>2
<1>11. /\ v \in Seq(Bits) /\ Len(v) = w
       /\ \A j \in 1 .. w : v[j] = IF j <= q THEN 0 ELSE IF j <= y THEN 1 ELSE 0
  <2>1. /\ v \in Seq(Bits) /\ Len(v) = y + f
        /\ \A j \in 1 .. y + f : v[j] = IF j <= y THEN u[j] ELSE z3[j - y]
    <3>1. u \in Seq(Bits) /\ Len(u) = y /\ z3 \in Seq(Bits) /\ Len(z3) = f /\ y \in Nat /\ f \in Nat
      BY <1>3, <1>10, <1>n, <1>r
    <3>2. Joins(u \o z3, u, y, z3, f)
      BY <3>1, Joined
    <3> QED BY <1>8, <3>2 DEF Joins
  <2>2. \A j \in 1 .. w : /\ IF j <= y THEN j \in 1 .. y ELSE j - y \in 1 .. f
                          /\ j <= q => j <= y
    BY <1>3, <1>n
  <2>3. y + f = w
    BY <1>n
  <2> QED BY <1>10, <1>r, <2>1, <2>2, <2>3
<1>12. /\ Len(mask) = w + r
       /\ \A j \in 1 .. w + r :
            mask[j] = IF j <= q THEN 0 ELSE IF j <= y THEN 1 ELSE IF j <= w THEN 0 ELSE 1
  <2>1. /\ Len(mask) = w + r
        /\ \A j \in 1 .. w + r : mask[j] = IF j <= w THEN v[j] ELSE z4[j - w]
    <3>1. v \in Seq(Bits) /\ Len(v) = w /\ z4 \in Seq(Bits) /\ Len(z4) = r /\ w \in Nat /\ r \in Nat
      BY <1>6, <1>11, <1>n, <1>r
    <3>2. Joins(v \o z4, v, w, z4, r)
      BY <3>1, Joined
    <3> QED BY <1>8, <3>2 DEF Joins
  <2>2. \A j \in 1 .. w + r : /\ IF j <= w THEN j \in 1 .. w ELSE j - w \in 1 .. r
                              /\ j <= q => j <= y
                              /\ j <= y => j <= w
    BY <1>6, <1>n
  <2> QED BY <1>11, <1>r, <2>1, <2>2
<1>13. m = [j \in 1 .. p + l - 1 |-> IF j <= Len(mask) THEN mask[j] ELSE 1]
  <2>1. m = LET rest == l - t - f
                k == Repeat(0, p - 1) \o Repeat(1, t) \o Repeat(0, f)
                       \o Repeat(1, IF rest > 0 THEN rest ELSE 0)
                expected == p + l - 1
            IN  [j \in 1 .. expected |-> IF j <= Len(k) THEN k[j] ELSE 1]
    BY <1>1, Zenon DEF Blocks
  <2>2. mask = Repeat(0, p - 1) \o Repeat(1, t) \o Repeat(0, f) \o Repeat(1, IF l - t - f > 0 THEN l - t - f ELSE 0)
    BY <1>5, <1>6, <1>7, <1>8, Zenon
  <2> QED BY <2>1, <2>2, Zenon
<1>14. p + l - 1 \in Nat /\ w + r = p + l - 1
  BY <1>2, <1>3, <1>5, <1>9
<1>15. Len(m) = p + l - 1
  BY <1>13, <1>14
<1>16. ASSUME NEW j \in 1 .. l
       PROVE  m[p - 1 + j] = IF j \in t + 1 .. t + f THEN 0 ELSE 1
  <2>1. PICK i : i = p - 1 + j
    OBVIOUS
  <2>2. i \in 1 .. p + l - 1 /\ i <= p + l - 1 /\ ~(i <= q)
    BY <1>2, <1>9, <2>1
  <2>3. (i <= y <=> j <= t) /\ (i <= w <=> j <= t + f)
    BY <1>2, <1>3, <1>9, <2>1
  <2>4. m[i] = mask[i]
    BY <1>12, <1>13, <1>14, <2>2
  <2>5. mask[i] = IF i <= y THEN 1 ELSE IF i <= w THEN 0 ELSE 1
    BY <1>12, <1>14, <2>2
  <2>6. j \in t + 1 .. t + f <=> ~(j <= t) /\ j <= t + f
    BY <1>2, <1>3
  <2> QED BY <2>1, <2>3, <2>4, <2>5, <2>6
<1> QED BY <1>1, <1>2, <1>3, <1>4, <1>15, <1>16

-----------------------------------------------------------------------------
(* Rollouts *)

(* The sequences of adapters below k, and of those up to k, before position i of the *)
(* sorted batch.                                                                     *)
Below(k) == {j \in Group : assignment[j] < k}
UpTo(k) == {j \in Group : assignment[j] <= k}
Before(i) == {j \in Group : \/ assignment[j] < assignment[i]
                            \/ assignment[j] = assignment[i] /\ j <= i}

(* A sequence's place in the sorted batch lies in the range of its adapter. *)
LEMMA PlaceInRange ==
  ASSUME assignment \in [Group -> Adapters], NEW i \in Group
  PROVE  /\ BatchPos(i) \in Batch
         /\ Cardinality(Below(assignment[i])) < BatchPos(i)
         /\ BatchPos(i) <= Cardinality(UpTo(assignment[i]))
<1>1. IsFiniteSet(Group) /\ Cardinality(Group) = N
  BY DecodeBounds, FS_Interval DEF Group
<1>2. \A j \in Group : assignment[j] \in Int /\ j \in Int
  BY DecodeBounds DEF Adapters, Group
<1>3. PICK a, B, P, U : a = assignment[i] /\ B = Below(a) /\ P = Before(i) /\ U = UpTo(a)
  OBVIOUS
<1>4. B \subseteq P /\ i \in P /\ i \notin B /\ P \subseteq U /\ U \subseteq Group
  BY <1>2, <1>3 DEF Below, Before, UpTo
<1>5. IsFiniteSet(U) /\ IsFiniteSet(P) /\ IsFiniteSet(B)
  BY <1>1, <1>4, FS_Subset
<1>6. Cardinality(U) \in Nat /\ Cardinality(P) \in Nat /\ Cardinality(B) \in Nat
  BY <1>5, FS_CardinalityType
<1>7. Cardinality(B) <= Cardinality(P) /\ Cardinality(P) <= Cardinality(U) /\ Cardinality(U) <= N
  BY <1>1, <1>4, <1>5, FS_Subset
<1>8. Cardinality(B) # Cardinality(P)
  BY <1>4, <1>5, FS_Subset
<1>9. BatchPos(i) = Cardinality(P)
  BY <1>3 DEF BatchPos, Before
<1>10. Cardinality(P) \in 1 .. N
  BY <1>6, <1>7, <1>8, DecodeBounds
<1>11. Cardinality(B) < Cardinality(P)
  BY <1>6, <1>7, <1>8
<1> QED BY <1>3, <1>7, <1>9, <1>10, <1>11 DEF Batch

(* The ranges of the adapters do not overlap: the adapter that decodes a sequence *)
(* is the one it is assigned to.                                                  *)
LEMMA DecodedByOwn ==
  ASSUME assignment \in [Group -> Adapters], NEW i \in Group
  PROVE  DecodedBy(BatchPos(i)) = assignment[i]
<1>1. IsFiniteSet(Group)
  BY DecodeBounds, FS_Interval DEF Group
<1>2. \A j \in Group : assignment[j] \in Int
  BY DecodeBounds DEF Adapters, Group
<1>3. PICK a, b : a = assignment[i] /\ b = BatchPos(i)
  OBVIOUS
<1>4. a \in Adapters /\ Adapters \subseteq Int
  BY <1>3 DEF Adapters
<1>5. b \in Nat /\ Cardinality(Below(a)) < b /\ b <= Cardinality(UpTo(a))
  BY <1>3, PlaceInRange, DecodeBounds DEF Batch
<1>6. \A k : IsFiniteSet(Below(k)) /\ IsFiniteSet(UpTo(k))
  BY <1>1, FS_Subset DEF Below, UpTo
<1>7. \A k : Cardinality(Below(k)) \in Nat /\ Cardinality(UpTo(k)) \in Nat
  BY <1>6, FS_CardinalityType
<1>8. ASSUME NEW k \in Adapters, Cardinality(Below(k)) < b, b <= Cardinality(UpTo(k))
      PROVE  k = a
  <2>1. CASE k < a
    <3>1. UpTo(k) \subseteq Below(a)
      BY <1>2, <1>4, <2>1 DEF Below, UpTo
    <3>2. Cardinality(UpTo(k)) <= Cardinality(Below(a))
      BY <1>6, <3>1, FS_Subset
    <3> QED BY <1>5, <1>7, <1>8, <3>2
  <2>2. CASE a < k
    <3>1. UpTo(a) \subseteq Below(k)
      BY <1>2, <1>4, <2>2 DEF Below, UpTo
    <3>2. Cardinality(UpTo(a)) <= Cardinality(Below(k))
      BY <1>6, <3>1, FS_Subset
    <3> QED BY <1>5, <1>7, <1>8, <3>2
  <2> QED BY <1>4, <2>1, <2>2
<1>9. DecodedBy(b) = CHOOSE k \in Adapters : Cardinality(Below(k)) < b /\ b <= Cardinality(UpTo(k))
  BY Zenon DEF DecodedBy, Below, UpTo
<1>10. DecodedBy(b) = a
  BY <1>4, <1>5, <1>8, <1>9, Zenon
<1> QED BY <1>3, <1>10

(* What is read off a rollout of the group. *)
LEMMA RolloutIs ==
  ASSUME DecodeInv, NEW i \in DOMAIN rollouts
  PROVE  /\ phase = "done" /\ i \in Group /\ rollouts[i] = Rollout(i)
         /\ BatchPos(i) \in Batch /\ tokens[BatchPos(i)] \in Seq(StopToken .. PrefillLen)
<1>1. Built /\ DecodeTypeOK
  BY DEF DecodeInv
<1>2. CASE phase = "done"
  BY <1>1, <1>2, PlaceInRange DEF Built, DecodeTypeOK
<1>3. CASE phase # "done"
  BY <1>1, <1>3 DEF Built
<1> QED BY <1>2, <1>3

(* A mask is one exactly where a sampled token is predicted. *)
LEMMA RolloutMask ==
  ASSUME DecodeInv, NEW b \in Batch, phase = "done"
  PROVE  \/ /\ ~miStopped[b] /\ ~needsPhase2[b] /\ Mask(b) = NoMask
            /\ \A j \in DOMAIN tokens[b] : ~IsForced(tokens[b][j])
         \/ /\ miStopped[b] \/ needsPhase2[b]
            /\ Mask(b) = Blocks(b, Thought(b), Forced(b)) /\ Parts(tokens[b], Thought(b), Forced(b))
            /\ Forced(b) = IF miStopped[b] THEN cursor[b] ELSE PrefillLen
<1>1. tokens[b] \in Seq(StopToken .. PrefillLen) /\ Parts(tokens[b], Thought(b), Forced(b))
  BY DEF DecodeInv, DecodeTypeOK, MadeUp
<1>2. CASE miStopped[b]
  BY <1>1, <1>2 DEF Mask, Thought, Forced
<1>3. CASE ~miStopped[b] /\ needsPhase2[b]
  BY <1>1, <1>3 DEF Mask, Thought, Forced
<1>4. CASE ~miStopped[b] /\ ~needsPhase2[b]
  <2>1. Parts(tokens[b], Len(tokens[b]), 0) /\ Mask(b) = NoMask
    BY <1>1, <1>4 DEF Mask, Thought, Forced
  <2>2. Len(tokens[b]) \in Nat /\ DOMAIN tokens[b] = 1 .. Len(tokens[b])
    BY <1>1, LenProperties
  <2>3. \A l \in Nat : \A j \in 1 .. l : j \notin l + 1 .. l + 0
    OBVIOUS
  <2>4. \A j \in DOMAIN tokens[b] : ~IsForced(tokens[b][j])
    BY <2>1, <2>2, <2>3 DEF Parts
  <2> QED BY <1>4, <2>1, <2>4
<1> QED BY <1>2, <1>3, <1>4

(* A rollout is trained on exactly the tokens that the policy sampled, for every *)
(* way in which a sequence can end.                                              *)
THEOREM TrainedOnSampled == Spec => []MaskIsSampled
<1>1. ASSUME DecodeInv, NEW i \in DOMAIN rollouts
      PROVE  IF rollouts[i].mask = NoMask
             THEN \A j \in DOMAIN rollouts[i].tokens : ~IsForced(rollouts[i].tokens[j])
             ELSE /\ Len(rollouts[i].mask) = PromptLen + Len(rollouts[i].tokens) - 1
                  /\ \A j \in DOMAIN rollouts[i].tokens :
                       (rollouts[i].mask[PromptLen - 1 + j] = 1) <=> ~IsForced(rollouts[i].tokens[j])
  <2>1. PICK b : b = BatchPos(i)
    OBVIOUS
  <2>2. /\ phase = "done" /\ b \in Batch /\ tokens[b] \in Seq(StopToken .. PrefillLen)
        /\ rollouts[i].mask = Mask(b) /\ rollouts[i].tokens = tokens[b]
    BY <1>1, <2>1, RolloutIs DEF Rollout
  <2>3. Len(tokens[b]) \in Nat /\ DOMAIN tokens[b] = 1 .. Len(tokens[b])
    BY <2>2, LenProperties
  <2>4. CASE Mask(b) = NoMask /\ \A j \in DOMAIN tokens[b] : ~IsForced(tokens[b][j])
    BY <2>2, <2>4
  <2>5. CASE /\ Mask(b) = Blocks(b, Thought(b), Forced(b)) /\ Parts(tokens[b], Thought(b), Forced(b))
    <3>1. PICK t, f, m : t = Thought(b) /\ f = Forced(b) /\ m = Mask(b)
      OBVIOUS
    <3>2. /\ Len(m) = PromptLen + Len(tokens[b]) - 1
          /\ \A j \in 1 .. Len(tokens[b]) :
               /\ m[PromptLen - 1 + j] = IF j \in t + 1 .. t + f THEN 0 ELSE 1
               /\ IsForced(tokens[b][j]) <=> j \in t + 1 .. t + f
      BY <2>2, <2>5, <3>1, BlocksAre
    <3>3. \A j \in DOMAIN tokens[b] : (m[PromptLen - 1 + j] = 1) <=> ~IsForced(tokens[b][j])
      BY <2>3, <3>2
    <3>4. m = NoMask => \A j \in DOMAIN tokens[b] : FALSE
      <4>1. m = NoMask => Len(m) = 0
        BY DEF NoMask
      <4> QED BY <2>3, <3>2, <4>1, DecodeBounds
    <3> QED BY <2>2, <3>1, <3>2, <3>3, <3>4
  <2> QED BY <1>1, <2>2, <2>4, <2>5, RolloutMask
<1>2. DecodeInv => MaskIsSampled
  BY <1>1 DEF MaskIsSampled
<1> QED BY DecodeInvariant, <1>2, PTL

(* A rollout trains the adapter that sampled its tokens, though the batch was *)
(* decoded in another order than the group's.                                 *)
THEOREM OwnAdapter == Spec => []AdapterKept
<1>1. ASSUME DecodeInv, NEW i \in DOMAIN rollouts
      PROVE  rollouts[i].adapter = rollouts[i].decodedBy
  <2>1. i \in Group /\ rollouts[i] = Rollout(i) /\ assignment \in [Group -> Adapters]
    BY <1>1, RolloutIs DEF DecodeInv, DecodeTypeOK
  <2> QED BY <2>1, DecodedByOwn DEF Rollout
<1>2. DecodeInv => AdapterKept
  BY <1>1 DEF AdapterKept
<1> QED BY DecodeInvariant, <1>2, PTL

\* In the mask m of a sequence of l tokens the prefill of length f after t tokens is zero.
ZeroAtPrefill(m, p, t, f, l) ==
  \A j \in 1 .. l : m[p - 1 + j] = IF j \in t + 1 .. t + f THEN 0 ELSE 1

(* The first zero of a mask after the prompt is where the prefill is predicted. *)
LEMMA StartIs ==
  ASSUME NEW p \in Nat, NEW t \in Nat, NEW f \in Nat, NEW l \in Nat, NEW m,
         p >= 1, f >= 1, t + f <= l, Len(m) = p + l - 1, p = PromptLen,
         ZeroAtPrefill(m, p, t, f, l)
  PROVE  PrefillStart(m) = t
<1> DEFINE Z == {j \in p .. p + l - 1 : m[j] = 0}
<1>1. ASSUME NEW j \in p .. p + l - 1
      PROVE  m[j] = 0 <=> j >= p + t /\ j <= p + t + f - 1
  <2>1. PICK i : i = j - p + 1
    OBVIOUS
  <2>2. i \in 1 .. l /\ p - 1 + i = j
    BY <2>1
  <2>3. m[j] = IF i \in t + 1 .. t + f THEN 0 ELSE 1
    BY <2>2 DEF ZeroAtPrefill
  <2>4. i \in t + 1 .. t + f <=> j >= p + t /\ j <= p + t + f - 1
    BY <2>1
  <2> QED BY <2>3, <2>4
<1>2. p + t \in Z /\ \A j \in Z : p + t <= j
  <2>1. p + t \in p .. p + l - 1 /\ p + t <= p + t + f - 1
    OBVIOUS
  <2> QED BY <1>1, <2>1
<1>3. \A j \in Z : j \in Nat
  OBVIOUS
<1>4. Z # {}
  BY <1>2
<1>5. Min(Z) = p + t
  <2>1. Min(Z) \in Z /\ \A y \in Z : Min(Z) <= y
    <3>1. \E x \in Z : \A y \in Z : x <= y
      BY <1>2
    <3> HIDE DEF Z
    <3> QED BY <3>1 DEF Min
  <2>2. PICK z : z = Min(Z)
    OBVIOUS
  <2>3. z \in Nat /\ z <= p + t /\ p + t <= z
    BY <1>2, <1>3, <2>1, <2>2
  <2> QED BY <2>2, <2>3
<1>6. PrefillStart(m) = (IF Z = {} THEN Len(m) + 1 ELSE Min(Z)) - p
  BY DEF PrefillStart, LeadingOnesFrom
<1> HIDE DEF Z
<1>7. PrefillStart(m) = p + t - p
  BY <1>4, <1>5, <1>6
<1> QED BY <1>7

(* prefill_info points at the prefill: the whole of it starts there, in every rollout *)
(* that got the whole of one.                                                         *)
THEOREM PrefillFound == Spec => []PrefillLocated
<1>1. ASSUME DecodeInv, NEW i \in DOMAIN rollouts,
             rollouts[i].mask # NoMask, rollouts[i].stopped => rollouts[i].cursor = PrefillLen
      PROVE  SubSeq(rollouts[i].tokens, rollouts[i].prefillStart + 1, rollouts[i].prefillStart + PrefillLen)
               = [k \in 1 .. PrefillLen |-> k]
  <2>1. PICK b : b = BatchPos(i)
    OBVIOUS
  <2>2. /\ phase = "done" /\ b \in Batch /\ tokens[b] \in Seq(StopToken .. PrefillLen)
        /\ rollouts[i].mask = Mask(b) /\ rollouts[i].tokens = tokens[b]
        /\ rollouts[i].stopped = miStopped[b] /\ rollouts[i].cursor = cursor[b]
        /\ rollouts[i].prefillStart = IF Mask(b) = NoMask THEN -1 ELSE PrefillStart(Mask(b))
    BY <1>1, <2>1, RolloutIs DEF Rollout
  <2>3. PICK s, t, f, m : s = tokens[b] /\ t = Thought(b) /\ f = Forced(b) /\ m = Mask(b)
    OBVIOUS
  <2>4. /\ m = Blocks(b, t, f) /\ Parts(tokens[b], t, f)
        /\ f = IF miStopped[b] THEN cursor[b] ELSE PrefillLen
    BY <1>1, <2>2, <2>3, RolloutMask
  <2>5. f = PrefillLen
    BY <1>1, <2>2, <2>4
  <2>6. PICK l, p, n : l = Len(s) /\ p = PromptLen /\ n = PrefillLen
    OBVIOUS
  <2>7. /\ t \in Nat /\ f \in Nat /\ l \in Nat /\ t + f <= l /\ Len(m) = p + l - 1
        /\ \A j \in 1 .. l : m[p - 1 + j] = IF j \in t + 1 .. t + f THEN 0 ELSE 1
    BY <2>2, <2>3, <2>4, <2>6, BlocksAre
  <2>8. p \in Nat /\ p >= 1 /\ n \in Nat /\ n >= 1 /\ f = n
    BY <2>5, <2>6, DecodeBounds
  <2>9. PrefillStart(m) = t
    <3>1. ZeroAtPrefill(m, p, t, f, l)
      BY <2>7 DEF ZeroAtPrefill
    <3> QED BY <2>6, <2>7, <2>8, <3>1, StartIs
  <2>10. rollouts[i].prefillStart = t
    BY <1>1, <2>2, <2>3, <2>9
  <2>11. \A j \in t + 1 .. t + n : j \in 1 .. l /\ s[j] = j - t
    <3>1. \A j \in 1 .. l : j \in t + 1 .. t + f => s[j] = j - t
      BY <2>3, <2>4, <2>6 DEF Parts
    <3>2. \A j \in t + 1 .. t + n : j \in 1 .. l /\ j \in t + 1 .. t + f
      BY <2>7, <2>8
    <3> QED BY <3>1, <3>2
  <2>12. SubSeq(s, t + 1, t + n) = [k \in 1 .. n |-> k]
    <3>1. PICK x, y : x = t + 1 /\ y = t + n
      OBVIOUS
    <3>2. x \in Int /\ y \in Int /\ x <= y /\ y - x + 1 = n
      BY <2>7, <2>8, <3>1
    <3>3. \A j \in x .. y : s[j] \in Int
      <4>1. \A j \in x .. y : j \in Int /\ j - t \in Int
        BY <2>7, <3>2
      <4> QED BY <2>11, <3>1, <4>1
    <3>4. PICK r : r = SubSeq(s, x, y)
      OBVIOUS
    <3>5. r \in Seq(Int) /\ Len(r) = n /\ \A k \in 1 .. n : r[k] = s[x + k - 1]
      BY <3>2, <3>3, <3>4, SubSeqProperties
    <3>6. \A k \in 1 .. n : x + k - 1 \in t + 1 .. t + n /\ (x + k - 1) - t = k
      BY <2>7, <2>8, <3>1
    <3>7. \A k \in 1 .. n : r[k] = k
      BY <2>11, <3>5, <3>6
    <3>8. r = [k \in 1 .. n |-> k]
      BY <3>5, <3>7
    <3> QED BY <3>1, <3>4, <3>8
  <2> QED BY <2>2, <2>3, <2>6, <2>10, <2>12
<1>2. DecodeInv => PrefillLocated
  BY <1>1 DEF PrefillLocated
<1> QED BY DecodeInvariant, <1>2, PTL

-----------------------------------------------------------------------------
(* Each sequence alone *)

\* What becomes of a sequence in the first phase: the budgets it has used.
Budgeted ==
  /\ phase = "prompt" => \A b \in Batch : ~finished[b]
  /\ \A b \in Batch : miStopped[b] => cursor[b] >= 1
  /\ \A b \in Batch : needsPhase2[b] => phase1Count[b] = Phase1Output
  /\ phase = "think" => \A b \in Batch : miStopped[b] /\ ~finished[b] =>
       Len(tokens[b]) + wrapLeft[b] = stopStep[b] + cursor[b] + WrapBudget

(* A step of the thinking loop keeps the budgets of a sequence. *)
LEMMA ThinkBudgeted ==
  ASSUME DecodeInv, Budgeted, ThinkStep, NEW b \in Batch
  PROVE  /\ miStopped'[b] => cursor'[b] >= 1
         /\ miStopped'[b] /\ ~finished'[b] =>
              Len(tokens'[b]) + wrapLeft'[b] = stopStep'[b] + cursor'[b] + WrapBudget
<1>1. DecodeTypeOK /\ Paced
  BY DEF DecodeInv
<1>2. PICK c \in 0 .. PrefillLen, w \in 0 .. WrapBudget, x \in {Word, StopToken} :
        /\ Low(b, c, w) \/ Unchecked(b, c, w)
        /\ \/ Rests(b, c, w) \/ Prefills(b, c, w) \/ WrapsUp(b, c, w, x)
           \/ ThinksOn(b, c, w, x) \/ Exhausts(b, c, w)
  BY <1>1, ThinkEach
<1>3. c \in Nat /\ w \in Nat /\ x \in StopToken .. PrefillLen
  BY <1>2, DecodeBounds DEF Word, StopToken
<1>4. phase = "think" /\ step \in Nat /\ tokens[b] \in Seq(StopToken .. PrefillLen) /\ Len(tokens[b]) \in Nat
  BY <1>1, ThinkFrame, LenProperties DEF DecodeTypeOK
<1>5. CASE ~miStopped'[b]
  BY <1>5
<1>6. CASE Low(b, c, w)
  <2>1. ~finished[b] /\ stopStep'[b] = step /\ c = 0 /\ w = WrapBudget /\ miStopped'[b] /\ c < PrefillLen
    BY <1>6, DecodeBounds DEF Low
  <2>2. Prefills(b, c, w)
    BY <1>2, <2>1, DecodeBounds DEF Rests, WrapsUp, ThinksOn, Exhausts
  <2>3. Len(tokens[b]) = step
    BY <1>1, <1>4, <2>1 DEF Paced
  <2>4. cursor'[b] = 1 /\ wrapLeft'[b] = WrapBudget /\ tokens'[b] = Append(tokens[b], 1) /\ 1 \in StopToken .. PrefillLen
    BY <2>1, <2>2, DecodeBounds DEF Prefills, StopToken
  <2>5. Len(tokens'[b]) = step + 1
    BY <1>4, <2>3, <2>4, OneMore
  <2> QED BY <1>4, <2>1, <2>4, <2>5, DecodeBounds
<1>7. CASE Unchecked(b, c, w) /\ miStopped'[b]
  <2>1. miStopped[b] /\ stopStep'[b] = stopStep[b] /\ c = cursor[b] /\ w = wrapLeft[b] /\ c >= 1
    BY <1>7 DEF Unchecked, Budgeted
  <2>2. PICK l, t : l = Len(tokens[b]) /\ t = stopStep[b]
    OBVIOUS
  <2>3. l \in Nat /\ t \in Int /\ (~finished[b] => l + w = t + c + WrapBudget)
    BY <1>1, <1>4, <2>1, <2>2, DecodeBounds DEF DecodeTypeOK, Budgeted
  <2>4. CASE Rests(b, c, w) \/ Exhausts(b, c, w)
    BY <2>1, <2>4 DEF Rests, Exhausts
  <2>5. CASE Prefills(b, c, w)
    <3>1. c + 1 \in StopToken .. PrefillLen
      BY <1>3, <2>5, DecodeBounds DEF Prefills, StopToken
    <3>2. ~finished[b] /\ cursor'[b] = c + 1 /\ wrapLeft'[b] = w /\ Len(tokens'[b]) = l + 1
      BY <1>4, <2>2, <2>5, <3>1, OneMore DEF Prefills
    <3>3. c + 1 >= 1 /\ l + 1 + w = t + (c + 1) + WrapBudget
      BY <1>3, <2>3, <3>2, DecodeBounds
    <3> QED BY <2>1, <2>2, <3>2, <3>3
  <2>6. CASE WrapsUp(b, c, w, x)
    <3>1. ~finished[b] /\ cursor'[b] = c /\ wrapLeft'[b] = w - 1 /\ Len(tokens'[b]) = l + 1
      BY <1>3, <1>4, <2>2, <2>6, OneMore DEF WrapsUp
    <3>2. l + 1 + (w - 1) = t + c + WrapBudget
      BY <1>3, <2>3, <3>1, DecodeBounds
    <3> QED BY <2>1, <2>2, <3>1, <3>2
  <2>7. ~ThinksOn(b, c, w, x)
    BY <1>7 DEF ThinksOn
  <2> QED BY <1>2, <2>4, <2>5, <2>6, <2>7
<1> QED BY <1>2, <1>5, <1>6, <1>7

(* The budgets hold in every reachable state. *)
THEOREM BudgetsKept == Spec => []Budgeted
<1>1. Init => Budgeted
  BY DEF Init, Budgeted
<1>2. ASSUME DecodeInv, Budgeted, [Next]_vars PROVE Budgeted'
  <2>1. CASE FirstTokens
    <3>1. \A b \in Batch : ~miStopped[b] /\ ~needsPhase2[b]
      BY <1>2, <2>1 DEF DecodeInv, Divided, FirstTokens
    <3> QED BY <2>1, <3>1 DEF FirstTokens, mi, split, Budgeted
  <2>2. CASE ThinkStep
    <3>1. phase' = "think" /\ UNCHANGED <<needsPhase2, phase1Count>>
      BY <2>2 DEF ThinkStep, split
    <3> QED BY <1>2, <2>2, <3>1, ThinkBudgeted DEF Budgeted
  <2>3. CASE EndThinking
    <3>1. ASSUME NEW b \in Batch, needsPhase2'[b] PROVE phase1Count'[b] = Phase1Output
      <4>1. ~finished[b] /\ phase = "think" /\ phase1Count'[b] = Len(tokens[b]) /\ step >= Phase1Output
        BY <2>3, <3>1 DEF EndThinking, NeedsPhase2, AllFinished
      <4>2. Len(tokens[b]) = step /\ step \in 1 .. Phase1Output
        BY <1>2, <4>1 DEF DecodeInv, Paced
      <4> QED BY <4>1, <4>2, DecodeBounds
    <3>2. phase' # "prompt" /\ phase' # "think" /\ UNCHANGED <<miStopped, cursor>>
      BY <2>3 DEF EndThinking, mi
    <3> QED BY <1>2, <3>1, <3>2 DEF Budgeted
  <2>4. CASE InjectStep \/ EndInject \/ CodeStep \/ EndCode \/ BuildRollouts
    <3>1. /\ phase' # "prompt" /\ phase' # "think"
          /\ UNCHANGED <<miStopped, cursor, needsPhase2, phase1Count>>
      BY <2>4 DEF InjectStep, EndInject, CodeStep, EndCode, BuildRollouts, mi, split
    <3> QED BY <1>2, <3>1 DEF Budgeted
  <2>5. CASE UNCHANGED vars
    BY <1>2, <2>5 DEF Budgeted, vars, mi, split
  <2> QED BY <1>2, <2>1, <2>2, <2>3, <2>4, <2>5 DEF Next, Returned
<1> QED BY DecodeInvariant, <1>1, <1>2, PTL DEF Spec

(* The tokens of the prefill in a sequence are counted, and the last one is found. *)
LEMMA ForcedCount ==
  ASSUME NEW s \in Seq(StopToken .. PrefillLen), NEW t, NEW f, Parts(s, t, f)
  PROVE  /\ Cardinality({j \in DOMAIN s : IsForced(s[j])}) = f
         /\ f >= 1 => s[t + f] = f /\ t + f \in DOMAIN s
         /\ \A j \in DOMAIN s : s[j] = f /\ f >= 1 => j = t + f
<1>1. Len(s) \in Nat /\ DOMAIN s = 1 .. Len(s)
  BY LenProperties
<1>2. /\ t \in Nat /\ f \in Nat /\ t + f <= Len(s)
      /\ \A j \in 1 .. Len(s) : IF j \in t + 1 .. t + f THEN s[j] = j - t ELSE ~IsForced(s[j])
  BY DEF Parts
<1>3. PICK l : l = Len(s)
  OBVIOUS
<1>4. ASSUME NEW j \in 1 .. l PROVE IsForced(s[j]) <=> j \in t + 1 .. t + f
  <2>1. j \in t + 1 .. t + f => j - t > 0
    BY <1>1, <1>2, <1>3
  <2> QED BY <1>2, <1>3, <2>1 DEF IsForced
<1>5. \A j \in t + 1 .. t + f : j \in 1 .. l
  BY <1>1, <1>2, <1>3
<1>6. {j \in DOMAIN s : IsForced(s[j])} = t + 1 .. t + f
  BY <1>1, <1>3, <1>4, <1>5
<1>7. Cardinality(t + 1 .. t + f) = f
  <2>1. t + 1 \in Int /\ t + f \in Int /\ (IF t + 1 > t + f THEN 0 ELSE (t + f) - (t + 1) + 1) = f
    BY <1>2
  <2> QED BY <2>1, FS_Interval
<1>8. ASSUME f >= 1 PROVE s[t + f] = f /\ t + f \in DOMAIN s
  <2>1. t + f \in t + 1 .. t + f /\ (t + f) - t = f
    BY <1>2, <1>8
  <2> QED BY <1>1, <1>2, <1>3, <1>5, <2>1
<1>9. ASSUME NEW j \in 1 .. l, s[j] = f, f >= 1 PROVE j = t + f
  <2>1. IsForced(s[j])
    BY <1>2, <1>9 DEF IsForced
  <2>2. j \in t + 1 .. t + f
    BY <1>4, <2>1
  <2>3. j - t = f
    BY <1>2, <1>3, <1>9, <2>2
  <2> QED BY <1>1, <1>2, <1>3, <2>3
<1> QED BY <1>1, <1>3, <1>6, <1>7, <1>8, <1>9

\* The stage of a sequence by what is left of its prefill.
StageOf(ended, late, f) ==
  IF ended THEN "finished" ELSE IF late THEN "late"
  ELSE IF f = 0 THEN "think" ELSE IF f < PrefillLen THEN "prefill" ELSE "code"
Ended(b) == finished[b] \/ phase \in {"assemble", "done"}

(* The stage of a sequence. *)
LEMMA StageIs ==
  ASSUME DecodeInv, NEW b \in Batch
  PROVE  Stage(b) = StageOf(Ended(b), IsLate(b), Forced(b))
<1>1. tokens[b] \in Seq(StopToken .. PrefillLen) /\ Parts(tokens[b], Thought(b), Forced(b))
  BY DEF DecodeInv, DecodeTypeOK, MadeUp
<1>2. Cardinality({j \in DOMAIN tokens[b] : IsForced(tokens[b][j])}) = Forced(b)
  BY <1>1, ForcedCount
<1> QED BY <1>2, Zenon DEF Stage, StageOf, Ended

(* And its stage after a step. *)
LEMMA StageNext ==
  ASSUME DecodeInv', NEW b \in Batch
  PROVE  Stage(b)' = StageOf(Ended(b)', IsLate(b)', Forced(b)')
<1>1. tokens'[b] \in Seq(StopToken .. PrefillLen) /\ Parts(tokens'[b], Thought(b)', Forced(b)')
  BY DEF DecodeInv, DecodeTypeOK, MadeUp
<1>2. Cardinality({j \in DOMAIN tokens'[b] : IsForced(tokens'[b][j])}) = Forced(b)'
  <2>1. PICK t, f : t = Thought(b)' /\ f = Forced(b)'
    OBVIOUS
  <2> QED BY <1>1, <2>1, ForcedCount
<1> QED BY <1>2, Zenon DEF Stage, StageOf, Ended

(* Code tokens are those after the whole prefill. *)
LEMMA CodedIs ==
  ASSUME DecodeInv, NEW b \in Batch, Forced(b) = PrefillLen
  PROVE  Alone!Coded(b) = Len(tokens[b]) - (Thought(b) + PrefillLen)
<1>1. tokens[b] \in Seq(StopToken .. PrefillLen) /\ Parts(tokens[b], Thought(b), Forced(b))
  BY DEF DecodeInv, DecodeTypeOK, MadeUp
<1>2. PICK t, s : t = Thought(b) /\ s = tokens[b]
  OBVIOUS
<1>3. /\ s[t + PrefillLen] = PrefillLen /\ t + PrefillLen \in DOMAIN s
      /\ \A j \in DOMAIN s : s[j] = PrefillLen => j = t + PrefillLen
  BY <1>1, <1>2, ForcedCount, DecodeBounds
<1>4. (CHOOSE i \in DOMAIN s : s[i] = PrefillLen) = t + PrefillLen
  BY <1>3
<1> QED BY <1>2, <1>4 DEF Alone!Coded

(* The steps of a sequence alone, in terms of its stage. *)
LEMMA AsStays ==
  ASSUME NEW b \in Batch, tokens'[b] = tokens[b], Stage(b)' = Stage(b), miStopped'[b] = miStopped[b]
  PROVE  Alone!Stays(b)
BY DEF Alone!Stays

(* A token of thinking. *)
LEMMA AsThink ==
  ASSUME NEW b \in Batch, NEW x \in {Word, StopToken}, Stage(b) = "think", Len(tokens[b]) < Phase1Output,
         tokens'[b] = Append(tokens[b], x), miStopped'[b] = miStopped[b],
         Stage(b)' = IF x = StopToken THEN "finished" ELSE "think"
  PROVE  Alone!Step(b)
BY DEF Alone!Step, Alone!Think, Alone!Sampled, Alone!Word, Alone!StopToken, Word, StopToken

(* The first token of the prefill, at the end of the budget or early. *)
LEMMA AsStopThinking ==
  ASSUME NEW b \in Batch, Stage(b) = "think",
         \/ Len(tokens[b]) = Phase1Output /\ ~miStopped'[b]
         \/ Len(tokens[b]) \in MinGen .. Phase1Output - 1 /\ miStopped'[b],
         tokens'[b] = Append(tokens[b], 1), Stage(b)' = IF 1 = PrefillLen THEN "code" ELSE "prefill"
  PROVE  Alone!Step(b)
BY DEF Alone!Step, Alone!StopThinking, Alone!Forced

(* The next token of the prefill. *)
LEMMA AsPrefill ==
  ASSUME NEW b \in Batch, NEW k, Stage(b) = "prefill", tokens[b][Len(tokens[b])] = k - 1, k \in Nat,
         tokens'[b] = Append(tokens[b], k), miStopped'[b] = miStopped[b],
         Stage(b)' = IF k = PrefillLen THEN "code" ELSE "prefill"
  PROVE  Alone!Step(b)
<1>1. tokens[b][Len(tokens[b])] + 1 = k
  OBVIOUS
<1> QED BY <1>1 DEF Alone!Step, Alone!Prefill, Alone!Forced

(* A token of the code, within its budget. *)
LEMMA AsCode ==
  ASSUME NEW b \in Batch, NEW x \in {Word, StopToken}, Stage(b) = "code", Alone!Coded(b) < Alone!Budget(b),
         tokens'[b] = Append(tokens[b], x), miStopped'[b] = miStopped[b],
         Stage(b)' = IF x = StopToken THEN "finished"
                     ELSE IF miStopped[b] /\ Alone!Coded(b) + 1 = WrapBudget THEN "finished" ELSE "code"
  PROVE  Alone!Step(b)
BY DEF Alone!Step, Alone!Code, Alone!Sampled, Alone!Word, Alone!StopToken, Word, StopToken

(* The end of the budget of the code. *)
LEMMA AsExhausted ==
  ASSUME NEW b \in Batch, Stage(b) = "code", Alone!Coded(b) >= Alone!Budget(b),
         tokens'[b] = tokens[b], miStopped'[b] = miStopped[b], Stage(b)' = "finished"
  PROVE  Alone!Step(b)
BY DEF Alone!Step, Alone!Exhausted, Alone!Ends

(* The first phase ends before the code of a sequence stopped early does. *)
LEMMA AsRunOut ==
  ASSUME NEW b \in Batch, miStopped[b], Stage(b) \in {"prefill", "code"}, Len(tokens[b]) = Phase1Output,
         Stage(b)' \in {"late", "finished"}, tokens'[b] = tokens[b], miStopped'[b] = miStopped[b]
  PROVE  Alone!Step(b)
BY DEF Alone!Step, Alone!RunOut, Alone!Ends

(* A sequence stopped too late goes on, or ends. *)
LEMMA AsLate ==
  ASSUME NEW b \in Batch, NEW x \in {Word, StopToken}, Stage(b) = "late", miStopped'[b] = miStopped[b],
         \/ tokens'[b] = Append(tokens[b], x) /\ Stage(b)' = IF x = StopToken THEN "finished" ELSE "late"
         \/ tokens'[b] = tokens[b] /\ Stage(b)' = "finished"
  PROVE  Alone!Step(b)
BY DEF Alone!Step, Alone!Late, Alone!Sampled, Alone!Ends, Alone!Word, Alone!StopToken, Word, StopToken

(* What every action does to a sequence is a step, or none, of that sequence alone.    *)
(* The first token is the first of its thinking.                                      *)
LEMMA FirstAlone ==
  ASSUME DecodeInv, Budgeted, DecodeInv', FirstTokens, NEW b \in Batch
  PROVE  Alone!Step(b)
<1>1. PICK stops \in SUBSET Batch :
        /\ tokens' = [e \in Batch |-> <<Drawn(e, stops)>>]
        /\ finished' = [e \in Batch |-> e \in stops]
  BY DEF FirstTokens
<1>2. phase = "prompt" /\ phase' = "think" /\ UNCHANGED <<miStopped, needsPhase2>>
  BY DEF FirstTokens, mi, split
<1>3. ~finished[b] /\ ~miStopped[b] /\ ~needsPhase2[b] /\ tokens[b] = <<>>
  BY <1>2 DEF DecodeInv, Budgeted, Divided, Paced
<1>4. Stage(b) = "think"
  BY <1>2, <1>3, StageIs DEF StageOf, Ended, IsLate, Forced
<1>5. PICK x \in {Word, StopToken} : x = Drawn(b, stops) /\ (b \in stops <=> x = StopToken)
  BY DrawnIs
<1>6. tokens'[b] = Append(tokens[b], x) /\ (finished'[b] <=> x = StopToken)
  <2>1. tokens'[b] = <<x>> /\ (finished'[b] <=> x = StopToken)
    BY <1>1, <1>5
  <2>2. Append(<<>>, x) = <<x>>
    OBVIOUS
  <2> QED BY <1>3, <2>1, <2>2
<1>7. Stage(b)' = IF x = StopToken THEN "finished" ELSE "think"
  BY <1>2, <1>3, <1>6, StageNext DEF StageOf, Ended, IsLate, Forced
<1>8. Len(tokens[b]) < Phase1Output
  BY <1>3, DecodeBounds
<1> QED BY <1>2, <1>4, <1>6, <1>7, <1>8, AsThink

(* A step of the thinking loop, for each way a sequence takes part in it. *)
LEMMA ThinkAlone ==
  ASSUME DecodeInv, Budgeted, DecodeInv', Budgeted', ThinkStep, NEW b \in Batch
  PROVE  Alone!Step(b) \/ Alone!Stays(b)
<1>1. DecodeTypeOK /\ Paced /\ Divided /\ MadeUp
  BY DEF DecodeInv
<1>2. PICK c \in 0 .. PrefillLen, w \in 0 .. WrapBudget, x \in {Word, StopToken} :
        /\ Low(b, c, w) \/ Unchecked(b, c, w)
        /\ \/ Rests(b, c, w) \/ Prefills(b, c, w) \/ WrapsUp(b, c, w, x)
           \/ ThinksOn(b, c, w, x) \/ Exhausts(b, c, w)
  BY <1>1, ThinkEach
<1>3. c \in Nat /\ w \in Nat /\ c <= PrefillLen
  <2>1. c \in 0 .. PrefillLen /\ w \in 0 .. WrapBudget
    OBVIOUS
  <2> QED BY <2>1, DecodeBounds
<1>4. /\ phase = "think" /\ phase' = "think" /\ step \in Nat /\ step < Phase1Output
      /\ UNCHANGED <<needsPhase2, phase1Count>> /\ ~needsPhase2[b]
  BY <1>1, ThinkFrame DEF Divided
<1>5. /\ tokens[b] \in Seq(StopToken .. PrefillLen) /\ Len(tokens[b]) \in Nat
      /\ ~finished[b] => Len(tokens[b]) = step
  BY <1>1, <1>4, LenProperties DEF DecodeTypeOK, Paced
<1>6. Forced(b) = IF miStopped[b] THEN cursor[b] ELSE 0
  BY <1>4 DEF Forced
<1>7. Stage(b) = StageOf(finished[b], FALSE, Forced(b))
  BY <1>4, StageIs DEF Ended, IsLate, StageOf
<1>8. Stage(b)' = StageOf(finished'[b], FALSE, IF miStopped'[b] THEN cursor'[b] ELSE 0)
  <2>1. Forced(b)' = IF miStopped'[b] THEN cursor'[b] ELSE 0
    BY <1>4 DEF Forced
  <2>2. Stage(b)' = StageOf(finished'[b], FALSE, Forced(b)')
    BY <1>4, StageNext DEF Ended, IsLate, StageOf
  <2> QED BY <2>1, <2>2
<1>9. Unchecked(b, c, w) => miStopped'[b] = miStopped[b] /\ c = cursor[b] /\ w = wrapLeft[b]
  BY DEF Unchecked
<1>10. CASE Rests(b, c, w)
  <2>1. finished[b] /\ finished'[b] /\ tokens'[b] = tokens[b] /\ miStopped'[b] = miStopped[b]
    BY <1>2, <1>9, <1>10 DEF Rests, Low
  <2>2. Stage(b) = "finished" /\ Stage(b)' = "finished"
    BY <1>7, <1>8, <2>1 DEF StageOf
  <2> QED BY <2>1, <2>2, AsStays
<1>11. CASE ThinksOn(b, c, w, x)
  <2>1. /\ ~finished[b] /\ ~miStopped'[b] /\ tokens'[b] = Append(tokens[b], x)
        /\ finished'[b] <=> x = StopToken
    BY <1>11 DEF ThinksOn
  <2>2. miStopped'[b] = miStopped[b]
    BY <1>2, <1>9, <2>1 DEF Low
  <2>3. Stage(b) = "think" /\ Stage(b)' = IF x = StopToken THEN "finished" ELSE "think"
    BY <1>6, <1>7, <1>8, <2>1, <2>2 DEF StageOf
  <2>4. Len(tokens[b]) < Phase1Output
    BY <1>4, <1>5, <2>1
  <2>5. Alone!Step(b)
    BY <2>1, <2>2, <2>3, <2>4, AsThink
  <2> QED BY <2>5
<1>12. CASE Prefills(b, c, w) /\ Low(b, c, w)
  <2>1. /\ ~finished[b] /\ ~miStopped[b] /\ miStopped'[b] /\ ~finished'[b] /\ IsCheckpoint
        /\ tokens'[b] = Append(tokens[b], 1) /\ cursor'[b] = 1
    BY <1>12 DEF Prefills, Low
  <2>2. Stage(b) = "think" /\ Stage(b)' = IF 1 = PrefillLen THEN "code" ELSE "prefill"
    <3>1. 1 < PrefillLen <=> 1 # PrefillLen
      BY DecodeBounds
    <3> QED BY <1>6, <1>7, <1>8, <2>1, <3>1 DEF StageOf
  <2>3. Len(tokens[b]) \in MinGen .. Phase1Output - 1
    BY <1>4, <1>5, <2>1, DecodeBounds DEF IsCheckpoint
  <2>4. Alone!Step(b)
    BY <2>1, <2>2, <2>3, AsStopThinking
  <2> QED BY <2>4
<1>13. CASE Prefills(b, c, w) /\ Unchecked(b, c, w)
  <2>1. /\ ~finished[b] /\ miStopped[b] /\ miStopped'[b] = miStopped[b] /\ c = cursor[b] /\ ~finished'[b]
        /\ tokens'[b] = Append(tokens[b], c + 1) /\ cursor'[b] = c + 1 /\ c < PrefillLen
    BY <1>9, <1>13 DEF Prefills
  <2>2. c >= 1 /\ Forced(b) = c
    BY <1>6, <2>1 DEF Budgeted
  <2>3. Stage(b) = "prefill"
    <3>1. c # 0
      BY <1>3, <2>2
    <3> QED BY <1>7, <2>1, <2>2, <3>1 DEF StageOf
  <2>4. Stage(b)' = IF c + 1 = PrefillLen THEN "code" ELSE "prefill"
    <3>1. c + 1 # 0 /\ (c + 1 < PrefillLen <=> c + 1 # PrefillLen)
      BY <1>3, <2>1, DecodeBounds
    <3> QED BY <1>8, <2>1, <3>1 DEF StageOf
  <2>5. tokens[b][Len(tokens[b])] = c + 1 - 1
    <3>1. PICK t, s : t = stopStep[b] /\ s = tokens[b]
      OBVIOUS
    <3>2. Parts(s, t, c) /\ Len(s) = t + c
      BY <1>1, <1>4, <2>1, <2>2, <3>1 DEF MadeUp, Thought
    <3>3. s[t + c] = c
      BY <1>5, <2>2, <3>1, <3>2, ForcedCount
    <3>4. c + 1 - 1 = c
      BY <1>3
    <3> QED BY <3>1, <3>2, <3>3, <3>4
  <2>6. PICK k \in Nat : k = c + 1
    BY <1>3
  <2>7. /\ tokens[b][Len(tokens[b])] = k - 1 /\ tokens'[b] = Append(tokens[b], k)
        /\ Stage(b)' = IF k = PrefillLen THEN "code" ELSE "prefill"
    BY <2>1, <2>4, <2>5, <2>6
  <2>8. Alone!Step(b)
    BY <2>1, <2>3, <2>6, <2>7, AsPrefill
  <2> QED BY <2>8
<1>14. ASSUME Unchecked(b, c, w), ~finished[b], miStopped'[b], c >= PrefillLen
       PROVE  /\ miStopped[b] /\ miStopped'[b] = miStopped[b] /\ Stage(b) = "code"
              /\ Alone!Coded(b) = WrapBudget - w /\ Alone!Budget(b) = WrapBudget
  <2>1. miStopped[b] /\ miStopped'[b] = miStopped[b] /\ c = cursor[b] /\ w = wrapLeft[b] /\ c = PrefillLen
    <3>1. c = PrefillLen
      BY <1>3, <1>14, DecodeBounds
    <3> QED BY <1>9, <1>14, <3>1
  <2>2. Forced(b) = PrefillLen /\ Thought(b) = stopStep[b]
    BY <1>6, <2>1 DEF Thought
  <2>3. Stage(b) = "code"
    <3>1. PrefillLen # 0 /\ ~(PrefillLen < PrefillLen)
      BY DecodeBounds
    <3> QED BY <1>7, <1>14, <2>2, <3>1 DEF StageOf
  <2>4. Alone!Coded(b) = Len(tokens[b]) - (stopStep[b] + PrefillLen)
    BY <2>2, CodedIs
  <2>5. Len(tokens[b]) + w = stopStep[b] + PrefillLen + WrapBudget
    BY <1>4, <1>14, <2>1 DEF Budgeted
  <2>6. stopStep[b] \in Int
    BY <1>1, DecodeBounds DEF DecodeTypeOK
  <2>7. Alone!Coded(b) = WrapBudget - w
    <3>1. \A l, u, g, p \in Nat, t \in Int : l + u = t + p + g => l - (t + p) = g - u
      OBVIOUS
    <3>2. PrefillLen \in Nat /\ WrapBudget \in Nat
      BY DecodeBounds
    <3>3. PICK l, t : l = Len(tokens[b]) /\ t = stopStep[b]
      OBVIOUS
    <3>4. l \in Nat /\ t \in Int /\ w \in Nat /\ l + w = t + PrefillLen + WrapBudget
      BY <1>3, <1>5, <2>5, <2>6, <3>3
    <3>5. l - (t + PrefillLen) = WrapBudget - w
      BY <3>1, <3>2, <3>4
    <3> QED BY <2>4, <3>3, <3>5
  <2> QED BY <2>1, <2>3, <2>7 DEF Alone!Budget
<1>15. CASE WrapsUp(b, c, w, x) /\ Unchecked(b, c, w)
  <2>1. /\ ~finished[b] /\ miStopped'[b] /\ c >= PrefillLen /\ w > 0 /\ tokens'[b] = Append(tokens[b], x)
        /\ cursor'[b] = c /\ (finished'[b] <=> x = StopToken \/ w = 1)
    BY <1>15 DEF WrapsUp
  <2>2. /\ miStopped[b] /\ miStopped'[b] = miStopped[b] /\ Stage(b) = "code"
        /\ Alone!Coded(b) = WrapBudget - w /\ Alone!Budget(b) = WrapBudget
    BY <1>14, <1>15, <2>1
  <2>3. Alone!Coded(b) < Alone!Budget(b) /\ (Alone!Coded(b) + 1 = WrapBudget <=> w = 1)
    <3>1. WrapBudget - w < WrapBudget /\ (WrapBudget - w + 1 = WrapBudget <=> w = 1)
      <4>1. \A g, u \in Nat : u > 0 => g - u < g /\ (g - u + 1 = g <=> u = 1)
        OBVIOUS
      <4>2. WrapBudget \in Nat
        BY DecodeBounds
      <4> QED BY <1>3, <2>1, <4>1, <4>2
    <3> QED BY <2>2, <3>1
  <2>4. Stage(b)' = IF x = StopToken THEN "finished"
                    ELSE IF miStopped[b] /\ Alone!Coded(b) + 1 = WrapBudget THEN "finished" ELSE "code"
    <3>1. c # 0 /\ ~(c < PrefillLen)
      BY <1>3, <2>1, DecodeBounds
    <3>2. Stage(b)' = IF finished'[b] THEN "finished" ELSE "code"
      BY <1>8, <2>1, <3>1 DEF StageOf
    <3> QED BY <2>1, <2>2, <2>3, <3>2
  <2>5. Alone!Step(b)
    BY <2>1, <2>2, <2>3, <2>4, AsCode
  <2> QED BY <2>5
<1>16. CASE Exhausts(b, c, w) /\ Unchecked(b, c, w)
  <2>1. /\ ~finished[b] /\ miStopped'[b] /\ c >= PrefillLen /\ w <= 0 /\ tokens'[b] = tokens[b] /\ finished'[b]
    BY <1>16 DEF Exhausts
  <2>2. /\ miStopped'[b] = miStopped[b] /\ Stage(b) = "code"
        /\ Alone!Coded(b) = WrapBudget - w /\ Alone!Budget(b) = WrapBudget
    BY <1>14, <1>16, <2>1
  <2>3. Alone!Coded(b) >= Alone!Budget(b)
    BY <1>3, <2>1, <2>2, DecodeBounds
  <2>4. Stage(b)' = "finished"
    BY <1>8, <2>1 DEF StageOf
  <2>5. Alone!Step(b)
    BY <2>1, <2>2, <2>3, <2>4, AsExhausted
  <2> QED BY <2>5
<1>17. Low(b, c, w) => Prefills(b, c, w)
  <2>1. Low(b, c, w) => ~finished[b] /\ miStopped'[b] /\ ~(c >= PrefillLen)
    BY <1>3, DecodeBounds DEF Low
  <2> QED BY <1>2, <2>1 DEF Rests, WrapsUp, ThinksOn, Exhausts
<1> QED BY <1>2, <1>10, <1>11, <1>12, <1>13, <1>15, <1>16, <1>17

(* Nothing, or the end of a sequence's stay in the first phase. *)
LEMMA EndThinkingAlone ==
  ASSUME DecodeInv, Budgeted, DecodeInv', EndThinking, NEW b \in Batch
  PROVE  Alone!Step(b) \/ Alone!Stays(b)
<1>1. /\ phase = "think" /\ (step >= Phase1Output \/ AllFinished)
      /\ needsPhase2' = [e \in Batch |-> ~finished[e] /\ ~miStopped[e]]
      /\ phase' = (IF \E e \in Batch : ~finished[e] /\ ~miStopped[e] THEN "inject" ELSE "assemble")
      /\ step' = 0 /\ UNCHANGED <<tokens, finished, miStopped, cursor>>
  BY DEF EndThinking, NeedsPhase2, mi
<1>2. Paced /\ Divided
  BY DEF DecodeInv
<1>3. phase' \in {"inject", "assemble"} /\ ~needsPhase2[b]
  BY <1>1, <1>2 DEF Divided
<1>4. Stage(b) = StageOf(finished[b], FALSE, IF miStopped[b] THEN cursor[b] ELSE 0)
  <2>1. Forced(b) = IF miStopped[b] THEN cursor[b] ELSE 0
    BY <1>3 DEF Forced
  <2>2. Stage(b) = StageOf(finished[b], FALSE, Forced(b))
    BY <1>1, StageIs DEF Ended, IsLate, StageOf
  <2> QED BY <2>1, <2>2
<1>5. CASE finished[b]
  <2>1. Stage(b) = "finished" /\ Stage(b)' = "finished"
    BY <1>1, <1>4, <1>5, StageNext DEF StageOf, Ended
  <2> QED BY <1>1, <2>1, AsStays
<1>6. CASE ~finished[b] /\ ~miStopped[b]
  <2>1. phase' = "inject" /\ needsPhase2'[b]
    BY <1>1, <1>6
  <2>2. Forced(b)' = 0 /\ ~IsLate(b)' /\ ~Ended(b)'
    BY <1>1, <1>6, <2>1 DEF Forced, IsLate, Ended
  <2>3. Stage(b) = "think" /\ Stage(b)' = "think"
    BY <1>4, <1>6, <2>2, StageNext DEF StageOf
  <2> QED BY <1>1, <2>3, AsStays
<1>7. CASE ~finished[b] /\ miStopped[b]
  <2>1. Stage(b) \in {"prefill", "code"}
    <3>1. cursor[b] # 0
      BY <1>7, DecodeBounds DEF Budgeted
    <3> QED BY <1>4, <1>7, <3>1 DEF StageOf
  <2>2. Stage(b)' \in {"late", "finished"}
    BY <1>1, <1>3, <1>7, StageNext DEF StageOf, IsLate
  <2>3. Len(tokens[b]) = Phase1Output
    <3>1. Len(tokens[b]) = step /\ step \in 1 .. Phase1Output /\ step >= Phase1Output
      BY <1>1, <1>2, <1>7 DEF Paced, AllFinished
    <3> QED BY <3>1, DecodeBounds
  <2>4. Alone!Step(b)
    BY <1>1, <1>7, <2>1, <2>2, <2>3, AsRunOut
  <2> QED BY <2>4
<1> QED BY <1>5, <1>6, <1>7

(* Stages in the second phase. *)
LEMMA SecondPhase ==
  ASSUME DecodeInv, Budgeted, phase \in {"inject", "code"}, NEW b \in Batch
  PROVE  \/ finished[b] /\ Stage(b) = "finished"
         \/ ~finished[b] /\ miStopped[b] /\ Stage(b) = "late"
         \/ /\ ~finished[b] /\ ~miStopped[b] /\ needsPhase2[b] /\ phase1Count[b] = Phase1Output
            /\ Forced(b) = (IF phase = "inject" THEN step ELSE PrefillLen) /\ Thought(b) = Phase1Output
            /\ Stage(b) = StageOf(FALSE, FALSE, Forced(b))
<1>1. CASE finished[b]
  BY <1>1, StageIs DEF StageOf, Ended
<1>2. CASE ~finished[b] /\ miStopped[b]
  BY <1>2, StageIs DEF StageOf, Ended, IsLate
<1>3. CASE ~finished[b] /\ ~miStopped[b]
  <2>1. needsPhase2[b] /\ phase1Count[b] = Phase1Output
    BY <1>3 DEF DecodeInv, Divided, Budgeted
  <2>2. Forced(b) = (IF phase = "inject" THEN step ELSE PrefillLen) /\ Thought(b) = Phase1Output
    BY <1>3, <2>1 DEF Forced, Thought
  <2>3. Stage(b) = StageOf(FALSE, FALSE, Forced(b))
    BY <1>3, StageIs DEF StageOf, Ended, IsLate
  <2> QED BY <1>3, <2>1, <2>2, <2>3
<1> QED BY <1>1, <1>2, <1>3

(* The prefill of a sequence that used the first phase up; nothing for others. *)
LEMMA InjectAlone ==
  ASSUME DecodeInv, Budgeted, DecodeInv', InjectStep, NEW b \in Batch
  PROVE  Alone!Step(b) \/ Alone!Stays(b)
<1>1. /\ phase = "inject" /\ phase' = "inject" /\ step < PrefillLen /\ step' = step + 1
      /\ tokens' = [e \in Batch |-> IF needsPhase2[e] /\ ~finished[e]
                                      THEN Append(tokens[e], step + 1) ELSE tokens[e]]
      /\ UNCHANGED <<finished, miStopped, cursor, needsPhase2>>
  BY DEF InjectStep, mi, split
<1>2. Divided /\ MadeUp /\ step \in Nat /\ tokens[b] \in Seq(StopToken .. PrefillLen)
  BY DecodeBounds DEF DecodeInv, DecodeTypeOK
<1>3. CASE finished[b]
  <2>1. tokens'[b] = tokens[b]
    BY <1>1, <1>3
  <2>2. Stage(b) = "finished" /\ Stage(b)' = "finished"
    BY <1>1, <1>3, StageIs, StageNext DEF StageOf, Ended
  <2> QED BY <1>1, <2>1, <2>2, AsStays
<1>4. CASE ~finished[b] /\ miStopped[b]
  <2>1. tokens'[b] = tokens[b]
    BY <1>1, <1>2, <1>4 DEF Divided
  <2>2. Stage(b) = "late" /\ Stage(b)' = "late"
    BY <1>1, <1>4, StageIs, StageNext DEF StageOf, Ended, IsLate
  <2> QED BY <1>1, <2>1, <2>2, AsStays
<1>5. CASE ~finished[b] /\ ~miStopped[b]
  <2>1. /\ needsPhase2[b] /\ phase1Count[b] = Phase1Output /\ Forced(b) = step /\ Thought(b) = Phase1Output
        /\ Stage(b) = StageOf(FALSE, FALSE, step)
    BY <1>1, <1>5, SecondPhase
  <2>2. tokens'[b] = Append(tokens[b], step + 1)
    BY <1>1, <1>5, <2>1
  <2>3. Stage(b)' = StageOf(FALSE, FALSE, step + 1)
    <3>1. Forced(b)' = step + 1
      BY <1>1, <1>5, <2>1 DEF Forced
    <3> QED BY <1>1, <1>5, <3>1, StageNext DEF StageOf, Ended, IsLate
  <2>4. Len(tokens[b]) = Phase1Output + step /\ Parts(tokens[b], Phase1Output, step)
    BY <1>1, <1>2, <2>1 DEF MadeUp
  <2>5. PICK k \in Nat : k = step + 1
    BY <1>2
  <2>6. k - 1 = step /\ k # 0 /\ (k < PrefillLen <=> k # PrefillLen)
    BY <1>1, <1>2, <2>5, DecodeBounds
  <2>7. Stage(b)' = IF k = PrefillLen THEN "code" ELSE "prefill"
    BY <2>3, <2>5, <2>6 DEF StageOf
  <2>8. CASE step = 0
    <3>1. Stage(b) = "think" /\ k = 1
      BY <2>1, <2>5, <2>8 DEF StageOf
    <3>2. Len(tokens[b]) = Phase1Output
      BY <2>4, <2>8, DecodeBounds
    <3>3. Alone!Step(b)
      BY <1>1, <1>5, <2>2, <2>5, <2>7, <3>1, <3>2, AsStopThinking
    <3> QED BY <3>3
  <2>9. CASE step # 0
    <3>1. Stage(b) = "prefill"
      BY <1>1, <2>1, <2>9 DEF StageOf
    <3>2. tokens[b][Len(tokens[b])] = k - 1
      <4>1. step >= 1
        BY <1>2, <2>9
      <4>2. PICK s, t, f : s = tokens[b] /\ t = Phase1Output /\ f = step
        OBVIOUS
      <4>3. s[t + f] = f
        BY <1>2, <2>4, <4>1, <4>2, ForcedCount
      <4> QED BY <2>4, <2>6, <4>2, <4>3
    <3>3. tokens'[b] = Append(tokens[b], k)
      BY <2>2, <2>5
    <3>4. Alone!Step(b)
      BY <1>1, <2>5, <2>7, <3>1, <3>2, <3>3, AsPrefill
    <3> QED BY <3>4
  <2> QED BY <2>8, <2>9
<1> QED BY <1>3, <1>4, <1>5

(* Nothing happens to a sequence between prefill and code. *)
LEMMA EndInjectAlone ==
  ASSUME DecodeInv, Budgeted, DecodeInv', EndInject, NEW b \in Batch
  PROVE  Alone!Stays(b)
<1>1. /\ phase = "inject" /\ step = PrefillLen /\ phase' = "code"
      /\ UNCHANGED <<tokens, finished, miStopped, cursor, needsPhase2>>
  BY DEF EndInject, mi, split
<1>2. Forced(b)' = Forced(b) /\ Ended(b)' = Ended(b) /\ IsLate(b)' = IsLate(b)
  BY <1>1 DEF Forced, Ended, IsLate
<1>3. Stage(b)' = Stage(b)
  BY <1>2, StageIs, StageNext
<1> QED BY <1>1, <1>3, AsStays

(* Code tokens in the second phase are counted by its steps. *)
LEMMA CodedInCode ==
  ASSUME DecodeInv, Budgeted, phase = "code", NEW b \in Batch, ~finished[b], ~miStopped[b]
  PROVE  /\ Stage(b) = "code" /\ Alone!Coded(b) = step /\ Alone!Budget(b) = Phase2Budget
         /\ step \in Nat /\ Phase2Budget \in Nat
<1>1. /\ Forced(b) = PrefillLen /\ Thought(b) = Phase1Output /\ Stage(b) = StageOf(FALSE, FALSE, PrefillLen)
      /\ phase1Count[b] = Phase1Output
  BY SecondPhase
<1>2. DecodeTypeOK /\ Paced /\ CacheFollowsTokens
  BY DEF DecodeInv
<1>3. Stage(b) = "code"
  <2>1. PrefillLen # 0 /\ ~(PrefillLen < PrefillLen)
    BY DecodeBounds
  <2> QED BY <1>1, <2>1 DEF StageOf
<1>4. Alone!Coded(b) = Len(tokens[b]) - (Phase1Output + PrefillLen)
  BY <1>1, CodedIs
<1>5. /\ curPos = Phase1Max - 1 + PrefillLen + step /\ curPos = PromptLen + Len(tokens[b]) - 1
      /\ Len(tokens[b]) \in Nat /\ step \in Nat
  <2>1. curPos = PromptLen + Len(tokens[b]) - 1
    BY <1>2 DEF CacheFollowsTokens, IsLate
  <2>2. curPos = Phase1Max - 1 + PrefillLen + step
    BY <1>2 DEF Paced
  <2>3. Len(tokens[b]) \in Nat /\ step \in Nat
    BY <1>2, LenProperties, DecodeBounds DEF DecodeTypeOK
  <2> QED BY <2>1, <2>2, <2>3
<1>6. Alone!Coded(b) = step
  <2>1. \A m, o, n, f, s, l \in Nat : n + o = m /\ m - 1 + f + s = n + l - 1 => l - (o + f) = s
    OBVIOUS
  <2> QED BY <1>4, <1>5, <2>1, DecodeBounds
<1>7. Phase2Budget = ContextWindow - Phase1Max - PrefillLen - ContextBuffer /\ Phase2Budget \in Nat
  BY <1>1, <1>2, Phase2BudgetIs
<1> QED BY <1>3, <1>5, <1>6, <1>7 DEF Alone!Budget

(* A token of the code, or of a sequence stopped too late. *)
LEMMA CodeAlone ==
  ASSUME DecodeInv, Budgeted, DecodeInv', CodeStep, NEW b \in Batch
  PROVE  Alone!Step(b) \/ Alone!Stays(b)
<1>1. PICK stops \in SUBSET {e \in Batch : ~finished[e]} :
        /\ tokens' = [e \in Batch |-> IF finished[e] THEN tokens[e]
                                        ELSE Append(tokens[e], Drawn(e, stops))]
        /\ finished' = [e \in Batch |-> finished[e] \/ e \in stops]
  BY DEF CodeStep
<1>2. /\ phase = "code" /\ phase' = "code" /\ step < Phase2Budget
      /\ UNCHANGED <<miStopped, cursor, needsPhase2>>
  BY DEF CodeStep, mi, split
<1>3. CASE finished[b]
  <2>1. tokens'[b] = tokens[b] /\ finished'[b]
    BY <1>1, <1>3
  <2>2. Stage(b) = "finished" /\ Stage(b)' = "finished"
    BY <1>2, <1>3, <2>1, StageIs, StageNext DEF StageOf, Ended
  <2> QED BY <1>2, <2>1, <2>2, AsStays
<1>4. CASE ~finished[b]
  <2>1. PICK x \in {Word, StopToken} : x = Drawn(b, stops) /\ (b \in stops <=> x = StopToken)
    BY DrawnIs
  <2>2. tokens'[b] = Append(tokens[b], x) /\ (finished'[b] <=> x = StopToken)
    BY <1>1, <1>4, <2>1
  <2>3. CASE miStopped[b]
    <3>1. Stage(b) = "late"
      BY <1>2, <1>4, <2>3, StageIs DEF StageOf, Ended, IsLate
    <3>2. Stage(b)' = IF x = StopToken THEN "finished" ELSE "late"
      BY <1>2, <2>2, <2>3, StageNext DEF StageOf, Ended, IsLate
    <3>3. Alone!Step(b)
      BY <1>2, <2>2, <3>1, <3>2, AsLate
    <3> QED BY <3>3
  <2>4. CASE ~miStopped[b]
    <3>1. /\ Stage(b) = "code" /\ Alone!Coded(b) = step /\ Alone!Budget(b) = Phase2Budget
      BY <1>2, <1>4, <2>4, CodedInCode
    <3>2. Forced(b)' = PrefillLen
      <4>1. needsPhase2[b]
        BY <1>2, <1>4, <2>4, SecondPhase
      <4> QED BY <1>2, <2>4, <4>1 DEF Forced
    <3>3. PrefillLen # 0 /\ ~(PrefillLen < PrefillLen)
      BY DecodeBounds
    <3>4. Stage(b)' = StageOf(finished'[b], FALSE, PrefillLen)
      BY <1>2, <2>4, <3>2, StageNext DEF StageOf, Ended, IsLate
    <3>5. Stage(b)' = IF x = StopToken THEN "finished" ELSE "code"
      BY <2>2, <3>3, <3>4 DEF StageOf
    <3>6. Alone!Step(b)
      BY <1>2, <2>2, <2>4, <3>1, <3>5, AsCode
    <3> QED BY <3>6
  <2> QED BY <2>3, <2>4
<1> QED BY <1>3, <1>4

(* The second phase ends with its budget. *)
LEMMA EndCodeAlone ==
  ASSUME DecodeInv, Budgeted, DecodeInv', EndCode, NEW b \in Batch
  PROVE  Alone!Step(b) \/ Alone!Stays(b)
<1>1. /\ phase = "code" /\ phase' = "assemble" /\ (step >= Phase2Budget \/ AllFinished)
      /\ UNCHANGED <<tokens, finished, miStopped, cursor, needsPhase2>>
  BY DEF EndCode, mi, split
<1>2. Stage(b)' = "finished"
  BY <1>1, StageNext DEF StageOf, Ended
<1>3. CASE finished[b]
  <2>1. Stage(b) = "finished"
    BY <1>3, StageIs DEF StageOf, Ended
  <2> QED BY <1>1, <1>2, <2>1, AsStays
<1>4. CASE ~finished[b] /\ miStopped[b]
  <2>1. Stage(b) = "late"
    BY <1>1, <1>4, StageIs DEF StageOf, Ended, IsLate
  <2>2. Word \in {Word, StopToken}
    OBVIOUS
  <2>3. Alone!Step(b)
    BY <1>1, <1>2, <2>1, <2>2, AsLate
  <2> QED BY <2>3
<1>5. CASE ~finished[b] /\ ~miStopped[b]
  <2>1. Stage(b) = "code" /\ Alone!Coded(b) = step /\ Alone!Budget(b) = Phase2Budget
    BY <1>1, <1>5, CodedInCode
  <2>2. step >= Phase2Budget
    BY <1>1, <1>5 DEF AllFinished
  <2>3. Alone!Step(b)
    BY <1>1, <1>2, <2>1, <2>2, AsExhausted
  <2> QED BY <2>3
<1> QED BY <1>3, <1>4, <1>5

(* What the batch does to each of its sequences is two-phase decoding of that sequence *)
(* alone: every step of the batch is a step, or none, of each.                          *)
THEOREM DecodesEachAlone == Spec => Alone!Init /\ [][Alone!Next]_(Alone!vars)
<1>1. ASSUME Init PROVE Alone!Init
  <2>1. DecodeInv
    BY <1>1, DecodeStarts
  <2>2. \A b \in Batch : Stage(b) = "think"
    <3>1. ASSUME NEW b \in Batch PROVE Stage(b) = "think"
      <4>1. ~finished[b] /\ ~miStopped[b] /\ ~needsPhase2[b] /\ phase = "prompt"
        BY <1>1 DEF Init
      <4> QED BY <2>1, <4>1, StageIs DEF StageOf, Ended, IsLate, Forced
    <3> QED BY <3>1
  <2>3. Group = Batch
    BY DEF Group, Batch
  <2> QED BY <1>1, <2>2, <2>3 DEF Init, Alone!Init
<1>2. ASSUME DecodeInv, Budgeted, DecodeInv', Budgeted', [Next]_vars PROVE Alone!Next
  <2>1. ASSUME NEW b \in Batch PROVE Alone!Step(b) \/ Alone!Stays(b)
    <3>1. CASE FirstTokens
      BY <1>2, <3>1, FirstAlone
    <3>2. CASE ThinkStep
      BY <1>2, <3>2, ThinkAlone
    <3>3. CASE EndThinking
      BY <1>2, <3>3, EndThinkingAlone
    <3>4. CASE InjectStep
      BY <1>2, <3>4, InjectAlone
    <3>5. CASE EndInject
      BY <1>2, <3>5, EndInjectAlone
    <3>6. CASE CodeStep
      BY <1>2, <3>6, CodeAlone
    <3>7. CASE EndCode
      BY <1>2, <3>7, EndCodeAlone
    <3>8. CASE BuildRollouts
      <4>1. /\ phase = "assemble" /\ phase' = "done" /\ UNCHANGED <<tokens, miStopped>>
        BY <3>8 DEF BuildRollouts, mi
      <4>2. Stage(b) = "finished" /\ Stage(b)' = "finished"
        BY <1>2, <4>1, StageIs, StageNext DEF StageOf, Ended
      <4> QED BY <4>1, <4>2, AsStays
    <3>9. CASE UNCHANGED vars
      <4>1. UNCHANGED <<phase, step, tokens, finished, miStopped, cursor, needsPhase2>>
        BY <3>9 DEF vars, mi, split
      <4>2. Forced(b)' = Forced(b) /\ Ended(b)' = Ended(b) /\ IsLate(b)' = IsLate(b)
        BY <4>1 DEF Forced, Ended, IsLate
      <4>3. Stage(b)' = Stage(b)
        BY <1>2, <4>2, StageIs, StageNext
      <4> QED BY <4>1, <4>3, AsStays
    <3> QED BY <1>2, <3>1, <3>2, <3>3, <3>4, <3>5, <3>6, <3>7, <3>8, <3>9 DEF Next, Returned
  <2>2. Group = Batch
    BY DEF Group, Batch
  <2> QED BY <2>1, <2>2 DEF Alone!Next
<1> QED BY DecodeInvariant, BudgetsKept, <1>1, <1>2, PTL DEF Spec
=============================================================================
