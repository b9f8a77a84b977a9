------------------------- MODULE TrainingData_proofs -------------------------
(***************************************************************************)
(* Proofs of the properties of TrainingData: WeightsOnTargets of the         *)
(* supervised examples and SampledOnce of the rollouts, for every            *)
(* vocabulary, image length, size of the batch and bound.                   *)
(*                                                                          *)
(* Expand and Length are FlattenSeq of the community modules, a recursive    *)
(* definition over the sequence.  Its unfolding is derived from there being  *)
(* one solution of the recursion (JoinsExist, JoinsAgree, FlattenSolves),    *)
(* and what is needed of it follows by taking a least prefix for which it   *)
(* would be wrong (LeastNatural): the length, a cut, and a concatenation.    *)
(*                                                                          *)
(* SampledOnce then follows from BatchInv, an invariant that relates what a  *)
(* trajectory drew to what its data and the accumulator would train.         *)
(***************************************************************************)
EXTENDS TrainingData, SequenceTheorems, WellFoundedInduction, TLAPS

-----------------------------------------------------------------------------
(* The recursive functions of the module *)

(* A non-empty set of natural numbers has a least one. *)
LEMMA LeastNatural ==
  ASSUME NEW D \in SUBSET Nat, D # {}
  PROVE  \E k \in D : \A j \in D : k <= j
<1> DEFINE R == {p \in Nat \X Nat : p[1] < p[2]}
<1>1. IsWellFoundedOn(R, Nat)
  BY NatLessThanWellFounded DEF OpToRel
<1>2. PICK k \in D : \A j \in D : <<j, k>> \notin R
  <2> HIDE DEF R
  <2> QED BY <1>1, WFMin
<1>3. ASSUME NEW j \in D PROVE k <= j
  <2>1. ~(j < k) /\ j \in Nat /\ k \in Nat
    BY <1>2
  <2> QED BY <2>1
<1> QED BY <1>3

\* The recursion of FlattenSeq over the first n sequences.
Joins(ss, n, g) == [i \in 1 .. n |-> IF i = 1 THEN ss[i] ELSE g[i - 1] \o ss[i]]

(* The recursion of FlattenSeq has a solution. *)
LEMMA JoinsExist ==
  ASSUME NEW ss, NEW n \in Nat
  PROVE  \E g : g = Joins(ss, n, g)
<1> DEFINE Bad == {k \in Nat : ~ \E g : g = Joins(ss, k, g)}
<1> SUFFICES ASSUME Bad # {} PROVE FALSE
  OBVIOUS
<1>1. PICK k \in Bad : \A j \in Bad : k <= j
  BY LeastNatural
<1>2. k # 0
  <2>1. <<>> = [i \in 1 .. 0 |-> IF i = 1 THEN ss[i] ELSE (<<>>)[i - 1] \o ss[i]]
    OBVIOUS
  <2> QED BY <2>1 DEF Joins
<1>3. k - 1 \in Nat /\ k - 1 \notin Bad
  BY <1>1, <1>2
<1>4. PICK g : g = Joins(ss, k - 1, g)
  BY <1>3
<1> DEFINE h == [i \in 1 .. k |-> IF i < k THEN g[i] ELSE IF i = 1 THEN ss[1] ELSE g[i - 1] \o ss[i]]
<1>5. \A i \in 1 .. k : h[i] = IF i = 1 THEN ss[i] ELSE h[i - 1] \o ss[i]
  <2> SUFFICES ASSUME NEW i \in 1 .. k PROVE h[i] = IF i = 1 THEN ss[i] ELSE h[i - 1] \o ss[i]
    OBVIOUS
  <2>1. i < k => i \in 1 .. k - 1
    BY <1>1
  <2>2. i < k => g[i] = IF i = 1 THEN ss[i] ELSE g[i - 1] \o ss[i]
    BY <1>4, <2>1 DEF Joins
  <2>3. i # 1 => i - 1 \in 1 .. k /\ i - 1 < k
    BY <1>1
  <2>4. i # 1 => h[i - 1] = g[i - 1]
    BY <2>3
  <2>5. i < k \/ i = k
    BY <1>1
  <2> QED BY <2>2, <2>4, <2>5
<1>6. h = Joins(ss, k, h)
  <2> HIDE DEF h
  <2>1. h = [i \in 1 .. k |-> h[i]]
    BY DEF h
  <2> QED BY <1>5, <2>1 DEF Joins
<1> HIDE DEF h
<1> QED BY <1>1, <1>6

\* The first n members are the same.
Alike(ss, tt, n) == \A i \in 1 .. n : ss[i] = tt[i]

(* Two solutions agree where both are defined. *)
LEMMA JoinsAgree ==
  ASSUME NEW ss, NEW tt, NEW n \in Nat, NEW m \in Nat, n <= m, NEW g, NEW h,
         Alike(ss, tt, n),
         g = Joins(ss, n, g), h = Joins(tt, m, h), NEW j \in 1 .. n
  PROVE  g[j] = h[j]
<1> DEFINE Bad == {k \in 1 .. n : g[k] # h[k]}
<1> SUFFICES ASSUME Bad # {} PROVE FALSE
  OBVIOUS
<1>0. Bad \in SUBSET Nat
  OBVIOUS
<1>1. PICK k \in Bad : \A i \in Bad : k <= i
  BY <1>0, LeastNatural
<1>2. k \in 1 .. n /\ k \in 1 .. m
  BY <1>1
<1>3. /\ g[k] = IF k = 1 THEN ss[k] ELSE g[k - 1] \o ss[k]
      /\ h[k] = IF k = 1 THEN tt[k] ELSE h[k - 1] \o tt[k]
  BY <1>2 DEF Joins
<1>4. k # 1 => k - 1 \in 1 .. n /\ k - 1 < k
  BY <1>2
<1>5. k # 1 => g[k - 1] = h[k - 1]
  BY <1>1, <1>4
<1>6. ss[k] = tt[k]
  BY <1>2 DEF Alike
<1> QED BY <1>1, <1>3, <1>5, <1>6

(* FlattenSeq takes its value from a solution. *)
LEMMA FlattenSolves ==
  ASSUME NEW S, NEW ss \in Seq(S), ss # <<>>
  PROVE  \E g : g = Joins(ss, Len(ss), g) /\ FlattenSeq(ss) = g[Len(ss)]
<1>1. Len(ss) \in Nat \ {0}
  BY EmptySeq
<1> DEFINE g == CHOOSE g : g = Joins(ss, Len(ss), g)
<1>2. g = Joins(ss, Len(ss), g)
  BY <1>1, JoinsExist
<1>3. FlattenSeq(ss) = g[Len(ss)]
  BY <1>1 DEF FlattenSeq, Joins
<1> QED BY <1>2, <1>3

(* What is flattened is a sequence of the members' members. *)
LEMMA FlattenType ==
  ASSUME NEW S, NEW ss \in Seq(Seq(S))
  PROVE  FlattenSeq(ss) \in Seq(S)
<1>1. CASE ss = <<>>
  <2>1. FlattenSeq(ss) = <<>>
    BY <1>1 DEF FlattenSeq
  <2> QED BY <2>1
<1>2. CASE ss # <<>>
  <2>1. PICK g : g = Joins(ss, Len(ss), g) /\ FlattenSeq(ss) = g[Len(ss)]
    BY <1>2, FlattenSolves
  <2>2. Len(ss) \in Nat \ {0}
    BY <1>2, EmptySeq
  <2> DEFINE Bad == {k \in 1 .. Len(ss) : g[k] \notin Seq(S)}
  <2>3. Bad = {}
    <3> SUFFICES ASSUME Bad # {} PROVE FALSE
      OBVIOUS
    <3>0. Bad \in SUBSET Nat
      OBVIOUS
    <3>1. PICK k \in Bad : \A i \in Bad : k <= i
      BY <3>0, LeastNatural
    <3>2. g[k] = IF k = 1 THEN ss[k] ELSE g[k - 1] \o ss[k]
      BY <2>1, <2>2 DEF Joins
    <3>3. k # 1 => k - 1 \in 1 .. Len(ss) /\ k - 1 < k
      BY <2>2
    <3>4. k # 1 => g[k - 1] \in Seq(S)
      BY <3>1, <3>3
    <3>5. ss[k] \in Seq(S)
      BY ElementOfSeq
    <3>6. k # 1 => g[k - 1] \o ss[k] \in Seq(S)
      BY <3>4, <3>5, ConcatProperties
    <3> QED BY <3>1, <3>2, <3>5, <3>6
  <2>4. Len(ss) \in 1 .. Len(ss)
    BY <2>2
  <2> QED BY <2>1, <2>3, <2>4
<1> QED BY <1>1, <1>2

(* One more sequence goes to the end. *)
LEMMA FlattenAppend ==
  ASSUME NEW S, NEW ss \in Seq(Seq(S)), NEW s \in Seq(S)
  PROVE  FlattenSeq(Append(ss, s)) = FlattenSeq(ss) \o s
<1> DEFINE tt == Append(ss, s)
           n == Len(ss)
<1>1. /\ tt \in Seq(Seq(S)) /\ tt # <<>> /\ Len(tt) = n + 1 /\ n \in Nat
      /\ \A i \in 1 .. n : ss[i] = tt[i]
      /\ tt[n + 1] = s
  BY AppendProperties, LenProperties
<1> HIDE DEF tt
<1>2. PICK h : h = Joins(tt, n + 1, h) /\ FlattenSeq(tt) = h[n + 1]
  BY <1>1, FlattenSolves
<1>3. h[n + 1] = IF n + 1 = 1 THEN tt[n + 1] ELSE h[n] \o tt[n + 1]
  <2>1. n + 1 \in 1 .. n + 1 /\ (n + 1) - 1 = n
    BY <1>1
  <2> QED BY <1>2, <2>1 DEF Joins
<1>4. CASE ss = <<>>
  <2>1. n = 0 /\ FlattenSeq(ss) = <<>>
    BY <1>4 DEF FlattenSeq
  <2>2. FlattenSeq(tt) = s
    BY <1>1, <1>2, <1>3, <2>1
  <2>3. <<>> \o s = s
    BY ConcatEmptySeq
  <2> QED BY <2>1, <2>2, <2>3 DEF tt
<1>5. CASE ss # <<>>
  <2>1. PICK g : g = Joins(ss, n, g) /\ FlattenSeq(ss) = g[n]
    BY <1>5, FlattenSolves
  <2>2. n # 0 /\ n \in 1 .. n /\ n + 1 \in Nat /\ n <= n + 1
    BY <1>5, <1>1, EmptySeq
  <2>3. g[n] = h[n]
    <3> HIDE DEF n
    <3>1. n \in Nat /\ n + 1 \in Nat /\ Alike(ss, tt, n)
      BY <1>1 DEF Alike
    <3>2. g = Joins(ss, n, g) /\ h = Joins(tt, n + 1, h)
      BY <1>2, <2>1
    <3> QED BY <2>2, <3>1, <3>2, JoinsAgree
  <2>4. n + 1 # 1
    BY <1>1, <2>2
  <2> QED BY <1>1, <1>2, <1>3, <2>1, <2>3, <2>4 DEF tt
<1> QED BY <1>4, <1>5

-----------------------------------------------------------------------------
(* The tokens of a sequence of elements *)

\* Expand, of the values of a function.
Spread(s, f) == FlattenSeq([i \in DOMAIN s |-> Times(Width(s[i]), f[s[i]])])

\* A token or an image stands for itself, and Pad for an image.
Itself == [e \in Elements |-> e]
Padded == [e \in Elements |-> IF e \in Images THEN Pad ELSE e]
Symbols == Elements \cup {Pad}

(* What an element stands for is a sequence of its width, which is not empty. *)
LEMMA TimesProperties ==
  ASSUME NEW S, NEW n \in Nat, NEW v \in S
  PROVE  /\ Times(n, v) \in Seq(S) /\ Len(Times(n, v)) = n
         /\ \A i \in 1 .. n : Times(n, v)[i] = v
<1>1. Times(n, v) \in [1 .. n -> S]
  BY DEF Times
<1>2. Times(n, v) \in Seq(S)
  BY <1>1, SeqDef
<1> QED BY <1>2 DEF Times

(* An element stands for one token at least. *)
LEMMA WidthType ==
  ASSUME NEW e
  PROVE  Width(e) \in Nat \ {0} /\ (e \in Tokens => Width(e) = 1)
<1>1. ImageLength \in Nat \ {0} /\ Tokens \cap Images = {}
  BY DataAssumption
<1> QED BY <1>1 DEF Width

(* The empty sequence has no tokens. *)
LEMMA SpreadEmpty ==
  ASSUME NEW f
  PROVE  Spread(<<>>, f) = <<>>
<1>1. [i \in DOMAIN <<>> |-> Times(Width(<<>>[i]), f[<<>>[i]])] = <<>>
  OBVIOUS
<1> QED BY <1>1 DEF Spread, FlattenSeq

(* One more element adds what it stands for. *)
LEMMA SpreadStep ==
  ASSUME NEW T, NEW f \in [Elements -> T], NEW s \in Seq(Elements), NEW e \in Elements
  PROVE  Spread(Append(s, e), f) = Spread(s, f) \o Times(Width(e), f[e])
<1> DEFINE G(u) == [i \in DOMAIN u |-> Times(Width(u[i]), f[u[i]])]
           n == Len(s)
<1>2. /\ n \in Nat /\ DOMAIN s = 1 .. n
      /\ Append(s, e) \in Seq(Elements) /\ DOMAIN Append(s, e) = 1 .. n + 1
      /\ \A i \in 1 .. n : s[i] \in Elements /\ Append(s, e)[i] = s[i]
      /\ Append(s, e)[n + 1] = e
  BY LenProperties, AppendProperties, ElementOfSeq
<1>3. \A d \in Elements : Times(Width(d), f[d]) \in Seq(T)
  <2> TAKE d \in Elements
  <2>1. Width(d) \in Nat /\ f[d] \in T
    BY WidthType
  <2> QED BY <2>1, TimesProperties
<1>4. G(s) \in Seq(Seq(T)) /\ Len(G(s)) = n
  <2>1. G(s) \in [1 .. n -> Seq(T)]
    BY <1>2, <1>3
  <2>2. G(s) \in Seq(Seq(T))
    BY <1>2, <2>1, SeqDef
  <2> QED BY <1>2, <2>1, <2>2
<1> DEFINE w == Times(Width(e), f[e])
<1>5. G(Append(s, e)) = Append(G(s), w)
  <2>0. w \in Seq(T)
    BY <1>3
  <2>1. /\ Append(G(s), w) \in Seq(Seq(T)) /\ Len(Append(G(s), w)) = n + 1
        /\ \A i \in 1 .. n : Append(G(s), w)[i] = G(s)[i]
        /\ Append(G(s), w)[n + 1] = w
    BY <1>4, <2>0, AppendProperties
  <2>2. G(Append(s, e)) \in Seq(Seq(T)) /\ Len(G(Append(s, e))) = n + 1
    <3>1. \A i \in 1 .. n + 1 : Append(s, e)[i] \in Elements
      BY <1>2
    <3>2. G(Append(s, e)) \in [1 .. n + 1 -> Seq(T)] /\ n + 1 \in Nat
      BY <1>2, <1>3, <3>1
    <3>3. G(Append(s, e)) \in Seq(Seq(T))
      BY <3>2, SeqDef
    <3> QED BY <3>2, <3>3
  <2>3. ASSUME NEW i \in 1 .. n + 1 PROVE G(Append(s, e))[i] = Append(G(s), w)[i]
    <3>1. i \in 1 .. n \/ i = n + 1
      BY <1>2
    <3>2. G(Append(s, e))[i] = Times(Width(Append(s, e)[i]), f[Append(s, e)[i]])
      BY <1>2
    <3>3. i \in 1 .. n => G(s)[i] = Times(Width(s[i]), f[s[i]])
      BY <1>2
    <3> HIDE DEF G
    <3> QED BY <1>2, <2>1, <3>1, <3>2, <3>3 DEF w
  <2> HIDE DEF G, w
  <2> QED BY <2>1, <2>2, <2>3, SeqEqual
<1>6. FlattenSeq(Append(G(s), w)) = FlattenSeq(G(s)) \o w
  <2>1. w \in Seq(T)
    BY <1>3
  <2> HIDE DEF G, w
  <2> QED BY <1>4, <2>1, FlattenAppend
<1> QED BY <1>5, <1>6 DEF Spread

(* The tokens are as many as the elements at least. *)
LEMMA SpreadType ==
  ASSUME NEW T, NEW f \in [Elements -> T], NEW s \in Seq(Elements)
  PROVE  Spread(s, f) \in Seq(T) /\ Len(Spread(s, f)) = Length(s) /\ Length(s) \in Nat /\ Len(s) <= Length(s)
<1> DEFINE Bad == {k \in Nat : \E t \in Seq(Elements) : Len(t) = k /\
                     ~ (/\ Spread(t, f) \in Seq(T) /\ Spread(t, Itself) \in Seq(Elements)
                        /\ Len(Spread(t, f)) = Len(Spread(t, Itself)) /\ k <= Len(Spread(t, f)))}
<1>0. Itself \in [Elements -> Elements]
  BY DEF Itself
<1>1. Bad = {}
  <2> SUFFICES ASSUME Bad # {} PROVE FALSE
    OBVIOUS
  <2>1. PICK k \in Bad : \A j \in Bad : k <= j
    BY LeastNatural
  <2>2. PICK t \in Seq(Elements) : Len(t) = k /\
                     ~ (/\ Spread(t, f) \in Seq(T) /\ Spread(t, Itself) \in Seq(Elements)
                        /\ Len(Spread(t, f)) = Len(Spread(t, Itself)) /\ k <= Len(Spread(t, f)))
    BY <2>1
  <2>3. t # <<>>
    <3> SUFFICES ASSUME t = <<>> PROVE FALSE
      OBVIOUS
    <3>1. <<>> \in Seq(Elements) /\ <<>> \in Seq(T) /\ Len(<<>>) = 0 /\ k = 0
      BY <2>2
    <3> QED BY <2>2, <3>1, SpreadEmpty
  <2>4. PICK u \in Seq(Elements), e \in Elements : t = Append(u, e)
    BY <2>3, SequenceEmptyOrAppend
  <2>5. Len(u) \in Nat /\ k = Len(u) + 1 /\ k - 1 \in Nat /\ k - 1 < k /\ Len(u) = k - 1
    BY <2>2, <2>4, AppendProperties, LenProperties
  <2>6. k - 1 \notin Bad
    <3> SUFFICES ASSUME k - 1 \in Bad PROVE FALSE
      OBVIOUS
    <3> HIDE DEF Bad
    <3>1. k <= k - 1
      BY <2>1
    <3> QED BY <2>5, <3>1
  <2>7. /\ Spread(u, f) \in Seq(T) /\ Spread(u, Itself) \in Seq(Elements)
        /\ Len(Spread(u, f)) = Len(Spread(u, Itself)) /\ k - 1 <= Len(Spread(u, f))
    BY <2>5, <2>6
  <2>8. /\ Spread(t, f) = Spread(u, f) \o Times(Width(e), f[e])
        /\ Spread(t, Itself) = Spread(u, Itself) \o Times(Width(e), Itself[e])
    BY <1>0, <2>4, SpreadStep
  <2>9. Width(e) \in Nat \ {0} /\ f[e] \in T /\ Itself[e] \in Elements
    BY <1>0, WidthType
  <2>10. /\ Times(Width(e), f[e]) \in Seq(T) /\ Len(Times(Width(e), f[e])) = Width(e)
         /\ Times(Width(e), Itself[e]) \in Seq(Elements) /\ Len(Times(Width(e), Itself[e])) = Width(e)
    BY <2>9, TimesProperties
  <2>11. /\ Spread(t, f) \in Seq(T) /\ Spread(t, Itself) \in Seq(Elements)
         /\ Len(Spread(t, f)) = Len(Spread(u, f)) + Width(e)
         /\ Len(Spread(t, Itself)) = Len(Spread(u, Itself)) + Width(e)
    BY <2>7, <2>8, <2>10, ConcatProperties
  <2>12. \A a, w \in Nat : w # 0 /\ k - 1 <= a => k <= a + w
    BY <2>5
  <2>13. Len(Spread(u, f)) \in Nat
    BY <2>7, LenProperties
  <2> QED BY <2>2, <2>7, <2>9, <2>11, <2>12, <2>13
<1>2. Len(s) \in Nat /\ Len(s) \notin Bad
  BY <1>1, LenProperties
<1>3. /\ Spread(s, f) \in Seq(T) /\ Spread(s, Itself) \in Seq(Elements)
      /\ Len(Spread(s, f)) = Len(Spread(s, Itself)) /\ Len(s) <= Len(Spread(s, f))
  BY <1>2
<1>4. Length(s) = Len(Spread(s, Itself))
  <2>1. \A i \in DOMAIN s : s[i] = Itself[s[i]]
    BY ElementOfSeq, LenProperties DEF Itself
  <2>2. [i \in DOMAIN s |-> Times(Width(s[i]), s[i])] = [i \in DOMAIN s |-> Times(Width(s[i]), Itself[s[i]])]
    BY <2>1
  <2> QED BY <2>2 DEF Length, Expand, Spread
<1> HIDE DEF Bad
<1> QED BY <1>3, <1>4, LenProperties

(* The expansions of the module, as the spreading of a function. *)
LEMMA ExpandIsSpread ==
  ASSUME NEW s \in Seq(Elements)
  PROVE  /\ Expand(s, Same) = Spread(s, Itself)
         /\ Expand(s, LAMBDA e : IF e \in Images THEN Pad ELSE e) = Spread(s, Padded)
<1>1. \A i \in DOMAIN s : s[i] \in Elements
  BY ElementOfSeq, LenProperties
<1>2. [i \in DOMAIN s |-> Times(Width(s[i]), s[i])] = [i \in DOMAIN s |-> Times(Width(s[i]), Itself[s[i]])]
  BY <1>1 DEF Itself
<1>3. [i \in DOMAIN s |-> Times(Width(s[i]), IF s[i] \in Images THEN Pad ELSE s[i])]
        = [i \in DOMAIN s |-> Times(Width(s[i]), Padded[s[i]])]
  BY <1>1 DEF Padded
<1> QED BY <1>2, <1>3 DEF Expand, Spread, Same

(* What a cut keeps, and what it gives up. *)
LEMMA CutProperties ==
  ASSUME NEW S, NEW s \in Seq(S), NEW n \in 0 .. Len(s)
  PROVE  /\ SubSeq(s, 1, n) \in Seq(S) /\ Len(SubSeq(s, 1, n)) = n
         /\ \A i \in 1 .. n : SubSeq(s, 1, n)[i] = s[i]
         /\ SubSeq(s, n + 1, Len(s)) \in Seq(S) /\ Len(SubSeq(s, n + 1, Len(s))) = Len(s) - n
         /\ \A i \in 1 .. Len(s) - n : SubSeq(s, n + 1, Len(s))[i] = s[n + i]
         /\ s = SubSeq(s, 1, n) \o SubSeq(s, n + 1, Len(s))
<1>1. Len(s) \in Nat /\ \A i \in 1 .. Len(s) : s[i] \in S
  BY LenProperties, ElementOfSeq
<1>2. \A i \in 1 .. n : s[i] \in S
  BY <1>1
<1>3. /\ SubSeq(s, 1, n) \in Seq(S)
      /\ Len(SubSeq(s, 1, n)) = IF 1 <= n THEN n - 1 + 1 ELSE 0
      /\ \A i \in 1 .. n - 1 + 1 : SubSeq(s, 1, n)[i] = s[1 + i - 1]
  BY <1>1, <1>2, SubSeqProperties
<1>4. \A i \in n + 1 .. Len(s) : s[i] \in S
  BY <1>1
<1>5. /\ SubSeq(s, n + 1, Len(s)) \in Seq(S)
      /\ Len(SubSeq(s, n + 1, Len(s))) = IF n + 1 <= Len(s) THEN Len(s) - (n + 1) + 1 ELSE 0
      /\ \A i \in 1 .. Len(s) - (n + 1) + 1 : SubSeq(s, n + 1, Len(s))[i] = s[n + 1 + i - 1]
  BY <1>1, <1>4, SubSeqProperties
<1>6. SubSeq(s, 1, n) \o SubSeq(s, n + 1, Len(s)) = SubSeq(s, 1, Len(s))
  <2>1. 1 \in 1 .. Len(s) + 1 /\ n \in 1 - 1 .. Len(s) /\ Len(s) \in n .. Len(s)
    BY <1>1
  <2> QED BY <2>1, ConcatAdjacentSubSeq
<1>7. SubSeq(s, 1, Len(s)) = s
  BY SubSeqFull
<1>8. \A i \in 1 .. n : i \in 1 .. n - 1 + 1 /\ 1 + i - 1 = i
  OBVIOUS
<1>9. \A i \in 1 .. Len(s) - n : i \in 1 .. Len(s) - (n + 1) + 1 /\ n + 1 + i - 1 = n + i
  BY <1>1
<1>10. Len(SubSeq(s, 1, n)) = n /\ Len(SubSeq(s, n + 1, Len(s))) = Len(s) - n
  BY <1>1, <1>3, <1>5
<1> QED BY <1>3, <1>5, <1>6, <1>7, <1>8, <1>9, <1>10

(* A cut of a cut. *)
LEMMA CutOfCut ==
  ASSUME NEW S, NEW s \in Seq(S), NEW n \in 0 .. Len(s), NEW m \in 0 .. n
  PROVE  SubSeq(SubSeq(s, 1, n), 1, m) = SubSeq(s, 1, m)
<1>1. Len(s) \in Nat /\ m \in 0 .. Len(s)
  BY LenProperties
<1>2. /\ SubSeq(s, 1, n) \in Seq(S) /\ Len(SubSeq(s, 1, n)) = n
      /\ \A i \in 1 .. n : SubSeq(s, 1, n)[i] = s[i]
  BY CutProperties
<1>3. /\ SubSeq(s, 1, m) \in Seq(S) /\ Len(SubSeq(s, 1, m)) = m
      /\ \A i \in 1 .. m : SubSeq(s, 1, m)[i] = s[i]
  BY <1>1, CutProperties
<1> DEFINE u == SubSeq(s, 1, n)
<1>4. /\ SubSeq(u, 1, m) \in Seq(S) /\ Len(SubSeq(u, 1, m)) = m
      /\ \A i \in 1 .. m : SubSeq(u, 1, m)[i] = u[i]
  <2>1. m \in 0 .. Len(u) /\ u \in Seq(S)
    BY <1>2
  <2> HIDE DEF u
  <2> QED BY <2>1, CutProperties
<1>5. \A i \in 1 .. m : SubSeq(u, 1, m)[i] = SubSeq(s, 1, m)[i]
  <2>1. \A i \in 1 .. m : i \in 1 .. n
    OBVIOUS
  <2> QED BY <1>2, <1>3, <1>4, <2>1
<1> HIDE DEF u
<1>6. SubSeq(u, 1, m) = SubSeq(s, 1, m)
  BY <1>3, <1>4, <1>5, SeqEqual
<1> QED BY <1>6 DEF u

(* What comes first in a concatenation. *)
LEMMA CutOfConcat ==
  ASSUME NEW S, NEW s \in Seq(S), NEW t \in Seq(S), NEW n \in 0 .. Len(s)
  PROVE  SubSeq(s \o t, 1, n) = SubSeq(s, 1, n)
<1>1. Len(s) \in Nat /\ Len(t) \in Nat
  BY LenProperties
<1>2. CASE n = 0
  <2>1. SubSeq(s \o t, 1, 0) = <<>> /\ SubSeq(s, 1, 0) = <<>>
    BY SubSeqEmpty
  <2> QED BY <1>2, <2>1
<1>3. CASE n # 0
  <2>1. 1 \in 1 .. Len(s) /\ n \in 1 .. Len(s)
    BY <1>1, <1>3
  <2> QED BY <2>1, SubSeqOfConcat1
<1> QED BY <1>2, <1>3

(* Three sequences are joined in either order. *)
LEMMA JoinedEitherWay ==
  ASSUME NEW S, NEW a \in Seq(S), NEW b \in Seq(S), NEW c \in Seq(S)
  PROVE  (a \o b) \o c = a \o (b \o c)
BY ConcatAssociative

(* The tokens of a concatenation. *)
LEMMA SpreadConcat ==
  ASSUME NEW T, NEW f \in [Elements -> T], NEW s \in Seq(Elements), NEW t \in Seq(Elements)
  PROVE  Spread(s \o t, f) = Spread(s, f) \o Spread(t, f) /\ Length(s \o t) = Length(s) + Length(t)
<1> DEFINE Bad == {k \in Nat : \E u \in Seq(Elements) :
                     Len(u) = k /\ Spread(s \o u, f) # Spread(s, f) \o Spread(u, f)}
<1>1. Bad = {}
  <2> SUFFICES ASSUME Bad # {} PROVE FALSE
    OBVIOUS
  <2>1. PICK k \in Bad : \A j \in Bad : k <= j
    BY LeastNatural
  <2>2. PICK u \in Seq(Elements) : Len(u) = k /\ Spread(s \o u, f) # Spread(s, f) \o Spread(u, f)
    BY <2>1
  <2>3. u # <<>>
    <3> SUFFICES ASSUME u = <<>> PROVE FALSE
      OBVIOUS
    <3>1. s \o <<>> = s /\ Spread(<<>>, f) = <<>>
      BY ConcatEmptySeq, SpreadEmpty
    <3>2. Spread(s, f) \o <<>> = Spread(s, f)
      BY SpreadType, ConcatEmptySeq
    <3> QED BY <2>2, <3>1, <3>2
  <2>4. PICK v \in Seq(Elements), e \in Elements : u = Append(v, e)
    BY <2>3, SequenceEmptyOrAppend
  <2>5. Len(v) \in Nat /\ k = Len(v) + 1 /\ Len(v) < k
    BY <2>2, <2>4, AppendProperties, LenProperties
  <2>6. Spread(s \o v, f) = Spread(s, f) \o Spread(v, f)
    <3>1. Len(v) \notin Bad
      <4> HIDE DEF Bad
      <4> QED BY <2>1, <2>5
    <3> QED BY <2>5, <3>1
  <2>7. s \o u = Append(s \o v, e) /\ s \o v \in Seq(Elements)
    <3>1. u = v \o <<e>> /\ <<e>> \in Seq(Elements) /\ s \o v \in Seq(Elements)
      BY <2>4, AppendIsConcat, ConcatProperties
    <3>2. s \o (v \o <<e>>) = (s \o v) \o <<e>>
      <4> HIDE DEF Bad
      <4> QED BY <3>1, JoinedEitherWay
    <3>3. (s \o v) \o <<e>> = Append(s \o v, e)
      BY <3>1, AppendIsConcat
    <3> QED BY <3>1, <3>2, <3>3
  <2> DEFINE w == Times(Width(e), f[e])
  <2>8. w \in Seq(T)
    <3>1. Width(e) \in Nat /\ f[e] \in T
      BY WidthType
    <3> QED BY <3>1, TimesProperties
  <2>9. Spread(s \o u, f) = Spread(s \o v, f) \o w /\ Spread(u, f) = Spread(v, f) \o w
    BY <2>4, <2>7, SpreadStep
  <2>10. Spread(s, f) \in Seq(T) /\ Spread(v, f) \in Seq(T)
    BY SpreadType
  <2>11. (Spread(s, f) \o Spread(v, f)) \o w = Spread(s, f) \o (Spread(v, f) \o w)
    <3> DEFINE a == Spread(s, f)
               b == Spread(v, f)
    <3> HIDE DEF w, a, b, Bad
    <3>1. a \in Seq(T) /\ b \in Seq(T) /\ w \in Seq(T)
      BY <2>8, <2>10 DEF a, b
    <3>2. (a \o b) \o w = a \o (b \o w)
      BY <3>1, JoinedEitherWay
    <3> QED BY <3>2 DEF a, b
  <2> HIDE DEF w
  <2> QED BY <2>2, <2>6, <2>9, <2>11
<1>2. Spread(s \o t, f) = Spread(s, f) \o Spread(t, f)
  <2>1. Len(t) \in Nat /\ Len(t) \notin Bad
    BY <1>1, LenProperties
  <2> QED BY <2>1
<1> HIDE DEF Bad
<1>3. /\ Spread(s, f) \in Seq(T) /\ Len(Spread(s, f)) = Length(s)
      /\ Spread(t, f) \in Seq(T) /\ Len(Spread(t, f)) = Length(t)
  BY SpreadType
<1>4. Len(Spread(s \o t, f)) = Length(s) + Length(t)
  BY <1>2, <1>3, ConcatProperties
<1>5. s \o t \in Seq(Elements)
  BY ConcatProperties
<1>6. Len(Spread(s \o t, f)) = Length(s \o t)
  BY <1>5, SpreadType
<1> QED BY <1>2, <1>4, <1>6

(* Text has a token per element. *)
LEMMA SpreadText ==
  ASSUME NEW T, NEW f \in [Elements -> T], NEW s \in Seq(Tokens)
  PROVE  /\ s \in Seq(Elements) /\ Length(s) = Len(s) /\ Len(Spread(s, f)) = Len(s)
         /\ \A i \in 1 .. Len(s) : Spread(s, f)[i] = f[s[i]]
<1> DEFINE OK(u) == Len(Spread(u, f)) = Len(u) /\ \A i \in 1 .. Len(u) : Spread(u, f)[i] = f[u[i]]
           Bad == {k \in Nat : \E u \in Seq(Tokens) : Len(u) = k /\ ~OK(u)}
<1>0. \A u \in Seq(Tokens) : u \in Seq(Elements)
  <2>1. Tokens \subseteq Elements
    BY DEF Elements
  <2> QED BY <2>1, SeqMonotonic
<1>1. Bad = {}
  <2> SUFFICES ASSUME Bad # {} PROVE FALSE
    OBVIOUS
  <2>1. PICK k \in Bad : \A j \in Bad : k <= j
    BY LeastNatural
  <2>2. PICK u \in Seq(Tokens) : Len(u) = k /\ ~OK(u)
    BY <2>1
  <2>3. u # <<>>
    BY <2>2, SpreadEmpty
  <2>4. PICK v \in Seq(Tokens), e \in Tokens : u = Append(v, e)
    BY <2>3, SequenceEmptyOrAppend
  <2>5. /\ Len(v) \in Nat /\ k = Len(v) + 1 /\ Len(v) < k /\ Len(u) = Len(v) + 1
        /\ \A i \in 1 .. Len(v) : u[i] = v[i]
        /\ u[Len(v) + 1] = e
    BY <2>2, <2>4, AppendProperties, LenProperties
  <2>6. OK(v)
    <3>1. Len(v) \notin Bad
      <4> HIDE DEF Bad
      <4> QED BY <2>1, <2>5
    <3> QED BY <2>5, <3>1
  <2>7. v \in Seq(Elements) /\ e \in Elements /\ f[e] \in T /\ Width(e) = 1
    BY <1>0, WidthType DEF Elements
  <2>8. Spread(u, f) = Spread(v, f) \o Times(1, f[e])
    BY <2>4, <2>7, SpreadStep
  <2>9. Times(1, f[e]) \in Seq(T) /\ Len(Times(1, f[e])) = 1 /\ Times(1, f[e])[1] = f[e]
    <3>1. Times(1, f[e])[1] = f[e]
      BY DEF Times
    <3>2. Times(1, f[e]) \in Seq(T) /\ Len(Times(1, f[e])) = 1
      BY <2>7, TimesProperties
    <3> QED BY <3>1, <3>2
  <2>10. Spread(v, f) \in Seq(T)
    BY <2>7, SpreadType
  <2>11. /\ Len(Spread(u, f)) = Len(Spread(v, f)) + 1
         /\ \A i \in 1 .. Len(Spread(v, f)) + 1 : Spread(u, f)[i] =
               IF i <= Len(Spread(v, f)) THEN Spread(v, f)[i] ELSE Times(1, f[e])[i - Len(Spread(v, f))]
    <3>1. \A a, b \in Seq(T) :
            /\ Len(a \o b) = Len(a) + Len(b)
            /\ \A i \in 1 .. Len(a) + Len(b) : (a \o b)[i] = IF i <= Len(a) THEN a[i] ELSE b[i - Len(a)]
      BY ConcatProperties
    <3> DEFINE a == Spread(v, f)
               b == Times(1, f[e])
    <3>2. a \in Seq(T) /\ b \in Seq(T) /\ Len(b) = 1 /\ Spread(u, f) = a \o b
      BY <2>8, <2>9, <2>10
    <3> HIDE DEF a, b
    <3>3. /\ Len(a \o b) = Len(a) + Len(b)
          /\ \A i \in 1 .. Len(a) + Len(b) : (a \o b)[i] = IF i <= Len(a) THEN a[i] ELSE b[i - Len(a)]
      BY <3>1, <3>2
    <3>4. /\ Len(Spread(u, f)) = Len(a) + 1
          /\ \A i \in 1 .. Len(a) + 1 : Spread(u, f)[i] = IF i <= Len(a) THEN a[i] ELSE b[i - Len(a)]
      BY <3>2, <3>3
    <3> QED BY <3>4 DEF a, b
  <2>12. ASSUME NEW i \in 1 .. Len(u) PROVE Spread(u, f)[i] = f[u[i]]
    <3>1. CASE i <= Len(v)
      <4>1. i \in 1 .. Len(v)
        BY <3>1, <2>5
      <4>2. Spread(u, f)[i] = Spread(v, f)[i]
        BY <2>5, <2>6, <2>11, <3>1
      <4>3. Spread(v, f)[i] = f[v[i]] /\ u[i] = v[i]
        BY <2>5, <2>6, <4>1
      <4> HIDE DEF OK
      <4> QED BY <4>2, <4>3
    <3>2. CASE i = Len(v) + 1
      <4>1. ~(i <= Len(v)) /\ i - Len(v) = 1 /\ i \in 1 .. Len(v) + 1
        BY <3>2, <2>5
      <4>2. Len(Spread(v, f)) = Len(v)
        BY <2>6
      <4>3. Spread(u, f)[i] = Times(1, f[e])[1]
        BY <2>11, <4>1, <4>2
      <4> HIDE DEF OK
      <4> QED BY <2>5, <2>9, <3>2, <4>3
    <3> QED BY <2>5, <3>1, <3>2
  <2>13. Len(Spread(u, f)) = Len(u)
    BY <2>5, <2>6, <2>11
  <2> QED BY <2>2, <2>12, <2>13
<1>2. OK(s)
  <2>1. Len(s) \in Nat /\ Len(s) \notin Bad
    BY <1>1, LenProperties
  <2> QED BY <2>1
<1>3. Len(Spread(s, f)) = Length(s)
  BY <1>0, SpreadType
<1> QED BY <1>0, <1>2, <1>3

(* The tokens of a prefix come first. *)
LEMMA SpreadCut ==
  ASSUME NEW T, NEW f \in [Elements -> T], NEW s \in Seq(Elements), NEW n \in 0 .. Len(s)
  PROVE  /\ SubSeq(s, 1, n) \in Seq(Elements)
         /\ Length(SubSeq(s, 1, n)) \in Nat /\ Length(s) \in Nat
         /\ Length(SubSeq(s, 1, n)) <= Length(s)
         /\ \A p \in 1 .. Length(SubSeq(s, 1, n)) : Spread(SubSeq(s, 1, n), f)[p] = Spread(s, f)[p]
         /\ \A p \in 0 .. Length(SubSeq(s, 1, n)) :
              SubSeq(Spread(SubSeq(s, 1, n), f), 1, p) = SubSeq(Spread(s, f), 1, p)
<1> DEFINE u == SubSeq(s, 1, n)
           v == SubSeq(s, n + 1, Len(s))
<1>1. u \in Seq(Elements) /\ v \in Seq(Elements) /\ s = u \o v
  BY CutProperties
<1> HIDE DEF u, v
<1>2. Spread(s, f) = Spread(u, f) \o Spread(v, f) /\ Length(s) = Length(u) + Length(v)
  BY <1>1, SpreadConcat
<1>3. /\ Spread(u, f) \in Seq(T) /\ Len(Spread(u, f)) = Length(u) /\ Length(u) \in Nat
      /\ Spread(v, f) \in Seq(T) /\ Len(Spread(v, f)) = Length(v) /\ Length(v) \in Nat
  BY <1>1, SpreadType
<1>4. \A p \in 1 .. Length(u) : Spread(u, f)[p] = Spread(s, f)[p]
  <2> TAKE p \in 1 .. Length(u)
  <2>1. p \in 1 .. Len(Spread(u, f)) + Len(Spread(v, f)) /\ p <= Len(Spread(u, f))
    BY <1>3
  <2> QED BY <1>2, <1>3, <2>1, ConcatProperties
<1>5. \A p \in 0 .. Length(u) : SubSeq(Spread(u, f), 1, p) = SubSeq(Spread(s, f), 1, p)
  BY <1>2, <1>3, CutOfConcat
<1>6. Length(s) \in Nat /\ Length(u) <= Length(s)
  BY <1>2, <1>3
<1> QED BY <1>1, <1>3, <1>4, <1>5, <1>6 DEF u

(* A sequence that ends with text loses one token with its last element. *)
LEMMA SpreadFront ==
  ASSUME NEW s \in Seq(Elements), s # <<>>, Last(s) \in Tokens
  PROVE  /\ Front(s) \in Seq(Elements) /\ Front(s) = SubSeq(s, 1, Len(s) - 1)
         /\ Length(Front(s)) \in Nat /\ Length(s) = Length(Front(s)) + 1
<1>1. Len(s) \in Nat \ {0} /\ Len(s) - 1 \in 0 .. Len(s)
  BY EmptySeq
<1>2. PICK u \in Seq(Elements), e \in Elements : s = Append(u, e)
  BY SequenceEmptyOrAppend
<1>3. Len(s) = Len(u) + 1 /\ s[Len(u) + 1] = e /\ Len(u) \in Nat
  BY <1>2, AppendProperties, LenProperties
<1>4. e \in Tokens /\ Width(e) = 1
  BY <1>3, WidthType DEF Last
<1>5. Front(s) = u
  <2>1. Len(s) - 1 = Len(u)
    BY <1>3
  <2>2. s = u \o <<e>> /\ <<e>> \in Seq(Elements)
    BY <1>2, AppendIsConcat
  <2>3. Len(u) \in 0 .. Len(u)
    BY <1>3
  <2>4. SubSeq(u \o <<e>>, 1, Len(u)) = SubSeq(u, 1, Len(u))
    BY <2>2, <2>3, CutOfConcat
  <2>5. SubSeq(u, 1, Len(u)) = u
    BY SubSeqFull
  <2> QED BY <2>1, <2>2, <2>4, <2>5 DEF Front
<1>6. Itself \in [Elements -> Elements] /\ Itself[e] \in Elements
  BY DEF Itself
<1>7. Spread(s, Itself) = Spread(u, Itself) \o Times(1, Itself[e])
  BY <1>2, <1>4, <1>6, SpreadStep
<1>8. Spread(u, Itself) \in Seq(Elements) /\ Len(Spread(u, Itself)) = Length(u) /\ Length(u) \in Nat
  BY <1>6, SpreadType
<1>9. Times(1, Itself[e]) \in Seq(Elements) /\ Len(Times(1, Itself[e])) = 1
  BY <1>6, TimesProperties
<1>10. Len(Spread(s, Itself)) = Length(u) + 1
  <2>1. \A a, b \in Seq(Elements) : Len(a \o b) = Len(a) + Len(b)
    BY ConcatProperties
  <2> QED BY <1>7, <1>8, <1>9, <2>1
<1>11. Len(Spread(s, Itself)) = Length(s)
  BY <1>6, SpreadType
<1> QED BY <1>1, <1>5, <1>8, <1>10, <1>11 DEF Front

-----------------------------------------------------------------------------
(* Where an example is cut *)

\* The recursion of CutTo and of WithoutTrailingImages, for the positions in K.
Lasts(N, K, g) == [n \in 0 .. N |-> IF n = 0 \/ n \in K THEN n ELSE g[n - 1]]

(* The recursion has a solution: the last position in K. *)
LEMMA LastsExist ==
  ASSUME NEW N \in Nat, NEW K
  PROVE  \E g : g = Lasts(N, K, g)
<1> DEFINE Bad == {k \in Nat : ~ \E g : g = Lasts(k, K, g)}
<1> SUFFICES ASSUME Bad # {} PROVE FALSE
  OBVIOUS
<1>1. PICK k \in Bad : \A j \in Bad : k <= j
  BY LeastNatural
<1>2. k # 0
  <2> DEFINE g == [n \in 0 .. 0 |-> n]
  <2>1. g = Lasts(0, K, g)
    BY DEF Lasts
  <2> QED BY <1>1, <2>1
<1>3. k - 1 \in Nat /\ k - 1 \notin Bad
  BY <1>1, <1>2
<1>4. PICK g : g = Lasts(k - 1, K, g)
  BY <1>3
<1> DEFINE h == [i \in 0 .. k |-> IF i < k THEN g[i] ELSE IF i \in K THEN i ELSE g[i - 1]]
<1>5. \A i \in 0 .. k : h[i] = IF i = 0 \/ i \in K THEN i ELSE h[i - 1]
  <2> SUFFICES ASSUME NEW i \in 0 .. k PROVE h[i] = IF i = 0 \/ i \in K THEN i ELSE h[i - 1]
    OBVIOUS
  <2>1. i < k => i \in 0 .. k - 1
    BY <1>1
  <2>2. i < k => g[i] = IF i = 0 \/ i \in K THEN i ELSE g[i - 1]
    BY <1>4, <2>1 DEF Lasts
  <2>3. i # 0 => i - 1 \in 0 .. k /\ i - 1 < k
    BY <1>1
  <2>4. i # 0 => h[i - 1] = g[i - 1]
    BY <2>3
  <2>5. i < k \/ i = k
    BY <1>1
  <2> QED BY <1>2, <2>2, <2>4, <2>5
<1>6. h = Lasts(k, K, h)
  <2> HIDE DEF h
  <2>1. h = [i \in 0 .. k |-> h[i]]
    BY DEF h
  <2> QED BY <1>5, <2>1 DEF Lasts
<1> HIDE DEF h
<1> QED BY <1>1, <1>6

(* What a solution gives is the last position in K, or 0 if there is none. *)
LEMMA LastsProperties ==
  ASSUME NEW N \in Nat, NEW K, NEW g, g = Lasts(N, K, g), NEW m \in 0 .. N
  PROVE  /\ g[m] \in 0 .. m /\ (g[m] # 0 => g[m] \in K)
         /\ \A k \in 1 .. m : k \in K => k <= g[m]
<1> DEFINE OK(n) == /\ g[n] \in 0 .. n /\ (g[n] # 0 => g[n] \in K)
                    /\ \A k \in 1 .. n : k \in K => k <= g[n]
           Bad == {n \in 0 .. N : ~OK(n)}
<1> SUFFICES ASSUME Bad # {} PROVE FALSE
  OBVIOUS
<1>0. Bad \in SUBSET Nat
  OBVIOUS
<1>1. PICK n \in Bad : \A j \in Bad : n <= j
  BY <1>0, LeastNatural
<1>2. g[n] = IF n = 0 \/ n \in K THEN n ELSE g[n - 1]
  BY DEF Lasts
<1>3. CASE n = 0 \/ n \in K
  BY <1>1, <1>2, <1>3
<1>4. CASE ~(n = 0 \/ n \in K)
  <2>1. n - 1 \in 0 .. N /\ n - 1 < n
    BY <1>4
  <2>2. n - 1 \notin Bad
    <3> HIDE DEF Bad
    <3>1. n \in Nat /\ n - 1 \in Nat
      BY <1>0, <2>1
    <3> QED BY <1>1, <2>1, <3>1
  <2>3. OK(n - 1) /\ g[n] = g[n - 1]
    BY <1>2, <1>4, <2>1, <2>2
  <2>4. \A k \in 1 .. n : k = n \/ k \in 1 .. n - 1
    BY <2>1
  <2> QED BY <1>1, <1>4, <2>1, <2>3, <2>4
<1> QED BY <1>3, <1>4

(* CutTo keeps the longest prefix that fits. *)
LEMMA CutToProperties ==
  ASSUME NEW s \in Seq(Elements), NEW max \in Nat
  PROVE  \E c \in 0 .. Len(s) :
           /\ CutTo(s, max) = SubSeq(s, 1, c)
           /\ Length(SubSeq(s, 1, c)) <= max
           /\ \A n \in 1 .. Len(s) : Length(SubSeq(s, 1, n)) <= max => n <= c
<1> DEFINE K == {n \in Nat : Length(SubSeq(s, 1, n)) <= max}
           g == CHOOSE g : g = Lasts(Len(s), K, g)
<1>1. Len(s) \in Nat
  BY LenProperties
<1>2. g = Lasts(Len(s), K, g)
  BY <1>1, LastsExist
<1>3. CutTo(s, max) = SubSeq(s, 1, g[Len(s)])
  <2>1. \A h : Lasts(Len(s), K, h) =
          [n \in 0 .. Len(s) |-> IF n = 0 \/ Length(SubSeq(s, 1, n)) <= max THEN n ELSE h[n - 1]]
    BY <1>1 DEF Lasts
  <2>2. g = CHOOSE h : h = [n \in 0 .. Len(s) |-> IF n = 0 \/ Length(SubSeq(s, 1, n)) <= max THEN n ELSE h[n - 1]]
    BY <2>1
  <2> HIDE DEF g
  <2> QED BY <2>2 DEF CutTo
<1> HIDE DEF g
<1>4. /\ g[Len(s)] \in 0 .. Len(s) /\ (g[Len(s)] # 0 => g[Len(s)] \in K)
      /\ \A k \in 1 .. Len(s) : k \in K => k <= g[Len(s)]
  <2>1. Len(s) \in 0 .. Len(s)
    BY <1>1
  <2> HIDE DEF K
  <2> QED BY <1>1, <1>2, <2>1, LastsProperties
<1>5. Length(SubSeq(s, 1, 0)) = 0
  <2>1. SubSeq(s, 1, 0) = <<>> /\ <<>> \in Seq(Elements) /\ Len(<<>>) = 0
    BY SubSeqEmpty
  <2>2. Itself \in [Elements -> Elements]
    BY DEF Itself
  <2>3. Len(Spread(<<>>, Itself)) = Length(<<>>)
    BY <2>1, <2>2, SpreadType
  <2> QED BY <2>1, <2>3, SpreadEmpty
<1>6. Length(SubSeq(s, 1, g[Len(s)])) <= max
  BY <1>4, <1>5
<1> QED BY <1>3, <1>4, <1>6

(* WithoutTrailingImages keeps the longest prefix that ends with text. *)
LEMMA WithoutTrailingImagesProperties ==
  ASSUME NEW s \in Seq(Elements)
  PROVE  \E t \in 0 .. Len(s) :
           /\ WithoutTrailingImages(s) = SubSeq(s, 1, t)
           /\ t # 0 => s[t] \in Tokens
           /\ \A n \in 1 .. Len(s) : s[n] \in Tokens => n <= t
<1> DEFINE K == {n \in Nat : s[n] \in Tokens}
           g == CHOOSE g : g = Lasts(Len(s), K, g)
<1>1. Len(s) \in Nat
  BY LenProperties
<1>2. g = Lasts(Len(s), K, g)
  BY <1>1, LastsExist
<1>3. WithoutTrailingImages(s) = SubSeq(s, 1, g[Len(s)])
  <2>1. \A h : Lasts(Len(s), K, h) =
          [n \in 0 .. Len(s) |-> IF n = 0 \/ s[n] \in Tokens THEN n ELSE h[n - 1]]
    BY <1>1 DEF Lasts
  <2>2. g = CHOOSE h : h = [n \in 0 .. Len(s) |-> IF n = 0 \/ s[n] \in Tokens THEN n ELSE h[n - 1]]
    BY <2>1
  <2> HIDE DEF g
  <2> QED BY <2>2 DEF WithoutTrailingImages
<1> HIDE DEF g
<1>4. /\ g[Len(s)] \in 0 .. Len(s) /\ (g[Len(s)] # 0 => g[Len(s)] \in K)
      /\ \A k \in 1 .. Len(s) : k \in K => k <= g[Len(s)]
  <2>1. Len(s) \in 0 .. Len(s)
    BY <1>1
  <2> HIDE DEF K
  <2> QED BY <1>1, <1>2, <2>1, LastsProperties
<1> QED BY <1>3, <1>4

\* What datum_from_model_input_weights makes the datum of, and what it may be long.
Kept(s, max) == WithoutTrailingImages(IF max = 0 THEN s ELSE CutTo(s, max))
Limit(s, max) == IF max = 0 THEN Length(s) ELSE max

(* A shorter prefix has fewer tokens. *)
LEMMA PrefixLength ==
  ASSUME NEW s \in Seq(Elements), NEW n \in 0 .. Len(s), NEW m \in 0 .. n
  PROVE  /\ Length(SubSeq(s, 1, m)) \in Nat /\ Length(SubSeq(s, 1, n)) \in Nat
         /\ Length(SubSeq(s, 1, m)) <= Length(SubSeq(s, 1, n))
<1> DEFINE u == SubSeq(s, 1, n)
<1>1. u \in Seq(Elements) /\ Len(u) = n
  BY CutProperties
<1>2. SubSeq(u, 1, m) = SubSeq(s, 1, m)
  BY CutOfCut
<1>3. Itself \in [Elements -> Elements]
  BY DEF Itself
<1> HIDE DEF u
<1>4. /\ Length(SubSeq(u, 1, m)) \in Nat /\ Length(u) \in Nat
      /\ Length(SubSeq(u, 1, m)) <= Length(u)
  BY <1>1, <1>3, SpreadCut
<1> QED BY <1>2, <1>4 DEF u

(* What is kept is the longest prefix that fits and ends with text. *)
LEMMA KeptProperties ==
  ASSUME NEW s \in Seq(Elements), NEW max \in Nat
  PROVE  \E t \in 0 .. Len(s) :
           /\ Kept(s, max) = SubSeq(s, 1, t)
           /\ t # 0 => s[t] \in Tokens
           /\ Length(SubSeq(s, 1, t)) <= Limit(s, max)
           /\ \A n \in 1 .. Len(s) :
                s[n] \in Tokens /\ Length(SubSeq(s, 1, n)) <= Limit(s, max) => n <= t
<1> DEFINE cut == IF max = 0 THEN s ELSE CutTo(s, max)
<1>0. Len(s) \in Nat
  BY LenProperties
<1>1. PICK c \in 0 .. Len(s) :
        /\ cut = SubSeq(s, 1, c)
        /\ Length(SubSeq(s, 1, c)) <= Limit(s, max)
        /\ \A n \in 1 .. Len(s) : Length(SubSeq(s, 1, n)) <= Limit(s, max) => n <= c
  <2>1. CASE max = 0
    <3>1. SubSeq(s, 1, Len(s)) = s /\ Len(s) \in 0 .. Len(s)
      BY <1>0, SubSeqFull
    <3>2. Length(s) <= Length(s)
      <4>1. Length(s) \in Nat
        BY <3>1, PrefixLength
      <4> QED BY <4>1
    <3>3. \A n \in 1 .. Len(s) : n <= Len(s)
      BY <1>0
    <3> QED BY <2>1, <3>1, <3>2, <3>3 DEF Limit
  <2>2. CASE max # 0
    <3>1. PICK c \in 0 .. Len(s) :
           /\ CutTo(s, max) = SubSeq(s, 1, c)
           /\ Length(SubSeq(s, 1, c)) <= max
           /\ \A n \in 1 .. Len(s) : Length(SubSeq(s, 1, n)) <= max => n <= c
      BY CutToProperties
    <3> QED BY <2>2, <3>1 DEF Limit
  <2> QED BY <2>1, <2>2
<1>2. /\ cut \in Seq(Elements) /\ Len(cut) = c
      /\ \A i \in 1 .. c : cut[i] = s[i]
  BY <1>1, CutProperties
<1>3. Kept(s, max) = WithoutTrailingImages(cut)
  BY DEF Kept
<1> HIDE DEF cut
<1>4. PICK t \in 0 .. c :
           /\ WithoutTrailingImages(cut) = SubSeq(cut, 1, t)
           /\ t # 0 => cut[t] \in Tokens
           /\ \A n \in 1 .. c : cut[n] \in Tokens => n <= t
  BY <1>2, WithoutTrailingImagesProperties
<1>5. SubSeq(cut, 1, t) = SubSeq(s, 1, t)
  BY <1>1, CutOfCut
<1>6. t \in 0 .. Len(s) /\ (t # 0 => t \in 1 .. c)
  BY <1>0, <1>1
<1>7. Length(SubSeq(s, 1, t)) <= Limit(s, max)
  <2>1. /\ Length(SubSeq(s, 1, t)) \in Nat /\ Length(SubSeq(s, 1, c)) \in Nat
        /\ Length(SubSeq(s, 1, t)) <= Length(SubSeq(s, 1, c))
    BY PrefixLength
  <2>2. Limit(s, max) \in Nat
    <3>1. SubSeq(s, 1, Len(s)) = s /\ Len(s) \in 0 .. Len(s)
      BY <1>0, SubSeqFull
    <3>2. Length(s) \in Nat
      BY <3>1, PrefixLength
    <3> QED BY <3>2 DEF Limit
  <2>3. Length(SubSeq(s, 1, c)) <= Limit(s, max)
    BY <1>1
  <2> QED BY <2>1, <2>2, <2>3
<1>8. ASSUME NEW n \in 1 .. Len(s), s[n] \in Tokens, Length(SubSeq(s, 1, n)) <= Limit(s, max)
      PROVE  n <= t
  <2>1. n <= c
    BY <1>1, <1>8
  <2>2. n \in 1 .. c
    BY <1>0, <2>1
  <2> QED BY <1>2, <1>4, <1>8, <2>2
<1>9. t # 0 => s[t] \in Tokens
  BY <1>2, <1>4, <1>6
<1> QED BY <1>3, <1>4, <1>5, <1>6, <1>7, <1>8, <1>9

(* The targets are the tokens after the first. *)
LEMMA TargetsProperties ==
  ASSUME NEW s \in Seq(Elements), s # <<>>
  PROVE  /\ Targets(s) \in Seq(Symbols) /\ Len(Targets(s)) = Length(s) - 1
         /\ Length(s) \in Nat \ {0}
         /\ \A p \in 1 .. Length(s) - 1 : Targets(s)[p] = Spread(s, Padded)[p + 1]
<1>1. Padded \in [Elements -> Symbols]
  BY DEF Padded, Symbols
<1>2. /\ Spread(s, Padded) \in Seq(Symbols) /\ Len(Spread(s, Padded)) = Length(s)
      /\ Length(s) \in Nat /\ Len(s) <= Length(s)
  BY <1>1, SpreadType
<1>3. Len(s) \in Nat \ {0}
  BY EmptySeq
<1>4. Length(s) \in Nat \ {0}
  BY <1>2, <1>3
<1>5. Spread(s, Padded) # <<>>
  BY <1>2, <1>4
<1>6. Targets(s) = Tail(Spread(s, Padded))
  BY ExpandIsSpread DEF Targets
<1>7. /\ Tail(Spread(s, Padded)) \in Seq(Symbols)
      /\ Len(Tail(Spread(s, Padded))) = Len(Spread(s, Padded)) - 1
      /\ \A i \in 1 .. Len(Tail(Spread(s, Padded))) : Tail(Spread(s, Padded))[i] = Spread(s, Padded)[i + 1]
  BY <1>2, <1>5, HeadTailProperties
<1> QED BY <1>2, <1>4, <1>6, <1>7

\* The tokens of an example, with Pad for an image.
Padding(s) == Expand(s, LAMBDA e : IF e \in Images THEN Pad ELSE e)

\* WeightsOnTargets of one example.
Weighted(full, max, datum) ==
  LET limit == Limit(full, max)
      fits == {n \in DOMAIN full : full[n] \in Tokens /\ Length(SubSeq(full, 1, n)) <= limit}
      tokens == Padding(full)
  IN /\ (\E n \in fits : Length(SubSeq(full, 1, n)) >= 2) => datum # <<>>
     /\ \A j \in DOMAIN datum :
          LET d == datum[j] IN
          /\ \A p \in DOMAIN d.targets :
               /\ d.weights[p] = p + 1 /\ d.targets[p] = tokens[p + 1]
               /\ Before(d.inputs, p) = Before(full, p)
          /\ Len(d.weights) = Len(d.targets) /\ Length(d.inputs) = Len(d.targets)
          /\ Len(d.targets) < limit
          /\ \A n \in fits : Length(SubSeq(full, 1, n)) <= Len(d.targets) + 1

(* What datum_from_model_input_weights makes of an example is aligned with it. *)
LEMMA SupervisedIsWeighted ==
  ASSUME NEW s \in Seq(Elements), NEW max \in Nat
  PROVE  Weighted(s, max, Supervised(s, max))
<1> DEFINE kept == Kept(s, max)
           limit == Limit(s, max)
           fits == {n \in DOMAIN s : s[n] \in Tokens /\ Length(SubSeq(s, 1, n)) <= limit}
<1>1. PICK t \in 0 .. Len(s) :
           /\ kept = SubSeq(s, 1, t)
           /\ t # 0 => s[t] \in Tokens
           /\ Length(SubSeq(s, 1, t)) <= limit
           /\ \A n \in 1 .. Len(s) :
                s[n] \in Tokens /\ Length(SubSeq(s, 1, n)) <= limit => n <= t
  BY KeptProperties
<1>2. Len(s) \in Nat /\ DOMAIN s = 1 .. Len(s)
  BY LenProperties
<1>3. /\ kept \in Seq(Elements) /\ Len(kept) = t
      /\ \A i \in 1 .. t : kept[i] = s[i]
  BY <1>1, CutProperties
<1>4. Itself \in [Elements -> Elements] /\ Padded \in [Elements -> Symbols]
  BY DEF Itself, Padded, Symbols
<1>5. \A n \in fits : /\ n \in 1 .. t
                      /\ Length(SubSeq(s, 1, n)) \in Nat
                      /\ Length(SubSeq(s, 1, n)) <= Length(kept)
  <2> TAKE n \in fits
  <2>1. n \in 1 .. Len(s) /\ n <= t
    BY <1>1, <1>2
  <2>2. n \in 0 .. t /\ n \in 1 .. t
    BY <2>1
  <2> HIDE DEF fits
  <2> QED BY <1>1, <2>2, PrefixLength
<1>6. Length(kept) \in Nat /\ Length(s) \in Nat /\ Length(kept) <= Length(s)
  BY <1>1, <1>4, SpreadCut
<1>7. Supervised(s, max) =
        IF ~Shiftable(kept) THEN <<>>
        ELSE <<[inputs |-> Inputs(kept), targets |-> Targets(kept),
                weights |-> SubSeq([i \in 1 .. Length(s) |-> i], 2, Len(Targets(kept)) + 1)]>>
  BY DEF Supervised, Kept
<1> HIDE DEF kept, limit
<1>8. (\E n \in fits : Length(SubSeq(s, 1, n)) >= 2) => Shiftable(kept)
  <2> SUFFICES ASSUME NEW n \in fits, Length(SubSeq(s, 1, n)) >= 2 PROVE Shiftable(kept)
    OBVIOUS
  <2>1. n \in 1 .. t /\ Length(kept) >= 2
    <3> HIDE DEF fits
    <3>1. \A a, b \in Nat : a >= 2 /\ a <= b => b >= 2
      OBVIOUS
    <3> QED BY <1>5, <1>6, <3>1
  <2>2. t # 0 /\ t \in 1 .. t /\ kept # <<>>
    BY <2>1, <1>3
  <2>3. Last(kept) \in Tokens
    BY <1>1, <1>3, <2>2 DEF Last
  <2> QED BY <2>1, <2>2, <2>3 DEF Shiftable
<1>9. CASE ~Shiftable(kept)
  <2>1. Supervised(s, max) = <<>>
    BY <1>7, <1>9
  <2>2. ~ \E n \in fits : Length(SubSeq(s, 1, n)) >= 2
    BY <1>8, <1>9
  <2>3. DOMAIN <<>> = {}
    OBVIOUS
  <2> QED BY <2>1, <2>2, <2>3 DEF Weighted, limit
<1>10. CASE Shiftable(kept)
  <2> DEFINE d == [inputs |-> Inputs(kept), targets |-> Targets(kept),
                   weights |-> SubSeq([i \in 1 .. Length(s) |-> i], 2, Len(Targets(kept)) + 1)]
             L == Length(kept)
  <2>1. kept # <<>> /\ Last(kept) \in Tokens /\ L >= 2
    BY <1>10 DEF Shiftable
  <2>2. /\ Targets(kept) \in Seq(Symbols) /\ Len(Targets(kept)) = L - 1
        /\ \A p \in 1 .. L - 1 : Targets(kept)[p] = Spread(kept, Padded)[p + 1]
    BY <1>3, <2>1, TargetsProperties
  <2>3. DOMAIN Targets(kept) = 1 .. L - 1
    BY <2>2, LenProperties
  <2>4. /\ Inputs(kept) \in Seq(Elements) /\ Length(Inputs(kept)) \in Nat
        /\ Inputs(kept) = SubSeq(kept, 1, Len(kept) - 1)
        /\ Length(Inputs(kept)) = L - 1
    <3>1. /\ Front(kept) \in Seq(Elements) /\ Front(kept) = SubSeq(kept, 1, Len(kept) - 1)
          /\ Length(Front(kept)) \in Nat /\ Length(kept) = Length(Front(kept)) + 1
      BY <1>3, <2>1, SpreadFront
    <3> QED BY <1>6, <3>1 DEF Inputs
  <2>5. /\ Len(d.weights) = L - 1
        /\ \A p \in 1 .. L - 1 : d.weights[p] = p + 1
    <3> DEFINE w == [i \in 1 .. Length(s) |-> i]
    <3>1. \A i \in 2 .. L : i \in 1 .. Length(s)
      BY <1>6
    <3>2. \A i \in 2 .. L : w[i] \in Nat /\ w[i] = i
      BY <3>1
    <3> HIDE DEF w
    <3>3. /\ Len(SubSeq(w, 2, L)) = IF 2 <= L THEN L - 2 + 1 ELSE 0
          /\ \A i \in 1 .. L - 2 + 1 : SubSeq(w, 2, L)[i] = w[2 + i - 1]
      BY <1>6, <3>2, SubSeqProperties
    <3>4. \A p \in 1 .. L - 1 : p \in 1 .. L - 2 + 1 /\ 2 + p - 1 = p + 1 /\ p + 1 \in 2 .. L
      BY <1>6
    <3>5. d.weights = SubSeq(w, 2, L)
      <4>1. Len(Targets(kept)) + 1 = L
        BY <1>6, <2>2
      <4> QED BY <4>1 DEF w
    <3>6. Len(SubSeq(w, 2, L)) = L - 1
      BY <1>6, <2>1, <3>3
    <3> HIDE DEF d, L
    <3> QED BY <3>2, <3>3, <3>4, <3>5, <3>6
  <2>6. ASSUME NEW p \in 1 .. L - 1
        PROVE  /\ Targets(kept)[p] = Spread(s, Padded)[p + 1]
               /\ Before(Inputs(kept), p) = Before(s, p)
    <3>1. p + 1 \in 1 .. Length(kept)
      BY <1>6
    <3>2. Targets(kept)[p] = Spread(kept, Padded)[p + 1]
      BY <2>2
    <3>3. Spread(kept, Padded)[p + 1] = Spread(s, Padded)[p + 1]
      BY <1>1, <1>4, <3>1, SpreadCut
    <3>4. SubSeq(Spread(kept, Itself), 1, p) = SubSeq(Spread(s, Itself), 1, p)
      <4>1. p \in 0 .. Length(kept)
        BY <1>6
      <4> QED BY <1>1, <1>4, <4>1, SpreadCut
    <3>5. SubSeq(Spread(Inputs(kept), Itself), 1, p) = SubSeq(Spread(kept, Itself), 1, p)
      <4>1. p \in 0 .. Length(Inputs(kept)) /\ Len(kept) \in Nat \ {0} /\ Len(kept) - 1 \in 0 .. Len(kept)
        BY <1>3, <1>6, <2>1, <2>4, EmptySeq
      <4> DEFINE n == Len(kept) - 1
      <4>2. n \in 0 .. Len(kept) /\ Inputs(kept) = SubSeq(kept, 1, n)
        BY <2>4, <4>1
      <4> HIDE DEF n
      <4>3. \A q \in 0 .. Length(SubSeq(kept, 1, n)) :
              SubSeq(Spread(SubSeq(kept, 1, n), Itself), 1, q) = SubSeq(Spread(kept, Itself), 1, q)
        BY <1>3, <1>4, <4>2, SpreadCut
      <4> QED BY <4>1, <4>2, <4>3
    <3>6. Before(Inputs(kept), p) = Before(s, p)
      BY <2>4, <3>4, <3>5, ExpandIsSpread DEF Before
    <3> QED BY <3>2, <3>3, <3>6
  <2>7. L - 1 < limit /\ \A n \in fits : Length(SubSeq(s, 1, n)) <= (L - 1) + 1
    <3>1. limit \in Nat
      BY <1>6 DEF limit, Limit
    <3>2. L <= limit
      BY <1>1
    <3>3. L - 1 < limit
      BY <1>6, <3>1, <3>2
    <3>4. (L - 1) + 1 = L
      BY <1>6
    <3> HIDE DEF fits, L
    <3> QED BY <1>5, <3>3, <3>4 DEF L
  <2>8. Supervised(s, max) = <<d>>
    BY <1>7, <1>10
  <2>9. DOMAIN <<d>> = {1} /\ <<d>>[1] = d /\ <<d>> # <<>>
    OBVIOUS
  <2>10. d.inputs = Inputs(kept) /\ d.targets = Targets(kept)
    OBVIOUS
  <2> HIDE DEF d, L, fits
  <2>11. /\ \A p \in DOMAIN d.targets :
              /\ d.weights[p] = p + 1 /\ d.targets[p] = Spread(s, Padded)[p + 1]
              /\ Before(d.inputs, p) = Before(s, p)
         /\ Len(d.weights) = Len(d.targets) /\ Length(d.inputs) = Len(d.targets)
         /\ Len(d.targets) < limit
         /\ \A n \in fits : Length(SubSeq(s, 1, n)) <= Len(d.targets) + 1
    BY <2>2, <2>3, <2>4, <2>5, <2>6, <2>7, <2>10
  <2>12. Padding(s) = Spread(s, Padded)
    BY ExpandIsSpread DEF Padding
  <2> QED BY <2>8, <2>9, <2>11, <2>12 DEF Weighted, limit, fits
<1> QED BY <1>9, <1>10

-----------------------------------------------------------------------------
(* The example *)

\* The example is what datum_from_model_input_weights made of it.
ExampleInv ==
  example # <<>> => \E s \in Seq(Elements), max \in Nat :
    example = <<[full |-> s, max |-> max, datum |-> Supervised(s, max)]>>

(* What the inputs are enumerated from are sequences. *)
LEMMA SeqsUpToAreSeqs ==
  ASSUME NEW S, NEW n \in Nat, NEW s \in SeqsUpTo(S, n)
  PROVE  s \in Seq(S)
<1>1. PICK k \in 0 .. n : s \in [1 .. k -> S]
  BY DEF SeqsUpTo
<1> QED BY <1>1, SeqDef

(* A supervised example is aligned. *)
LEMMA ExampleWeighted ==
  ASSUME ExampleInv
  PROVE  WeightsOnTargets
<1>1. CASE example = <<>>
  <2>1. DOMAIN <<>> = {}
    OBVIOUS
  <2> QED BY <1>1, <2>1 DEF WeightsOnTargets
<1>2. CASE example # <<>>
  <2>1. PICK s \in Seq(Elements), max \in Nat :
          example = <<[full |-> s, max |-> max, datum |-> Supervised(s, max)]>>
    BY <1>2 DEF ExampleInv
  <2>2. DOMAIN example = {1}
    BY <2>1
  <2>3. example[1].full = s /\ example[1].max = max /\ example[1].datum = Supervised(s, max)
    BY <2>1
  <2>4. Weighted(s, max, Supervised(s, max))
    BY SupervisedIsWeighted
  <2>5. \A i \in DOMAIN example : Weighted(example[i].full, example[i].max, example[i].datum)
    BY <2>2, <2>3, <2>4
  <2> QED BY <2>5 DEF Weighted, WeightsOnTargets, Limit, Padding
<1> QED BY <1>1, <1>2

(* WeightsOnTargets: an example cut to a length keeps its tokens aligned, whatever the *)
(* tokens, the images, their length and the limit are                                  *)
(* (datum_from_model_input_weights).                                                   *)
THEOREM WeightsAligned == Spec => []WeightsOnTargets
<1>1. Init => ExampleInv
  BY DEF Init, ExampleInv
<1>2. ExampleInv /\ [Next]_vars => ExampleInv'
  <2> SUFFICES ASSUME ExampleInv, [Next]_vars PROVE ExampleInv'
    OBVIOUS
  <2>1. ASSUME NEW s \in SeqsUpTo(Elements, MaxExample), NEW max \in 0 .. MaxExample + 1, Supervise(s, max)
        PROVE  ExampleInv'
    <3>1. MaxExample \in Nat
      BY DataAssumption
    <3>2. s \in Seq(Elements) /\ max \in Nat
      BY <3>1, SeqsUpToAreSeqs
    <3>3. example' = <<[full |-> s, max |-> max, datum |-> Supervised(s, max)]>>
      BY <2>1 DEF Supervise
    <3> QED BY <3>2, <3>3 DEF ExampleInv
  <2>2. ASSUME UNCHANGED example PROVE ExampleInv'
    BY <2>2 DEF ExampleInv
  <2>3. ASSUME NEW ob, NEW ac, NEW mask, Transition(ob, ac, mask) PROVE UNCHANGED example
    BY <2>3 DEF Transition
  <2>4. EndTrajectory => UNCHANGED example
    BY DEF EndTrajectory
  <2>5. UNCHANGED vars => UNCHANGED example
    BY DEF vars
  <2> QED BY <2>1, <2>2, <2>3, <2>4, <2>5 DEF Next
<1>3. ExampleInv => WeightsOnTargets
  BY ExampleWeighted
<1> QED BY <1>1, <1>2, <1>3, PTL DEF Spec

-----------------------------------------------------------------------------
(* The accumulator *)

Labels == Nat \X Nat \X Nat \X Nat

\* Four lists of one length, with an advantage where something was sampled.
Aligned(a) ==
  /\ a.full \in Seq(Elements) /\ a.logprobs \in Seq(Labels)
  /\ a.advantages \in Seq(Nat \X Nat) /\ a.mask \in Seq(BOOLEAN)
  /\ Len(a.logprobs) = Length(a.full) /\ Len(a.advantages) = Length(a.full) /\ Len(a.mask) = Length(a.full)
  /\ \A q \in 1 .. Length(a.full) : a.advantages[q] # <<0, 0>> <=> a.logprobs[q] # None

\* The first token is not trained.
Started(a) == a.full # <<>> /\ a.mask[1] = FALSE

\* What a datum made of the accumulator would train.
Entry(a, q) ==
  [context |-> SubSeq(Spread(a.full, Itself), 1, q - 1), token |-> Spread(a.full, Padded)[q],
   logprob |-> a.logprobs[q], advantage |-> a.advantages[q]]
Taken(a) == {Entry(a, q) : q \in {r \in 1 .. Length(a.full) : a.mask[r]}}

\* The accumulator b after transition k of trajectory m of group g.
Grown(b, ob, ac, mask, g, m, k) ==
  LET delta == SubSeq(ob, Len(b.full) + 1, Len(ob))
      none(v) == Times(Length(delta), v)
  IN [full |-> b.full \o delta \o ac,
      logprobs |-> b.logprobs \o none(None) \o [j \in DOMAIN ac |-> <<g, m, k, j>>],
      advantages |-> b.advantages \o none(<<0, 0>>) \o Times(Len(ac), <<g, m>>),
      mask |-> b.mask \o none(FALSE) \o mask]

\* What that transition drew.
DrawnEntry(ob, ac, g, m, k, j) ==
  [context |-> Expand(ob \o SubSeq(ac, 1, j - 1), Same), token |-> ac[j],
   logprob |-> <<g, m, k, j>>, advantage |-> <<g, m>>]
DrawnIn(ob, ac, mask, g, m, k) == {DrawnEntry(ob, ac, g, m, k, j) : j \in {i \in DOMAIN ac : mask[i]}}

-----------------------------------------------------------------------------
(* The inductive invariant of the batch *)

Data == [inputs : Seq(Elements), targets : Seq(Symbols), logprobs : Seq(Labels),
         advantages : Seq(Nat \X Nat), mask : Seq(BOOLEAN)]
Steps == [ob : Seq(Elements) \ {<<>>}, ac : Seq(Tokens), mask : Seq(BOOLEAN)]

\* The lists of a datum have one length, with an advantage where something was sampled.
Shaped(d) ==
  /\ Len(d.targets) = Length(d.inputs) /\ Len(d.mask) = Len(d.targets)
  /\ \A p \in DOMAIN d.mask : d.advantages[p] # <<0, 0>> <=> d.logprobs[p] # None

\* No two of them train the same.
Apart(ds) == \A i, j \in DOMAIN ds : i # j => Trained(ds[i]) \cap Trained(ds[j]) = {}

Current == [group |-> group, member |-> member, steps |-> steps]
TrainedBy(ds) == UNION {Trained(ds[i]) : i \in DOMAIN ds}

\* The trajectory under way: what it drew is in the data made of it and in the accumulator.
UnderWay ==
  /\ group \in Nat \ {0} /\ member \in Nat \ {0} /\ steps \in Seq(Steps)
  /\ made \in Seq(Data) /\ Aligned(acc)
  /\ IF steps = <<>> THEN acc = Cleared /\ made = <<>>
     ELSE Started(acc)
  /\ Drawn(Current) = TrainedBy(made) \cup Taken(acc)
  /\ TrainedBy(made) \cap Taken(acc) = {}
  /\ Apart(made) /\ \A i \in DOMAIN made : Shaped(made[i])

\* A datum with its metadata.
Rows == [datum : Data, group_idx : Nat, traj_idx : Nat]

\* The trajectories before trajectory m of group g.
Precedes(a, b, g, m) == a < g \/ (a = g /\ b < m)

\* What a datum trains was drawn by that trajectory.
Carries(d, g, m) == \A x \in Trained(d) : x.logprob[1] = g /\ x.logprob[2] = m

\* What the data of that trajectory train.
DataOf(D, g, m) ==
  UNION {Trained(D[i].datum) : i \in {j \in DOMAIN D : D[j].group_idx = g /\ D[j].traj_idx = m}}

\* The data D are those of the trajectories S, which are before trajectory m of group g.
Batched(D, S, g, m) ==
  /\ D \in Seq(Rows)
  /\ \A i \in DOMAIN D : /\ Shaped(D[i].datum) /\ Precedes(D[i].group_idx, D[i].traj_idx, g, m)
                         /\ Carries(D[i].datum, D[i].group_idx, D[i].traj_idx)
  /\ \A i, j \in DOMAIN D : i # j => Trained(D[i].datum) \cap Trained(D[j].datum) = {}
  /\ \A t \in S : /\ t.group \in Nat /\ t.member \in Nat /\ Precedes(t.group, t.member, g, m)
                 /\ Drawn(t) = DataOf(D, t.group, t.member)

Finished == Batched(data, done, group, member)

BatchInv == ~raised => UnderWay /\ Finished

-----------------------------------------------------------------------------
(* One transition *)

\* v consists of s, of n times e, and of u.
Joins3(S, v, s, n, e, u) ==
  /\ v \in Seq(S) /\ Len(v) = Len(s) + n + Len(u)
  /\ \A i \in 1 .. Len(s) : v[i] = s[i]
  /\ \A i \in 1 .. n : v[Len(s) + i] = e
  /\ \A i \in 1 .. Len(u) : v[Len(s) + n + i] = u[i]

(* Where the members of the lists are that a transition makes. *)
LEMMA ThreeParts ==
  ASSUME NEW S, NEW s \in Seq(S), NEW b \in Nat, NEW e \in S, NEW u \in Seq(S)
  PROVE  Joins3(S, s \o Times(b, e) \o u, s, b, e, u)
<1> DEFINE t == Times(b, e)
           v == s \o t
           a == Len(s)
           c == Len(u)
<1>0. t \in Seq(S) /\ Len(t) = b /\ \A i \in 1 .. b : t[i] = e
  BY TimesProperties
<1>1. a \in Nat /\ c \in Nat
  BY LenProperties
<1>12. \A x, y \in Seq(S) :
        /\ x \o y \in Seq(S) /\ Len(x \o y) = Len(x) + Len(y)
        /\ \A i \in 1 .. Len(x) + Len(y) : (x \o y)[i] = IF i <= Len(x) THEN x[i] ELSE y[i - Len(x)]
  BY ConcatProperties
<1> HIDE DEF t
<1>2. /\ v \in Seq(S) /\ Len(v) = a + b
      /\ \A i \in 1 .. a + b : v[i] = IF i <= a THEN s[i] ELSE t[i - a]
  BY <1>0, <1>12
<1> HIDE DEF v
<1>3. /\ v \o u \in Seq(S) /\ Len(v \o u) = Len(v) + c
      /\ \A i \in 1 .. Len(v) + c : (v \o u)[i] = IF i <= Len(v) THEN v[i] ELSE u[i - Len(v)]
  BY <1>2, <1>12
<1> HIDE DEF a, c
<1>4. \A i \in 1 .. a : (v \o u)[i] = s[i]
  <2> TAKE i \in 1 .. a
  <2>1. i \in 1 .. a + b /\ i \in 1 .. Len(v) + c /\ i <= Len(v) /\ i <= a
    BY <1>1, <1>2
  <2> QED BY <1>2, <1>3, <2>1
<1>5. \A i \in 1 .. b : (v \o u)[a + i] = e
  <2> TAKE i \in 1 .. b
  <2>1. /\ a + i \in 1 .. a + b /\ a + i \in 1 .. Len(v) + c /\ a + i <= Len(v)
        /\ ~(a + i <= a) /\ (a + i) - a = i
    BY <1>1, <1>2
  <2> QED BY <1>0, <1>2, <1>3, <2>1
<1>6. \A i \in 1 .. c : (v \o u)[a + b + i] = u[i]
  <2> TAKE i \in 1 .. c
  <2>1. /\ a + b + i \in 1 .. Len(v) + c /\ ~(a + b + i <= Len(v))
        /\ (a + b + i) - Len(v) = i
    BY <1>1, <1>2
  <2> QED BY <1>3, <2>1
<1>7. Len(v \o u) = a + b + c
  BY <1>2, <1>3
<1> QED BY <1>3, <1>4, <1>5, <1>6, <1>7 DEF Joins3, v, t, a, c

\* What the accumulator and the transition have to be.
Growing(b, ob, ac, mask, g, m, k) ==
  /\ Aligned(b) /\ ob \in Seq(Elements) /\ ac \in Seq(Tokens) /\ mask \in [DOMAIN ac -> BOOLEAN]
  /\ IsPrefix(b.full, ob)
  /\ g \in Nat \ {0} /\ m \in Nat \ {0} /\ k \in Nat

Rest(b, ob) == SubSeq(ob, Len(b.full) + 1, Len(ob))

\* The elements after the transition.
Fuller(b, ob, ac, n) ==
  /\ b.full \in Seq(Elements) /\ ob \in Seq(Elements)
  /\ Rest(b, ob) \in Seq(Elements) /\ ob = b.full \o Rest(b, ob)
  /\ ac \in Seq(Elements) /\ Len(ac) \in Nat /\ Length(ac) = Len(ac)
  /\ Length(b.full) \in Nat /\ Length(Rest(b, ob)) \in Nat
  /\ Length(ob) = Length(b.full) + Length(Rest(b, ob))
  /\ n.full = ob \o ac
  /\ n.full \in Seq(Elements)
  /\ Length(n.full) = Length(b.full) + Length(Rest(b, ob)) + Len(ac)

\* The lists after it: the old part, the observation, the action.
Listed(b, ob, ac, mask, g, m, k, n) ==
  LET p == Length(b.full)
      r == Length(Rest(b, ob))
      l == Len(ac)
  IN /\ n.logprobs \in Seq(Labels) /\ Len(n.logprobs) = p + r + l
     /\ n.advantages \in Seq(Nat \X Nat) /\ Len(n.advantages) = p + r + l
     /\ n.mask \in Seq(BOOLEAN) /\ Len(n.mask) = p + r + l
     /\ \A i \in 1 .. p : /\ n.logprobs[i] = b.logprobs[i] /\ n.advantages[i] = b.advantages[i]
                          /\ n.mask[i] = b.mask[i]
     /\ \A i \in 1 .. r : /\ n.logprobs[p + i] = None /\ n.advantages[p + i] = <<0, 0>>
                          /\ n.mask[p + i] = FALSE
     /\ \A i \in 1 .. l : /\ n.logprobs[p + r + i] = <<g, m, k, i>> /\ n.advantages[p + r + i] = <<g, m>>
                          /\ n.mask[p + r + i] = mask[i]

(* What the observation adds to the accumulator, and the tokens it adds. *)
LEMMA GrownFull ==
  ASSUME NEW b, NEW ob, NEW ac, NEW mask, NEW g, NEW m, NEW k, Growing(b, ob, ac, mask, g, m, k)
  PROVE  Fuller(b, ob, ac, Grown(b, ob, ac, mask, g, m, k))
<1>1. /\ b.full \in Seq(Elements) /\ ob \in Seq(Elements) /\ ac \in Seq(Tokens)
      /\ Len(b.full) <= Len(ob) /\ SubSeq(b.full, 1, Len(b.full)) = SubSeq(ob, 1, Len(b.full))
  BY DEF Growing, Aligned, IsPrefix
<1>2. Len(b.full) \in Nat /\ Len(ob) \in Nat /\ Len(ac) \in Nat
  BY <1>1, LenProperties
<1>3. SubSeq(b.full, 1, Len(b.full)) = b.full
  BY <1>1, SubSeqFull
<1>4. Rest(b, ob) \in Seq(Elements) /\ ob = b.full \o Rest(b, ob)
  <2>1. Len(b.full) \in 0 .. Len(ob)
    BY <1>1, <1>2
  <2>2. /\ SubSeq(ob, Len(b.full) + 1, Len(ob)) \in Seq(Elements)
        /\ ob = SubSeq(ob, 1, Len(b.full)) \o SubSeq(ob, Len(b.full) + 1, Len(ob))
    BY <1>1, <2>1, CutProperties
  <2> QED BY <1>1, <1>3, <2>2 DEF Rest
<1>5. Itself \in [Elements -> Elements]
  BY DEF Itself
<1>6. ac \in Seq(Elements) /\ Length(ac) = Len(ac)
  BY <1>1, <1>5, SpreadText
<1>7. Length(b.full) \in Nat /\ Length(Rest(b, ob)) \in Nat
  BY <1>1, <1>4, <1>5, SpreadType
<1>8. Length(ob) = Length(b.full) + Length(Rest(b, ob))
  <2>1. Length(b.full \o Rest(b, ob)) = Length(b.full) + Length(Rest(b, ob))
    BY <1>1, <1>4, <1>5, SpreadConcat
  <2> QED BY <1>4, <2>1
<1>9. ob \o ac \in Seq(Elements) /\ Length(ob \o ac) = Length(ob) + Length(ac)
  BY <1>1, <1>5, <1>6, SpreadConcat, ConcatProperties
<1>10. Grown(b, ob, ac, mask, g, m, k).full = b.full \o Rest(b, ob) \o ac
  BY DEF Grown, Rest
<1>11. b.full \o Rest(b, ob) \o ac = ob \o ac
  BY <1>4
<1> HIDE DEF Fuller
<1> DEFINE n == Grown(b, ob, ac, mask, g, m, k)
<1>12. n.full = ob \o ac
  BY <1>10, <1>11
<1> HIDE DEF n
<1>13. Fuller(b, ob, ac, n)
  BY <1>1, <1>2, <1>4, <1>6, <1>7, <1>8, <1>9, <1>12 DEF Fuller
<1> QED BY <1>13 DEF n

(* The three lists after a transition. *)
LEMMA GrownLists ==
  ASSUME NEW b, NEW ob, NEW ac, NEW mask, NEW g, NEW m, NEW k, Growing(b, ob, ac, mask, g, m, k)
  PROVE  Listed(b, ob, ac, mask, g, m, k, Grown(b, ob, ac, mask, g, m, k))
<1> DEFINE n == Grown(b, ob, ac, mask, g, m, k)
           p == Length(b.full)
           r == Length(Rest(b, ob))
           l == Len(ac)
<1>1. p \in Nat /\ r \in Nat /\ l \in Nat
  <2>1. Fuller(b, ob, ac, n)
    BY GrownFull
  <2> QED BY <2>1 DEF Fuller
<1>2. /\ b.logprobs \in Seq(Labels) /\ Len(b.logprobs) = p
      /\ b.advantages \in Seq(Nat \X Nat) /\ Len(b.advantages) = p
      /\ b.mask \in Seq(BOOLEAN) /\ Len(b.mask) = p
  BY DEF Growing, Aligned
<1>3. DOMAIN ac = 1 .. l
  BY LenProperties DEF Growing
<1>4. g \in Nat /\ m \in Nat /\ k \in Nat
  BY DEF Growing
<1> DEFINE A == [j \in DOMAIN ac |-> <<g, m, k, j>>]
           B == Times(l, <<g, m>>)
           P == Nat \X Nat
<1>5. A \in Seq(Labels) /\ Len(A) = l /\ \A i \in 1 .. l : A[i] = <<g, m, k, i>>
  <2>1. \A j \in 1 .. l : j \in Nat
    BY <1>1
  <2>2. A \in [1 .. l -> Labels]
    BY <1>3, <1>4, <2>1 DEF Labels
  <2>3. A \in Seq(Labels)
    BY <1>1, <2>2, SeqDef
  <2> QED BY <1>1, <1>3, <2>2, <2>3
<1>6. /\ None \in Labels /\ <<0, 0>> \in P /\ FALSE \in BOOLEAN /\ <<g, m>> \in P
  BY <1>4 DEF None, Labels
<1>7. B \in Seq(P) /\ Len(B) = l /\ \A i \in 1 .. l : B[i] = <<g, m>>
  <2> DEFINE e == <<g, m>>
  <2>1. e \in P
    BY <1>6
  <2> HIDE DEF e, P, l
  <2>2. Times(l, e) \in Seq(P) /\ Len(Times(l, e)) = l /\ \A i \in 1 .. l : Times(l, e)[i] = e
    BY <1>1, <2>1, TimesProperties
  <2> QED BY <2>2 DEF e
<1>8. mask \in Seq(BOOLEAN) /\ Len(mask) = l
  <2>1. mask \in [1 .. l -> BOOLEAN]
    BY <1>3 DEF Growing
  <2>2. mask \in Seq(BOOLEAN)
    BY <1>1, <2>1, SeqDef
  <2> QED BY <1>1, <2>1, <2>2
<1>9. /\ n.logprobs = b.logprobs \o Times(r, None) \o A
      /\ n.advantages = b.advantages \o Times(r, <<0, 0>>) \o B
      /\ n.mask = b.mask \o Times(r, FALSE) \o mask
  BY DEF Grown, Rest
<1>10. Joins3(Labels, n.logprobs, b.logprobs, r, None, A)
  <2> HIDE DEF A, r, n
  <2> QED BY <1>1, <1>2, <1>5, <1>6, <1>9, ThreeParts
<1>11. Joins3(P, n.advantages, b.advantages, r, <<0, 0>>, B)
  <2> DEFINE e == <<0, 0>>
  <2>1. e \in P /\ b.advantages \in Seq(P) /\ B \in Seq(P) /\ n.advantages = b.advantages \o Times(r, e) \o B
    BY <1>2, <1>6, <1>7, <1>9
  <2> HIDE DEF B, r, n, e, P
  <2>2. Joins3(P, n.advantages, b.advantages, r, e, B)
    BY <1>1, <2>1, ThreeParts
  <2> QED BY <2>2 DEF e
<1>12. Joins3(BOOLEAN, n.mask, b.mask, r, FALSE, mask)
  <2> DEFINE S == BOOLEAN
             e == FALSE
  <2>1. e \in S /\ b.mask \in Seq(S) /\ mask \in Seq(S) /\ n.mask = b.mask \o Times(r, e) \o mask
    BY <1>2, <1>8, <1>9
  <2> HIDE DEF S, e, r, n
  <2>2. Joins3(S, n.mask, b.mask, r, e, mask)
    BY <1>1, <2>1, ThreeParts
  <2> QED BY <2>2 DEF S, e
<1> HIDE DEF n, p, r, l, A, B
<1>13. /\ n.logprobs \in Seq(Labels) /\ Len(n.logprobs) = p + r + l
       /\ \A i \in 1 .. p : n.logprobs[i] = b.logprobs[i]
       /\ \A i \in 1 .. r : n.logprobs[p + i] = None
       /\ \A i \in 1 .. l : n.logprobs[p + r + i] = <<g, m, k, i>>
  BY <1>2, <1>5, <1>10 DEF Joins3
<1>14. /\ n.advantages \in Seq(P) /\ Len(n.advantages) = p + r + l
       /\ \A i \in 1 .. p : n.advantages[i] = b.advantages[i]
       /\ \A i \in 1 .. r : n.advantages[p + i] = <<0, 0>>
       /\ \A i \in 1 .. l : n.advantages[p + r + i] = <<g, m>>
  BY <1>2, <1>7, <1>11 DEF Joins3
<1>15. /\ n.mask \in Seq(BOOLEAN) /\ Len(n.mask) = p + r + l
       /\ \A i \in 1 .. p : n.mask[i] = b.mask[i]
       /\ \A i \in 1 .. r : n.mask[p + i] = FALSE
       /\ \A i \in 1 .. l : n.mask[p + r + i] = mask[i]
  BY <1>2, <1>8, <1>12 DEF Joins3
<1>16. Listed(b, ob, ac, mask, g, m, k, n)
  BY <1>13, <1>14, <1>15 DEF Listed, p, r, l
<1> QED BY <1>16 DEF n

(* A position of the accumulator after a transition is in one of its three parts. *)
LEMMA OneOfThree ==
  ASSUME NEW p \in Nat, NEW r \in Nat, NEW l \in Nat, NEW q \in 1 .. p + r + l
  PROVE  \/ q \in 1 .. p
         \/ \E i \in 1 .. r : q = p + i
         \/ \E i \in 1 .. l : q = p + r + i
<1>1. CASE q <= p
  BY <1>1
<1>2. CASE p < q /\ q <= p + r
  <2>1. q - p \in 1 .. r /\ q = p + (q - p)
    BY <1>2
  <2> QED BY <2>1
<1>3. CASE p + r < q
  <2>1. q - (p + r) \in 1 .. l /\ q = p + r + (q - (p + r))
    BY <1>3
  <2> QED BY <2>1
<1> QED BY <1>1, <1>2, <1>3

(* A transition leaves the four lists aligned. *)
LEMMA GrownAligned ==
  ASSUME NEW b, NEW ob, NEW ac, NEW mask, NEW g, NEW m, NEW k, Growing(b, ob, ac, mask, g, m, k)
  PROVE  Aligned(Grown(b, ob, ac, mask, g, m, k))
<1> DEFINE n == Grown(b, ob, ac, mask, g, m, k)
           p == Length(b.full)
           r == Length(Rest(b, ob))
           l == Len(ac)
<1>0. Fuller(b, ob, ac, n) /\ Listed(b, ob, ac, mask, g, m, k, n)
  BY GrownFull, GrownLists
<1> HIDE DEF n
<1>1. /\ p \in Nat /\ r \in Nat /\ l \in Nat
      /\ n.full \in Seq(Elements) /\ Length(n.full) = p + r + l
  BY <1>0 DEF Fuller
<1>2. /\ n.logprobs \in Seq(Labels) /\ Len(n.logprobs) = p + r + l
      /\ n.advantages \in Seq(Nat \X Nat) /\ Len(n.advantages) = p + r + l
      /\ n.mask \in Seq(BOOLEAN) /\ Len(n.mask) = p + r + l
      /\ \A i \in 1 .. p : n.logprobs[i] = b.logprobs[i] /\ n.advantages[i] = b.advantages[i]
      /\ \A i \in 1 .. r : n.logprobs[p + i] = None /\ n.advantages[p + i] = <<0, 0>>
      /\ \A i \in 1 .. l : n.logprobs[p + r + i] = <<g, m, k, i>> /\ n.advantages[p + r + i] = <<g, m>>
  BY <1>0 DEF Listed
<1>3. \A i \in 1 .. p : b.advantages[i] # <<0, 0>> <=> b.logprobs[i] # None
  BY DEF Growing, Aligned
<1> HIDE DEF p, r, l
<1>4. g # 0
  BY DEF Growing
<1>5. \A i \in 1 .. l : <<g, m, k, i>> # None /\ <<g, m>> # <<0, 0>>
  BY <1>4 DEF None
<1>6. ASSUME NEW q \in 1 .. p + r + l PROVE n.advantages[q] # <<0, 0>> <=> n.logprobs[q] # None
  <2>1. CASE q \in 1 .. p
    BY <1>2, <1>3, <2>1
  <2>2. CASE \E i \in 1 .. r : q = p + i
    BY <1>2, <2>2
  <2>3. CASE \E i \in 1 .. l : q = p + r + i
    BY <1>2, <1>5, <2>3
  <2> QED BY <1>1, <2>1, <2>2, <2>3, OneOfThree
<1>7. Aligned(n)
  BY <1>1, <1>2, <1>6 DEF Aligned
<1> QED BY <1>7 DEF n

(* The first token of the accumulator is not trained. *)
LEMMA GrownStart ==
  ASSUME NEW b, NEW ob, NEW ac, NEW mask, NEW g, NEW m, NEW k, Growing(b, ob, ac, mask, g, m, k),
         ob # <<>>, b.full = <<>> \/ Started(b)
  PROVE  Started(Grown(b, ob, ac, mask, g, m, k))
<1> DEFINE n == Grown(b, ob, ac, mask, g, m, k)
           p == Length(b.full)
           r == Length(Rest(b, ob))
           l == Len(ac)
<1>0. Fuller(b, ob, ac, n) /\ Listed(b, ob, ac, mask, g, m, k, n)
  BY GrownFull, GrownLists
<1> HIDE DEF n
<1>1. /\ p \in Nat /\ r \in Nat /\ l \in Nat /\ n.full = ob \o ac /\ Length(ob) = p + r
      /\ ob = b.full \o Rest(b, ob) /\ ac \in Seq(Elements)
      /\ b.full \in Seq(Elements) /\ ob \in Seq(Elements)
  BY <1>0 DEF Fuller
<1>2. Itself \in [Elements -> Elements]
  BY DEF Itself
<1>3. Len(ob) \in Nat \ {0} /\ Len(ob) <= Length(ob)
  BY <1>1, <1>2, SpreadType, EmptySeq
<1>4. n.full # <<>>
  <2>1. Len(ob \o ac) = Len(ob) + Len(ac)
    BY <1>1, ConcatProperties
  <2>2. Len(ob \o ac) # 0
    BY <1>1, <1>3, <2>1
  <2>3. Len(<<>>) = 0
    OBVIOUS
  <2> HIDE DEF n
  <2> QED BY <1>1, <2>2, <2>3
<1>5. p + r >= 1
  BY <1>1, <1>3
<1>6. ASSUME p = 0 PROVE n.mask[1] = FALSE
  <2>1. 1 \in 1 .. r /\ p + 1 = 1
    BY <1>1, <1>5, <1>6
  <2>2. n.mask[p + 1] = FALSE
    BY <1>0, <2>1 DEF Listed
  <2> QED BY <2>1, <2>2
<1>7. ASSUME p # 0 PROVE n.mask[1] = FALSE
  <2>1. 1 \in 1 .. p
    BY <1>1, <1>7
  <2>2. n.mask[1] = b.mask[1]
    BY <1>0, <2>1 DEF Listed
  <2>3. b.full # <<>>
    <3>1. Len(Spread(<<>>, Itself)) = Length(<<>>) /\ Len(<<>>) = 0
      <4>1. <<>> \in Seq(Elements)
        OBVIOUS
      <4> QED BY <1>2, <4>1, SpreadType
    <3> QED BY <1>7, <3>1, SpreadEmpty
  <2> QED BY <2>2, <2>3 DEF Started
<1> QED BY <1>4, <1>6, <1>7 DEF n, Started

(* The tokens of what comes first in a concatenation come first. *)
LEMMA SpreadOfConcat ==
  ASSUME NEW T, NEW f \in [Elements -> T], NEW s \in Seq(Elements), NEW t \in Seq(Elements)
  PROVE  /\ Length(s) \in Nat /\ Length(t) \in Nat
         /\ \A p \in 0 .. Length(s) : SubSeq(Spread(s \o t, f), 1, p) = SubSeq(Spread(s, f), 1, p)
         /\ \A p \in 1 .. Length(s) : Spread(s \o t, f)[p] = Spread(s, f)[p]
         /\ \A p \in 1 .. Length(t) : Spread(s \o t, f)[Length(s) + p] = Spread(t, f)[p]
<1> DEFINE x == Spread(s, f)
           y == Spread(t, f)
           a == Length(s)
           c == Length(t)
<1>1. x \in Seq(T) /\ Len(x) = a /\ a \in Nat /\ y \in Seq(T) /\ Len(y) = c /\ c \in Nat
  BY SpreadType
<1>2. Spread(s \o t, f) = x \o y
  BY SpreadConcat
<1> HIDE DEF x, y, a, c
<1>3. \A i \in 1 .. Len(x) + Len(y) : (x \o y)[i] = IF i <= Len(x) THEN x[i] ELSE y[i - Len(x)]
  BY <1>1, ConcatProperties
<1>4. \A p \in 0 .. a : SubSeq(x \o y, 1, p) = SubSeq(x, 1, p)
  BY <1>1, CutOfConcat
<1>5. \A p \in 1 .. a : (x \o y)[p] = x[p]
  <2> TAKE p \in 1 .. a
  <2>1. p \in 1 .. Len(x) + Len(y) /\ p <= Len(x)
    BY <1>1
  <2> QED BY <1>3, <2>1
<1>6. \A p \in 1 .. c : (x \o y)[a + p] = y[p]
  <2> TAKE p \in 1 .. c
  <2>1. a + p \in 1 .. Len(x) + Len(y) /\ ~(a + p <= Len(x)) /\ (a + p) - Len(x) = p
    BY <1>1
  <2> QED BY <1>3, <2>1
<1> QED BY <1>1, <1>2, <1>4, <1>5, <1>6 DEF x, y, a, c

(* Where an action's token is in the accumulator, and what is before it. *)
LEMMA DrawnWhere ==
  ASSUME NEW ob \in Seq(Elements), NEW ac \in Seq(Tokens), NEW j \in 1 .. Len(ac)
  PROVE  /\ Expand(ob \o SubSeq(ac, 1, j - 1), Same) = SubSeq(Spread(ob \o ac, Itself), 1, Length(ob) + j - 1)
         /\ Spread(ob \o ac, Padded)[Length(ob) + j] = ac[j]
<1>1. Len(ac) \in Nat /\ DOMAIN ac = 1 .. Len(ac) /\ ac[j] \in Tokens /\ j - 1 \in 0 .. Len(ac)
  BY LenProperties, ElementOfSeq
<1>2. Itself \in [Elements -> Elements] /\ Padded \in [Elements -> Symbols]
  BY DEF Itself, Padded, Symbols
<1>3. /\ ac \in Seq(Elements) /\ Length(ac) = Len(ac)
      /\ \A i \in 1 .. Len(ac) : Spread(ac, Padded)[i] = Padded[ac[i]]
  BY <1>2, SpreadText
<1>4. Spread(ob \o ac, Padded)[Length(ob) + j] = ac[j]
  <2>1. \A i \in 1 .. Length(ac) : Spread(ob \o ac, Padded)[Length(ob) + i] = Spread(ac, Padded)[i]
    BY <1>2, <1>3, SpreadOfConcat
  <2>2. Spread(ob \o ac, Padded)[Length(ob) + j] = Spread(ac, Padded)[j]
    BY <1>3, <2>1
  <2>3. Tokens \cap Images = {}
    BY DataAssumption
  <2>4. Padded[ac[j]] = ac[j]
    BY <1>1, <2>3 DEF Padded, Elements
  <2> QED BY <1>3, <2>2, <2>4
<1> DEFINE head == SubSeq(ac, 1, j - 1)
           tail == SubSeq(ac, (j - 1) + 1, Len(ac))
           pre == ob \o head
<1>5. head \in Seq(Tokens) /\ Len(head) = j - 1 /\ tail \in Seq(Tokens) /\ ac = head \o tail
  BY <1>1, CutProperties
<1> HIDE DEF head, tail
<1>6. head \in Seq(Elements) /\ Length(head) = j - 1 /\ tail \in Seq(Elements)
  BY <1>2, <1>5, SpreadText
<1>7. pre \in Seq(Elements) /\ ob \o ac = pre \o tail
  <2>1. (ob \o head) \o tail = ob \o (head \o tail)
    BY <1>6, JoinedEitherWay
  <2>2. ob \o head \in Seq(Elements)
    BY <1>6, ConcatProperties
  <2> QED BY <1>5, <2>1, <2>2
<1>8. Length(pre) = Length(ob) + (j - 1) /\ Length(ob) \in Nat
  BY <1>2, <1>6, SpreadConcat, SpreadOfConcat
<1> HIDE DEF pre
<1>9. Spread(pre, Itself) \in Seq(Elements) /\ Len(Spread(pre, Itself)) = Length(pre) /\ Length(pre) \in Nat
  BY <1>2, <1>7, SpreadType
<1>10. SubSeq(Spread(pre \o tail, Itself), 1, Length(pre)) = SubSeq(Spread(pre, Itself), 1, Length(pre))
  <2>1. Length(pre) \in 0 .. Length(pre)
    BY <1>9
  <2> QED BY <1>2, <1>6, <1>7, <2>1, SpreadOfConcat
<1>11. SubSeq(Spread(pre, Itself), 1, Length(pre)) = Spread(pre, Itself)
  BY <1>9, SubSeqFull
<1>12. Expand(pre, Same) = Spread(pre, Itself)
  BY <1>7, ExpandIsSpread
<1>13. Length(ob) + j - 1 = Length(pre)
  BY <1>8
<1>14. Expand(pre, Same) = SubSeq(Spread(ob \o ac, Itself), 1, Length(ob) + j - 1)
  BY <1>7, <1>10, <1>11, <1>12, <1>13
<1> QED BY <1>4, <1>14 DEF pre, head

(* A transition adds to what a datum would train what it drew, and nothing else. *)
LEMMA GrownTakes ==
  ASSUME NEW b, NEW ob, NEW ac, NEW mask, NEW g, NEW m, NEW k, Growing(b, ob, ac, mask, g, m, k)
  PROVE  Taken(Grown(b, ob, ac, mask, g, m, k)) = Taken(b) \cup DrawnIn(ob, ac, mask, g, m, k)
<1> DEFINE n == Grown(b, ob, ac, mask, g, m, k)
           p == Length(b.full)
           r == Length(Rest(b, ob))
           l == Len(ac)
<1>0. Fuller(b, ob, ac, n) /\ Listed(b, ob, ac, mask, g, m, k, n)
  BY GrownFull, GrownLists
<1> SUFFICES Taken(n) = Taken(b) \cup DrawnIn(ob, ac, mask, g, m, k)
  OBVIOUS
<1> HIDE DEF n
<1>1. /\ p \in Nat /\ r \in Nat /\ l \in Nat /\ n.full = ob \o ac /\ Length(ob) = p + r
      /\ ob = b.full \o Rest(b, ob) /\ ac \in Seq(Elements) /\ Rest(b, ob) \in Seq(Elements)
      /\ b.full \in Seq(Elements) /\ ob \in Seq(Elements) /\ Length(n.full) = p + r + l
  BY <1>0 DEF Fuller
<1>2. ac \in Seq(Tokens) /\ DOMAIN ac = 1 .. l
  BY LenProperties DEF Growing
<1>3. Itself \in [Elements -> Elements] /\ Padded \in [Elements -> Symbols]
  BY DEF Itself, Padded, Symbols
<1>4. ASSUME NEW q \in 1 .. p PROVE Entry(n, q) = Entry(b, q) /\ n.mask[q] = b.mask[q]
  <2>1. n.logprobs[q] = b.logprobs[q] /\ n.advantages[q] = b.advantages[q] /\ n.mask[q] = b.mask[q]
    BY <1>0 DEF Listed
  <2>2. q - 1 \in 0 .. p /\ q \in 1 .. p /\ q - 1 \in 0 .. Length(ob) /\ q \in 1 .. Length(ob)
    BY <1>1
  <2>3. SubSeq(Spread(n.full, Itself), 1, q - 1) = SubSeq(Spread(b.full, Itself), 1, q - 1)
    <3>1. SubSeq(Spread(ob \o ac, Itself), 1, q - 1) = SubSeq(Spread(ob, Itself), 1, q - 1)
      BY <1>1, <1>3, <2>2, SpreadOfConcat
    <3>2. SubSeq(Spread(b.full \o Rest(b, ob), Itself), 1, q - 1) = SubSeq(Spread(b.full, Itself), 1, q - 1)
      BY <1>1, <1>3, <2>2, SpreadOfConcat
    <3> QED BY <1>1, <3>1, <3>2
  <2>4. Spread(n.full, Padded)[q] = Spread(b.full, Padded)[q]
    <3>1. Spread(ob \o ac, Padded)[q] = Spread(ob, Padded)[q]
      BY <1>1, <1>3, <2>2, SpreadOfConcat
    <3>2. Spread(b.full \o Rest(b, ob), Padded)[q] = Spread(b.full, Padded)[q]
      BY <1>1, <1>3, <2>2, SpreadOfConcat
    <3> QED BY <1>1, <3>1, <3>2
  <2> QED BY <2>1, <2>3, <2>4 DEF Entry
<1>5. ASSUME NEW i \in 1 .. r PROVE n.mask[p + i] = FALSE
  BY <1>0 DEF Listed
<1>6. ASSUME NEW j \in 1 .. l
      PROVE  Entry(n, p + r + j) = DrawnEntry(ob, ac, g, m, k, j) /\ n.mask[p + r + j] = mask[j]
  <2>1. /\ n.logprobs[p + r + j] = <<g, m, k, j>> /\ n.advantages[p + r + j] = <<g, m>>
        /\ n.mask[p + r + j] = mask[j]
    BY <1>0 DEF Listed
  <2>2. /\ Expand(ob \o SubSeq(ac, 1, j - 1), Same) = SubSeq(Spread(ob \o ac, Itself), 1, Length(ob) + j - 1)
        /\ Spread(ob \o ac, Padded)[Length(ob) + j] = ac[j]
    BY <1>1, <1>2, DrawnWhere
  <2>3. Length(ob) + j - 1 = (p + r + j) - 1 /\ Length(ob) + j = p + r + j
    BY <1>1
  <2>4. SubSeq(Spread(n.full, Itself), 1, (p + r + j) - 1) = Expand(ob \o SubSeq(ac, 1, j - 1), Same)
    BY <1>1, <2>2, <2>3
  <2>5. Spread(n.full, Padded)[p + r + j] = ac[j]
    BY <1>1, <2>2, <2>3
  <2> QED BY <2>1, <2>4, <2>5 DEF Entry, DrawnEntry
<1>7. /\ Taken(n) = {Entry(n, q) : q \in {s \in 1 .. p + r + l : n.mask[s]}}
      /\ Taken(b) = {Entry(b, q) : q \in {s \in 1 .. p : b.mask[s]}}
      /\ DrawnIn(ob, ac, mask, g, m, k) = {DrawnEntry(ob, ac, g, m, k, j) : j \in {i \in 1 .. l : mask[i]}}
  BY <1>1, <1>2 DEF Taken, DrawnIn
<1> HIDE DEF p, r, l
<1>8. ASSUME NEW x \in Taken(n) PROVE x \in Taken(b) \cup DrawnIn(ob, ac, mask, g, m, k)
  <2>1. PICK q \in 1 .. p + r + l : n.mask[q] /\ x = Entry(n, q)
    BY <1>7
  <2>2. CASE q \in 1 .. p
    BY <1>4, <1>7, <2>1, <2>2
  <2>3. CASE \E i \in 1 .. r : q = p + i
    BY <1>5, <2>1, <2>3
  <2>4. CASE \E i \in 1 .. l : q = p + r + i
    BY <1>6, <1>7, <2>1, <2>4
  <2> QED BY <1>1, <2>2, <2>3, <2>4, OneOfThree
<1>9. ASSUME NEW x \in Taken(b) PROVE x \in Taken(n)
  <2>1. PICK q \in 1 .. p : b.mask[q] /\ x = Entry(b, q)
    BY <1>7
  <2>2. q \in 1 .. p + r + l
    BY <1>1
  <2> QED BY <1>4, <1>7, <2>1, <2>2
<1>10. ASSUME NEW x \in DrawnIn(ob, ac, mask, g, m, k) PROVE x \in Taken(n)
  <2>1. PICK j \in 1 .. l : mask[j] /\ x = DrawnEntry(ob, ac, g, m, k, j)
    BY <1>7
  <2>2. p + r + j \in 1 .. p + r + l
    BY <1>1
  <2> QED BY <1>6, <1>7, <2>1, <2>2
<1> QED BY <1>8, <1>9, <1>10

-----------------------------------------------------------------------------
(* One datum *)

(* A datum trains what was in the accumulator, if its first token was not sampled. *)
LEMMA DatumTrains ==
  ASSUME NEW a, Aligned(a), Shiftable(a.full), a.mask[1] = FALSE
  PROVE  Datum(a) \in Data /\ Shaped(Datum(a)) /\ Trained(Datum(a)) = Taken(a)
<1> DEFINE s == a.full
           L == Length(s)
           d == Datum(a)
<1>1. /\ s \in Seq(Elements) /\ a.logprobs \in Seq(Labels)
      /\ a.advantages \in Seq(Nat \X Nat) /\ a.mask \in Seq(BOOLEAN)
      /\ Len(a.logprobs) = L /\ Len(a.advantages) = L /\ Len(a.mask) = L
      /\ \A q \in 1 .. L : a.advantages[q] # <<0, 0>> <=> a.logprobs[q] # None
  BY DEF Aligned
<1>2. s # <<>> /\ Last(s) \in Tokens /\ L >= 2
  BY DEF Shiftable
<1>3. /\ Targets(s) \in Seq(Symbols) /\ Len(Targets(s)) = L - 1 /\ L \in Nat \ {0}
      /\ \A p \in 1 .. L - 1 : Targets(s)[p] = Spread(s, Padded)[p + 1]
  BY <1>1, <1>2, TargetsProperties
<1>4. /\ Inputs(s) \in Seq(Elements) /\ Length(Inputs(s)) = L - 1
      /\ Len(s) \in Nat \ {0} /\ Inputs(s) = SubSeq(s, 1, Len(s) - 1)
  <2>1. /\ Front(s) \in Seq(Elements) /\ Front(s) = SubSeq(s, 1, Len(s) - 1)
        /\ Length(Front(s)) \in Nat /\ Length(s) = Length(Front(s)) + 1
    BY <1>1, <1>2, SpreadFront
  <2> QED BY <1>1, <1>2, <1>3, <2>1, EmptySeq DEF Inputs
<1>5. /\ Tail(a.logprobs) \in Seq(Labels) /\ Len(Tail(a.logprobs)) = L - 1
      /\ \A p \in 1 .. L - 1 : Tail(a.logprobs)[p] = a.logprobs[p + 1]
  <2>1. a.logprobs # <<>>
    BY <1>1, <1>3
  <2> QED BY <1>1, <2>1, HeadTailProperties
<1>6. /\ Tail(a.advantages) \in Seq(Nat \X Nat) /\ Len(Tail(a.advantages)) = L - 1
      /\ \A p \in 1 .. L - 1 : Tail(a.advantages)[p] = a.advantages[p + 1]
  <2> DEFINE S == Nat \X Nat
             u == a.advantages
  <2>1. u # <<>> /\ u \in Seq(S) /\ Len(u) = L
    BY <1>1, <1>3
  <2> HIDE DEF S, u
  <2>2. Tail(u) \in Seq(S) /\ Len(Tail(u)) = L - 1 /\ \A p \in 1 .. L - 1 : Tail(u)[p] = u[p + 1]
    BY <2>1, HeadTailProperties
  <2> QED BY <2>2 DEF S, u
<1>7. /\ Tail(a.mask) \in Seq(BOOLEAN) /\ Len(Tail(a.mask)) = L - 1
      /\ DOMAIN Tail(a.mask) = 1 .. L - 1
      /\ \A p \in 1 .. L - 1 : Tail(a.mask)[p] = a.mask[p + 1]
  <2> DEFINE S == BOOLEAN
             u == a.mask
  <2>1. u # <<>> /\ u \in Seq(S) /\ Len(u) = L
    BY <1>1, <1>3
  <2> HIDE DEF S, u
  <2>2. Tail(u) \in Seq(S) /\ Len(Tail(u)) = L - 1 /\ \A p \in 1 .. L - 1 : Tail(u)[p] = u[p + 1]
    BY <2>1, HeadTailProperties
  <2>3. DOMAIN Tail(u) = 1 .. L - 1
    BY <2>2, LenProperties
  <2> QED BY <2>2, <2>3 DEF S, u
<1>8. /\ d.inputs = Inputs(s) /\ d.targets = Targets(s) /\ d.logprobs = Tail(a.logprobs)
      /\ d.advantages = Tail(a.advantages) /\ d.mask = Tail(a.mask)
  BY DEF Datum
<1>9. d \in Data
  BY <1>3, <1>4, <1>5, <1>6, <1>7 DEF Datum, Data
<1> HIDE DEF d, L, s
<1>10. \A p \in 1 .. L - 1 : p + 1 \in 1 .. L
  BY <1>3
<1>11. Shaped(d)
  <2>1. \A p \in 1 .. L - 1 : d.advantages[p] # <<0, 0>> <=> d.logprobs[p] # None
    BY <1>1, <1>5, <1>6, <1>8, <1>10
  <2> QED BY <1>3, <1>4, <1>7, <1>8, <2>1 DEF Shaped
<1> DEFINE Of(p) == [context |-> Before(d.inputs, p), token |-> d.targets[p], logprob |-> d.logprobs[p],
                     advantage |-> d.advantages[p]]
<1>12. ASSUME NEW p \in 1 .. L - 1 PROVE Of(p) = Entry(a, p + 1) /\ d.mask[p] = a.mask[p + 1]
  <2>1. Before(d.inputs, p) = SubSeq(Spread(s, Itself), 1, (p + 1) - 1)
    <3> DEFINE n == Len(s) - 1
    <3>1. /\ n \in 0 .. Len(s) /\ Inputs(s) = SubSeq(s, 1, n) /\ p \in 0 .. Length(SubSeq(s, 1, n))
          /\ (p + 1) - 1 = p
      BY <1>3, <1>4
    <3>2. Itself \in [Elements -> Elements] /\ s \in Seq(Elements)
      BY <1>1 DEF Itself, s
    <3> HIDE DEF n
    <3>3. \A q \in 0 .. Length(SubSeq(s, 1, n)) :
            SubSeq(Spread(SubSeq(s, 1, n), Itself), 1, q) = SubSeq(Spread(s, Itself), 1, q)
      BY <3>1, <3>2, SpreadCut
    <3>4. Before(d.inputs, p) = SubSeq(Spread(Inputs(s), Itself), 1, p)
      BY <1>4, <1>8, ExpandIsSpread DEF Before
    <3> QED BY <3>1, <3>3, <3>4
  <2>2. d.targets[p] = Spread(s, Padded)[p + 1]
    BY <1>3, <1>8
  <2>3. d.logprobs[p] = a.logprobs[p + 1] /\ d.advantages[p] = a.advantages[p + 1] /\ d.mask[p] = a.mask[p + 1]
    BY <1>5, <1>6, <1>7, <1>8
  <2> QED BY <2>1, <2>2, <2>3 DEF Entry, s
<1>13. Trained(d) = {Of(p) : p \in {q \in 1 .. L - 1 : d.mask[q]}}
  BY <1>7, <1>8 DEF Trained
<1>14. Taken(a) = {Entry(a, q) : q \in {r \in 1 .. L : a.mask[r]}}
  BY DEF Taken, L, s
<1> HIDE DEF Of
<1>15. ASSUME NEW x \in Trained(d) PROVE x \in Taken(a)
  BY <1>10, <1>12, <1>13, <1>14
<1>16. ASSUME NEW x \in Taken(a) PROVE x \in Trained(d)
  <2>1. PICK q \in 1 .. L : a.mask[q] /\ x = Entry(a, q)
    BY <1>14
  <2>2. q # 1
    BY <2>1
  <2>3. q - 1 \in 1 .. L - 1 /\ (q - 1) + 1 = q
    BY <1>3, <2>2
  <2> QED BY <1>12, <1>13, <2>1, <2>3
<1>17. Trained(d) = Taken(a)
  BY <1>15, <1>16
<1> QED BY <1>9, <1>11, <1>17 DEF d

-----------------------------------------------------------------------------
(* What a trajectory drew *)

\* Transition k of a trajectory.
DrawnOf(g, m, ss, k) == DrawnIn(ss[k].ob, ss[k].ac, ss[k].mask, g, m, k)

(* What a trajectory drew is what its transitions drew. *)
LEMMA DrawnIsUnion ==
  ASSUME NEW g, NEW m, NEW ss
  PROVE  Drawn([group |-> g, member |-> m, steps |-> ss]) = UNION {DrawnOf(g, m, ss, k) : k \in DOMAIN ss}
BY DEF Drawn, DrawnOf, DrawnIn, DrawnEntry

(* Each token drawn carries the trajectory and the transition it was drawn in. *)
LEMMA DrawnLabels ==
  ASSUME NEW ob, NEW ac, NEW mask, NEW g, NEW m, NEW k, NEW x \in DrawnIn(ob, ac, mask, g, m, k)
  PROVE  x.logprob[1] = g /\ x.logprob[2] = m /\ x.logprob[3] = k
<1>1. PICK j \in DOMAIN ac : x = DrawnEntry(ob, ac, g, m, k, j)
  BY DEF DrawnIn
<1> QED BY <1>1 DEF DrawnEntry

(* One more transition draws its own tokens, none of them drawn before. *)
LEMMA DrawnAppend ==
  ASSUME NEW g, NEW m, NEW ss \in Seq(Steps), NEW e \in Steps
  PROVE  LET k == Len(ss) + 1
             before == Drawn([group |-> g, member |-> m, steps |-> ss])
         IN /\ Append(ss, e) \in Seq(Steps)
            /\ Drawn([group |-> g, member |-> m, steps |-> Append(ss, e)])
                 = before \cup DrawnIn(e.ob, e.ac, e.mask, g, m, k)
            /\ before \cap DrawnIn(e.ob, e.ac, e.mask, g, m, k) = {}
<1> DEFINE n == Len(ss)
           tt == Append(ss, e)
           D(k) == DrawnOf(g, m, ss, k)
           E(k) == DrawnOf(g, m, tt, k)
           new == DrawnIn(e.ob, e.ac, e.mask, g, m, n + 1)
<1>1. /\ n \in Nat /\ DOMAIN ss = 1 .. n /\ tt \in Seq(Steps) /\ DOMAIN tt = 1 .. n + 1
      /\ (\A i \in 1 .. n : tt[i] = ss[i]) /\ tt[n + 1] = e
  BY LenProperties, AppendProperties
<1> HIDE DEF tt
<1>2. \A k \in 1 .. n : E(k) = D(k)
  BY <1>1 DEF DrawnOf
<1>3. E(n + 1) = new
  BY <1>1 DEF DrawnOf
<1>4. Drawn([group |-> g, member |-> m, steps |-> ss]) = UNION {D(k) : k \in 1 .. n}
  BY <1>1, DrawnIsUnion
<1>5. Drawn([group |-> g, member |-> m, steps |-> tt]) = UNION {E(k) : k \in 1 .. n + 1}
  BY <1>1, DrawnIsUnion
<1>6. \A x \in new : x.logprob[3] = n + 1
  BY DrawnLabels
<1>7. \A k \in 1 .. n : \A x \in D(k) : x.logprob[3] = k
  BY DrawnLabels DEF DrawnOf
<1> HIDE DEF D, E, new, n
<1>8. \A k \in 1 .. n + 1 : k \in 1 .. n \/ k = n + 1
  BY <1>1
<1>9. \A k \in 1 .. n : k \in 1 .. n + 1 /\ k # n + 1
  BY <1>1
<1>10. n + 1 \in 1 .. n + 1
  BY <1>1
<1> DEFINE old == UNION {D(k) : k \in 1 .. n}
           all == UNION {E(k) : k \in 1 .. n + 1}
<1>11. ASSUME NEW x PROVE x \in all <=> x \in old \/ x \in new
  <2>1. x \in all <=> \E k \in 1 .. n + 1 : x \in E(k)
    OBVIOUS
  <2>2. x \in old <=> \E k \in 1 .. n : x \in D(k)
    OBVIOUS
  <2> HIDE DEF old, all
  <2>3. ASSUME x \in all PROVE x \in old \/ x \in new
    <3>1. PICK k \in 1 .. n + 1 : x \in E(k)
      BY <2>1, <2>3
    <3> QED BY <1>2, <1>3, <1>8, <2>2, <3>1
  <2>4. ASSUME x \in old PROVE x \in all
    <3>1. PICK k \in 1 .. n : x \in D(k)
      BY <2>2, <2>4
    <3> QED BY <1>2, <1>9, <2>1, <3>1
  <2>5. ASSUME x \in new PROVE x \in all
    BY <1>3, <1>10, <2>1, <2>5
  <2> QED BY <2>3, <2>4, <2>5
<1>12. ASSUME NEW x \in old, x \in new PROVE FALSE
  <2>1. PICK k \in 1 .. n : x \in D(k)
    OBVIOUS
  <2> QED BY <1>6, <1>7, <1>9, <1>12, <2>1
<1>13. Drawn([group |-> g, member |-> m, steps |-> ss]) = old
  BY <1>4
<1>14. Drawn([group |-> g, member |-> m, steps |-> tt]) = all
  BY <1>5
<1> HIDE DEF old, all
<1>15. all = old \cup new /\ old \cap new = {}
  BY <1>11, <1>12
<1> QED BY <1>1, <1>13, <1>14, <1>15 DEF n, tt, new

(* What is drawn carries its trajectory. *)
LEMMA DrawnCarries ==
  ASSUME NEW g, NEW m, NEW ss, NEW x \in Drawn([group |-> g, member |-> m, steps |-> ss])
  PROVE  x.logprob[1] = g /\ x.logprob[2] = m
<1>1. PICK k \in DOMAIN ss : x \in DrawnOf(g, m, ss, k)
  BY DrawnIsUnion
<1> QED BY <1>1, DrawnLabels DEF DrawnOf

(* Nothing is trained of an empty accumulator, nor drawn by no transitions. *)
LEMMA NothingTaken ==
  /\ Aligned(Cleared) /\ Taken(Cleared) = {} /\ Length(<<>>) = 0
  /\ \A g, m : Drawn([group |-> g, member |-> m, steps |-> <<>>]) = {}
<1>1. Itself \in [Elements -> Elements] /\ <<>> \in Seq(Elements)
  BY DEF Itself
<1>2. Len(Spread(<<>>, Itself)) = Length(<<>>) /\ Len(<<>>) = 0
  BY <1>1, SpreadType
<1>3. Length(<<>>) = 0
  BY <1>2, SpreadEmpty
<1>4. Cleared.full = <<>> /\ Cleared.logprobs = <<>> /\ Cleared.advantages = <<>> /\ Cleared.mask = <<>>
  BY DEF Cleared
<1>5. Aligned(Cleared)
  <2>1. \A S : <<>> \in Seq(S)
    OBVIOUS
  <2>2. 1 .. 0 = {}
    OBVIOUS
  <2> QED BY <1>2, <1>3, <1>4, <2>1, <2>2 DEF Aligned
<1>6. Taken(Cleared) = {}
  <2>1. 1 .. 0 = {}
    OBVIOUS
  <2> QED BY <1>3, <1>4, <2>1 DEF Taken
<1>7. ASSUME NEW g, NEW m PROVE Drawn([group |-> g, member |-> m, steps |-> <<>>]) = {}
  <2>1. DOMAIN <<>> = {}
    OBVIOUS
  <2>2. Drawn([group |-> g, member |-> m, steps |-> <<>>]) = UNION {DrawnOf(g, m, <<>>, k) : k \in DOMAIN <<>>}
    BY DrawnIsUnion
  <2> QED BY <2>1, <2>2
<1> QED BY <1>3, <1>5, <1>6, <1>7

(* One more datum trains what it trains. *)
LEMMA TrainedAppend ==
  ASSUME NEW ds \in Seq(Data), NEW d \in Data
  PROVE  /\ ds \o <<d>> \in Seq(Data) /\ Len(ds) \in Nat
         /\ DOMAIN (ds \o <<d>>) = 1 .. Len(ds) + 1 /\ DOMAIN ds = 1 .. Len(ds)
         /\ (\A i \in 1 .. Len(ds) : (ds \o <<d>>)[i] = ds[i]) /\ (ds \o <<d>>)[Len(ds) + 1] = d
         /\ TrainedBy(ds \o <<d>>) = TrainedBy(ds) \cup Trained(d)
<1> DEFINE n == Len(ds)
           es == ds \o <<d>>
<1>1. /\ n \in Nat /\ es \in Seq(Data) /\ DOMAIN es = 1 .. n + 1 /\ DOMAIN ds = 1 .. n
      /\ (\A i \in 1 .. n : es[i] = ds[i]) /\ es[n + 1] = d
  <2>1. Append(ds, d) = es
    BY AppendIsConcat
  <2>2. /\ Append(ds, d) \in Seq(Data) /\ Len(Append(ds, d)) = n + 1
        /\ \A i \in 1 .. n : Append(ds, d)[i] = ds[i]
        /\ Append(ds, d)[n + 1] = d
    BY AppendProperties
  <2>3. es \in Seq(Data) /\ Len(es) = n + 1
    BY <2>1, <2>2
  <2>4. DOMAIN es = 1 .. n + 1
    <3> HIDE DEF es
    <3> QED BY <2>3, LenProperties
  <2>5. n \in Nat /\ DOMAIN ds = 1 .. n
    BY LenProperties
  <2> HIDE DEF es
  <2> QED BY <2>1, <2>2, <2>3, <2>4, <2>5
<1> HIDE DEF es, n
<1>2. /\ \A k \in 1 .. n + 1 : k \in 1 .. n \/ k = n + 1
      /\ \A k \in 1 .. n : k \in 1 .. n + 1
      /\ n + 1 \in 1 .. n + 1
  BY <1>1
<1>3. TrainedBy(es) = TrainedBy(ds) \cup Trained(d)
  <2>1. TrainedBy(es) = UNION {Trained(es[i]) : i \in 1 .. n + 1}
    BY <1>1 DEF TrainedBy
  <2>2. TrainedBy(ds) = UNION {Trained(ds[i]) : i \in 1 .. n}
    BY <1>1 DEF TrainedBy
  <2> QED BY <1>1, <1>2, <2>1, <2>2
<1> QED BY <1>1, <1>3 DEF n, es

(* One more datum that trains nothing of what the others train keeps them apart. *)
LEMMA ApartAppend ==
  ASSUME NEW ds \in Seq(Data), NEW d \in Data, Apart(ds), TrainedBy(ds) \cap Trained(d) = {},
         \A i \in DOMAIN ds : Shaped(ds[i]), Shaped(d)
  PROVE  Apart(ds \o <<d>>) /\ \A i \in DOMAIN (ds \o <<d>>) : Shaped((ds \o <<d>>)[i])
<1> DEFINE n == Len(ds)
           es == ds \o <<d>>
<1>1. /\ n \in Nat /\ DOMAIN es = 1 .. n + 1 /\ DOMAIN ds = 1 .. n
      /\ (\A i \in 1 .. n : es[i] = ds[i]) /\ es[n + 1] = d
  BY TrainedAppend
<1> HIDE DEF es, n
<1>2. \A k \in 1 .. n + 1 : k \in 1 .. n \/ k = n + 1
  BY <1>1
<1>3. \A i \in 1 .. n : Trained(ds[i]) \cap Trained(d) = {}
  BY <1>1 DEF TrainedBy
<1>4. Apart(es)
  BY <1>1, <1>2, <1>3 DEF Apart
<1>5. \A i \in DOMAIN es : Shaped(es[i])
  BY <1>1, <1>2
<1> QED BY <1>4, <1>5 DEF es

-----------------------------------------------------------------------------
(* Each operation keeps the invariant *)

(* What was drawn since the last datum can be made a datum of: with it, the data of the *)
(* trajectory train what it drew.                                                       *)
LEMMA Closing ==
  ASSUME UnderWay, steps # <<>>, NewDatum # <<>>
  PROVE  /\ NewDatum = <<Datum(acc)>> /\ made \o NewDatum \in Seq(Data)
         /\ TrainedBy(made \o NewDatum) = Drawn(Current)
         /\ Apart(made \o NewDatum)
         /\ \A i \in DOMAIN (made \o NewDatum) : Shaped((made \o NewDatum)[i])
<1>1. Shiftable(acc.full) /\ NewDatum = <<Datum(acc)>>
  BY DEF NewDatum
<1>2. /\ made \in Seq(Data) /\ Aligned(acc) /\ acc.mask[1] = FALSE
      /\ Drawn(Current) = TrainedBy(made) \cup Taken(acc) /\ TrainedBy(made) \cap Taken(acc) = {}
      /\ Apart(made) /\ \A i \in DOMAIN made : Shaped(made[i])
  BY DEF UnderWay, Started
<1>3. Datum(acc) \in Data /\ Shaped(Datum(acc)) /\ Trained(Datum(acc)) = Taken(acc)
  BY <1>1, <1>2, DatumTrains
<1>4. made \o <<Datum(acc)>> \in Seq(Data)
      /\ TrainedBy(made \o <<Datum(acc)>>) = TrainedBy(made) \cup Trained(Datum(acc))
  BY <1>2, <1>3, TrainedAppend
<1>5. /\ Apart(made \o <<Datum(acc)>>)
      /\ \A i \in DOMAIN (made \o <<Datum(acc)>>) : Shaped((made \o <<Datum(acc)>>)[i])
  BY <1>2, <1>3, ApartAppend
<1> QED BY <1>1, <1>2, <1>3, <1>4, <1>5

(* The accumulator of a transition: the one there is, or an empty one. *)
LEMMA BaseGrows ==
  ASSUME UnderWay, NEW ob \in Seq(Elements) \ {<<>>}, NEW ac \in Seq(Tokens),
         NEW mask \in [DOMAIN ac -> BOOLEAN]
  PROVE  /\ Growing(Base(ob), ob, ac, mask, group, member, Len(steps) + 1)
         /\ Appended(ob, ac, mask) = Grown(Base(ob), ob, ac, mask, group, member, Len(steps) + 1)
         /\ Base(ob).full = <<>> \/ Started(Base(ob))
<1>1. Appended(ob, ac, mask) = Grown(Base(ob), ob, ac, mask, group, member, Len(steps) + 1)
  BY DEF Appended, Grown, Sampled, Here
<1>2. Len(steps) + 1 \in Nat /\ group \in Nat \ {0} /\ member \in Nat \ {0}
  BY LenProperties DEF UnderWay
<1>3. IsPrefix(<<>>, ob)
  <2>1. SubSeq(<<>>, 1, 0) = <<>> /\ SubSeq(ob, 1, 0) = <<>> /\ Len(<<>>) = 0
    BY SubSeqEmpty
  <2>2. Len(ob) \in Nat
    BY LenProperties
  <2> QED BY <2>1, <2>2 DEF IsPrefix
<1>4. CASE GoesOn(ob)
  <2>1. Base(ob) = acc /\ IsPrefix(acc.full, ob)
    BY <1>4 DEF Base, GoesOn
  <2>2. Aligned(acc)
    BY DEF UnderWay
  <2>3. acc.full = <<>> \/ Started(acc)
    BY DEF UnderWay, Cleared
  <2> QED BY <1>1, <1>2, <2>1, <2>2, <2>3 DEF Growing
<1>5. CASE ~GoesOn(ob)
  <2>1. Base(ob) = Cleared /\ Cleared.full = <<>>
    BY <1>5 DEF Base, Cleared
  <2>2. Aligned(Cleared)
    BY NothingTaken
  <2> QED BY <1>1, <1>2, <1>3, <2>1, <2>2 DEF Growing
<1> QED BY <1>4, <1>5

(* A transition, with or without a datum made before it. *)
LEMMA TransitionUnderWay ==
  ASSUME UnderWay, NEW ob \in Seq(Elements) \ {<<>>}, NEW ac \in Seq(Tokens),
         NEW mask \in [DOMAIN ac -> BOOLEAN], Transition(ob, ac, mask), ~raised'
  PROVE  UnderWay'
<1> DEFINE k == Len(steps) + 1
           new == DrawnIn(ob, ac, mask, group, member, k)
           e == [ob |-> ob, ac |-> ac, mask |-> mask]
<1>1. /\ steps' = Append(steps, e) /\ acc' = Appended(ob, ac, mask)
      /\ UNCHANGED <<group, member>>
  BY DEF Transition
<1>2. /\ Growing(Base(ob), ob, ac, mask, group, member, k)
      /\ acc' = Grown(Base(ob), ob, ac, mask, group, member, k)
      /\ Base(ob).full = <<>> \/ Started(Base(ob))
  BY <1>1, BaseGrows
<1>3. Aligned(acc')
  BY <1>2, GrownAligned
<1>4. Started(acc')
  <2> DEFINE b == Base(ob)
  <2>1. /\ Growing(b, ob, ac, mask, group, member, k) /\ ob # <<>>
        /\ b.full = <<>> \/ Started(b)
    BY <1>2
  <2> HIDE DEF k, b
  <2>2. Started(Grown(b, ob, ac, mask, group, member, k))
    BY <2>1, GrownStart
  <2>3. acc' = Grown(b, ob, ac, mask, group, member, k)
    BY <1>2 DEF b
  <2> QED BY <2>2, <2>3
<1>5. Taken(acc') = Taken(Base(ob)) \cup new
  BY <1>2, GrownTakes
<1>6. steps \in Seq(Steps) /\ e \in Steps
  <2>1. mask \in Seq(BOOLEAN)
    <3>1. Len(ac) \in Nat /\ DOMAIN ac = 1 .. Len(ac)
      BY LenProperties
    <3> QED BY <3>1, SeqDef
  <2> QED BY <2>1 DEF UnderWay, Steps
<1>7. /\ Append(steps, e) \in Seq(Steps)
      /\ Drawn([group |-> group, member |-> member, steps |-> Append(steps, e)])
           = Drawn([group |-> group, member |-> member, steps |-> steps]) \cup new
      /\ Drawn([group |-> group, member |-> member, steps |-> steps]) \cap new = {}
  <2>1. e.ob = ob /\ e.ac = ac /\ e.mask = mask
    OBVIOUS
  <2> HIDE DEF e
  <2> QED BY <1>6, <2>1, DrawnAppend
<1>8. Append(steps, e) # <<>>
  <2> HIDE DEF e
  <2> QED BY <1>6, AppendProperties
<1> HIDE DEF e, new
<1>9. steps' \in Seq(Steps) /\ steps' # <<>>
  BY <1>1, <1>7, <1>8
<1>10. Drawn(Current') = Drawn(Current) \cup new /\ Drawn(Current) \cap new = {}
  BY <1>1, <1>7 DEF Current
<1>11. CASE GoesOn(ob)
  <2>1. made' = made /\ Base(ob) = acc
    BY <1>11 DEF Transition, Base
  <2>2. /\ made \in Seq(Data) /\ Drawn(Current) = TrainedBy(made) \cup Taken(acc)
        /\ TrainedBy(made) \cap Taken(acc) = {}
        /\ Apart(made) /\ \A i \in DOMAIN made : Shaped(made[i])
    BY DEF UnderWay
  <2>3. Drawn(Current') = TrainedBy(made) \cup Taken(acc') /\ TrainedBy(made) \cap Taken(acc') = {}
    BY <1>5, <1>10, <2>1, <2>2
  <2>4. Drawn(Current)' = TrainedBy(made') \cup Taken(acc') /\ TrainedBy(made') \cap Taken(acc') = {}
    BY <2>1, <2>3
  <2>5. (Drawn(Current) = TrainedBy(made) \cup Taken(acc))'
    BY <2>4
  <2> QED BY <1>1, <1>3, <1>4, <1>9, <2>1, <2>2, <2>4, <2>5 DEF UnderWay
<1>12. CASE ~GoesOn(ob)
  <2>1. made' = made \o NewDatum /\ Base(ob) = Cleared /\ NewDatum # <<>>
    BY <1>12 DEF Transition, Base
  <2>2. steps # <<>>
    <3> SUFFICES ASSUME steps = <<>> PROVE FALSE
      OBVIOUS
    <3>1. acc.full = <<>>
      BY DEF UnderWay, Cleared
    <3>2. SubSeq(<<>>, 1, 0) = <<>> /\ SubSeq(ob, 1, 0) = <<>> /\ Len(<<>>) = 0
      BY SubSeqEmpty
    <3>3. Len(ob) \in Nat
      BY LenProperties
    <3> QED BY <1>12, <3>1, <3>2, <3>3 DEF GoesOn, IsPrefix
  <2>3. /\ made \o NewDatum \in Seq(Data)
        /\ TrainedBy(made \o NewDatum) = Drawn(Current)
        /\ Apart(made \o NewDatum)
        /\ \A i \in DOMAIN (made \o NewDatum) : Shaped((made \o NewDatum)[i])
    BY <2>1, <2>2, Closing
  <2>4. Taken(acc') = new
    BY <1>5, <2>1, NothingTaken
  <2>5. Drawn(Current)' = TrainedBy(made') \cup Taken(acc') /\ TrainedBy(made') \cap Taken(acc') = {}
    BY <1>10, <2>1, <2>3, <2>4
  <2>6. made' \in Seq(Data) /\ Apart(made') /\ \A i \in DOMAIN made' : Shaped(made'[i])
    BY <2>1, <2>3
  <2> QED BY <1>1, <1>3, <1>4, <1>9, <2>5, <2>6 DEF UnderWay
<1> QED BY <1>11, <1>12

(* A transition does not touch what was finished before. *)
LEMMA TransitionFinished ==
  ASSUME Finished, NEW ob, NEW ac, NEW mask, Transition(ob, ac, mask)
  PROVE  Finished'
BY DEF Transition, Finished

(* The next trajectory begins with nothing. *)
LEMMA EndUnderWay ==
  ASSUME UnderWay, EndTrajectory
  PROVE  UnderWay' /\ group' \in Nat /\ member' \in Nat
         /\ \A a, b \in Nat : Precedes(a, b, group, member) \/ (a = group /\ b = member)
                                => Precedes(a, b, group', member')
<1>1. /\ steps' = <<>> /\ acc' = Cleared /\ made' = <<>>
      /\ IF member < GroupSize THEN member' = member + 1 /\ group' = group
         ELSE member' = 1 /\ group' = group + 1
  BY DEF EndTrajectory
<1>2. group \in Nat \ {0} /\ member \in Nat \ {0}
  BY DEF UnderWay
<1>3. group' \in Nat \ {0} /\ member' \in Nat \ {0}
  BY <1>1, <1>2
<1>4. ASSUME NEW a \in Nat, NEW b \in Nat, Precedes(a, b, group, member) \/ (a = group /\ b = member)
      PROVE  Precedes(a, b, group', member')
  BY <1>1, <1>2, <1>4 DEF Precedes
<1>5. /\ <<>> \in Seq(Steps) /\ <<>> \in Seq(Data) /\ DOMAIN <<>> = {}
  OBVIOUS
<1>6. TrainedBy(<<>>) = {} /\ Apart(<<>>) /\ \A i \in DOMAIN <<>> : Shaped(<<>>[i])
  BY <1>5 DEF TrainedBy, Apart
<1>7. Drawn(Current)' = {}
  BY <1>1, NothingTaken DEF Current
<1>8. Aligned(acc') /\ Taken(acc') = {}
  BY <1>1, NothingTaken
<1>9. TrainedBy(made') = {} /\ Apart(made') /\ \A i \in DOMAIN made' : Shaped(made'[i])
  BY <1>1, <1>6
<1>10. made' \in Seq(Data) /\ steps' \in Seq(Steps)
  BY <1>1, <1>5
<1>11. UnderWay'
  BY <1>1, <1>3, <1>7, <1>8, <1>9, <1>10 DEF UnderWay
<1> QED BY <1>3, <1>4, <1>11

\* A datum with the metadata of trajectory m of group g.
Row(d, g, m) == [datum |-> d, group_idx |-> g, traj_idx |-> m]

\* E is D and then the data ds, of trajectory m of group g.
Extends(E, D, ds, g, m) ==
  /\ Len(D) \in Nat /\ Len(ds) \in Nat /\ DOMAIN D = 1 .. Len(D) /\ DOMAIN ds = 1 .. Len(ds)
  /\ E \in Seq(Rows) /\ DOMAIN E = 1 .. Len(D) + Len(ds)
  /\ \A i \in 1 .. Len(D) : E[i] = D[i]
  /\ \A i \in 1 .. Len(ds) : E[Len(D) + i] = Row(ds[i], g, m)

(* The data of a trajectory go to the end, with its group and its number. *)
LEMMA EndData ==
  ASSUME UnderWay, Finished, EndTrajectory, ~raised'
  PROVE  /\ made \o NewDatum \in Seq(Data) /\ TrainedBy(made \o NewDatum) = Drawn(Current)
         /\ Apart(made \o NewDatum)
         /\ \A i \in DOMAIN (made \o NewDatum) : Shaped((made \o NewDatum)[i])
         /\ Extends(data', data, made \o NewDatum, group, member)
<1> DEFINE mk == made \o NewDatum
           N == Len(data)
           M == Len(mk)
           rows == [i \in DOMAIN mk |-> Row(mk[i], group, member)]
<1>1. steps # <<>> /\ NewDatum # <<>>
  BY DEF EndTrajectory
<1>2. /\ mk \in Seq(Data) /\ TrainedBy(mk) = Drawn(Current) /\ Apart(mk)
      /\ \A i \in DOMAIN mk : Shaped(mk[i])
  BY <1>1, Closing
<1>3. data \in Seq(Rows)
  BY DEF Finished, Batched
<1>5. data' = data \o rows
  BY DEF EndTrajectory, Row
<1> HIDE DEF mk
<1>4. N \in Nat /\ M \in Nat /\ DOMAIN data = 1 .. N /\ DOMAIN mk = 1 .. M
  BY <1>2, <1>3, LenProperties
<1>6. rows \in Seq(Rows) /\ Len(rows) = M /\ \A i \in 1 .. M : rows[i] = Row(mk[i], group, member)
  <2>1. \A d \in Data : Row(d, group, member) \in Rows
    BY DEF Row, Rows, UnderWay
  <2>2. \A i \in 1 .. M : mk[i] \in Data
    BY <1>2, ElementOfSeq
  <2>3. rows \in [1 .. M -> Rows]
    BY <1>4, <2>1, <2>2
  <2>4. rows \in Seq(Rows)
    BY <1>4, <2>3, SeqDef
  <2> QED BY <1>4, <2>3, <2>4
<1> HIDE DEF rows
<1>7. /\ data \o rows \in Seq(Rows) /\ Len(data \o rows) = N + M
      /\ \A i \in 1 .. N + M : (data \o rows)[i] = IF i <= N THEN data[i] ELSE rows[i - N]
  <2>1. \A x, y \in Seq(Rows) :
        /\ x \o y \in Seq(Rows) /\ Len(x \o y) = Len(x) + Len(y)
        /\ \A i \in 1 .. Len(x) + Len(y) : (x \o y)[i] = IF i <= Len(x) THEN x[i] ELSE y[i - Len(x)]
    BY ConcatProperties
  <2> QED BY <1>3, <1>6, <2>1
<1>8. DOMAIN (data \o rows) = 1 .. N + M
  BY <1>7, LenProperties
<1> HIDE DEF N, M
<1>9. \A i \in 1 .. N : (data \o rows)[i] = data[i]
  <2> TAKE i \in 1 .. N
  <2>1. i \in 1 .. N + M /\ i <= N
    BY <1>4
  <2> QED BY <1>7, <2>1
<1>10. \A i \in 1 .. M : (data \o rows)[N + i] = Row(mk[i], group, member)
  <2> TAKE i \in 1 .. M
  <2>1. N + i \in 1 .. N + M /\ ~(N + i <= N) /\ (N + i) - N = i
    BY <1>4
  <2> QED BY <1>6, <1>7, <2>1
<1>11. Extends(data', data, mk, group, member)
  BY <1>4, <1>5, <1>7, <1>8, <1>9, <1>10 DEF Extends, N, M
<1> QED BY <1>2, <1>11 DEF mk

(* What is true of a batch stays true with the data of one more trajectory. *)
LEMMA BatchGrows ==
  ASSUME NEW D, NEW S, NEW g \in Nat, NEW m \in Nat, Batched(D, S, g, m),
         NEW E, NEW mk \in Seq(Data), Extends(E, D, mk, g, m), NEW ss,
         TrainedBy(mk) = Drawn([group |-> g, member |-> m, steps |-> ss]),
         Apart(mk), \A i \in DOMAIN mk : Shaped(mk[i]),
         NEW g2, NEW m2,
         \A a, b \in Nat : Precedes(a, b, g, m) \/ (a = g /\ b = m) => Precedes(a, b, g2, m2)
  PROVE  Batched(E, S \cup {[group |-> g, member |-> m, steps |-> ss]}, g2, m2)
<1> DEFINE N == Len(D)
           M == Len(mk)
           c == [group |-> g, member |-> m, steps |-> ss]
<1>1. /\ N \in Nat /\ M \in Nat /\ DOMAIN D = 1 .. N /\ DOMAIN mk = 1 .. M
      /\ E \in Seq(Rows) /\ DOMAIN E = 1 .. N + M
      /\ \A i \in 1 .. N : E[i] = D[i]
      /\ \A i \in 1 .. M : E[N + i] = Row(mk[i], g, m)
  BY DEF Extends
<1>2. D \in Seq(Rows)
  BY DEF Batched
<1>3. c.group = g /\ c.member = m
  OBVIOUS
<1> HIDE DEF N, M
<1>4. ASSUME NEW i \in 1 .. N
      PROVE  /\ Shaped(D[i].datum) /\ D[i].group_idx \in Nat /\ D[i].traj_idx \in Nat
             /\ Precedes(D[i].group_idx, D[i].traj_idx, g, m)
             /\ Carries(D[i].datum, D[i].group_idx, D[i].traj_idx)
             /\ ~(D[i].group_idx = g /\ D[i].traj_idx = m)
  <2>1. D[i] \in Rows
    BY <1>1, <1>2, ElementOfSeq DEF N
  <2>2. D[i].group_idx \in Nat /\ D[i].traj_idx \in Nat
    BY <2>1 DEF Rows
  <2>3. /\ Shaped(D[i].datum) /\ Precedes(D[i].group_idx, D[i].traj_idx, g, m)
        /\ Carries(D[i].datum, D[i].group_idx, D[i].traj_idx)
    BY <1>1 DEF Batched
  <2>4. ~(D[i].group_idx = g /\ D[i].traj_idx = m)
    BY <2>2, <2>3 DEF Precedes
  <2> QED BY <2>2, <2>3, <2>4
<1>5. ASSUME NEW i \in 1 .. M
      PROVE  /\ E[N + i].datum = mk[i] /\ E[N + i].group_idx = g /\ E[N + i].traj_idx = m
             /\ Shaped(mk[i]) /\ Carries(mk[i], g, m)
  <2>1. E[N + i].datum = mk[i] /\ E[N + i].group_idx = g /\ E[N + i].traj_idx = m
    <3>1. E[N + i] = Row(mk[i], g, m)
      BY <1>1
    <3> DEFINE d == mk[i]
    <3>2. /\ Row(d, g, m).datum = d /\ Row(d, g, m).group_idx = g /\ Row(d, g, m).traj_idx = m
      BY DEF Row
    <3> QED BY <3>1, <3>2
  <2>2. ASSUME NEW x \in Trained(mk[i]) PROVE x.logprob[1] = g /\ x.logprob[2] = m
    <3>1. x \in Drawn(c)
      BY <1>1 DEF TrainedBy
    <3> QED BY <3>1, DrawnCarries
  <2> QED BY <1>1, <2>1, <2>2 DEF Carries
<1> HIDE DEF c
<1>6. ASSUME NEW i \in 1 .. N + M PROVE i \in 1 .. N \/ \E j \in 1 .. M : i = N + j
  <2>1. CASE i <= N
    BY <2>1
  <2>2. CASE ~(i <= N)
    <3>1. i - N \in 1 .. M /\ i = N + (i - N)
      BY <1>1, <2>2
    <3> QED BY <3>1
  <2> QED BY <2>1, <2>2
<1>7. (\A i \in 1 .. N : i \in 1 .. N + M) /\ (\A i \in 1 .. M : N + i \in 1 .. N + M)
  BY <1>1
<1>8. ASSUME NEW i \in DOMAIN E
      PROVE  /\ Shaped(E[i].datum) /\ Precedes(E[i].group_idx, E[i].traj_idx, g2, m2)
             /\ Carries(E[i].datum, E[i].group_idx, E[i].traj_idx)
  <2>1. CASE i \in 1 .. N
    <3>1. E[i] = D[i]
      BY <1>1, <2>1
    <3>2. Precedes(D[i].group_idx, D[i].traj_idx, g2, m2)
      BY <1>4, <2>1
    <3> QED BY <1>4, <2>1, <3>1, <3>2
  <2>2. ASSUME NEW j \in 1 .. M, i = N + j
        PROVE  /\ Shaped(E[i].datum) /\ Precedes(E[i].group_idx, E[i].traj_idx, g2, m2)
               /\ Carries(E[i].datum, E[i].group_idx, E[i].traj_idx)
    <3>1. Precedes(g, m, g2, m2)
      OBVIOUS
    <3> QED BY <1>5, <2>2, <3>1
  <2> QED BY <1>1, <1>6, <2>1, <2>2
<1>9. ASSUME NEW i \in 1 .. N, NEW j \in 1 .. M PROVE Trained(D[i].datum) \cap Trained(mk[j]) = {}
  <2> SUFFICES ASSUME NEW x \in Trained(D[i].datum), x \in Trained(mk[j]) PROVE FALSE
    OBVIOUS
  <2>1. x.logprob[1] = D[i].group_idx /\ x.logprob[2] = D[i].traj_idx
    BY <1>4 DEF Carries
  <2>2. x.logprob[1] = g /\ x.logprob[2] = m
    BY <1>5 DEF Carries
  <2> QED BY <1>4, <2>1, <2>2
<1>10. ASSUME NEW i \in DOMAIN E, NEW j \in DOMAIN E, i # j
       PROVE  Trained(E[i].datum) \cap Trained(E[j].datum) = {}
  <2>1. CASE i \in 1 .. N /\ j \in 1 .. N
    <3>1. E[i] = D[i] /\ E[j] = D[j] /\ i \in DOMAIN D /\ j \in DOMAIN D
      BY <1>1, <2>1
    <3> QED BY <1>10, <3>1 DEF Batched
  <2>2. ASSUME i \in 1 .. N, NEW l \in 1 .. M, j = N + l
        PROVE  Trained(E[i].datum) \cap Trained(E[j].datum) = {}
    BY <1>1, <1>5, <1>9, <2>2
  <2>3. ASSUME j \in 1 .. N, NEW l \in 1 .. M, i = N + l
        PROVE  Trained(E[i].datum) \cap Trained(E[j].datum) = {}
    BY <1>1, <1>5, <1>9, <2>3
  <2>4. ASSUME NEW a \in 1 .. M, NEW b \in 1 .. M, i = N + a, j = N + b
        PROVE  Trained(E[i].datum) \cap Trained(E[j].datum) = {}
    <3>1. a # b
      BY <1>10, <2>4
    <3>2. Trained(mk[a]) \cap Trained(mk[b]) = {}
      BY <1>1, <3>1 DEF Apart
    <3> QED BY <1>5, <2>4, <3>2
  <2> QED BY <1>1, <1>6, <2>1, <2>2, <2>3, <2>4
<1>11. ASSUME NEW a, NEW b, NEW x
       PROVE  /\ x \in DataOf(E, a, b) <=> \E i \in 1 .. N + M :
                    E[i].group_idx = a /\ E[i].traj_idx = b /\ x \in Trained(E[i].datum)
              /\ x \in DataOf(D, a, b) <=> \E i \in 1 .. N :
                    D[i].group_idx = a /\ D[i].traj_idx = b /\ x \in Trained(D[i].datum)
  BY <1>1 DEF DataOf
<1>12. ASSUME NEW a, NEW b, ~(a = g /\ b = m) PROVE DataOf(E, a, b) = DataOf(D, a, b)
  <2>1. ASSUME NEW x \in DataOf(E, a, b) PROVE x \in DataOf(D, a, b)
    <3>1. PICK i \in 1 .. N + M : E[i].group_idx = a /\ E[i].traj_idx = b /\ x \in Trained(E[i].datum)
      BY <1>11
    <3>2. i \in 1 .. N
      BY <1>5, <1>6, <1>12, <3>1
    <3>3. E[i] = D[i]
      BY <1>1, <3>2
    <3> QED BY <1>11, <3>1, <3>2, <3>3
  <2>2. ASSUME NEW x \in DataOf(D, a, b) PROVE x \in DataOf(E, a, b)
    <3>1. PICK i \in 1 .. N : D[i].group_idx = a /\ D[i].traj_idx = b /\ x \in Trained(D[i].datum)
      BY <1>11
    <3>2. E[i] = D[i] /\ i \in 1 .. N + M
      BY <1>1, <1>7, <3>1
    <3> QED BY <1>11, <3>1, <3>2
  <2> QED BY <2>1, <2>2
<1>13. DataOf(E, g, m) = TrainedBy(mk)
  <2>0. ASSUME NEW x PROVE x \in TrainedBy(mk) <=> \E j \in 1 .. M : x \in Trained(mk[j])
    BY <1>1 DEF TrainedBy
  <2>1. ASSUME NEW x \in DataOf(E, g, m) PROVE x \in TrainedBy(mk)
    <3>1. PICK i \in 1 .. N + M : E[i].group_idx = g /\ E[i].traj_idx = m /\ x \in Trained(E[i].datum)
      BY <1>11
    <3>2. i \notin 1 .. N
      <4> SUFFICES ASSUME i \in 1 .. N PROVE FALSE
        OBVIOUS
      <4>1. E[i] = D[i]
        BY <1>1
      <4> QED BY <1>4, <3>1, <4>1
    <3>3. PICK j \in 1 .. M : i = N + j
      BY <1>6, <3>2
    <3> QED BY <1>5, <2>0, <3>1, <3>3
  <2>2. ASSUME NEW x \in TrainedBy(mk) PROVE x \in DataOf(E, g, m)
    <3>1. PICK j \in 1 .. M : x \in Trained(mk[j])
      BY <2>0
    <3>2. N + j \in 1 .. N + M
      BY <1>7
    <3> QED BY <1>5, <1>11, <3>1, <3>2
  <2> QED BY <2>1, <2>2
<1>14. ASSUME NEW t \in S \cup {c}
       PROVE  /\ t.group \in Nat /\ t.member \in Nat /\ Precedes(t.group, t.member, g2, m2)
              /\ Drawn(t) = DataOf(E, t.group, t.member)
  <2>1. CASE t = c
    <3>1. Precedes(g, m, g2, m2)
      OBVIOUS
    <3>2. Drawn(c) = TrainedBy(mk)
      BY DEF c
    <3> QED BY <1>3, <1>13, <2>1, <3>1, <3>2
  <2>2. CASE t \in S
    <3>1. /\ t.group \in Nat /\ t.member \in Nat /\ Precedes(t.group, t.member, g, m)
          /\ Drawn(t) = DataOf(D, t.group, t.member)
      BY <2>2 DEF Batched
    <3>2. ~(t.group = g /\ t.member = m)
      BY <3>1 DEF Precedes
    <3>3. DataOf(E, t.group, t.member) = DataOf(D, t.group, t.member)
      BY <1>12, <3>2
    <3>4. Precedes(t.group, t.member, g2, m2)
      BY <3>1
    <3> QED BY <3>1, <3>3, <3>4
  <2> QED BY <2>1, <2>2
<1>15. Batched(E, S \cup {c}, g2, m2)
  BY <1>1, <1>8, <1>10, <1>14 DEF Batched
<1> QED BY <1>15 DEF c

(* A finished trajectory and its data join the earlier ones. *)
LEMMA EndFinished ==
  ASSUME UnderWay, Finished, EndTrajectory, ~raised'
  PROVE  Finished'
<1> DEFINE mk == made \o NewDatum
<1>1. /\ mk \in Seq(Data) /\ TrainedBy(mk) = Drawn(Current)
      /\ Apart(mk) /\ \A i \in DOMAIN mk : Shaped(mk[i])
      /\ Extends(data', data, mk, group, member)
  BY EndData
<1> HIDE DEF mk
<1>2. /\ group' \in Nat /\ member' \in Nat /\ group \in Nat /\ member \in Nat
      /\ \A a, b \in Nat : Precedes(a, b, group, member) \/ (a = group /\ b = member)
                             => Precedes(a, b, group', member')
  BY EndUnderWay DEF UnderWay
<1>3. Batched(data, done, group, member)
  BY DEF Finished
<1>4. TrainedBy(mk) = Drawn([group |-> group, member |-> member, steps |-> steps])
  BY <1>1 DEF Current
<1>5. Batched(data', done \cup {[group |-> group, member |-> member, steps |-> steps]}, group', member')
  BY <1>1, <1>2, <1>3, <1>4, BatchGrows
<1>6. done' = done \cup {[group |-> group, member |-> member, steps |-> steps]}
  BY DEF EndTrajectory
<1> QED BY <1>5, <1>6 DEF Finished

-----------------------------------------------------------------------------
(* The theorems *)

(* A continuation of the episode is an observation, and not an empty one. *)
LEMMA ContinuationsAreObservations ==
  ASSUME UnderWay, NEW ob \in Continuations
  PROVE  ob \in Seq(Elements) \ {<<>>}
<1>1. steps # <<>> /\ steps \in Seq(Steps)
  BY DEF Continuations, UnderWay
<1>2. Len(steps) \in DOMAIN steps
  <2>1. Len(steps) \in Nat /\ Len(steps) # 0 /\ DOMAIN steps = 1 .. Len(steps)
    BY <1>1, LenProperties, EmptySeq
  <2> QED BY <2>1
<1> DEFINE t == Last(steps)
<1>3. t \in Steps
  BY <1>1, <1>2, ElementOfSeq DEF Last
<1>4. PICK more \in SeqsUpTo(Elements, 1) : ob = t.ob \o t.ac \o more
  BY <1>1 DEF Continuations
<1>5. more \in Seq(Elements)
  BY SeqsUpToAreSeqs
<1> DEFINE o == t.ob
           a == t.ac
<1>6. o \in Seq(Elements) /\ o # <<>> /\ a \in Seq(Elements)
  <2>1. o \in Seq(Elements) \ {<<>>} /\ a \in Seq(Tokens)
    BY <1>3 DEF Steps
  <2>2. Seq(Tokens) \subseteq Seq(Elements)
    <3>1. Tokens \subseteq Elements
      BY DEF Elements
    <3> QED BY <3>1, SeqDef
  <2> QED BY <2>1, <2>2
<1>7. ob = o \o a \o more
  BY <1>4
<1> HIDE DEF t, o, a
<1>8. \A x, y \in Seq(Elements) : x \o y \in Seq(Elements) /\ Len(x \o y) = Len(x) + Len(y)
  BY ConcatProperties
<1>9. o \o a \in Seq(Elements) /\ Len(o \o a) = Len(o) + Len(a)
  BY <1>6, <1>8
<1>10. (o \o a) \o more \in Seq(Elements) /\ Len((o \o a) \o more) = Len(o \o a) + Len(more)
  BY <1>5, <1>8, <1>9
<1>11. Len(o) \in Nat /\ Len(o) # 0 /\ Len(a) \in Nat /\ Len(more) \in Nat
  BY <1>5, <1>6, LenProperties, EmptySeq
<1>12. Len(ob) # 0
  BY <1>7, <1>9, <1>10, <1>11
<1>13. Len(<<>>) = 0
  OBVIOUS
<1> QED BY <1>7, <1>10, <1>12, <1>13

(* What a batch is made of is enough for what it trains. *)
LEMMA BatchSamples ==
  ASSUME BatchInv
  PROVE  SampledOnce
<1> SUFFICES ASSUME ~raised PROVE SampledOnce
  BY DEF SampledOnce
<1>1. Batched(data, done, group, member)
  BY DEF BatchInv, Finished
<1>2. ASSUME NEW t \in done
      PROVE  Drawn(t) = UNION {Trained(data[i].datum) : i \in {j \in DOMAIN data :
                                 data[j].group_idx = t.group /\ data[j].traj_idx = t.member}}
  <2>1. Drawn(t) = DataOf(data, t.group, t.member)
    BY <1>1 DEF Batched
  <2> QED BY <2>1 DEF DataOf
<1>3. \A i, j \in DOMAIN data : i # j => Trained(data[i].datum) \cap Trained(data[j].datum) = {}
  BY <1>1 DEF Batched
<1>4. ASSUME NEW i \in DOMAIN data
      PROVE  LET d == data[i].datum IN
             /\ Len(d.targets) = Length(d.inputs) /\ Len(d.mask) = Len(d.targets)
             /\ \A p \in DOMAIN d.mask : d.advantages[p] # <<0, 0>> <=> d.logprobs[p] # None
  <2>1. Shaped(data[i].datum)
    BY <1>1 DEF Batched
  <2> QED BY <2>1 DEF Shaped
<1> QED BY <1>2, <1>3, <1>4 DEF SampledOnce

(* Before the first trajectory nothing was drawn and nothing is trained. *)
LEMMA BatchStarts ==
  ASSUME Init
  PROVE  BatchInv
<1>1. /\ group = 1 /\ member = 1 /\ steps = <<>> /\ acc = Cleared /\ made = <<>>
      /\ data = <<>> /\ done = {}
  BY DEF Init
<1>2. Aligned(acc) /\ Taken(acc) = {}
  BY <1>1, NothingTaken
<1>3. Drawn(Current) = {} /\ TrainedBy(made) = {}
  <2>1. DOMAIN <<>> = {}
    OBVIOUS
  <2>2. Current.steps = <<>>
    BY <1>1 DEF Current
  <2> QED BY <1>1, <2>1, <2>2 DEF Drawn, TrainedBy
<1>4. UnderWay
  <2>1. Apart(made) /\ \A i \in DOMAIN made : Shaped(made[i])
    BY <1>1 DEF Apart
  <2> QED BY <1>1, <1>2, <1>3, <2>1 DEF UnderWay
<1>5. Finished
  <2>1. DOMAIN data = {} /\ data \in Seq(Rows)
    BY <1>1
  <2> QED BY <1>1, <2>1 DEF Finished, Batched
<1> QED BY <1>4, <1>5 DEF BatchInv

(* BatchInv: through every transition, end of a trajectory and supervised example, what    *)
(* the trajectories drew is what their data and the accumulator train, unless the batch is *)
(* given up with a ValueError.                                                           *)
THEOREM BatchInvariant == Spec => []BatchInv
<1>1. Init => BatchInv
  BY BatchStarts
<1>2. BatchInv /\ [Next]_vars => BatchInv'
  <2> SUFFICES ASSUME BatchInv, [Next]_vars, ~raised' PROVE UnderWay' /\ Finished'
    BY DEF BatchInv
  <2>1. ASSUME NEW ob \in (SeqsUpTo(Elements, MaxOb) \ {<<>>}) \cup Continuations,
               NEW ac \in SeqsUpTo(Tokens, MaxAc), NEW mask \in [DOMAIN ac -> BOOLEAN],
               Transition(ob, ac, mask)
        PROVE  UnderWay' /\ Finished'
    <3>1. UnderWay /\ Finished
      BY <2>1 DEF Transition, BatchInv
    <3>2. MaxOb \in Nat /\ MaxAc \in Nat
      BY DataAssumption
    <3>3. ac \in Seq(Tokens)
      BY <3>2, SeqsUpToAreSeqs
    <3>4. ob \in Seq(Elements) \ {<<>>}
      <4>1. CASE ob \in Continuations
        BY <3>1, <4>1, ContinuationsAreObservations
      <4>2. CASE ob \in SeqsUpTo(Elements, MaxOb) \ {<<>>}
        BY <3>2, <4>2, SeqsUpToAreSeqs
      <4> QED BY <4>1, <4>2
    <3>5. UnderWay'
      BY <2>1, <3>1, <3>3, <3>4, TransitionUnderWay
    <3>6. Finished'
      BY <2>1, <3>1, TransitionFinished
    <3> QED BY <3>5, <3>6
  <2>2. ASSUME EndTrajectory PROVE UnderWay' /\ Finished'
    <3>1. UnderWay /\ Finished
      BY <2>2 DEF EndTrajectory, BatchInv
    <3> QED BY <2>2, <3>1, EndUnderWay, EndFinished
  <2>3. ASSUME UNCHANGED <<group, member, steps, acc, made, data, raised, done>>
        PROVE  UnderWay' /\ Finished'
    <3>1. UnderWay /\ Finished
      BY <2>3 DEF BatchInv
    <3>2. UnderWay'
      <4>1. Current' = Current
        BY <2>3 DEF Current
      <4> QED BY <2>3, <3>1, <4>1 DEF UnderWay
    <3>3. Finished'
      BY <2>3, <3>1 DEF Finished
    <3> QED BY <3>2, <3>3
  <2>4. ASSUME NEW s, NEW max, Supervise(s, max)
        PROVE  UNCHANGED <<group, member, steps, acc, made, data, raised, done>>
    BY <2>4 DEF Supervise
  <2>5. UNCHANGED vars => UNCHANGED <<group, member, steps, acc, made, data, raised, done>>
    BY DEF vars
  <2> QED BY <2>1, <2>2, <2>3, <2>4, <2>5 DEF Next
<1> QED BY <1>1, <1>2, PTL DEF Spec

(* SampledOnce: however the transitions of an episode are merged, each sampled token    *)
(* that is not masked is trained exactly once, in its context, with its log probability *)
(* and the advantage of its trajectory, and nothing else is; for every vocabulary, every *)
(* image length and every number of groups, trajectories and transitions               *)
(* (trajectory_to_data, assemble_training_data).                                       *)
THEOREM EverySampleOnce == Spec => []SampledOnce
<1>1. BatchInv => SampledOnce
  BY BatchSamples
<1> QED BY <1>1, BatchInvariant, PTL
=============================================================================
