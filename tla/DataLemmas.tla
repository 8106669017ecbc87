----------------------------- MODULE DataLemmas ------------------------------
(***************************************************************************)
(* Facts about naturals, finite sets and sequences that the proofs of the  *)
(* components share. The induction theorems of the library take an        *)
(* operator as a parameter; here they are stated for a set.                *)
(***************************************************************************)
EXTENDS Integers, SequencesExt, FiniteSetTheorems, WellFoundedInduction,
        SequenceTheorems, FunctionTheorems, TLAPS

\* Induction on the naturals: every natural is in a set that has 0 and the
\* successor of each of its members.
LEMMA NatInductionOnSet ==
  ASSUME NEW S, 0 \in S, \A n \in Nat : n \in S => n + 1 \in S
  PROVE  Nat \subseteq S
<1> DEFINE Bad == {X \in FiniteSubsetsOf(Nat) : \E n \in Nat \ S : X = 0..n}
<1>1. SUFFICES ASSUME NEW k \in Nat, k \notin S PROVE FALSE
  OBVIOUS
<1>2. \A n \in Nat : 0..n \in FiniteSubsetsOf(Nat)
  BY FS_Interval DEF FiniteSubsetsOf
<1>3. 0..k \in Bad
  BY <1>1, <1>2
<1>4. PICK X \in Bad : \A Y \in Bad : <<Y, X>> \notin StrictSubsetOrdering(Nat)
  <2>1. Bad \subseteq FiniteSubsetsOf(Nat) /\ Bad # {}
    BY <1>3
  <2>2. IsWellFoundedOn(StrictSubsetOrdering(Nat), FiniteSubsetsOf(Nat))
    BY FS_StrictSubsetOrderingWellFounded
  <2> HIDE DEF Bad
  <2> QED
    BY <2>1, <2>2, WFMin
<1>5. PICK n \in Nat \ S : X = 0..n
  OBVIOUS
<1>6. n # 0
  OBVIOUS
<1>7. n - 1 \in Nat /\ n - 1 \notin S
  BY <1>6
<1>8. 0..(n - 1) \in Bad
  BY <1>2, <1>7
<1>9. <<0..(n - 1), X>> \in StrictSubsetOrdering(Nat)
  <2>1. 0..(n - 1) \subseteq X /\ X \subseteq Nat /\ n \in X /\ n \notin 0..(n - 1)
    BY <1>5, <1>7
  <2> QED
    BY <2>1 DEF StrictSubsetOrdering
<1> QED
  BY <1>4, <1>8, <1>9

\* The same up to a bound.
LEMMA BoundedInduction ==
  ASSUME NEW N \in Nat, NEW T, 0 \in T, \A n \in 0..N - 1 : n \in T => n + 1 \in T
  PROVE  \A n \in 0..N : n \in T
<1> DEFINE S == {n \in Nat : n <= N => n \in T}
<1>1. 0 \in S
  OBVIOUS
<1>2. ASSUME NEW n \in Nat, n \in S PROVE n + 1 \in S
  <2>1. CASE n + 1 <= N
    BY <1>2, <2>1
  <2> QED
    BY <2>1
<1>3. Nat \subseteq S
  <2> HIDE DEF S
  <2> QED
    BY <1>1, <1>2, NatInductionOnSet
<1> QED
  BY <1>3

\* A step taken again and again: what a recursive function on 0..N is.
LEMMA IterationExists ==
  ASSUME NEW S, NEW base \in S, NEW N \in Nat, NEW step \in [1..N -> [S -> S]]
  PROVE  \E g \in [0..N -> S] : g[0] = base /\ \A n \in 1..N : g[n] = step[n][g[n - 1]]
<1> DEFINE Goes(m, g) == g[0] = base /\ \A n \in 1..m : g[n] = step[n][g[n - 1]]
           T == {m \in 0..N : \E g \in [0..m -> S] : Goes(m, g)}
<1>1. 0 \in T
  <2>1. [n \in 0..0 |-> base] \in [0..0 -> S] /\ Goes(0, [n \in 0..0 |-> base])
    OBVIOUS
  <2> HIDE DEF Goes
  <2> QED
    BY <2>1
<1>2. ASSUME NEW m \in 0..N - 1, m \in T PROVE m + 1 \in T
  <2>1. PICK g \in [0..m -> S] : Goes(m, g)
    <3> HIDE DEF Goes
    <3> QED
      BY <1>2
  <2> DEFINE h == [n \in 0..m + 1 |-> IF n = m + 1 THEN step[m + 1][g[m]] ELSE g[n]]
  <2>2. m + 1 \in 1..N /\ m \in 0..m /\ step[m + 1][g[m]] \in S
    <3>1. m + 1 \in 1..N /\ m \in 0..m
      OBVIOUS
    <3>2. step[m + 1] \in [S -> S] /\ g[m] \in S
      BY <3>1
    <3> QED
      BY <3>1, <3>2
  <2>3. h \in [0..m + 1 -> S]
    BY <2>2
  <2>4. \A n \in 0..m : h[n] = g[n]
    OBVIOUS
  <2>5. h[m + 1] = step[m + 1][g[m]]
    OBVIOUS
  <2> HIDE DEF h
  <2>6. h[0] = base
    BY <2>1, <2>4
  <2>7. ASSUME NEW n \in 1..m + 1 PROVE h[n] = step[n][h[n - 1]]
    <3>1. CASE n = m + 1
      BY <2>4, <2>5, <3>1
    <3>2. CASE n # m + 1
      <4>1. n \in 1..m /\ n \in 0..m /\ n - 1 \in 0..m
        BY <3>2
      <4> QED
        BY <2>1, <2>4, <4>1
    <3> QED
      BY <3>1, <3>2
  <2>8. Goes(m + 1, h)
    BY <2>6, <2>7
  <2> HIDE DEF Goes
  <2> QED
    BY <2>3, <2>8
<1>3. N \in T
  <2> HIDE DEF T
  <2>1. \A m \in 0..N : m \in T
    BY <1>1, <1>2, BoundedInduction
  <2> QED
    BY <2>1
<1> QED
  BY <1>3

\* The same where step n leads from the members of stage n - 1 to members of stage n.
Staged(S, base, N, stage, step) ==
  /\ stage \in [0..N -> SUBSET S] /\ base \in stage[0]
  /\ \A n \in 1..N : \A s \in stage[n - 1] : step[n][s] \in stage[n]

Iterates(g, S, base, N, stage, step) ==
  /\ g \in [0..N -> S] /\ g[0] = base
  /\ \A n \in 1..N : g[n - 1] \in stage[n - 1] /\ g[n] = step[n][g[n - 1]]
  /\ \A n \in 0..N : g[n] \in stage[n]

LEMMA StagedIteration ==
  ASSUME NEW S, NEW base \in S, NEW N \in Nat, NEW stage, NEW step, Staged(S, base, N, stage, step)
  PROVE  \E g : Iterates(g, S, base, N, stage, step)
<1>0. /\ stage \in [0..N -> SUBSET S] /\ base \in stage[0]
      /\ \A n \in 1..N : \A s \in stage[n - 1] : step[n][s] \in stage[n]
  BY DEF Staged
<1> DEFINE total == [n \in 1..N |-> [s \in S |-> IF s \in stage[n - 1] THEN step[n][s] ELSE base]]
<1>1. \A n \in 1..N : n \in 0..N /\ n - 1 \in 0..N
  OBVIOUS
<1>2. \A n \in 1..N : \A s \in S : total[n][s] = IF s \in stage[n - 1] THEN step[n][s] ELSE base
  OBVIOUS
<1>3. total \in [1..N -> [S -> S]]
  <2>1. ASSUME NEW n \in 1..N, NEW s \in S
        PROVE  (IF s \in stage[n - 1] THEN step[n][s] ELSE base) \in S
    <3>1. stage[n] \in SUBSET S
      BY <1>0, <1>1
    <3> QED
      BY <1>0, <3>1
  <2> QED
    BY <2>1
<1> HIDE DEF total
<1>4. PICK g \in [0..N -> S] : g[0] = base /\ \A n \in 1..N : g[n] = total[n][g[n - 1]]
  BY ONLY <1>3, base \in S, N \in Nat, IterationExists
<1> DEFINE T == {n \in 0..N : g[n] \in stage[n]}
<1>5. 0 \in T
  BY <1>0, <1>4
<1>6. ASSUME NEW n \in 0..N - 1, n \in T PROVE n + 1 \in T
  <2>1. n + 1 \in 1..N /\ (n + 1) - 1 = n /\ n + 1 \in 0..N
    OBVIOUS
  <2>2. g[n] \in stage[n] /\ g[n] \in S
    BY <1>6
  <2>3. step[n + 1][g[n]] \in stage[n + 1]
    BY <1>0, <2>1, <2>2
  <2>4. g[n + 1] = step[n + 1][g[n]]
    BY <1>2, <1>4, <2>1, <2>2
  <2> QED
    BY <2>1, <2>3, <2>4
<1>7. \A n \in 0..N : n \in T
  <2> HIDE DEF T
  <2> QED
    BY <1>5, <1>6, BoundedInduction
<1>8. ASSUME NEW n \in 1..N PROVE g[n - 1] \in stage[n - 1] /\ g[n] = step[n][g[n - 1]]
  <2>1. g[n - 1] \in stage[n - 1] /\ g[n - 1] \in S
    BY <1>1, <1>7
  <2> QED
    BY <1>2, <1>4, <2>1
<1> QED
  BY <1>4, <1>7, <1>8 DEF Iterates

\* A set of naturals that is bounded and not empty has a largest member.
LEMMA LargestExists ==
  ASSUME NEW n \in Nat, NEW T, T \subseteq 1..n, T # {}
  PROVE  \E p \in T : \A q \in T : q <= p
<1> DEFINE S == {m \in Nat : \A U \in SUBSET (1..m) : U # {} => \E p \in U : \A q \in U : q <= p}
<1>1. 0 \in S
  <2>1. 1..0 = {}
    OBVIOUS
  <2> QED
    BY <2>1
<1>2. ASSUME NEW m \in Nat, m \in S PROVE m + 1 \in S
  <2>1. ASSUME NEW U \in SUBSET (1..(m + 1)), U # {} PROVE \E p \in U : \A q \in U : q <= p
    <3>1. CASE m + 1 \in U
      BY <3>1
    <3>2. CASE m + 1 \notin U
      <4>1. U \in SUBSET (1..m)
        BY <3>2
      <4> QED
        BY <1>2, <2>1, <4>1
    <3> QED
      BY <3>1, <3>2
  <2> QED
    BY <2>1
<1> HIDE DEF S
<1>3. n \in S
  BY <1>1, <1>2, NatInductionOnSet
<1> QED
  BY <1>3 DEF S

\* What is left of a sequence without its member at i.
LEMMA RemoveAtFacts ==
  ASSUME NEW S, NEW s \in Seq(S), NEW i \in 1..Len(s)
  PROVE  /\ RemoveAt(s, i) \in Seq(S)
         /\ Len(RemoveAt(s, i)) = Len(s) - 1
         /\ \A j \in 1..Len(s) - 1 :
              RemoveAt(s, i)[j] = IF j < i THEN s[j] ELSE s[j + 1]
<1> DEFINE before == SubSeq(s, 1, i - 1)
           after == SubSeq(s, i + 1, Len(s))
<1>1. /\ before \in Seq(S) /\ Len(before) = i - 1
      /\ \A j \in 1..i - 1 : before[j] = s[j]
  OBVIOUS
<1>2. /\ after \in Seq(S) /\ Len(after) = Len(s) - i
      /\ \A j \in 1..Len(s) - i : after[j] = s[i + j]
  OBVIOUS
<1> HIDE DEF before, after
<1>3. /\ before \o after \in Seq(S) /\ Len(before \o after) = Len(s) - 1
      /\ \A j \in 1..Len(s) - 1 :
           (before \o after)[j] = IF j < i THEN s[j] ELSE s[j + 1]
  <2>1. /\ before \o after \in Seq(S)
        /\ Len(before \o after) = Len(before) + Len(after)
        /\ \A j \in 1..Len(before) + Len(after) :
             (before \o after)[j] = IF j <= Len(before) THEN before[j]
                                    ELSE after[j - Len(before)]
    BY <1>1, <1>2, ConcatProperties
  <2>2. Len(before) + Len(after) = Len(s) - 1
    BY <1>1, <1>2
  <2>3. \A j \in 1..Len(s) - 1 : j >= i =>
          /\ j - Len(before) \in 1..Len(s) - i
          /\ i + (j - Len(before)) = j + 1
    BY <1>1
  <2> QED
    BY <1>1, <1>2, <2>1, <2>2, <2>3
<1> QED
  BY <1>3 DEF RemoveAt, before, after

\* A set of numbers of 1..n that is not empty has a smallest member.
LEMMA SmallestExists ==
  ASSUME NEW n \in Nat, NEW T, T \subseteq 1..n, T # {}
  PROVE  /\ Min(T) \in T
         /\ \A q \in T : Min(T) <= q
<1> DEFINE Mirror == {n + 1 - q : q \in T}
<1>1. Mirror \subseteq 1..n /\ Mirror # {}
  <2>1. \A q \in T : q \in Int /\ 1 <= q /\ q <= n
    OBVIOUS
  <2>2. \A q \in T : n + 1 - q \in 1..n
    BY <2>1
  <2> QED
    BY <2>2
<1>2. PICK m \in Mirror : \A q \in Mirror : q <= m
  <2> HIDE DEF Mirror
  <2> QED
    BY <1>1, LargestExists
<1>3. PICK p \in T : m = n + 1 - p
  OBVIOUS
<1>4. \A q \in T : n + 1 - q <= n + 1 - p
  BY <1>2, <1>3
<1>5. \A q \in T : p <= q
  <2> SUFFICES ASSUME NEW q \in T PROVE p <= q
    OBVIOUS
  <2>1. p \in Int /\ q \in Int /\ n + 1 - q <= n + 1 - p
    BY <1>4
  <2> QED
    BY <2>1
<1> QED
  BY <1>5 DEF Min

\* A sequence without its last member.
LEMMA FrontFacts ==
  ASSUME NEW S, NEW s \in Seq(S), s # <<>>
  PROVE  Front(s) \in Seq(S) /\ Len(Front(s)) = Len(s) - 1
<1>1. Len(s) \in Nat \ {0}
  BY EmptySeq
<1>2. \A i \in 1..Len(s) - 1 : s[i] \in S
  BY <1>1
<1>3. \A n \in Nat \ {0} : n - 1 \in Int /\ (IF 1 <= n - 1 THEN n - 1 - 1 + 1 ELSE 0) = n - 1
  OBVIOUS
<1>4. 1 \in Int /\ Len(s) - 1 \in Int
  <2>1. Len(s) - 1 \in Int
    BY <1>1, <1>3, Zenon
  <2> QED
    BY <2>1
<1>5. /\ SubSeq(s, 1, Len(s) - 1) \in Seq(S)
      /\ Len(SubSeq(s, 1, Len(s) - 1)) = IF 1 <= Len(s) - 1 THEN Len(s) - 1 - 1 + 1 ELSE 0
  BY <1>2, <1>4, SubSeqProperties
<1>6. Len(SubSeq(s, 1, Len(s) - 1)) = Len(s) - 1
  BY <1>1, <1>3, <1>5, Zenon
<1> QED
  BY <1>5, <1>6 DEF Front

\* The end of a sequence, from its i-th member on.
LEMMA RestFacts ==
  ASSUME NEW S, NEW s \in Seq(S), NEW i \in 1..Len(s)
  PROVE  /\ SubSeq(s, i, Len(s)) \in Seq(S)
         /\ Len(SubSeq(s, i, Len(s))) = Len(s) - i + 1
         /\ \A j \in 1..Len(s) - i + 1 : SubSeq(s, i, Len(s))[j] = s[i + j - 1]
<1>1. Len(s) \in Nat
  BY LenProperties
<1>2. i \in Int /\ Len(s) \in Int /\ i <= Len(s) /\ \A j \in i..Len(s) : s[j] \in S
  BY <1>1
<1>3. /\ SubSeq(s, i, Len(s)) \in Seq(S)
      /\ Len(SubSeq(s, i, Len(s))) = IF i <= Len(s) THEN Len(s) - i + 1 ELSE 0
      /\ \A j \in 1..Len(s) - i + 1 : SubSeq(s, i, Len(s))[j] = s[i + j - 1]
  BY <1>2, SubSeqProperties
<1> QED
  BY <1>2, <1>3

\* A function on the first n numbers is a sequence of length n.
LEMMA FunctionIsSeq ==
  ASSUME NEW S, NEW n \in Nat, NEW f \in [1..n -> S]
  PROVE  f \in Seq(S) /\ Len(f) = n
<1>1. f \in Seq(S)
  BY SeqDef
<1>2. DOMAIN f = 1..n /\ DOMAIN f = 1..Len(f) /\ Len(f) \in Nat
  BY <1>1
<1> QED
  BY <1>1, <1>2

\* A sequence is a suffix of whatever ends with it.
LEMMA SuffixOfConcat ==
  ASSUME NEW S, NEW s \in Seq(S), NEW before \in Seq(S)
  PROVE  IsSuffix(s, before \o s)
<1> DEFINE t == before \o s
<1>1. /\ t \in Seq(S)
      /\ Len(t) = Len(before) + Len(s)
      /\ \A i \in 1..Len(before) + Len(s) :
           t[i] = IF i <= Len(before) THEN before[i] ELSE s[i - Len(before)]
  BY ConcatProperties
<1> HIDE DEF t
<1>2. /\ Reverse(s) \in [1..Len(s) -> S]
      /\ Reverse(t) \in [1..Len(t) -> S]
  <2>1. \A i \in 1..Len(s) : s[Len(s) - i + 1] \in S
    OBVIOUS
  <2>2. \A i \in 1..Len(t) : t[Len(t) - i + 1] \in S
    BY <1>1
  <2> QED
    BY <2>1, <2>2 DEF Reverse
<1>3. /\ Reverse(s) \in Seq(S) /\ Len(Reverse(s)) = Len(s)
      /\ Reverse(t) \in Seq(S) /\ Len(Reverse(t)) = Len(t)
  <2>1. Len(s) \in Nat /\ Len(t) \in Nat
    BY <1>1
  <2> QED
    BY <1>2, <2>1, FunctionIsSeq
<1>4. \A i \in 1..Len(s) : Reverse(s)[i] = Reverse(t)[i]
  <2> SUFFICES ASSUME NEW i \in 1..Len(s) PROVE Reverse(s)[i] = Reverse(t)[i]
    OBVIOUS
  <2>1. Reverse(s)[i] = s[Len(s) - i + 1] /\ Reverse(t)[i] = t[Len(t) - i + 1]
    BY <1>1 DEF Reverse
  <2>2. /\ Len(t) - i + 1 \in 1..Len(before) + Len(s)
        /\ Len(t) - i + 1 > Len(before)
        /\ (Len(t) - i + 1) - Len(before) = Len(s) - i + 1
    BY <1>1
  <2>3. t[Len(t) - i + 1] = s[(Len(t) - i + 1) - Len(before)]
    BY <1>1, <2>2
  <2> QED
    BY <2>1, <2>2, <2>3
<1> DEFINE r == Reverse(s)
           u == Reverse(t)
           n == Len(s)
<1>5. r \in Seq(S) /\ u \in Seq(S) /\ Len(r) = n /\ n <= Len(u) /\ n \in Nat
  BY <1>1, <1>3
<1>6. \A i \in 1..n : r[i] = u[i]
  BY <1>4
<1> HIDE DEF r, u, n
<1>7. /\ SubSeq(r, 1, n) \in Seq(S) /\ Len(SubSeq(r, 1, n)) = n
      /\ SubSeq(u, 1, n) \in Seq(S) /\ Len(SubSeq(u, 1, n)) = n
      /\ \A i \in 1..n : SubSeq(r, 1, n)[i] = SubSeq(u, 1, n)[i]
  <2>1. \A i \in 1..n : r[i] \in S /\ u[i] \in S
    BY <1>5
  <2>2. 1 \in Int /\ n \in Int
    BY <1>5
  <2>3. /\ SubSeq(r, 1, n) \in Seq(S)
        /\ Len(SubSeq(r, 1, n)) = IF 1 <= n THEN n - 1 + 1 ELSE 0
        /\ \A i \in 1..n - 1 + 1 : SubSeq(r, 1, n)[i] = r[1 + i - 1]
    BY <2>1, <2>2, SubSeqProperties
  <2>4. /\ SubSeq(u, 1, n) \in Seq(S)
        /\ Len(SubSeq(u, 1, n)) = IF 1 <= n THEN n - 1 + 1 ELSE 0
        /\ \A i \in 1..n - 1 + 1 : SubSeq(u, 1, n)[i] = u[1 + i - 1]
    BY <2>1, <2>2, SubSeqProperties
  <2>5. n - 1 + 1 = n /\ \A i \in 1..n : 1 + i - 1 = i
    BY <1>5
  <2> QED
    BY <1>5, <1>6, <2>3, <2>4, <2>5
<1>8. SubSeq(r, 1, n) = SubSeq(u, 1, n)
  BY <1>7, SeqEqual
<1> QED
  BY <1>5, <1>8 DEF IsSuffix, IsPrefix, r, u, n, t

\* FlattenSeq adds its sequences one by one to what it has.
Flattening(F, seqs) ==
  /\ FlattenSeq(seqs) = IF Len(seqs) = 0 THEN seqs ELSE F[Len(seqs)]
  /\ 1 <= Len(seqs) => F[1] = seqs[1]
  /\ \A n \in 2..Len(seqs) : F[n] = F[n - 1] \o seqs[n]

LEMMA FlattenRecursion ==
  ASSUME NEW S, NEW seqs \in Seq(Seq(S))
  PROVE  \E F : Flattening(F, seqs)
<1> DEFINE Step(g, n) == IF n = 1 THEN seqs[n] ELSE g[n - 1] \o seqs[n]
           F == CHOOSE g : g = [n \in 1..Len(seqs) |->
                                  IF n = 1 THEN seqs[n] ELSE g[n - 1] \o seqs[n]]
           Defined == {m \in Nat : \E g : g = [n \in 1..m |-> Step(g, n)]}
<1>1. FlattenSeq(seqs) = IF Len(seqs) = 0 THEN seqs ELSE F[Len(seqs)]
  BY DEF FlattenSeq
<1>2. 0 \in Defined
  <2>1. [n \in 1..0 |-> <<>>] = [n \in 1..0 |-> Step([k \in 1..0 |-> <<>>], n)]
    OBVIOUS
  <2> QED
    BY <2>1
<1>3. ASSUME NEW m \in Nat, m \in Defined PROVE m + 1 \in Defined
  <2> SUFFICES \E g : g = [n \in 1..(m + 1) |-> Step(g, n)]
    <3> HIDE DEF Step
    <3> QED
      OBVIOUS
  <2>1. PICK g : g = [n \in 1..m |-> Step(g, n)]
    <3> HIDE DEF Step
    <3> QED
      BY <1>3
  <2> DEFINE h == [n \in 1..(m + 1) |-> IF n = m + 1 THEN Step(g, m + 1) ELSE g[n]]
  <2> HIDE DEF Step
  <2>2. \A n \in 1..(m + 1) : Step(h, n) = Step(g, n)
    BY DEF Step
  <2>3. \A n \in 1..m : g[n] = Step(g, n)
    BY <2>1
  <2>4. h = [n \in 1..(m + 1) |-> Step(h, n)]
    BY <2>2, <2>3
  <2> QED
    BY <2>4
<1>4. Len(seqs) \in Defined
  <2> HIDE DEF Defined
  <2>1. Nat \subseteq Defined
    BY ONLY <1>2, <1>3, NatInductionOnSet
  <2>2. Len(seqs) \in Nat
    OBVIOUS
  <2> QED
    BY <2>1, <2>2
<1>5. \E g : g = [n \in 1..Len(seqs) |-> Step(g, n)]
  <2> HIDE DEF Step
  <2> QED
    BY <1>4
<1>6. F = [n \in 1..Len(seqs) |-> IF n = 1 THEN seqs[n] ELSE F[n - 1] \o seqs[n]]
  BY <1>5
<1> HIDE DEF F
<1>7. /\ 1 <= Len(seqs) => F[1] = seqs[1]
      /\ \A n \in 2..Len(seqs) : F[n] = F[n - 1] \o seqs[n]
  <2>1. \A n \in 1..Len(seqs) : F[n] = IF n = 1 THEN seqs[n] ELSE F[n - 1] \o seqs[n]
    BY <1>6
  <2>2. 1 <= Len(seqs) => 1 \in 1..Len(seqs)
    OBVIOUS
  <2>3. \A n \in 2..Len(seqs) : n \in 1..Len(seqs) /\ n # 1
    OBVIOUS
  <2> QED
    BY <2>1, <2>2, <2>3
<1> QED
  BY <1>1, <1>7 DEF Flattening

\* What FlattenSeq makes of sequences: it ends with the last of them.
LEMMA FlattenFacts ==
  ASSUME NEW S, NEW seqs \in Seq(Seq(S))
  PROVE  /\ FlattenSeq(seqs) \in Seq(S)
         /\ Len(seqs) = 1 => FlattenSeq(seqs) = seqs[1]
         /\ Len(seqs) > 0 =>
              \E before \in Seq(S) : FlattenSeq(seqs) = before \o seqs[Len(seqs)]
<1> PICK F : Flattening(F, seqs)
  BY FlattenRecursion
<1>1. /\ FlattenSeq(seqs) = IF Len(seqs) = 0 THEN seqs ELSE F[Len(seqs)]
      /\ 1 <= Len(seqs) => F[1] = seqs[1]
      /\ \A n \in 2..Len(seqs) : F[n] = F[n - 1] \o seqs[n]
  BY DEF Flattening
<1> DEFINE Typed == {n \in Nat : 1 <= n /\ n <= Len(seqs) => F[n] \in Seq(S)}
<1>8. 0 \in Typed
  OBVIOUS
<1>9. ASSUME NEW n \in Nat, n \in Typed PROVE n + 1 \in Typed
  <2> SUFFICES ASSUME n + 1 <= Len(seqs) PROVE F[n + 1] \in Seq(S)
    OBVIOUS
  <2>1. seqs[n + 1] \in Seq(S)
    OBVIOUS
  <2>2. CASE n = 0
    BY <1>1, <2>1, <2>2
  <2>3. CASE n # 0
    <3>1. n + 1 \in 2..Len(seqs) /\ (n + 1) - 1 = n /\ F[n] \in Seq(S)
      BY <1>9, <2>3
    <3>2. F[n] \o seqs[n + 1] \in Seq(S)
      BY <2>1, <3>1
    <3> QED
      BY <1>1, <3>1, <3>2
  <2> QED
    BY <2>2, <2>3
<1>10. \A n \in 1..Len(seqs) : F[n] \in Seq(S)
  <2> HIDE DEF Typed
  <2>1. Nat \subseteq Typed
    BY <1>8, <1>9, NatInductionOnSet
  <2> QED
    BY <2>1 DEF Typed
<1> DEFINE Ends == \E before \in Seq(S) : FlattenSeq(seqs) = before \o seqs[Len(seqs)]
<1>11. Len(seqs) = 0 => FlattenSeq(seqs) \in Seq(S)
  <2>1. Len(seqs) = 0 => seqs = <<>>
    OBVIOUS
  <2> QED
    BY <1>1, <2>1, EmptySeq
<1>12. Len(seqs) = 1 => FlattenSeq(seqs) = seqs[1] /\ FlattenSeq(seqs) \in Seq(S) /\ Ends
  <2> SUFFICES ASSUME Len(seqs) = 1
               PROVE  FlattenSeq(seqs) = seqs[1] /\ FlattenSeq(seqs) \in Seq(S) /\ Ends
    OBVIOUS
  <2>1. FlattenSeq(seqs) = seqs[1] /\ seqs[1] \in Seq(S)
    BY <1>1, <1>1
  <2>2. seqs[1] = <<>> \o seqs[1] /\ <<>> \in Seq(S)
    BY <2>1, ConcatEmptySeq, EmptySeq
  <2> QED
    BY <2>1, <2>2
<1>13. Len(seqs) > 1 => FlattenSeq(seqs) \in Seq(S) /\ Ends
  <2> SUFFICES ASSUME Len(seqs) > 1 PROVE FlattenSeq(seqs) \in Seq(S) /\ Ends
    OBVIOUS
  <2>1. /\ Len(seqs) # 0 /\ Len(seqs) \in 2..Len(seqs)
        /\ Len(seqs) \in 1..Len(seqs) /\ Len(seqs) - 1 \in 1..Len(seqs)
    OBVIOUS
  <2> QED
    BY <1>1, <1>1, <1>10, <2>1
<1>14. /\ Len(seqs) = 0 \/ Len(seqs) = 1 \/ Len(seqs) > 1
       /\ Len(seqs) > 0 => Len(seqs) = 1 \/ Len(seqs) > 1
  <2>1. Len(seqs) \in Nat
    BY LenProperties
  <2>2. \A n \in Nat : (n = 0 \/ n = 1 \/ n > 1) /\ (n > 0 => n = 1 \/ n > 1)
    OBVIOUS
  <2> QED
    BY <2>1, <2>2, Zenon
<1> HIDE DEF Ends
<1>15. FlattenSeq(seqs) \in Seq(S) /\ (Len(seqs) > 0 => Ends)
  BY <1>11, <1>12, <1>13, <1>14, Zenon
<1> QED
  BY <1>12, <1>15 DEF Ends

\* Sequences of one length, one after the other, keep their places.
LEMMA PlaceInRow ==
  ASSUME NEW n \in Nat, NEW d \in Nat
  PROVE  /\ n * d \in Nat /\ 0 * d = 0 /\ 1 * d = d /\ (n + 1) * d = n * d + d
         /\ \A i \in 1..n : i - 1 \in Nat /\ (i - 1) * d \in Nat /\ (i - 1) * d + d = i * d /\ i * d <= n * d
<1>1. \A i \in 1..n : (n - i) * d \in Nat /\ n * d = i * d + (n - i) * d
  OBVIOUS
<1> QED
  BY <1>1

LEMMA FlattenEven ==
  ASSUME NEW S, NEW seqs \in Seq(Seq(S)), NEW d \in Nat, \A i \in DOMAIN seqs : Len(seqs[i]) = d
  PROVE  /\ FlattenSeq(seqs) \in Seq(S) /\ Len(FlattenSeq(seqs)) = Len(seqs) * d
         /\ \A i \in 1..Len(seqs) : \A j \in 1..d : FlattenSeq(seqs)[(i - 1) * d + j] = seqs[i][j]
<1> DEFINE N == Len(seqs)
<1> PICK F : Flattening(F, seqs)
  BY FlattenRecursion
<1>1. /\ FlattenSeq(seqs) = IF N = 0 THEN seqs ELSE F[N]
      /\ 1 <= N => F[1] = seqs[1]
      /\ \A n \in 2..N : F[n] = F[n - 1] \o seqs[n]
  BY DEF Flattening
<1>2. N \in Nat /\ DOMAIN seqs = 1..N /\ \A i \in 1..N : seqs[i] \in Seq(S) /\ Len(seqs[i]) = d
  BY LenProperties, ElementOfSeq
<1> HIDE DEF N
<1> DEFINE Row(s, n) == /\ s \in Seq(S) /\ Len(s) = n * d
                        /\ \A i \in 1..n : \A j \in 1..d : s[(i - 1) * d + j] = seqs[i][j]
           T == {n \in 0..N : n = 0 \/ Row(F[n], n)}
<1>3. 0 \in T
  BY <1>2
<1>4. ASSUME NEW n \in 0..N - 1, n \in T PROVE n + 1 \in T
  <2>1. n \in Nat /\ n + 1 \in 1..N /\ seqs[n + 1] \in Seq(S) /\ Len(seqs[n + 1]) = d
    BY <1>2
  <2>2. CASE n = 0
    <3>1. F[1] = seqs[1] /\ 1 * d = d /\ \A j \in 1..d : (1 - 1) * d + j = j
      BY <1>1, <1>2, <2>2
    <3>2. \A i \in 1..1 : i = 1
      OBVIOUS
    <3>3. Row(F[1], 1)
      BY <2>1, <2>2, <3>1, <3>2
    <3> HIDE DEF Row
    <3> QED
      BY <2>1, <2>2, <3>3
  <2>3. CASE n # 0
    <3>1. Row(F[n], n) /\ F[n + 1] = F[n] \o seqs[n + 1]
      <4>1. n + 1 \in 2..N /\ (n + 1) - 1 = n
        BY <2>1, <2>3
      <4> HIDE DEF Row
      <4> QED
        BY <1>1, <1>4, <2>3, <4>1
    <3> DEFINE a == F[n]
               b == seqs[n + 1]
    <3>2. /\ a \o b \in Seq(S) /\ Len(a \o b) = Len(a) + Len(b)
          /\ \A i \in 1..Len(a) + Len(b) : (a \o b)[i] = IF i <= Len(a) THEN a[i] ELSE b[i - Len(a)]
      <4>1. a \in Seq(S) /\ b \in Seq(S)
        BY ONLY <2>1, <3>1
      <4> HIDE DEF a, b
      <4> QED
        BY ONLY <4>1, ConcatProperties
    <3>3. Len(a) = n * d /\ Len(b) = d
      BY <2>1, <3>1
    <3>4. F[n + 1] = a \o b
      BY <3>1
    <3>5. \A i \in 1..n : \A j \in 1..d : a[(i - 1) * d + j] = seqs[i][j]
      BY <3>1
    <3> HIDE DEF a, b, Row
    <3> DEFINE c == F[n + 1]
    <3>6. n * d \in Nat /\ (n + 1) * d = n * d + d
      BY <2>1, PlaceInRow
    <3>7. \A i \in 1..n : (i - 1) * d \in Nat /\ (i - 1) * d + d = i * d /\ i * d <= n * d
      BY <2>1, PlaceInRow
    <3>8. c \in Seq(S) /\ Len(c) = (n + 1) * d
      BY <3>2, <3>3, <3>4, <3>6
    <3>9. \A i \in 1..n * d + d : c[i] = IF i <= n * d THEN a[i] ELSE b[i - n * d]
      BY <3>2, <3>3, <3>4
    <3> HIDE DEF c
    <3>10. ASSUME NEW i \in 1..n + 1, NEW j \in 1..d PROVE c[(i - 1) * d + j] = seqs[i][j]
      <4>1. CASE i \in 1..n
        <5> DEFINE m == (i - 1) * d
        <5>1. m \in Nat /\ m + d <= n * d
          BY <3>7, <4>1
        <5>2. a[m + j] = seqs[i][j]
          BY <3>5, <4>1
        <5> HIDE DEF m
        <5>3. m + j \in 1..n * d + d /\ m + j <= n * d
          BY <3>6, <5>1
        <5>4. c[m + j] = seqs[i][j]
          BY <3>9, <5>2, <5>3
        <5> QED
          BY <5>4 DEF m
      <4>2. CASE i = n + 1
        <5>1. i - 1 = n
          BY <2>1, <4>2
        <5> DEFINE m == n * d
        <5>2. m \in Nat /\ \A k \in 1..m + d : c[k] = IF k <= m THEN a[k] ELSE b[k - m]
          BY <3>6, <3>9
        <5> HIDE DEF m
        <5>3. c[m + j] = b[j]
          BY <5>2
        <5> QED
          BY <4>2, <5>1, <5>3 DEF m, b
      <4> QED
        BY <2>1, <4>1, <4>2
    <3>11. Row(F[n + 1], n + 1)
      BY <3>8, <3>10 DEF Row, c
    <3> QED
      BY <2>1, <3>11
  <2> QED
    BY <2>2, <2>3
<1>5. N \in T
  <2> HIDE DEF T
  <2>1. \A n \in 0..N : n \in T
    BY <1>2, <1>3, <1>4, BoundedInduction
  <2> QED
    BY <1>2, <2>1
<1>6. CASE N = 0
  <2>1. FlattenSeq(seqs) = seqs /\ seqs = <<>> /\ N * d = 0
    BY <1>1, <1>2, <1>6 DEF N
  <2>2. <<>> \in Seq(S) /\ Len(<<>>) = 0
    BY EmptySeq
  <2> QED
    BY <1>2, <1>6, <2>1, <2>2 DEF N
<1>7. CASE N # 0
  <2>1. Row(F[N], N) /\ FlattenSeq(seqs) = F[N]
    <3> HIDE DEF Row
    <3> QED
      BY <1>1, <1>5, <1>7
  <2> QED
    BY <2>1 DEF N
<1> QED
  BY <1>6, <1>7

\* Rows of length d in a sequence, one after the other: how far a row is behind
\* the beginning, and the numbers of a row.
Base(i, d) == (i - 1) * d
InRows(s, n, d) == Len(s) = n * d
RowOf(s, i, d) == SubSeq(s, Base(i, d) + 1, Base(i, d) + d)

LEMMA BaseFacts ==
  ASSUME NEW S, NEW s \in Seq(S), NEW n \in Nat, NEW d \in Nat, InRows(s, n, d), NEW i \in 1..n
  PROVE  Base(i, d) \in Nat /\ Base(i, d) + d <= Len(s) /\ Len(s) \in Nat
BY PlaceInRow DEF Base, InRows

LEMMA RowFacts ==
  ASSUME NEW S, NEW s \in Seq(S), NEW n \in Nat, NEW d \in Nat, InRows(s, n, d), NEW i \in 1..n
  PROVE  /\ RowOf(s, i, d) \in Seq(S) /\ Len(RowOf(s, i, d)) = d
         /\ \A j \in 1..d : RowOf(s, i, d)[j] = s[Base(i, d) + j]
<1> DEFINE m == Base(i, d)
           low == m + 1
           high == m + d
<1>1. m \in Nat /\ m + d <= Len(s) /\ Len(s) \in Nat
  BY BaseFacts
<1>2. RowOf(s, i, d) = SubSeq(s, low, high)
  BY DEF RowOf
<1> HIDE DEF m
<1>3. /\ low \in Int /\ high \in Int /\ (IF low <= high THEN high - low + 1 ELSE 0) = d
      /\ high - low + 1 = d /\ \A j \in 1..d : low + j - 1 = m + j
  BY <1>1
<1>4. \A k \in low..high : s[k] \in S
  <2>1. \A k \in low..high : k \in 1..Len(s)
    BY <1>1
  <2> QED
    BY <2>1, ElementOfSeq
<1> HIDE DEF low, high
<1>5. /\ SubSeq(s, low, high) \in Seq(S)
      /\ Len(SubSeq(s, low, high)) = IF low <= high THEN high - low + 1 ELSE 0
      /\ \A j \in 1..high - low + 1 : SubSeq(s, low, high)[j] = s[low + j - 1]
  BY ONLY <1>3, <1>4, SubSeqProperties
<1> QED
  BY <1>2, <1>3, <1>5 DEF m

\* A row is what its numbers say.
Reads(s, i, d, t) == \A j \in 1..d : s[Base(i, d) + j] = t[j]

LEMMA RowIs ==
  ASSUME NEW S, NEW s \in Seq(S), NEW n \in Nat, NEW d \in Nat, InRows(s, n, d), NEW i \in 1..n,
         NEW t \in Seq(S), Len(t) = d, Reads(s, i, d, t)
  PROVE  RowOf(s, i, d) = t
<1> DEFINE r == RowOf(s, i, d)
<1>1. r \in Seq(S) /\ Len(r) = d /\ \A j \in 1..d : r[j] = s[Base(i, d) + j]
  BY RowFacts
<1> HIDE DEF r
<1>2. \A j \in 1..Len(r) : r[j] = t[j]
  BY <1>1 DEF Reads
<1>3. r \in Seq(S) /\ t \in Seq(S) /\ Len(r) = Len(t)
  BY <1>1
<1>4. r = t
  BY ONLY <1>2, <1>3, SeqEqual
<1> QED
  BY <1>4 DEF r

\* Rows do not overlap.
LEMMA RowsApart ==
  ASSUME NEW n \in Nat, NEW d \in Nat, NEW a \in 1..n, NEW i \in 1..n, a < i
  PROVE  Base(a, d) + d <= Base(i, d)
<1>1. a \in 1..i - 1 /\ i - 1 \in Nat
  OBVIOUS
<1>2. (a - 1) * d + d = a * d /\ a * d <= (i - 1) * d
  BY <1>1, PlaceInRow
<1> QED
  BY <1>2 DEF Base

\* One row overwritten: the others are what they were.
OverwrittenFrom(s, start, data, d) ==
  [k \in DOMAIN s |-> IF k \in start + 1..start + d THEN data[k - start] ELSE s[k]]

LEMMA RowOverwritten ==
  ASSUME NEW S, NEW s \in Seq(S), NEW n \in Nat, NEW d \in Nat, InRows(s, n, d), NEW i \in 1..n,
         NEW data \in Seq(S), Len(data) = d
  PROVE  LET new == OverwrittenFrom(s, Base(i, d), data, d) IN
         /\ new \in Seq(S) /\ InRows(new, n, d)
         /\ \A a \in 1..n : RowOf(new, a, d) = IF a = i THEN data ELSE RowOf(s, a, d)
<1> DEFINE start == Base(i, d)
           new == OverwrittenFrom(s, start, data, d)
<1>1. start \in Nat /\ start + d <= Len(s) /\ Len(s) \in Nat /\ DOMAIN s = 1..Len(s)
  BY BaseFacts
<1>2. \A k \in 1..Len(s) : s[k] \in S
  BY ElementOfSeq
<1>3. \A j \in 1..d : data[j] \in S
  BY ElementOfSeq
<1>4. \A k \in 1..Len(s) : new[k] = IF k \in start + 1..start + d THEN data[k - start] ELSE s[k]
  BY <1>1 DEF OverwrittenFrom
<1>5. new \in [1..Len(s) -> S]
  <2>1. \A k \in 1..Len(s) : new[k] \in S
    BY <1>1, <1>2, <1>3, <1>4
  <2>2. new = [k \in 1..Len(s) |-> new[k]]
    BY <1>1 DEF OverwrittenFrom
  <2> QED
    BY ONLY <2>1, <2>2
<1> HIDE DEF new, start
<1>6. new \in Seq(S) /\ Len(new) = Len(s)
  BY ONLY <1>1, <1>5, FunctionIsSeq
<1>7. InRows(new, n, d)
  BY <1>6 DEF InRows
<1>8. ASSUME NEW a \in 1..n PROVE RowOf(new, a, d) = IF a = i THEN data ELSE RowOf(s, a, d)
  <2> DEFINE m == Base(a, d)
             row == IF a = i THEN data ELSE RowOf(s, a, d)
  <2>1. m \in Nat /\ m + d <= Len(s)
    BY BaseFacts
  <2>2. RowOf(s, a, d) \in Seq(S) /\ Len(RowOf(s, a, d)) = d /\ \A j \in 1..d : RowOf(s, a, d)[j] = s[m + j]
    BY RowFacts
  <2>3. a = i => m = start
    BY DEF start
  <2>4. a # i => m + d <= start \/ start + d <= m
    <3>1. a < i => m + d <= start
      BY RowsApart DEF start
    <3>2. i < a => start + d <= m
      BY RowsApart DEF start
    <3> QED
      BY <3>1, <3>2
  <2> HIDE DEF m
  <2>5. ASSUME NEW j \in 1..d PROVE new[m + j] = row[j]
    <3>1. m + j \in 1..Len(s)
      BY <1>1, <2>1
    <3>2. CASE a = i
      <4>1. m + j \in start + 1..start + d /\ m + j - start = j
        BY <1>1, <2>1, <2>3, <3>2
      <4>2. row = data
        BY <3>2
      <4> HIDE DEF row
      <4> QED
        BY ONLY <1>1, <1>4, <2>1, <3>1, <4>1, <4>2
    <3>3. CASE a # i
      <4>1. m + j \notin start + 1..start + d
        BY <1>1, <2>1, <2>4, <3>3
      <4>2. s[m + j] = row[j]
        BY <2>2, <3>3
      <4> HIDE DEF row
      <4> QED
        BY ONLY <1>1, <1>4, <2>1, <3>1, <4>1, <4>2
    <3> QED
      BY <3>2, <3>3
  <2>6. row \in Seq(S) /\ Len(row) = d
    BY <2>2
  <2> HIDE DEF row
  <2>9. Reads(new, a, d, row)
    BY ONLY <2>5 DEF Reads, m
  <2>7. RowOf(new, a, d) = row
    BY ONLY <1>6, <1>7, <2>6, <2>9, RowIs, n \in Nat, d \in Nat, a \in 1..n
  <2> QED
    BY <2>7 DEF row
<1> QED
  BY <1>6, <1>7, <1>8 DEF new, start

\* One row behind the others.
LEMMA RowAppended ==
  ASSUME NEW S, NEW s \in Seq(S), NEW n \in Nat, NEW d \in Nat, InRows(s, n, d),
         NEW data \in Seq(S), Len(data) = d
  PROVE  /\ s \o data \in Seq(S) /\ InRows(s \o data, n + 1, d)
         /\ \A a \in 1..n : RowOf(s \o data, a, d) = RowOf(s, a, d)
         /\ RowOf(s \o data, n + 1, d) = data
<1> DEFINE t == s \o data
           m == Len(s)
           next == n + 1
<1>1. /\ t \in Seq(S) /\ Len(t) = m + d
      /\ \A k \in 1..m + d : t[k] = IF k <= m THEN s[k] ELSE data[k - m]
  BY ConcatProperties
<1>2. m \in Nat /\ m = n * d /\ next * d = m + d /\ Base(next, d) = m
  BY PlaceInRow DEF InRows, Base
<1>3. next \in Nat /\ next \in 1..next /\ \A a \in 1..n : a \in 1..next
  OBVIOUS
<1> HIDE DEF t, m, next
<1>4. InRows(t, next, d)
  BY <1>1, <1>2 DEF InRows
<1>5. ASSUME NEW a \in 1..n PROVE RowOf(t, a, d) = RowOf(s, a, d)
  <2> DEFINE b == Base(a, d)
  <2>1. b \in Nat /\ b + d <= m
    BY BaseFacts DEF m
  <2> DEFINE row == RowOf(s, a, d)
  <2>2. row \in Seq(S) /\ Len(row) = d /\ \A j \in 1..d : s[b + j] = row[j]
    BY RowFacts
  <2> HIDE DEF b, row
  <2>3. \A j \in 1..d : b + j \in 1..m + d /\ b + j <= m
    BY <1>2, <2>1
  <2>4. \A j \in 1..d : t[b + j] = row[j]
    BY ONLY <1>1, <2>2, <2>3
  <2>5. a \in 1..next
    BY <1>3
  <2>6. Reads(t, a, d, row)
    BY <2>4 DEF Reads, b
  <2>7. t \in Seq(S) /\ row \in Seq(S) /\ Len(row) = d /\ next \in Nat
    BY ONLY <1>1, <1>3, <2>2
  <2>8. RowOf(t, a, d) = row
    BY ONLY <1>4, <2>5, <2>6, <2>7, RowIs, d \in Nat
  <2> QED
    BY <2>8 DEF row
<1>6. RowOf(t, next, d) = data
  <2>1. next \in 1..next
    BY <1>3
  <2>2. \A j \in 1..d : m + j \in 1..m + d /\ ~(m + j <= m) /\ m + j - m = j
    BY <1>2
  <2>3. \A j \in 1..d : t[Base(next, d) + j] = data[j]
    BY ONLY <1>1, <1>2, <2>2
  <2>4. Reads(t, next, d, data)
    BY ONLY <2>3 DEF Reads
  <2>5. t \in Seq(S) /\ next \in Nat
    BY ONLY <1>1, <1>3
  <2> QED
    BY ONLY <1>4, <2>1, <2>4, <2>5, RowIs, d \in Nat, data \in Seq(S), Len(data) = d
<1> QED
  BY <1>1, <1>4, <1>5, <1>6 DEF t, next

\* Sequences of one length, one after the other, are the rows of what they make.
LEMMA FlattenRows ==
  ASSUME NEW S, NEW seqs \in Seq(Seq(S)), NEW d \in Nat, \A i \in DOMAIN seqs : Len(seqs[i]) = d
  PROVE  /\ FlattenSeq(seqs) \in Seq(S) /\ InRows(FlattenSeq(seqs), Len(seqs), d)
         /\ \A i \in 1..Len(seqs) : RowOf(FlattenSeq(seqs), i, d) = seqs[i]
<1> DEFINE N == Len(seqs)
           t == FlattenSeq(seqs)
<1>1. N \in Nat /\ \A i \in 1..N : seqs[i] \in Seq(S) /\ Len(seqs[i]) = d
  BY LenProperties, ElementOfSeq
<1>2. /\ t \in Seq(S) /\ Len(t) = N * d
      /\ \A i \in 1..N : \A j \in 1..d : t[(i - 1) * d + j] = seqs[i][j]
  BY FlattenEven
<1> HIDE DEF N, t
<1>3. InRows(t, N, d) /\ \A i \in 1..N : \A j \in 1..d : t[Base(i, d) + j] = seqs[i][j]
  BY <1>2 DEF InRows, Base
<1>4. ASSUME NEW i \in 1..N PROVE RowOf(t, i, d) = seqs[i]
  <2>1. Reads(t, i, d, seqs[i])
    BY <1>3 DEF Reads
  <2>2. seqs[i] \in Seq(S) /\ Len(seqs[i]) = d /\ t \in Seq(S)
    BY <1>1, <1>2
  <2>3. N \in Nat /\ InRows(t, N, d)
    BY <1>1, <1>3
  <2> QED
    BY ONLY <2>1, <2>2, <2>3, RowIs, d \in Nat, i \in 1..N
<1> QED
  BY <1>2, <1>3, <1>4 DEF N, t

\* The end of a sequence is a suffix of it.
LEMMA RestIsSuffix ==
  ASSUME NEW S, NEW s \in Seq(S), NEW i \in 1..Len(s)
  PROVE  IsSuffix(SubSeq(s, i, Len(s)), s)
<1> DEFINE before == SubSeq(s, 1, i - 1)
           rest == SubSeq(s, i, Len(s))
<1>1. Len(s) \in Nat
  BY LenProperties
<1>2. /\ 1 \in Int /\ i - 1 \in Int /\ i \in Int /\ Len(s) \in Int
      /\ \A j \in 1..i - 1 : s[j] \in S
      /\ \A j \in i..Len(s) : s[j] \in S
  BY <1>1
<1>3. before \in Seq(S) /\ rest \in Seq(S)
  BY <1>2, SubSeqProperties
<1>4. /\ 1 \in 1..Len(s) + 1 /\ i - 1 \in 1 - 1..Len(s) /\ Len(s) \in i - 1..Len(s)
      /\ i - 1 + 1 = i
  BY <1>1
<1>5. before \o SubSeq(s, i - 1 + 1, Len(s)) = SubSeq(s, 1, Len(s))
  BY <1>4, ConcatAdjacentSubSeq
<1>6. before \o rest = s
  BY <1>4, <1>5, SubSeqFull
<1> HIDE DEF before, rest
<1>7. IsSuffix(rest, before \o rest)
  BY <1>3, SuffixOfConcat
<1> QED
  BY <1>6, <1>7 DEF rest

\* A sequence with one more member.
LEMMA ConcatOne ==
  ASSUME NEW S, NEW s \in Seq(S), NEW x \in S
  PROVE  /\ s \o <<x>> \in Seq(S)
         /\ Len(s \o <<x>>) = Len(s) + 1
         /\ \A i \in 1..Len(s) : (s \o <<x>>)[i] = s[i]
         /\ (s \o <<x>>)[Len(s) + 1] = x
<1>1. s \o <<x>> = Append(s, x)
  BY AppendIsConcat
<1> QED
  BY <1>1, AppendProperties

\* Two members, alternating, one by one.
LEMMA ConcatFour ==
  ASSUME NEW S, NEW x \in S, NEW y \in S
  PROVE  ((<<x>> \o <<y>>) \o <<x>>) \o <<y>> = <<x, y, x, y>>
<1> DEFINE a == <<x>>
           b == a \o <<y>>
           c == b \o <<x>>
           d == c \o <<y>>
           r == <<x, y, x, y>>
<1>1. a \in Seq(S) /\ Len(a) = 1 /\ a[1] = x
  OBVIOUS
<1> HIDE DEF a
<1>2. b \in Seq(S) /\ Len(b) = 2 /\ b[1] = x /\ b[2] = y
  <2>1. 1 \in 1..1 /\ 1 + 1 = 2
    OBVIOUS
  <2> QED
    <3>1. /\ a \o <<y>> \in Seq(S)
          /\ Len(a \o <<y>>) = Len(a) + 1
          /\ \A i \in 1..Len(a) : (a \o <<y>>)[i] = a[i]
          /\ (a \o <<y>>)[Len(a) + 1] = y
      <4>1. a \in Seq(S) /\ y \in S
        BY <1>1
      <4> QED
        BY <4>1, ConcatOne
    <3> HIDE DEF b
    <3>2. /\ b \in Seq(S)
          /\ Len(b) = Len(a) + 1
          /\ \A i \in 1..Len(a) : b[i] = a[i]
          /\ b[Len(a) + 1] = y
      BY <3>1 DEF b
    <3> QED
      BY <1>1, <2>1, <3>2
<1> HIDE DEF b
<1>3. c \in Seq(S) /\ Len(c) = 3 /\ c[1] = x /\ c[2] = y /\ c[3] = x
  <2>1. 1 \in 1..2 /\ 2 \in 1..2 /\ 2 + 1 = 3
    OBVIOUS
  <2> QED
    <3>1. /\ b \o <<x>> \in Seq(S)
          /\ Len(b \o <<x>>) = Len(b) + 1
          /\ \A i \in 1..Len(b) : (b \o <<x>>)[i] = b[i]
          /\ (b \o <<x>>)[Len(b) + 1] = x
      <4>1. b \in Seq(S) /\ x \in S
        BY <1>2
      <4> QED
        BY <4>1, ConcatOne
    <3> HIDE DEF c
    <3>2. /\ c \in Seq(S)
          /\ Len(c) = Len(b) + 1
          /\ \A i \in 1..Len(b) : c[i] = b[i]
          /\ c[Len(b) + 1] = x
      BY <3>1 DEF c
    <3> QED
      BY <1>2, <2>1, <3>2
<1> HIDE DEF c
<1>4. d \in Seq(S) /\ Len(d) = 4 /\ d[1] = x /\ d[2] = y /\ d[3] = x /\ d[4] = y
  <2>1. 1 \in 1..3 /\ 2 \in 1..3 /\ 3 \in 1..3 /\ 3 + 1 = 4
    OBVIOUS
  <2> QED
    <3>1. /\ c \o <<y>> \in Seq(S)
          /\ Len(c \o <<y>>) = Len(c) + 1
          /\ \A i \in 1..Len(c) : (c \o <<y>>)[i] = c[i]
          /\ (c \o <<y>>)[Len(c) + 1] = y
      <4>1. c \in Seq(S) /\ y \in S
        BY <1>3
      <4> QED
        BY <4>1, ConcatOne
    <3> HIDE DEF d
    <3>2. /\ d \in Seq(S)
          /\ Len(d) = Len(c) + 1
          /\ \A i \in 1..Len(c) : d[i] = c[i]
          /\ d[Len(c) + 1] = y
      BY <3>1 DEF d
    <3> QED
      BY <1>3, <2>1, <3>2
<1> HIDE DEF d
<1>5. r \in Seq(S) /\ Len(r) = 4 /\ r[1] = x /\ r[2] = y /\ r[3] = x /\ r[4] = y
  OBVIOUS
<1> HIDE DEF r
<1>6. \A i \in 1..4 : i = 1 \/ i = 2 \/ i = 3 \/ i = 4
  OBVIOUS
<1>7. \A i \in 1..4 : d[i] = r[i]
  BY <1>4, <1>5, <1>6
<1>8. d = r
  BY <1>4, <1>5, <1>7, SeqEqual
<1> QED
  BY <1>8 DEF a, b, c, d, r

\* Concatenation is associative, for all sequences over a set.
LEMMA ConcatIsAssociative ==
  ASSUME NEW S
  PROVE  \A x, y, z \in Seq(S) : (x \o y) \o z = x \o (y \o z)
BY ConcatAssociative

\* Sequences that stand one around the other, and the same with what is behind
\* b at the end.
Around(u, b, t, e, i) == ((u \o ((b \o (u \o t \o e)) \o i)) \o e) \o i
Behind(u, b, t, e, i) == (u \o b) \o ((u \o t) \o (((e \o i) \o e) \o i))

LEMMA Regrouped ==
  ASSUME NEW S
  PROVE  \A u, b, t, e, i \in Seq(S) : Around(u, b, t, e, i) = Behind(u, b, t, e, i)
<1> DEFINE D == Seq(S)
           Cat(x, y) == x \o y
<1>1. \A x, y \in D : Cat(x, y) \in D
  BY ConcatProperties
<1>2. \A x, y, z \in D : Cat(Cat(x, y), z) = Cat(x, Cat(y, z))
  BY ConcatIsAssociative
<1> HIDE DEF D, Cat
<1>3. ASSUME NEW u \in D, NEW b \in D, NEW t \in D, NEW e \in D, NEW i \in D
      PROVE  Cat(Cat(Cat(u, Cat(Cat(b, Cat(Cat(u, t), e)), i)), e), i)
               = Cat(Cat(u, b), Cat(Cat(u, t), Cat(Cat(Cat(e, i), e), i)))
  <2> DEFINE q == Cat(u, t)
             l == Cat(u, b)
  <2>1. q \in D /\ l \in D
    BY <1>1
  <2>2. Cat(u, Cat(b, Cat(q, Cat(e, i)))) = Cat(l, Cat(q, Cat(e, i)))
    BY <1>1, <1>2
  <2> HIDE DEF q, l
  <2>3. Cat(Cat(b, Cat(q, e)), i) = Cat(b, Cat(q, Cat(e, i)))
    BY <1>1, <1>2, <2>1
  <2>4. \A x, y \in D : Cat(Cat(l, Cat(q, x)), y) = Cat(l, Cat(q, Cat(x, y)))
    BY <1>1, <1>2, <2>1
  <2>5. Cat(e, i) \in D /\ Cat(Cat(e, i), e) \in D
    BY <1>1
  <2>6. Cat(Cat(Cat(u, Cat(Cat(b, Cat(q, e)), i)), e), i)
          = Cat(l, Cat(q, Cat(Cat(Cat(e, i), e), i)))
    BY <2>2, <2>3, <2>4, <2>5
  <2> QED
    BY <2>6 DEF q, l
<1> QED
  BY <1>3 DEF D, Cat, Around, Behind


----------------------------------------------------------------------------
(* Sorting by descending score, the stable way *)

\* What comes before i.
AheadOf(E, score, i) == {j \in E : score[j] > score[i] \/ (score[j] = score[i] /\ j < i)}

\* One is behind n others, for each n, and the scores fall along them.
LEMMA RankFacts ==
  ASSUME NEW m \in Nat, NEW E \in SUBSET (1..m), NEW score \in [E -> Int]
  PROVE  /\ IsFiniteSet(E) /\ Cardinality(E) \in Nat
         /\ \A i \in E : Cardinality(AheadOf(E, score, i)) \in 0..Cardinality(E) - 1
         /\ \A i, j \in E : Cardinality(AheadOf(E, score, i)) = Cardinality(AheadOf(E, score, j)) => i = j
         /\ \A i, j \in E : Cardinality(AheadOf(E, score, i)) < Cardinality(AheadOf(E, score, j)) =>
              score[i] >= score[j]
         /\ \A n \in 1..Cardinality(E) : \E i \in E : Cardinality(AheadOf(E, score, i)) = n - 1
<1> DEFINE N == Cardinality(E)
           rank(i) == Cardinality(AheadOf(E, score, i))
<1>1. \A i \in E : i \in Int /\ score[i] \in Int
  OBVIOUS
<1>2. IsFiniteSet(E) /\ N \in Nat
  <2>1. IsFiniteSet(1..m)
    BY FS_Interval
  <2>2. IsFiniteSet(E)
    BY <2>1, FS_Subset
  <2> QED
    BY <2>2, FS_CardinalityType
<1>3. \A i \in E : AheadOf(E, score, i) = {j \in E : score[j] > score[i] \/ (score[j] = score[i] /\ j < i)}
  BY DEF AheadOf
<1> HIDE DEF N, rank
<1>4. ASSUME NEW i \in E PROVE IsFiniteSet(AheadOf(E, score, i)) /\ rank(i) \in 0..N - 1
  <2> DEFINE A == AheadOf(E, score, i)
  <2>1. A \in SUBSET E /\ i \in E \ A
    BY <1>1, <1>3
  <2> HIDE DEF A
  <2>2. A \in SUBSET E /\ A # E
    BY <2>1
  <2>3. IsFiniteSet(A) /\ Cardinality(A) <= Cardinality(E) /\ Cardinality(E) # Cardinality(A)
    BY <1>2, <2>2, FS_Subset
  <2>4. Cardinality(A) \in Nat
    BY <2>3, FS_CardinalityType
  <2> QED
    BY <1>2, <2>3, <2>4 DEF rank, N, A
<1>5. ASSUME NEW i \in E, NEW j \in AheadOf(E, score, i) PROVE rank(j) < rank(i)
  <2>1. /\ j \in E /\ i \in Int /\ j \in Int /\ score[i] \in Int /\ score[j] \in Int
        /\ score[j] > score[i] \/ (score[j] = score[i] /\ j < i)
    <3>1. j \in {k \in E : score[k] > score[i] \/ (score[k] = score[i] /\ k < i)}
      BY <1>3, <1>5
    <3>2. j \in E /\ (score[j] > score[i] \/ (score[j] = score[i] /\ j < i))
      BY <3>1
    <3> QED
      BY <1>1, <3>2
  <2>2. AheadOf(E, score, j) \in SUBSET AheadOf(E, score, i) /\ j \notin AheadOf(E, score, j)
    <3>1. ASSUME NEW k \in AheadOf(E, score, j) PROVE k \in AheadOf(E, score, i)
      <4>1. /\ k \in E /\ k \in Int /\ score[k] \in Int
            /\ score[k] > score[j] \/ (score[k] = score[j] /\ k < j)
        BY <1>1, <1>3, <2>1, <3>1
      <4>2. score[k] > score[i] \/ (score[k] = score[i] /\ k < i)
        BY <2>1, <4>1
      <4> QED
        BY <1>3, <4>1, <4>2
    <3>2. j \notin AheadOf(E, score, j)
      BY <1>3, <2>1
    <3> QED
      BY <3>1, <3>2
  <2> DEFINE A == AheadOf(E, score, i)
             B == AheadOf(E, score, j)
  <2>3. IsFiniteSet(A) /\ B \in SUBSET A /\ A # B
    BY <1>4, <1>5, <2>2
  <2>4. rank(i) = Cardinality(A) /\ rank(j) = Cardinality(B) /\ rank(i) \in Int /\ rank(j) \in Int
    BY <1>2, <1>4, <2>1 DEF rank
  <2> HIDE DEF A, B
  <2>5. Cardinality(B) <= Cardinality(A) /\ Cardinality(A) # Cardinality(B)
    BY <2>3, FS_Subset
  <2> QED
    BY <2>4, <2>5
<1>6. \A i, j \in E : i = j \/ i \in AheadOf(E, score, j) \/ j \in AheadOf(E, score, i)
  BY <1>1, <1>3
<1>7. \A i, j \in E : rank(i) = rank(j) => i = j
  <2>1. \A i \in E : rank(i) \in Int
    BY <1>2, <1>4
  <2> QED
    BY <1>5, <1>6, <2>1
<1>8. \A i, j \in E : rank(i) < rank(j) => score[i] >= score[j]
  <2>1. SUFFICES ASSUME NEW i \in E, NEW j \in E, rank(i) < rank(j) PROVE score[i] >= score[j]
    OBVIOUS
  <2>2. rank(i) \in Int /\ rank(j) \in Int
    BY <1>2, <1>4
  <2>3. i # j /\ j \notin AheadOf(E, score, i)
    BY <1>5, <2>1, <2>2
  <2>4. i \in AheadOf(E, score, j)
    BY <1>6, <2>3
  <2> QED
    BY <1>1, <1>3, <2>4
<1>9. ASSUME NEW n \in 1..N PROVE \E i \in E : rank(i) = n - 1
  <2> DEFINE r == [i \in E |-> rank(i) + 1]
  <2>1. r \in [E -> 1..N] /\ \A a, b \in E : r[a] = r[b] => a = b
    BY <1>2, <1>4, <1>7
  <2> HIDE DEF r
  <2>2. r \in Injection(E, 1..N)
    BY <2>1, Fun_IsInj
  <2>3. IsFiniteSet(1..N) /\ Cardinality(1..N) = N
    BY <1>2, FS_Interval
  <2>4. r \in Surjection(E, 1..N)
    BY <2>2, <2>3, FS_Injection DEF N
  <2>5. \A t \in 1..N : \E i \in E : r[i] = t
    BY <2>4, Fun_SurjectionProperties
  <2>6. PICK i \in E : r[i] = n
    BY <2>5
  <2>7. rank(i) + 1 = n /\ rank(i) \in Int
    BY <1>2, <1>4, <2>6 DEF r
  <2> QED
    BY <2>7
<1> QED
  BY <1>2, <1>4, <1>7, <1>8, <1>9 DEF N, rank

\* Who is at place n.
Ranked(E, score, n) == CHOOSE i \in E : Cardinality(AheadOf(E, score, i)) = n - 1

\* Every member has one place, and the places go from the best to the worst.
LEMMA RankedFacts ==
  ASSUME NEW m \in Nat, NEW E \in SUBSET (1..m), NEW score \in [E -> Int]
  PROVE  /\ IsFiniteSet(E) /\ Cardinality(E) \in Nat
         /\ \A n \in 1..Cardinality(E) : Ranked(E, score, n) \in E
         /\ \A n, k \in 1..Cardinality(E) : Ranked(E, score, n) = Ranked(E, score, k) => n = k
         /\ \A n, k \in 1..Cardinality(E) : n < k =>
              score[Ranked(E, score, n)] >= score[Ranked(E, score, k)]
         /\ \A i \in E : \E n \in 1..Cardinality(E) : Ranked(E, score, n) = i
<1> DEFINE N == Cardinality(E)
           rank(i) == Cardinality(AheadOf(E, score, i))
           at(n) == Ranked(E, score, n)
<1>1. /\ IsFiniteSet(E) /\ N \in Nat
      /\ \A i \in E : rank(i) \in 0..N - 1
      /\ \A i, j \in E : rank(i) = rank(j) => i = j
      /\ \A i, j \in E : rank(i) < rank(j) => score[i] >= score[j]
      /\ \A n \in 1..N : \E i \in E : rank(i) = n - 1
  BY RankFacts
<1>2. \A n \in 1..N : at(n) \in E /\ rank(at(n)) = n - 1
  BY <1>1 DEF Ranked
<1> HIDE DEF N, rank, at
<1>3. \A n, k \in 1..N : at(n) = at(k) => n = k
  BY <1>2
<1>4. \A n, k \in 1..N : n < k => score[at(n)] >= score[at(k)]
  <2>1. \A n, k \in 1..N : n < k => rank(at(n)) < rank(at(k))
    BY <1>1, <1>2
  <2> QED
    BY <1>1, <1>2, <2>1
<1>5. ASSUME NEW i \in E PROVE \E n \in 1..N : at(n) = i
  <2>1. rank(i) \in 0..N - 1 /\ rank(i) + 1 \in 1..N
    BY <1>1
  <2>2. at(rank(i) + 1) \in E /\ rank(at(rank(i) + 1)) = rank(i)
    BY <1>2, <2>1
  <2> QED
    BY <1>1, <2>1, <2>2
<1> QED
  BY <1>1, <1>2, <1>3, <1>4, <1>5 DEF N, at

\* The names of the best k.
Best(E, score, name, k) ==
  [n \in 1..(IF Cardinality(E) < k THEN Cardinality(E) ELSE k) |-> name[Ranked(E, score, n)]]

\* As many as there are up to k, best first, and nobody who is left out is better.
IsBest(ids, enough, worth, k) ==
  LET chosen == {ids[n] : n \in DOMAIN ids}
  IN /\ chosen \subseteq enough
     /\ Cardinality(chosen) = Len(ids)
     /\ Len(ids) = k \/ (Len(ids) < k /\ chosen = enough)
     /\ \A i, j \in DOMAIN ids : i < j => worth[ids[i]] >= worth[ids[j]]
     /\ \A id \in enough \ chosen : \A i \in DOMAIN ids : worth[ids[i]] >= worth[id]

LEMMA BestFacts ==
  ASSUME NEW m \in Nat, NEW E \in SUBSET (1..m), NEW score \in [E -> Int],
         NEW I, NEW name \in [1..m -> I], \A i, j \in 1..m : name[i] = name[j] => i = j,
         NEW enough, \A i \in E : name[i] \in enough, \A id \in enough : \E i \in E : name[i] = id,
         NEW k \in Nat, NEW worth, \A i \in E : worth[name[i]] = score[i]
  PROVE  IsBest(Best(E, score, name, k), enough, worth, k)
<1> DEFINE ids == Best(E, score, name, k)
           N == Cardinality(E)
           size == IF N < k THEN N ELSE k
           at == [n \in 1..N |-> Ranked(E, score, n)]
           chosen == {ids[n] : n \in DOMAIN ids}
<1>1. /\ N \in Nat
      /\ \A n \in 1..N : at[n] \in E
      /\ \A n, j \in 1..N : at[n] = at[j] => n = j
      /\ \A n, j \in 1..N : n < j => score[at[n]] >= score[at[j]]
      /\ \A i \in E : \E n \in 1..N : at[n] = i
  <2>1. /\ N \in Nat
        /\ \A n \in 1..N : Ranked(E, score, n) \in E
        /\ \A n, j \in 1..N : Ranked(E, score, n) = Ranked(E, score, j) => n = j
        /\ \A n, j \in 1..N : n < j => score[Ranked(E, score, n)] >= score[Ranked(E, score, j)]
        /\ \A i \in E : \E n \in 1..N : Ranked(E, score, n) = i
    BY ONLY m \in Nat, E \in SUBSET (1..m), score \in [E -> Int], RankedFacts
  <2>2. \A n \in 1..N : at[n] = Ranked(E, score, n)
    OBVIOUS
  <2> HIDE DEF at, N
  <2> QED
    BY <2>1, <2>2
<1>2. size \in Nat /\ size <= N /\ size <= k /\ (size = k \/ (size < k /\ size = N)) /\ 1..size \subseteq 1..N
  BY <1>1
<1>3. ids = [n \in 1..size |-> name[at[n]]]
  BY <1>2 DEF Best
<1> HIDE DEF ids
<1>4. DOMAIN ids = 1..size /\ \A n \in 1..size : ids[n] = name[at[n]] /\ n \in 1..N /\ at[n] \in E
  BY <1>1, <1>2, <1>3
<1>5. /\ \A i \in E : i \in 1..m /\ name[i] \in I /\ worth[name[i]] = score[i] /\ score[i] \in Int
      /\ \A i, j \in 1..m : name[i] = name[j] => i = j
      /\ \A i \in E : name[i] \in enough
      /\ \A id \in enough : \E i \in E : name[i] = id
      /\ k \in Nat
  OBVIOUS
<1> HIDE DEF at, N, size
<1>6. ids \in [1..size -> I]
  <2>1. \A n \in 1..size : ids[n] \in I
    BY ONLY <1>4, <1>5
  <2>2. ids = [n \in 1..size |-> ids[n]]
    BY ONLY <1>3, <1>4
  <2> QED
    BY ONLY <2>1, <2>2
<1>7. Len(ids) = size
  BY ONLY <1>2, <1>6, FunctionIsSeq
<1>8. chosen \subseteq enough
  <2> SUFFICES ASSUME NEW n \in DOMAIN ids PROVE ids[n] \in enough
    OBVIOUS
  <2>1. n \in 1..size /\ at[n] \in E /\ ids[n] = name[at[n]]
    BY <1>4
  <2> QED
    BY ONLY <1>5, <2>1
<1>9. Cardinality(chosen) = Len(ids)
  <2>1. ASSUME NEW a \in 1..size, NEW b \in 1..size, ids[a] = ids[b] PROVE a = b
    <3>1. /\ a \in 1..N /\ at[a] \in E /\ ids[a] = name[at[a]]
          /\ b \in 1..N /\ at[b] \in E /\ ids[b] = name[at[b]]
      BY <1>4
    <3>2. at[a] \in 1..m /\ at[b] \in 1..m /\ name[at[a]] = name[at[b]]
      BY ONLY <1>5, <2>1, <3>1
    <3>3. at[a] = at[b]
      BY ONLY <1>5, <3>2
    <3> QED
      BY ONLY <1>1, <3>1, <3>3
  <2>2. \A n \in 1..size : ids[n] \in chosen
    BY ONLY <1>4
  <2>3. \A id \in chosen : \E n \in 1..size : ids[n] = id
    BY ONLY <1>4
  <2> HIDE DEF chosen
  <2>4. ids \in [1..size -> chosen]
    BY ONLY <1>6, <2>2
  <2>5. ids \in Bijection(1..size, chosen)
    BY ONLY <2>1, <2>3, <2>4, Fun_IsBij
  <2>6. IsFiniteSet(1..size) /\ Cardinality(1..size) = size
    BY ONLY <1>2, FS_Interval
  <2>7. ExistsBijection(1..size, chosen)
    BY ONLY <2>5 DEF ExistsBijection
  <2> QED
    BY ONLY <1>7, <2>6, <2>7, FS_Bijection
<1>10. size = N => enough \subseteq chosen
  <2> SUFFICES ASSUME size = N, NEW id \in enough PROVE id \in chosen
    OBVIOUS
  <2>0. PICK i \in E : name[i] = id
    BY ONLY <1>5, id \in enough
  <2>1. PICK n \in 1..N : at[n] = i
    BY <1>1
  <2>2. n \in 1..size
    BY ONLY <2>1, size = N
  <2> QED
    BY ONLY <1>4, <2>0, <2>1, <2>2
<1>11. \A i, j \in DOMAIN ids : i < j => worth[ids[i]] >= worth[ids[j]]
  <2> SUFFICES ASSUME NEW i \in DOMAIN ids, NEW j \in DOMAIN ids, i < j
               PROVE  worth[ids[i]] >= worth[ids[j]]
    OBVIOUS
  <2>1. /\ i \in 1..N /\ at[i] \in E /\ ids[i] = name[at[i]]
        /\ j \in 1..N /\ at[j] \in E /\ ids[j] = name[at[j]]
    BY ONLY <1>4, i \in DOMAIN ids, j \in DOMAIN ids
  <2>2. score[at[i]] >= score[at[j]]
    BY ONLY <1>1, <2>1, i < j
  <2>3. worth[ids[i]] = score[at[i]] /\ worth[ids[j]] = score[at[j]]
    BY ONLY <1>5, <2>1
  <2> QED
    BY ONLY <2>2, <2>3
<1>12. ASSUME NEW id \in enough \ chosen, NEW i \in DOMAIN ids PROVE worth[ids[i]] >= worth[id]
  <2>1. PICK e \in E : id = name[e]
    BY ONLY <1>5, id \in enough \ chosen
  <2>2. PICK n \in 1..N : at[n] = e
    BY ONLY <1>1
  <2>3. n \notin 1..size
    BY ONLY <1>4, id \in enough \ chosen, <2>1, <2>2
  <2>4. i \in 1..size /\ i \in 1..N /\ i < n
    BY ONLY <1>2, <1>4, <2>3, i \in DOMAIN ids, n \in 1..N
  <2>5. score[at[i]] >= score[at[n]]
    BY ONLY <1>1, <2>4, n \in 1..N
  <2> QED
    BY ONLY <1>4, <1>5, <2>1, <2>2, <2>4, <2>5, e \in E
<1> HIDE DEF chosen
<1>13. Len(ids) = k \/ (Len(ids) < k /\ chosen = enough)
  BY ONLY <1>2, <1>7, <1>8, <1>10
<1> QED
  BY ONLY <1>8, <1>9, <1>11, <1>12, <1>13 DEF chosen, ids, IsBest

\* Who is not among the first size of them is worth no more than these, which are k.
NoneBetter(ids, size, enough, worth, k) ==
  \A id \in enough :
    \/ \E n \in 1..size : ids[n] = id
    \/ size = k /\ \A n \in 1..size : worth[ids[n]] >= worth[id]

\* Ids none of which comes twice, by descending worth, the rest worth no more.
LEMMA SortedIsBest ==
  ASSUME NEW I, NEW size \in Nat, NEW k \in Nat, NEW ids \in [1..size -> I],
         \A i, j \in 1..size : ids[i] = ids[j] => i = j,
         NEW enough, \A n \in 1..size : ids[n] \in enough,
         NEW worth, \A i, j \in 1..size : i < j => worth[ids[i]] >= worth[ids[j]],
         NoneBetter(ids, size, enough, worth, k), size <= k
  PROVE  IsBest(ids, enough, worth, k)
<1> DEFINE chosen == {ids[n] : n \in DOMAIN ids}
<1>1. DOMAIN ids = 1..size /\ Len(ids) = size
  BY FunctionIsSeq
<1>2. \A id : id \in chosen <=> \E n \in 1..size : ids[n] = id
  BY <1>1
<1> HIDE DEF chosen
<1>3. chosen \subseteq enough
  BY <1>2
<1>4. Cardinality(chosen) = size
  <2>1. ids \in [1..size -> chosen]
    BY <1>2
  <2>2. ids \in Bijection(1..size, chosen)
    BY <1>2, <2>1, Fun_IsBij
  <2>3. IsFiniteSet(1..size) /\ Cardinality(1..size) = size
    BY FS_Interval
  <2>4. ExistsBijection(1..size, chosen)
    BY <2>2 DEF ExistsBijection
  <2> QED
    BY ONLY <2>3, <2>4, FS_Bijection
<1>5. size = k \/ (size < k /\ chosen = enough)
  <2>1. size # k => enough \subseteq chosen
    BY <1>2 DEF NoneBetter
  <2> QED
    BY <1>3, <2>1
<1>6. \A id \in enough \ chosen : \A i \in 1..size : worth[ids[i]] >= worth[id]
  BY <1>2 DEF NoneBetter
<1> QED
  BY <1>1, <1>3, <1>4, <1>5, <1>6 DEF IsBest, chosen

\* The first numbers, counted.
LEMMA PrefixCounted ==
  ASSUME NEW m \in Nat, NEW E, E \subseteq 1..m,
         \A i, j \in 1..m : i < j /\ j \in E => i \in E
  PROVE  Cardinality(E) \in 0..m /\ E = 1..Cardinality(E)
<1>1. CASE E = {}
  <2>1. Cardinality(E) = 0
    BY <1>1, FS_EmptySet
  <2> QED
    BY <1>1, <2>1
<1>2. CASE E # {}
  <2>1. PICK p \in E : \A q \in E : q <= p
    BY <1>2, LargestExists
  <2>2. p \in 1..m /\ E \subseteq 1..p
    BY <2>1
  <2>3. ASSUME NEW i \in 1..p PROVE i \in E
    <3>1. i = p \/ i < p
      BY <2>2
    <3> QED
      BY <2>2, <3>1
  <2>4. E = 1..p
    BY <2>2, <2>3
  <2>5. p \in Nat /\ p \in Int /\ 1 \in Int
    BY <2>2
  <2>6. Cardinality(1..p) = p
    BY ONLY <2>2, FS_Interval, <2>5
  <2> QED
    BY <2>2, <2>6, <2>4
<1> QED
  BY <1>1, <1>2

----------------------------------------------------------------------------
(* Folding a sequence *)

\* The largest of finitely many naturals.
LEMMA MaxFacts ==
  ASSUME NEW n \in Nat, NEW T, T \subseteq 1..n, T # {}
  PROVE  Max(T) \in T /\ \A q \in T : q <= Max(T)
<1>1. PICK p \in T : \A q \in T : q <= p
  BY LargestExists
<1>2. \E x \in T : \A y \in T : x >= y
  BY <1>1
<1>3. Max(T) \in T /\ \A y \in T : Max(T) >= y
  BY <1>2 DEF Max
<1> QED
  BY <1>3

\* h has, for each set of places, what the steps at these places make of base.
FoldsSets(h, n, D, base, step) ==
  /\ h \in [SUBSET (1..n) -> D]
  /\ \A s \in SUBSET (1..n) : h[s] = IF s = {} THEN base ELSE step[Max(s)][h[s \ {Max(s)}]]

LEMMA SetFoldExists ==
  ASSUME NEW n \in Nat, NEW D, NEW base \in D, NEW step \in [1..n -> [D -> D]]
  PROVE  \E h : FoldsSets(h, n, D, base, step)
<1> DEFINE T == {m \in 0..n : \E h : FoldsSets(h, m, D, base, step)}
<1>1. 0 \in T
  <2> DEFINE h == [s \in SUBSET (1..0) |-> base]
  <2>1. \A s \in SUBSET (1..0) : s = {}
    OBVIOUS
  <2>2. h \in [SUBSET (1..0) -> D] /\ \A s \in SUBSET (1..0) : h[s] = base
    OBVIOUS
  <2> HIDE DEF h
  <2>3. FoldsSets(h, 0, D, base, step)
    BY <2>1, <2>2 DEF FoldsSets
  <2> QED
    BY <2>3
<1>2. ASSUME NEW m \in 0..n - 1, m \in T PROVE m + 1 \in T
  <2>1. PICK h : FoldsSets(h, m, D, base, step)
    BY <1>2
  <2>2. /\ h \in [SUBSET (1..m) -> D]
        /\ \A s \in SUBSET (1..m) : h[s] = IF s = {} THEN base ELSE step[Max(s)][h[s \ {Max(s)}]]
    BY <2>1 DEF FoldsSets
  <2> DEFINE H == [s \in SUBSET (1..m + 1) |-> IF m + 1 \in s THEN step[m + 1][h[s \ {m + 1}]] ELSE h[s]]
  <2>3. \A s \in SUBSET (1..m + 1) : s \ {m + 1} \in SUBSET (1..m)
    OBVIOUS
  <2>4. m + 1 \in 1..n /\ m \in Nat
    OBVIOUS
  <2>5. ASSUME NEW s \in SUBSET (1..m + 1) PROVE H[s] \in D
    <3>1. CASE m + 1 \in s
      <4>1. h[s \ {m + 1}] \in D
        BY <2>2, <2>3
      <4>2. step[m + 1] \in [D -> D]
        BY <2>4
      <4> QED
        BY <3>1, <4>1, <4>2
    <3>2. CASE m + 1 \notin s
      <4>1. s \in SUBSET (1..m)
        BY <2>3, <3>2
      <4> QED
        BY <2>2, <3>2, <4>1
    <3> QED
      BY <3>1, <3>2
  <2>6. \A s \in SUBSET (1..m) : s \in SUBSET (1..m + 1) /\ m + 1 \notin s /\ H[s] = h[s]
    BY <2>4
  <2>7. ASSUME NEW s \in SUBSET (1..m + 1)
        PROVE  H[s] = IF s = {} THEN base ELSE step[Max(s)][H[s \ {Max(s)}]]
    <3>1. CASE m + 1 \in s
      <4>1. m + 1 \in Nat /\ s # {} /\ s \subseteq 1..m + 1
        BY <2>4, <3>1
      <4>2. Max(s) \in s /\ \A q \in s : q <= Max(s)
        BY ONLY <4>1, MaxFacts
      <4>3. Max(s) = m + 1
        <5> DEFINE x == Max(s)
        <5>1. x \in 1..m + 1 /\ m + 1 <= x
          BY <3>1, <4>1, <4>2
        <5> HIDE DEF x
        <5>2. x = m + 1
          BY <2>4, <5>1
        <5> QED
          BY <5>2 DEF x
      <4>4. H[s] = step[m + 1][h[s \ {m + 1}]]
        BY <3>1
      <4> HIDE DEF H
      <4>5. H[s \ {m + 1}] = h[s \ {m + 1}]
        BY <2>3, <2>6
      <4> QED
        BY <4>1, <4>3, <4>4, <4>5
    <3>2. CASE m + 1 \notin s
      <4>1. s \in SUBSET (1..m)
        BY <2>3, <3>2
      <4>2. CASE s = {}
        BY <2>2, <2>6, <4>1, <4>2
      <4>3. CASE s # {}
        <5>1. s \ {Max(s)} \in SUBSET (1..m)
          BY <4>1
        <5> HIDE DEF H
        <5>2. H[s] = h[s] /\ H[s \ {Max(s)}] = h[s \ {Max(s)}]
          BY <2>6, <4>1, <5>1
        <5> QED
          BY <2>2, <4>1, <4>3, <5>2
      <4> QED
        BY <4>2, <4>3
    <3> QED
      BY <3>1, <3>2
  <2>8. H \in [SUBSET (1..m + 1) -> D]
    BY <2>5
  <2> HIDE DEF H
  <2>9. FoldsSets(H, m + 1, D, base, step)
    BY <2>7, <2>8 DEF FoldsSets
  <2> QED
    BY <2>4, <2>9
<1>3. \A m \in 0..n : m \in T
  <2> HIDE DEF T
  <2> QED
    BY <1>1, <1>2, BoundedInduction
<1> QED
  BY <1>3

\* run has what the first steps make of base.
RunsThrough(run, n, D, base, step) ==
  /\ run \in [0..n -> D] /\ run[0] = base
  /\ \A k \in 1..n : run[k] = step[k][run[k - 1]]

LEMMA RunExists ==
  ASSUME NEW n \in Nat, NEW D, NEW base \in D, NEW step \in [1..n -> [D -> D]]
  PROVE  \E run : RunsThrough(run, n, D, base, step)
<1>1. \E g \in [0..n -> D] : g[0] = base /\ \A k \in 1..n : g[k] = step[k][g[k - 1]]
  BY IterationExists
<1> QED
  BY <1>1 DEF RunsThrough

\* g starts with base, and goes on with the steps as long as they are defined.
Follows(g, n, D, base, step) ==
  /\ n \in Nat /\ base \in D /\ step \in [1..n -> [D -> D]]
  /\ g[{}] = base
  /\ \A s \in SUBSET (1..n) : s # {} /\ g[s \ {Max(s)}] \in D => g[s] = step[Max(s)][g[s \ {Max(s)}]]

\* Such a function has at the first places what the steps make of base.
LEMMA FoldRuns ==
  ASSUME NEW n, NEW D, NEW base, NEW step, NEW g, Follows(g, n, D, base, step)
  PROVE  \E run : RunsThrough(run, n, D, base, step) /\ g[1..n] = run[n]
<1>. n \in Nat /\ base \in D /\ step \in [1..n -> [D -> D]]
  BY DEF Follows
<1>0. /\ g[{}] = base
      /\ \A s \in SUBSET (1..n) : s # {} /\ g[s \ {Max(s)}] \in D => g[s] = step[Max(s)][g[s \ {Max(s)}]]
  BY DEF Follows
<1>1. PICK run \in [0..n -> D] : run[0] = base /\ \A k \in 1..n : run[k] = step[k][run[k - 1]]
  <2>1. \E run : RunsThrough(run, n, D, base, step)
    BY ONLY base \in D, n \in Nat, step \in [1..n -> [D -> D]], RunExists
  <2> QED
    BY <2>1 DEF RunsThrough
<1> DEFINE T == {k \in 0..n : g[1..k] = run[k]}
<1>2. 0 \in T
  <2>1. 1..0 = {}
    OBVIOUS
  <2> QED
    BY <1>0, <1>1, <2>1
<1>3. ASSUME NEW k \in 0..n - 1, k \in T PROVE k + 1 \in T
  <2>1. k + 1 \in 1..n /\ k \in 0..n /\ (k + 1) - 1 = k
    <3>1. n \in Nat /\ k \in 0..n - 1
      OBVIOUS
    <3> QED
      BY ONLY <3>1
  <2>0. k + 1 \in Nat /\ 1..k + 1 # {}
    <3>1. k \in Nat /\ k + 1 \in Nat
      BY ONLY n \in Nat, k \in 0..n - 1
    <3>2. 1 \in 1..k + 1
      BY ONLY <3>1
    <3> QED
      BY <3>1, <3>2
  <2>2. Max(1..k + 1) = k + 1
    <3>1. k + 1 \in Nat /\ 1..k + 1 # {} /\ 1..k + 1 \subseteq 1..k + 1
      BY <2>0
    <3>2. Max(1..k + 1) \in 1..k + 1 /\ \A q \in 1..k + 1 : q <= Max(1..k + 1)
      BY ONLY <3>1, MaxFacts
    <3> QED
      BY <3>2
  <2>3. (1..k + 1) \ {k + 1} = 1..k
    BY ONLY <2>1
  <2>4. g[1..k] = run[k] /\ run[k] \in D
    BY <1>1, <1>3, <2>1
  <2>5. 1..k + 1 \in SUBSET (1..n) /\ 1..k + 1 # {}
    <3>1. 1..k + 1 \subseteq 1..n
      BY ONLY n \in Nat, k \in 0..n - 1
    <3> QED
      BY <2>0, <3>1
  <2>6. g[1..k + 1] = step[k + 1][g[1..k]]
    BY <1>0, <2>2, <2>3, <2>4, <2>5
  <2> QED
    BY <1>1, <2>1, <2>4, <2>6
<1>4. \A k \in 0..n : k \in T
  <2> HIDE DEF T
  <2> QED
    BY <1>2, <1>3, BoundedInduction
<1>5. n \in 0..n
  OBVIOUS
<1> QED
  BY <1>1, <1>4, <1>5 DEF RunsThrough
=============================================================================
