------------------------ MODULE WorkspaceShellProofs ------------------------
(***************************************************************************)
(* Proofs about WorkspaceShell, for any windows, labels, texts, chords and *)
(* scenarios.  First the operators that work through a sequence (retain,   *)
(* fuzzy_score, build_items, flatten_items, the page keys), whose results  *)
(* are shown by induction over the length of the sequence; then what each  *)
(* operator does to one window; then the inductive invariant of windows,   *)
(* registry, settings and vault.                                           *)
(***************************************************************************)
EXTENDS WorkspaceShell, TLAPS, SequenceTheorems, WellFoundedInduction, FiniteSetTheorems

-----------------------------------------------------------------------------
(***************************************************************************)
(* Induction over numbers, by the least counterexample.                    *)
(***************************************************************************)

\* A set of numbers that is not empty has a least one.
LEMMA LeastNumber ==
  ASSUME NEW S \in SUBSET Nat, S # {}
  PROVE  \E m \in S : \A k \in S : m <= k
<1>1. \E m \in S : \A k \in S : ~(<<k, m>> \in OpToRel(<, Nat))
  BY WFMin, NatLessThanWellFounded
<1>2. PICK m \in S : \A k \in S : ~(k < m)
  BY <1>1 DEF OpToRel
<1>3. QED BY <1>2

\* A set that holds 0, and n + 1 whenever it holds n < N, holds every number up to N.
LEMMA UpTo ==
  ASSUME NEW N \in Nat, NEW S, 0 \in S, \A n \in 0 .. N - 1 : n \in S => n + 1 \in S
  PROVE  \A n \in 0 .. N : n \in S
<1> DEFINE Bad == {n \in 0 .. N : n \notin S}
<1>1. SUFFICES ASSUME Bad # {} PROVE FALSE
  OBVIOUS
<1>2. Bad \in SUBSET Nat
  OBVIOUS
<1>3. PICK m \in Bad : \A k \in Bad : m <= k
  BY <1>1, <1>2, LeastNumber
<1>4. m # 0 /\ m - 1 \in 0 .. N - 1 /\ m - 1 \notin Bad
  BY <1>3
<1>5. (m - 1) + 1 \in S
  BY <1>4
<1>6. QED BY <1>3, <1>5

\* The greatest number of a set of numbers up to N.
LEMMA GreatestNumber ==
  ASSUME NEW N \in Nat, NEW S \in SUBSET (0 .. N), S # {}
  PROVE  \E m \in S : \A k \in S : k <= m
<1> DEFINE T == {N - k : k \in S}
<1>1. T \in SUBSET Nat /\ T # {}
  <2>1. \A k \in S : k \in 0 .. N /\ N - k \in Nat
    OBVIOUS
  <2>2. QED BY <2>1
<1>2. PICK t \in T : \A k \in T : t <= k
  BY <1>1, LeastNumber
<1>3. PICK m \in S : t = N - m
  BY <1>2
<1>4. \A k \in S : N - m <= N - k
  BY <1>2, <1>3
<1>5. \A k \in S : k <= m
  <2>1. TAKE k \in S
  <2>2. N - m <= N - k /\ m \in Nat /\ k \in Nat
    BY <1>4
  <2>3. QED BY <2>2
<1>6. QED BY <1>5

\* step is a step within a set X, and f takes it N times from x.
IsStep(step, X, N) == step \in [X \X (1 .. N) -> X]
IsRun(f, step, X, x, N) ==
  f \in [0 .. N -> X] /\ f[0] = x /\ \A n \in 1 .. N : f[n] = step[<<f[n - 1], n>>]

\* A step can be taken any number of times, so the recursion that takes it has a result.
LEMMA Recursion ==
  ASSUME NEW N, N \in Nat, NEW X, NEW x, x \in X, NEW step, IsStep(step, X, N)
  PROVE  \E f : IsRun(f, step, X, x, N)
<1>0. step \in [X \X (1 .. N) -> X]
  BY DEF IsStep
<1> DEFINE Run(f, n) == /\ f \in [0 .. n -> X] /\ f[0] = x
                        /\ \A k \in 1 .. n : f[k] = step[<<f[k - 1], k>>]
           S == {n \in Nat : \E f : Run(f, n)}
<1>1. 0 \in S
  <2>1. Run([k \in 0 .. 0 |-> x], 0)
    OBVIOUS
  <2>2. QED BY <2>1
<1>2. ASSUME NEW n \in 0 .. N - 1, n \in S PROVE n + 1 \in S
  <2>1. PICK f : Run(f, n)
    BY <1>2
  <2> DEFINE g == [k \in 0 .. n + 1 |-> IF k = n + 1 THEN step[<<f[n], n + 1>>] ELSE f[k]]
  <2>2. f[n] \in X /\ n + 1 \in 1 .. N
    BY <2>1
  <2>3. g \in [0 .. n + 1 -> X]
    <3>1. step[<<f[n], n + 1>>] \in X
      BY <1>0, <2>2
    <3>2. \A k \in 0 .. n + 1 : k # n + 1 => f[k] \in X
      BY <2>1
    <3>3. QED BY <3>1, <3>2
  <2>4. g[0] = x
    <3>1. 0 \in 0 .. n + 1 /\ 0 # n + 1
      OBVIOUS
    <3>2. QED BY <2>1, <3>1
  <2>5. ASSUME NEW k \in 1 .. n + 1 PROVE g[k] = step[<<g[k - 1], k>>]
    <3>1. CASE k = n + 1
      <4>1. g[k] = step[<<f[n], n + 1>>] /\ g[n] = f[n] /\ k - 1 = n
        BY <3>1
      <4>2. QED BY <3>1, <4>1
    <3>2. CASE k # n + 1
      <4>1. g[k] = f[k] /\ g[k - 1] = f[k - 1] /\ k \in 1 .. n
        BY <3>2
      <4>2. QED BY <2>1, <4>1
    <3>3. QED BY <3>1, <3>2
  <2>6. Run(g, n + 1)
    BY <2>3, <2>4, <2>5
  <2> HIDE DEF g
  <2>7. \E h : Run(h, n + 1)
    BY <2>6
  <2>8. QED BY <2>7
<1>3. \A n \in 0 .. N : n \in S
  <2> HIDE DEF S
  <2>1. QED BY <1>1, <1>2, UpTo
<1>4. N \in S
  BY <1>3
<1>5. PICK f : Run(f, N)
  BY <1>4
<1>6. QED BY <1>5 DEF IsRun

-----------------------------------------------------------------------------
(***************************************************************************)
(* Vec::retain and promote_unique.                                         *)
(***************************************************************************)

Distinct(s) == \A i, j \in DOMAIN s : s[i] = s[j] => i = j

LEMMA AppendIs ==
  ASSUME NEW X, NEW k \in Seq(X), NEW x \in X
  PROVE  /\ Append(k, x) \in Seq(X) /\ ToSet(Append(k, x)) = ToSet(k) \cup {x}
         /\ Distinct(k) /\ x \notin ToSet(k) => Distinct(Append(k, x))
<1> DEFINE a == Append(k, x)
<1>1. /\ a \in Seq(X) /\ Len(a) = Len(k) + 1 /\ Len(k) \in Nat
      /\ \A i \in 1 .. Len(k) : a[i] = k[i] /\ a[Len(k) + 1] = x
  BY AppendProperties, LenProperties
<1>2. a[Len(k) + 1] = x /\ DOMAIN a = 1 .. Len(k) + 1 /\ DOMAIN k = 1 .. Len(k)
  BY <1>1, AppendProperties, LenProperties
<1> HIDE DEF a
<1>3. ToSet(a) = ToSet(k) \cup {x}
  BY <1>1, <1>2 DEF ToSet
<1>4. ASSUME Distinct(k), x \notin ToSet(k) PROVE Distinct(a)
  BY <1>1, <1>2, <1>4 DEF Distinct, ToSet
<1>5. QED BY <1>1, <1>3, <1>4 DEF a

LEMMA RetainedIs ==
  ASSUME NEW X, NEW s \in Seq(X), NEW S
  PROVE  /\ Retained(s, S) \in Seq(X) /\ ToSet(Retained(s, S)) = ToSet(s) \cap S
         /\ Distinct(s) => Distinct(Retained(s, S))
<1> DEFINE N == Len(s)
           Step(k, n) == IF s[n] \in S THEN Append(k, s[n]) ELSE k
           Eq(f) == f = [n \in 0 .. N |-> IF n = 0 THEN <<>>
                                          ELSE IF s[n] \in S THEN Append(f[n - 1], s[n]) ELSE f[n - 1]]
           kept == CHOOSE f : Eq(f)
           step == [p \in Seq(X) \X (1 .. N) |-> Step(p[1], p[2])]
<1>1. N \in Nat /\ <<>> \in Seq(X) /\ \A n \in 1 .. N : s[n] \in X
  BY LenProperties, EmptySeq, ElementOfSeq
<1>2. ASSUME NEW k \in Seq(X), NEW n \in 1 .. N PROVE Step(k, n) \in Seq(X)
  BY <1>1, AppendIs
<1>3. step \in [Seq(X) \X (1 .. N) -> Seq(X)]
  BY <1>2
<1>4. PICK f \in [0 .. N -> Seq(X)] : f[0] = <<>> /\ \A n \in 1 .. N : f[n] = step[<<f[n - 1], n>>]
  <2>1. IsStep(step, Seq(X), N)
    BY <1>3 DEF IsStep
  <2> HIDE DEF step
  <2>2. \E g : IsRun(g, step, Seq(X), <<>>, N)
    BY <1>1, <2>1, Recursion
  <2>3. QED BY <2>2 DEF IsRun
<1>5. ASSUME NEW n \in 1 .. N PROVE f[n] = Step(f[n - 1], n)
  <2>1. n - 1 \in 0 .. N
    BY <1>1
  <2>2. f[n - 1] \in Seq(X)
    BY <1>4, <2>1
  <2>3. step[<<f[n - 1], n>>] = Step(f[n - 1], n)
    BY <2>2
  <2> HIDE DEF step
  <2>4. QED BY <1>4, <2>3
<1> HIDE DEF step
<1>6. Eq(f)
  <2> DEFINE g == [n \in 0 .. N |-> IF n = 0 THEN <<>>
                                    ELSE IF s[n] \in S THEN Append(f[n - 1], s[n]) ELSE f[n - 1]]
  <2>1. ASSUME NEW n \in 0 .. N PROVE f[n] = g[n]
    <3>1. CASE n = 0
      BY <1>4, <3>1
    <3>2. CASE n # 0
      <4>1. n \in 1 .. N
        BY <1>1, <3>2
      <4>2. QED BY <1>5, <3>2, <4>1
    <3>3. QED BY <3>1, <3>2
  <2>2. f = [n \in 0 .. N |-> f[n]]
    BY <1>4
  <2>3. g = [n \in 0 .. N |-> g[n]]
    OBVIOUS
  <2> HIDE DEF g
  <2>4. f = g
    BY <2>1, <2>2, <2>3
  <2>5. QED BY <2>4 DEF g
<1>7. Eq(kept)
  <2> HIDE DEF Eq
  <2>1. QED BY <1>6
<1> HIDE DEF kept
<1>8. kept[0] = <<>> /\ \A n \in 1 .. N : kept[n] = Step(kept[n - 1], n)
  <2>1. 0 \in 0 .. N /\ \A n \in 1 .. N : n \in 0 .. N /\ n # 0
    BY <1>1
  <2>2. \A n \in 0 .. N : kept[n] = IF n = 0 THEN <<>> ELSE Step(kept[n - 1], n)
    BY <1>7
  <2> HIDE DEF Step
  <2>3. QED BY <2>1, <2>2
<1> DEFINE Sofar(n) == {s[i] : i \in 1 .. n}
           P(n) == /\ kept[n] \in Seq(X) /\ ToSet(kept[n]) = Sofar(n) \cap S
                   /\ Distinct(s) => Distinct(kept[n])
           T == {n \in 0 .. N : P(n)}
<1>9. 0 \in T
  <2>1. ToSet(<<>>) = {} /\ Distinct(<<>>)
    BY DEF ToSet, Distinct
  <2>2. 0 \in 0 .. N /\ Sofar(0) = {}
    BY <1>1
  <2> HIDE DEF Sofar
  <2>3. QED BY <1>1, <1>8, <2>1, <2>2
<1>10. ASSUME NEW n \in 0 .. N - 1, n \in T PROVE n + 1 \in T
  <2>0. P(n)
    BY <1>10
  <2>1. n + 1 \in 1 .. N /\ n + 1 \in 0 .. N /\ (n + 1) - 1 = n /\ P(n)
    <3> HIDE DEF P, N
    <3>1. QED BY <1>1, <2>0
  <2>2. kept[n + 1] = Step(kept[n], n + 1) /\ s[n + 1] \in X
    BY <1>1, <1>8, <2>1
  <2>3. Sofar(n + 1) = Sofar(n) \cup {s[n + 1]}
    <3>1. \A i : i \in 1 .. n + 1 <=> i \in 1 .. n \/ i = n + 1
      BY <1>1, <2>1
    <3>2. QED BY <3>1
  <2>4. Distinct(s) => s[n + 1] \notin Sofar(n)
    <3>1. DOMAIN s = 1 .. N
      BY LenProperties
    <3>2. ASSUME Distinct(s), NEW i \in 1 .. n, s[i] = s[n + 1] PROVE FALSE
      <4> HIDE DEF P, N, Sofar, T
      <4>1. i \in 1 .. N /\ n + 1 \in 1 .. N /\ i # n + 1
        BY <1>1, <2>1
      <4>2. QED BY <3>1, <3>2, <4>1 DEF Distinct
    <3>3. QED BY <3>2
  <2> HIDE DEF Sofar
  <2>5. CASE s[n + 1] \in S
    <3>1. kept[n + 1] = Append(kept[n], s[n + 1])
      BY <2>2, <2>5
    <3>2. /\ kept[n + 1] \in Seq(X) /\ ToSet(kept[n + 1]) = ToSet(kept[n]) \cup {s[n + 1]}
          /\ Distinct(kept[n]) /\ s[n + 1] \notin ToSet(kept[n]) => Distinct(kept[n + 1])
      BY <2>1, <2>2, <3>1, AppendIs
    <3>3. P(n + 1)
      BY <2>1, <2>3, <2>4, <2>5, <3>2
    <3>4. QED BY <2>1, <3>3
  <2>6. CASE s[n + 1] \notin S
    <3>1. kept[n + 1] = kept[n]
      BY <2>2, <2>6
    <3>2. P(n + 1)
      BY <2>1, <2>3, <2>6, <3>1
    <3>3. QED BY <2>1, <3>2
  <2>7. QED BY <2>5, <2>6
<1>11. \A n \in 0 .. N : n \in T
  <2> HIDE DEF T
  <2>1. QED BY <1>1, <1>9, <1>10, UpTo
<1>12. P(N)
  <2>1. N \in 0 .. N
    BY <1>1
  <2>2. N \in T
    BY <1>11, <2>1
  <2>3. QED BY <2>2
<1>13. Retained(s, S) = kept[N]
  BY DEF Retained, kept
<1>14. Sofar(N) = ToSet(s)
  BY <1>1, LenProperties DEF ToSet
<1>15. QED BY <1>12, <1>13, <1>14

LEMMA PromotedIs ==
  ASSUME NEW s \in Seq(Windows), NEW w \in Windows
  PROVE  /\ Promoted(s, w) \in Seq(Windows) /\ ToSet(Promoted(s, w)) = ToSet(s) \cup {w}
         /\ Distinct(s) => Distinct(Promoted(s, w))
<1> DEFINE k == Retained(s, Windows \ {w})
           p == <<w>> \o k
<1>1. /\ k \in Seq(Windows) /\ ToSet(k) = ToSet(s) \cap (Windows \ {w})
      /\ Distinct(s) => Distinct(k)
  BY RetainedIs
<1> HIDE DEF k
<1>2. ToSet(s) \subseteq Windows
  BY LenProperties, ElementOfSeq DEF ToSet
<1>3. <<w>> \in Seq(Windows) /\ Len(<<w>>) = 1 /\ <<w>>[1] = w
  OBVIOUS
<1>4. /\ p \in Seq(Windows) /\ Len(p) = Len(k) + 1 /\ Len(k) \in Nat
      /\ DOMAIN p = 1 .. Len(k) + 1 /\ DOMAIN k = 1 .. Len(k)
      /\ p[1] = w /\ \A i \in 2 .. Len(k) + 1 : p[i] = k[i - 1]
  BY <1>1, <1>3, ConcatProperties, LenProperties
<1> HIDE DEF p
<1>5. ToSet(p) = ToSet(k) \cup {w}
  <2>1. ASSUME NEW i \in DOMAIN p PROVE p[i] \in ToSet(k) \cup {w}
    <3>1. i = 1 \/ (i \in 2 .. Len(k) + 1 /\ i - 1 \in DOMAIN k)
      BY <1>4
    <3>2. QED BY <1>4, <3>1 DEF ToSet
  <2>2. ASSUME NEW i \in DOMAIN k PROVE k[i] \in ToSet(p)
    <3>1. i + 1 \in 2 .. Len(k) + 1 /\ (i + 1) - 1 = i /\ i + 1 \in DOMAIN p
      BY <1>4
    <3>2. QED BY <1>4, <3>1 DEF ToSet
  <2>3. w \in ToSet(p)
    BY <1>4 DEF ToSet
  <2>4. QED BY <2>1, <2>2, <2>3 DEF ToSet
<1>6. ASSUME Distinct(s) PROVE Distinct(p)
  <2>1. Distinct(k) /\ w \notin ToSet(k)
    BY <1>1, <1>6
  <2>2. ASSUME NEW i \in DOMAIN p, NEW j \in DOMAIN p, p[i] = p[j] PROVE i = j
    <3>1. \A m \in DOMAIN p : m = 1 \/ (m \in 2 .. Len(k) + 1 /\ m - 1 \in DOMAIN k /\ p[m] = k[m - 1])
      BY <1>4
    <3>2. \A m \in DOMAIN k : k[m] # w
      BY <2>1 DEF ToSet
    <3>3. CASE i = 1 \/ j = 1
      BY <1>4, <2>2, <3>1, <3>2, <3>3
    <3>4. CASE i # 1 /\ j # 1
      <4>1. i - 1 = j - 1
        BY <2>1, <2>2, <3>1, <3>4 DEF Distinct
      <4>2. QED BY <1>4, <4>1
    <3>5. QED BY <3>3, <3>4
  <2>3. QED BY <2>2 DEF Distinct
<1>7. Promoted(s, w) = p
  BY DEF Promoted, p, k
<1>8. QED BY <1>1, <1>2, <1>4, <1>5, <1>6, <1>7

\* A sequence without repetition is as long as its set of elements.
LEMMA DistinctLength ==
  ASSUME NEW X, NEW s \in Seq(X), Distinct(s)
  PROVE  IsFiniteSet(ToSet(s)) /\ Len(s) = Cardinality(ToSet(s))
<1>1. Len(s) \in Nat /\ DOMAIN s = 1 .. Len(s) /\ s \in [1 .. Len(s) -> X]
  BY LenProperties
<1>2. s \in Bijection(1 .. Len(s), ToSet(s))
  BY <1>1 DEF Bijection, Injection, Surjection, IsInjective, ToSet, Distinct
<1>3. IsFiniteSet(1 .. Len(s)) /\ Cardinality(1 .. Len(s)) = Len(s)
  BY SMTT(30), <1>1, FS_Interval
<1>4. ExistsBijection(1 .. Len(s), ToSet(s))
  BY <1>2 DEF ExistsBijection
<1>5. QED BY <1>3, <1>4, FS_Bijection

-----------------------------------------------------------------------------
(***************************************************************************)
(* fuzzy_score.                                                            *)
(***************************************************************************)

LEMMA NextPlaceIs ==
  ASSUME NEW X, NEW t \in Seq(X), NEW i \in 0 .. Len(t), NEW c
  PROVE  /\ NextPlace(t, i, c) = 0 \/ (NextPlace(t, i, c) \in i + 1 .. Len(t) /\ t[NextPlace(t, i, c)] = c)
         /\ \A m \in i + 1 .. Len(t) : t[m] = c => NextPlace(t, i, c) # 0 /\ NextPlace(t, i, c) <= m
<1> DEFINE S == {k \in i + 1 .. Len(t) : t[k] = c}
           k == NextPlace(t, i, c)
<1>1. Len(t) \in Nat /\ i \in Nat
  BY LenProperties
<1>2. CASE S = {}
  <2>1. k = 0
    BY <1>2 DEF NextPlace
  <2>2. \A m \in i + 1 .. Len(t) : t[m] # c
    BY <1>2
  <2>3. QED BY <2>1, <2>2
<1>3. CASE S # {}
  <2>1. S \in SUBSET Nat
    BY <1>1
  <2>2. \E m \in S : \A n \in S : m <= n
    BY <1>3, <2>1, LeastNumber
  <2>3. k = CHOOSE m \in S : \A n \in S : m <= n
    BY <1>3 DEF NextPlace
  <2>4. k \in S /\ \A n \in S : k <= n
    BY <2>2, <2>3
  <2> HIDE DEF k
  <2>5. k \in i + 1 .. Len(t) /\ t[k] = c
    BY <2>4
  <2>6. k # 0
    BY <1>1, <2>5
  <2>7. \A m \in i + 1 .. Len(t) : t[m] = c => k <= m
    BY <2>4
  <2>8. QED BY <2>5, <2>6, <2>7 DEF k
<1>4. QED BY <1>2, <1>3

Matches(t) == [ok : BOOLEAN, at : 0 .. Len(t), run : Nat, score : Nat]

LEMMA MatchedIs ==
  ASSUME NEW X, NEW t \in Seq(X), NEW s \in Matches(t), NEW c
  PROVE  /\ Matched(t, s, c) \in Matches(t)
         /\ Matched(t, s, c).ok <=> s.ok /\ NextPlace(t, s.at, c) # 0
         /\ Matched(t, s, c).ok => Matched(t, s, c).at = NextPlace(t, s.at, c)
<1> DEFINE k == NextPlace(t, s.at, c)
           run == IF s.at > 0 /\ k = s.at + 1 THEN s.run + 1 ELSE 0
           score == s.score + 1 + (IF run > 0 THEN 4 + run ELSE 1)
                         + (IF k = 1 \/ t[High(k - 1, 1)] = " " THEN 6 ELSE 0)
                         + (IF k = 1 THEN 8 ELSE 0)
<1>1. s.ok \in BOOLEAN /\ s.at \in 0 .. Len(t) /\ s.run \in Nat /\ s.score \in Nat
  BY DEF Matches
<1>2. k = 0 \/ (k \in s.at + 1 .. Len(t))
  BY <1>1, NextPlaceIs
<1>3. Len(t) \in Nat
  BY LenProperties
<1>4. CASE ~s.ok \/ k = 0
  <2>1. Matched(t, s, c) = [s EXCEPT !.ok = FALSE]
    BY <1>4 DEF Matched
  <2>2. [s EXCEPT !.ok = FALSE] \in Matches(t) /\ ~[s EXCEPT !.ok = FALSE].ok
    BY DEF Matches
  <2>3. QED BY <1>4, <2>1, <2>2
<1>5. CASE s.ok /\ k # 0
  <2> DEFINE r == [ok |-> TRUE, at |-> k, run |-> run, score |-> score]
  <2>1. Matched(t, s, c) = r
    BY <1>5 DEF Matched
  <2>2. k \in 0 .. Len(t)
    BY <1>1, <1>2, <1>3
  <2>3. run \in Nat
    BY <1>1
  <2>4. score \in Nat
    <3> HIDE DEF run, k
    <3> DEFINE x == IF run > 0 THEN 4 + run ELSE 1
               y == IF k = 1 \/ t[High(k - 1, 1)] = " " THEN 6 ELSE 0
               z == IF k = 1 THEN 8 ELSE 0
    <3>1. x \in Nat /\ y \in Nat /\ z \in Nat
      BY <2>3
    <3> HIDE DEF x, y, z
    <3>2. s.score + 1 + x + y + z \in Nat
      BY SMTT(30), <1>1, <3>1
    <3>3. QED BY <3>2 DEF x, y, z
  <2> HIDE DEF k, run, score
  <2>5. r \in Matches(t) /\ r.ok /\ r.at = k
    BY <2>2, <2>3, <2>4 DEF Matches
  <2>6. QED BY <1>5, <2>1, <2>5 DEF k
<1>6. QED BY <1>4, <1>5

\* f places the first n characters of q in t, in their order.
Places(f, q, t, n) ==
  /\ \A i, k \in 1 .. n : i < k => f[i] < f[k]
  /\ \A i \in 1 .. n : t[f[i]] = q[i]

\* The greedy search finds a place for every character of the query if there is one: it is
\* never further in the text than any other way to place what it has placed so far.
LEMMA FuzzyIs ==
  ASSUME NEW X, NEW t \in Seq(X), NEW Y, NEW q \in Seq(Y)
  PROVE  /\ FuzzyScore(t, q) \in Matches(t)
         /\ FuzzyScore(t, q).ok <=> IsSubsequence(q, t)
<1> DEFINE N == Len(q)
           M == Len(t)
           init == [ok |-> TRUE, at |-> 0, run |-> 0, score |-> 0]
           Eq(f) == f = [n \in 0 .. N |-> IF n = 0 THEN init ELSE Matched(t, f[n - 1], q[n])]
           s == CHOOSE f : Eq(f)
           step == [p \in Matches(t) \X (1 .. N) |-> Matched(t, p[1], q[p[2]])]
<1>1. N \in Nat /\ M \in Nat /\ (\A n \in 1 .. M : t[n] \in X)
  BY LenProperties, ElementOfSeq
<1>2. init \in Matches(t) /\ init.ok = TRUE /\ init.at = 0
  BY <1>1 DEF Matches
<1> HIDE DEF init
<1>3. \A m \in Matches(t), n \in 1 .. N : Matched(t, m, q[n]) \in Matches(t)
  BY MatchedIs
<1>4. PICK f \in [0 .. N -> Matches(t)] : f[0] = init /\ \A n \in 1 .. N : f[n] = step[<<f[n - 1], n>>]
  <2>1. IsStep(step, Matches(t), N)
    BY <1>3 DEF IsStep
  <2> HIDE DEF step
  <2>2. \E g : IsRun(g, step, Matches(t), init, N)
    BY <1>1, <1>2, <2>1, Recursion
  <2>3. QED BY <2>2 DEF IsRun
<1>5. ASSUME NEW n \in 1 .. N PROVE f[n] = Matched(t, f[n - 1], q[n])
  <2>1. n - 1 \in 0 .. N
    BY <1>1
  <2>2. f[n - 1] \in Matches(t)
    BY <1>4, <2>1
  <2>3. step[<<f[n - 1], n>>] = Matched(t, f[n - 1], q[n])
    BY <2>2
  <2> HIDE DEF step
  <2>4. QED BY <1>4, <2>3
<1> HIDE DEF step
<1>6. Eq(f)
  <2> DEFINE g == [n \in 0 .. N |-> IF n = 0 THEN init ELSE Matched(t, f[n - 1], q[n])]
  <2>1. ASSUME NEW n \in 0 .. N PROVE f[n] = g[n]
    <3>1. CASE n = 0
      BY <1>4, <3>1
    <3>2. CASE n # 0
      <4>1. n \in 1 .. N
        BY <1>1, <3>2
      <4>2. QED BY <1>5, <3>2, <4>1
    <3>3. QED BY <3>1, <3>2
  <2>2. f = [n \in 0 .. N |-> f[n]]
    BY <1>4
  <2>3. g = [n \in 0 .. N |-> g[n]]
    OBVIOUS
  <2> HIDE DEF g
  <2>4. f = g
    BY <2>1, <2>2, <2>3
  <2>5. QED BY <2>4 DEF g
<1>7. Eq(s)
  <2> HIDE DEF Eq
  <2>1. QED BY <1>6
<1> HIDE DEF s
<1>8. s[0] = init /\ \A n \in 1 .. N : s[n] = Matched(t, s[n - 1], q[n])
  <2>1. 0 \in 0 .. N /\ \A n \in 1 .. N : n \in 0 .. N /\ n # 0
    BY <1>1
  <2>2. \A n \in 0 .. N : s[n] = IF n = 0 THEN init ELSE Matched(t, s[n - 1], q[n])
    BY <1>7
  <2>3. QED BY <2>1, <2>2
<1>9. FuzzyScore(t, q) = s[N]
  BY DEF FuzzyScore, s, init
<1> DEFINE Found(n) == \E g \in [1 .. n -> 1 .. s[n].at] : Places(g, q, t, n)
           Earliest(n) == \A g \in [1 .. n -> 1 .. M] : Places(g, q, t, n) =>
                            s[n].ok /\ (n > 0 => s[n].at <= g[n]) /\ (n = 0 => s[n].at = 0)
           P(n) == s[n] \in Matches(t) /\ (s[n].ok => Found(n)) /\ Earliest(n)
           T == {n \in 0 .. N : P(n)}
<1>10. 0 \in T
  <2>1. Found(0)
    <3>1. [i \in 1 .. 0 |-> 0] \in [1 .. 0 -> 1 .. s[0].at] /\ Places([i \in 1 .. 0 |-> 0], q, t, 0)
      BY DEF Places
    <3>2. QED BY <3>1
  <2>2. Earliest(0)
    BY <1>2, <1>8
  <2> HIDE DEF Found, Earliest
  <2>3. QED BY <1>1, <1>2, <1>8, <2>1, <2>2
<1>11. ASSUME NEW n \in 0 .. N - 1, n \in T PROVE n + 1 \in T
  <2>0. P(n)
    BY <1>11
  <2>1. n + 1 \in 1 .. N /\ n + 1 \in 0 .. N /\ (n + 1) - 1 = n /\ n \in Nat
    BY <1>1
  <2> DEFINE c == q[n + 1]
             k == NextPlace(t, s[n].at, c)
             r == s[n + 1]
  <2>2. /\ r \in Matches(t) /\ (r.ok <=> s[n].ok /\ k # 0) /\ (r.ok => r.at = k)
    <3>1. r = Matched(t, s[n], c)
      BY <1>8, <2>1
    <3>2. QED BY <2>0, <3>1, MatchedIs
  <2>3. s[n].at \in 0 .. M
    BY <2>0 DEF Matches
  <2>4. /\ k = 0 \/ (k \in s[n].at + 1 .. M /\ t[k] = c)
        /\ \A m \in s[n].at + 1 .. M : t[m] = c => k # 0 /\ k <= m
    BY <2>3, NextPlaceIs
  <2> HIDE DEF k, c
  <2>5. ASSUME r.ok PROVE Found(n + 1)
    <3>1. s[n].ok /\ k # 0 /\ r.at = k
      BY <2>2, <2>5
    <3>2. PICK g \in [1 .. n -> 1 .. s[n].at] : Places(g, q, t, n)
      BY <2>0, <3>1
    <3> DEFINE h == [i \in 1 .. n + 1 |-> IF i = n + 1 THEN k ELSE g[i]]
    <3>3. k \in s[n].at + 1 .. M /\ t[k] = c
      BY <2>4, <3>1
    <3>4. \A i \in 1 .. n : g[i] \in 1 .. s[n].at
      BY <3>2
    <3>5. h \in [1 .. n + 1 -> 1 .. k]
      <4>1. \A i \in 1 .. n + 1 : i # n + 1 => i \in 1 .. n
        BY <2>1
      <4>2. \A i \in 1 .. n : g[i] \in 1 .. k
        BY <2>3, <3>3, <3>4
      <4>3. k \in 1 .. k
        BY <2>3, <3>3
      <4>4. QED BY <4>1, <4>2, <4>3
    <3>6. \A i \in 1 .. n : h[i] = g[i] /\ i \in 1 .. n + 1 /\ i # n + 1
      BY <2>1
    <3>7. h[n + 1] = k
      BY <2>1
    <3>8. \A i \in 1 .. n + 1 : i \in 1 .. n \/ i = n + 1
      BY <2>1
    <3> HIDE DEF h
    <3>9. \A i \in 1 .. n + 1 : t[h[i]] = q[i]
      BY <3>2, <3>3, <3>6, <3>7, <3>8 DEF Places, c
    <3>10. ASSUME NEW i \in 1 .. n + 1, NEW j \in 1 .. n + 1, i < j PROVE h[i] < h[j]
      <4>1. i \in 1 .. n
        BY <2>1, <3>10
      <4>2. CASE j \in 1 .. n
        BY <3>2, <3>6, <3>10, <4>1, <4>2 DEF Places
      <4>3. CASE j = n + 1
        <5>1. h[i] \in 1 .. s[n].at /\ h[j] = k
          BY <3>4, <3>6, <3>7, <4>1, <4>3
        <5>2. QED BY SMTT(30), <2>3, <3>3, <5>1
      <4>4. QED BY <3>8, <4>2, <4>3
    <3>11. Places(h, q, t, n + 1)
      BY <3>9, <3>10 DEF Places
    <3>12. h \in [1 .. n + 1 -> 1 .. s[n + 1].at]
      BY <3>1, <3>5
    <3>13. QED BY <3>11, <3>12
  <2>6. Earliest(n + 1)
    <3>1. SUFFICES ASSUME NEW g \in [1 .. n + 1 -> 1 .. M], Places(g, q, t, n + 1)
                   PROVE  r.ok /\ r.at <= g[n + 1]
      BY <2>1
    <3> DEFINE h == [i \in 1 .. n |-> g[i]]
    <3>2. \A i \in 1 .. n : i \in 1 .. n + 1 /\ i < n + 1 /\ h[i] = g[i]
      BY <2>1
    <3>3. h \in [1 .. n -> 1 .. M]
      BY <3>2
    <3> HIDE DEF h
    <3>4. Places(h, q, t, n)
      BY <3>1, <3>2 DEF Places
    <3>5. n + 1 \in 1 .. n + 1 /\ g[n + 1] \in 1 .. M /\ t[g[n + 1]] = c
      BY <2>1, <3>1 DEF Places, c
    <3>6. s[n].ok /\ s[n].at < g[n + 1]
      <4>1. s[n].ok /\ (n > 0 => s[n].at <= h[n]) /\ (n = 0 => s[n].at = 0)
        BY <2>0, <3>3, <3>4
      <4>2. CASE n = 0
        BY <3>5, <4>1, <4>2
      <4>3. CASE n # 0
        <5>1. n \in 1 .. n
          BY <2>1, <4>3
        <5>2. h[n] < g[n + 1] /\ h[n] \in 1 .. M
          BY <3>1, <3>2, <3>3, <3>5, <5>1 DEF Places
        <5>3. s[n].at <= h[n]
          BY <4>1, <5>1, <2>1
        <5>4. QED BY <1>1, <2>3, <3>5, <4>1, <5>2, <5>3
      <4>4. QED BY <4>2, <4>3
    <3>7. g[n + 1] \in s[n].at + 1 .. M
      BY <1>1, <2>3, <3>5, <3>6
    <3>8. k # 0 /\ k <= g[n + 1]
      BY <2>4, <3>5, <3>7
    <3>9. QED BY <2>2, <3>6, <3>8
  <2> HIDE DEF Found, Earliest
  <2>7. P(n + 1)
    BY <2>2, <2>5, <2>6
  <2> HIDE DEF P
  <2>8. QED BY <2>1, <2>7
<1>12. \A n \in 0 .. N : n \in T
  <2> HIDE DEF T
  <2>1. QED BY <1>1, <1>10, <1>11, UpTo
<1>13. P(N)
  <2>1. N \in 0 .. N
    BY <1>1
  <2>2. N \in T
    BY <1>12, <2>1
  <2> HIDE DEF P
  <2>3. QED BY <2>2
<1>14. ASSUME s[N].ok PROVE IsSubsequence(q, t)
  <2>1. PICK g \in [1 .. N -> 1 .. s[N].at] : Places(g, q, t, N)
    BY <1>13, <1>14
  <2>2. s[N].at \in 0 .. M
    BY <1>13 DEF Matches
  <2>3. g \in [1 .. N -> 1 .. M]
    <3>1. \A x \in 1 .. s[N].at : x \in 1 .. M
      BY <1>1, <2>2
    <3>2. QED BY <2>1, <3>1
  <2>4. QED BY <2>1, <2>3 DEF Places, IsSubsequence
<1>15. ASSUME IsSubsequence(q, t) PROVE s[N].ok
  <2>1. PICK g \in [1 .. N -> 1 .. M] : Places(g, q, t, N)
    BY <1>15 DEF Places, IsSubsequence
  <2>2. QED BY <1>13, <2>1
<1>16. s[N] \in Matches(t) /\ s[N].ok \in BOOLEAN
  BY <1>13 DEF Matches
<1>17. QED BY <1>9, <1>14, <1>15, <1>16

-----------------------------------------------------------------------------
(***************************************************************************)
(* build_items.                                                            *)
(***************************************************************************)

Symbols == Chars \cup {" "}

LEMMA LabelsTyped == ASSUME NEW a \in Entries PROVE Label[a] \in Seq(Symbols) /\ Hint[a] \in Seq(Symbols)
BY LabelsAssumption DEF Symbols

Listed(a, q) == IsSubsequence(q, Label[a]) \/ IsSubsequence(q, Hint[a])

LEMMA ScoreIs ==
  ASSUME NEW a \in Entries, NEW q \in Seq(Chars)
  PROVE  Score(a, q) \in Int /\ (Score(a, q) >= 0 <=> Listed(a, q))
<1> DEFINE l == FuzzyScore(Label[a], q)
           h == FuzzyScore(Hint[a], q)
<1>1. /\ l \in Matches(Label[a]) /\ (l.ok <=> IsSubsequence(q, Label[a]))
      /\ h \in Matches(Hint[a]) /\ (h.ok <=> IsSubsequence(q, Hint[a]))
  BY LabelsTyped, FuzzyIs
<1>2. l.score \in Nat /\ h.score \in Nat /\ l.ok \in BOOLEAN /\ h.ok \in BOOLEAN
  BY <1>1 DEF Matches
<1>3. Score(a, q) = IF l.ok THEN l.score + 10 ELSE IF h.ok THEN h.score ELSE -1
  BY DEF Score
<1> HIDE DEF l, h
<1>4. CASE l.ok
  <2>1. Score(a, q) = l.score + 10
    BY <1>3, <1>4
  <2>2. Listed(a, q)
    BY <1>1, <1>4 DEF Listed
  <2>3. QED BY <1>2, <2>1, <2>2
<1>5. CASE ~l.ok /\ h.ok
  <2>1. Score(a, q) = h.score
    BY <1>3, <1>5
  <2>2. Listed(a, q)
    BY <1>1, <1>5 DEF Listed
  <2>3. QED BY <1>2, <2>1, <2>2
<1>6. CASE ~l.ok /\ ~h.ok
  <2>1. Score(a, q) = -1
    BY <1>3, <1>6
  <2>2. ~Listed(a, q)
    BY <1>1, <1>6 DEF Listed
  <2>3. QED BY <2>1, <2>2
<1>7. QED BY <1>4, <1>5, <1>6

\* Ranking is a permutation of the hits: every hit has a place of its own.
LEMMA RankedIs ==
  ASSUME NEW X, NEW all \in Seq(X), NEW score \in [1 .. Len(all) -> Int]
  PROVE  /\ Ranked(all, score) \in Seq(X)
         /\ ToSet(Ranked(all, score)) = {all[i] : i \in {k \in 1 .. Len(all) : score[k] >= 0}}
<1> DEFINE H == {i \in 1 .. Len(all) : score[i] >= 0}
           Before(i, k) == score[i] > score[k] \/ (score[i] = score[k] /\ i < k)
           First(i) == {k \in H : Before(k, i)}
           C == Cardinality(H)
           place == [i \in H |-> Cardinality(First(i)) + 1]
<1>1. Len(all) \in Nat /\ IsFiniteSet(1 .. Len(all)) /\ IsFiniteSet(H) /\ C \in Nat
  <2>1. Len(all) \in Nat
    BY LenProperties
  <2>2. IsFiniteSet(1 .. Len(all))
    BY <2>1, FS_Interval
  <2>3. H \in SUBSET (1 .. Len(all))
    OBVIOUS
  <2>4. IsFiniteSet(H)
    BY <2>2, <2>3, FS_Subset
  <2>5. QED BY <2>1, <2>2, <2>4, FS_CardinalityType
<1>2. ASSUME NEW i \in H, NEW k \in H PROVE score[i] \in Int /\ i \in Nat /\ (i = k \/ Before(i, k) \/ Before(k, i))
  <2>1. i \in Nat /\ k \in Nat /\ score[i] \in Int /\ score[k] \in Int
    BY <1>1
  <2>2. QED BY <2>1
<1>3. ASSUME NEW i \in H, NEW j \in H, NEW k \in H, Before(i, j), Before(j, k) PROVE Before(i, k) /\ ~Before(i, i)
  <2>1. i \in Nat /\ j \in Nat /\ k \in Nat /\ score[i] \in Int /\ score[j] \in Int /\ score[k] \in Int
    BY <1>1
  <2>2. QED BY <1>3, <2>1
<1>a. ASSUME NEW i \in H PROVE ~Before(i, i)
  <2>1. i \in Nat /\ score[i] \in Int
    BY <1>1
  <2>2. QED BY <2>1
<1> HIDE DEF Before
<1>4. ASSUME NEW i \in H
      PROVE  IsFiniteSet(First(i)) /\ Cardinality(First(i)) \in Nat /\ Cardinality(First(i)) < C
  <2>1. First(i) \in SUBSET H /\ i \in H /\ i \notin First(i)
    BY <1>a
  <2> HIDE DEF H
  <2>2. IsFiniteSet(First(i)) /\ Cardinality(First(i)) <= C /\ (C = Cardinality(First(i)) => H = First(i))
    BY <1>1, <2>1, FS_Subset
  <2>3. Cardinality(First(i)) # C
    BY <2>1, <2>2
  <2>4. Cardinality(First(i)) \in Nat
    BY <2>2, FS_CardinalityType
  <2>5. QED BY <1>1, <2>2, <2>3, <2>4
<1>5. ASSUME NEW i \in H, NEW k \in H, Before(i, k) PROVE Cardinality(First(i)) < Cardinality(First(k))
  <2>1. First(i) \in SUBSET First(k) /\ i \in First(k) /\ i \notin First(i)
    BY <1>3, <1>5, <1>a
  <2> HIDE DEF First
  <2>2. /\ Cardinality(First(i)) <= Cardinality(First(k))
        /\ Cardinality(First(k)) = Cardinality(First(i)) => First(k) = First(i)
    BY <1>4, <2>1, FS_Subset
  <2>3. Cardinality(First(k)) # Cardinality(First(i))
    BY <2>1, <2>2
  <2>4. Cardinality(First(i)) \in Nat /\ Cardinality(First(k)) \in Nat
    BY <1>4
  <2>5. QED BY <2>2, <2>3, <2>4
<1>6. place \in Injection(H, 1 .. C)
  <2>1. place \in [H -> 1 .. C]
    <3>1. ASSUME NEW i \in H PROVE Cardinality(First(i)) + 1 \in 1 .. C
      <4>1. Cardinality(First(i)) \in Nat /\ Cardinality(First(i)) < C
        BY <1>4
      <4> HIDE DEF First, C
      <4>2. QED BY <1>1, <4>1
    <3>2. QED BY <3>1
  <2>2. ASSUME NEW i \in H, NEW k \in H, place[i] = place[k] PROVE i = k
    <3>1. Cardinality(First(i)) \in Nat /\ Cardinality(First(k)) \in Nat
      BY <1>4
    <3>2. Cardinality(First(i)) + 1 = Cardinality(First(k)) + 1
      BY <2>2
    <3>3. Cardinality(First(i)) = Cardinality(First(k))
      <4> HIDE DEF First
      <4>1. QED BY <3>1, <3>2
    <3>4. ~Before(i, k) /\ ~Before(k, i)
      <4>1. ~(Cardinality(First(i)) < Cardinality(First(k))) /\ ~(Cardinality(First(k)) < Cardinality(First(i)))
        <5> HIDE DEF First
        <5>1. QED BY <3>1, <3>3
      <4>2. QED BY <1>5, <4>1
    <3>5. QED BY <1>2, <3>4
  <2> HIDE DEF place
  <2>3. QED BY <2>1, <2>2 DEF Injection, IsInjective
<1>7. IsFiniteSet(1 .. C) /\ Cardinality(1 .. C) = C
  <2> HIDE DEF C
  <2>1. QED BY SMTT(30), <1>1, FS_Interval
<1>8. place \in Surjection(H, 1 .. C)
  <2> HIDE DEF place, H
  <2>1. Cardinality(H) = Cardinality(1 .. C)
    BY <1>7
  <2>2. Cardinality(H) = Cardinality(1 .. C) <=> place \in Surjection(H, 1 .. C)
    BY <1>6, <1>7, FS_Injection
  <2>3. QED BY <2>1, <2>2
<1> DEFINE At(n) == CHOOSE i \in H : Cardinality(First(i)) + 1 = n
<1>9. ASSUME NEW n \in 1 .. C PROVE At(n) \in H /\ place[At(n)] = n
  <2>1. \E i \in H : place[i] = n
    <3> HIDE DEF place, H, C
    <3>1. QED BY <1>8 DEF Surjection
  <2>2. \E i \in H : Cardinality(First(i)) + 1 = n
    BY <2>1
  <2>3. At(n) \in H /\ Cardinality(First(At(n))) + 1 = n
    <3> HIDE DEF H, First
    <3>1. QED BY <2>2
  <2> HIDE DEF At, First
  <2>4. QED BY <2>3
<1>10. Ranked(all, score) = [n \in 1 .. C |-> all[At(n)]]
  BY DEF Ranked, Before
<1> DEFINE R == [n \in 1 .. C |-> all[At(n)]]
<1> HIDE DEF At
<1>11. \A i \in H : all[i] \in X
  BY ElementOfSeq
<1>12. R \in Seq(X) /\ DOMAIN R = 1 .. C
  <2> HIDE DEF H, C
  <2>1. \A n \in 1 .. C : all[At(n)] \in X
    BY <1>9, <1>11
  <2>2. R \in [1 .. C -> X]
    BY <2>1
  <2>3. QED BY <1>1, <2>2
<1>13. ToSet(R) = {all[i] : i \in H}
  <2>1. ASSUME NEW n \in 1 .. C PROVE R[n] \in {all[i] : i \in H}
    <3> HIDE DEF H
    <3>1. QED BY <1>9
  <2>2. ASSUME NEW i \in H PROVE \E n \in 1 .. C : R[n] = all[i]
    <3> HIDE DEF place
    <3>1. place[i] \in 1 .. C
      <4> HIDE DEF H, C
      <4>1. QED BY <1>6 DEF Injection
    <3>2. At(place[i]) \in H /\ place[At(place[i])] = place[i]
      BY <1>9, <3>1
    <3>3. At(place[i]) = i
      <4> HIDE DEF H, C
      <4>1. QED BY <1>6, <3>2 DEF Injection, IsInjective
    <3>4. R[place[i]] = all[i]
      <4> HIDE DEF C
      <4>1. QED BY <3>1, <3>3
    <3>5. QED BY <3>1, <3>4
  <2>3. ToSet(R) = {R[n] : n \in 1 .. C}
    <3> HIDE DEF R, C
    <3>1. QED BY <1>12 DEF ToSet
  <2> HIDE DEF R, H, C
  <2>4. QED BY <2>1, <2>2, <2>3
<1>14. QED BY <1>10, <1>12, <1>13

LEMMA AllItemsIs == ASSUME NEW r PROVE AllItems(r) \in Seq(Entries)
<1> DEFINE b == IF r.seen = "unlocked" THEN <<"panel", "lock">> ELSE <<"unlock">>
           d == IF r.upd = "available" THEN <<"install">> ELSE <<>>
<1>1. <<"new">> \in Seq(Entries) /\ <<"theme", "prefs", "check">> \in Seq(Entries)
  BY DEF Entries
<1>2. <<"panel", "lock">> \in Seq(Entries) /\ <<"unlock">> \in Seq(Entries)
  BY DEF Entries
<1>3. <<"install">> \in Seq(Entries) /\ <<>> \in Seq(Entries)
  BY EmptySeq DEF Entries
<1>4. b \in Seq(Entries) /\ d \in Seq(Entries)
  BY <1>2, <1>3
<1>5. AllItems(r) = <<"new">> \o b \o <<"theme", "prefs", "check">> \o d
  BY DEF AllItems
<1> HIDE DEF b, d
<1>6. <<"new">> \o b \in Seq(Entries)
  BY <1>1, <1>4, ConcatProperties
<1>7. <<"new">> \o b \o <<"theme", "prefs", "check">> \in Seq(Entries)
  BY <1>1, <1>6, ConcatProperties
<1>8. QED BY <1>4, <1>5, <1>7, ConcatProperties

LEMMA ItemsIs ==
  ASSUME NEW r, r.palette.query \in Seq(Chars)
  PROVE  /\ Items(r) \in Seq(Entries)
         /\ ToSet(Items(r)) = {a \in ToSet(AllItems(r)) : Listed(a, r.palette.query)}
<1> DEFINE q == r.palette.query
           all == AllItems(r)
           score == [i \in 1 .. Len(all) |-> Score(all[i], q)]
<1>1. /\ all \in Seq(Entries) /\ Len(all) \in Nat /\ DOMAIN all = 1 .. Len(all)
      /\ \A i \in 1 .. Len(all) : all[i] \in Entries
  BY AllItemsIs, LenProperties, ElementOfSeq
<1> HIDE DEF all
<1>2. CASE q = <<>>
  <2>1. Items(r) = all
    BY <1>2 DEF Items, all
  <2>2. ASSUME NEW a PROVE Listed(a, q)
    <3>1. IsSubsequence(q, Label[a])
      <4> DEFINE f == [i \in 1 .. 0 |-> 0]
      <4>1. Len(q) = 0
        BY <1>2
      <4>2. f \in [1 .. Len(q) -> 1 .. Len(Label[a])]
        BY <4>1
      <4>3. QED BY <4>1, <4>2 DEF IsSubsequence
    <3>2. QED BY <3>1 DEF Listed
  <2>3. QED BY <1>1, <2>1, <2>2 DEF all
<1>3. CASE q # <<>>
  <2>1. Items(r) = Ranked(all, score)
    BY <1>3 DEF Items, all
  <2>2. \A i \in 1 .. Len(all) : Score(all[i], q) \in Int /\ (Score(all[i], q) >= 0 <=> Listed(all[i], q))
    BY <1>1, ScoreIs
  <2>3. score \in [1 .. Len(all) -> Int]
    BY <2>2
  <2>4. \A i \in 1 .. Len(all) : score[i] >= 0 <=> Listed(all[i], q)
    BY <2>2
  <2> HIDE DEF score, q
  <2>5. /\ Ranked(all, score) \in Seq(Entries)
        /\ ToSet(Ranked(all, score)) = {all[i] : i \in {k \in 1 .. Len(all) : score[k] >= 0}}
    BY ZenonT(60), <1>1, <2>3, RankedIs
  <2>6. {all[i] : i \in {k \in 1 .. Len(all) : score[k] >= 0}} = {a \in ToSet(all) : Listed(a, q)}
    BY <1>1, <2>4 DEF ToSet
  <2>7. QED BY <2>1, <2>5, <2>6 DEF all, q
<1>4. QED BY <1>2, <1>3

-----------------------------------------------------------------------------
(***************************************************************************)
(* flatten_items and the page keys.                                        *)
(***************************************************************************)

\* rows hold the items 0 .. n - 1 in their order and end with the last one.
ItemRows(rows, n) ==
  /\ \A a \in 1 .. Len(rows) : rows[a] \in -1 .. n - 1
  /\ \A a, b \in 1 .. Len(rows) : a < b /\ rows[a] >= 0 /\ rows[b] >= 0 => rows[a] < rows[b]
  /\ \A i \in 0 .. n - 1 : \E a \in 1 .. Len(rows) : rows[a] = i
  /\ n > 0 => Len(rows) > 0 /\ rows[Len(rows)] = n - 1

\* One more item, with or without a heading.
LEMMA OneMoreItem ==
  ASSUME NEW n \in Nat, NEW rows \in Seq(Int), ItemRows(rows, n), NEW headed \in BOOLEAN
  PROVE  /\ rows \o (IF headed THEN <<-1, n>> ELSE <<n>>) \in Seq(Int)
         /\ ItemRows(rows \o (IF headed THEN <<-1, n>> ELSE <<n>>), n + 1)
<1> DEFINE tail == IF headed THEN <<-1, n>> ELSE <<n>>
           new == rows \o tail
           L == Len(rows)
           K == Len(tail)
<1>1. /\ tail \in Seq(Int) /\ K \in {1, 2} /\ tail[K] = n
      /\ \A i \in 1 .. K : tail[i] \in {-1, n} /\ (i # K => tail[i] = -1)
  BY DEF tail
<1> HIDE DEF tail
<1>2. L \in Nat
  BY LenProperties
<1>3. /\ new \in Seq(Int) /\ Len(new) = L + K
      /\ \A i \in 1 .. L + K : new[i] = IF i <= L THEN rows[i] ELSE tail[i - L]
  BY <1>1, ConcatProperties
<1> HIDE DEF new, K
<1> HIDE DEF L
<1>4. /\ \A a \in 1 .. L : rows[a] \in -1 .. n - 1
      /\ \A a, b \in 1 .. L : a < b /\ rows[a] >= 0 /\ rows[b] >= 0 => rows[a] < rows[b]
      /\ \A i \in 0 .. n - 1 : \E a \in 1 .. L : rows[a] = i
  BY DEF ItemRows, L
<1>5. ASSUME NEW a \in 1 .. L + K
      PROVE  \/ a \in 1 .. L /\ new[a] = rows[a] /\ new[a] \in -1 .. n - 1
             \/ a \in L + 1 .. L + K - 1 /\ new[a] = -1
             \/ a = L + K /\ new[a] = n
  <2>1. CASE a <= L
    BY <1>2, <1>3, <1>4, <2>1
  <2>2. CASE a > L
    <3>1. a - L \in 1 .. K /\ new[a] = tail[a - L]
      BY SMTT(30), <1>1, <1>2, <1>3, <2>2
    <3>2. CASE a = L + K
      <4>1. a - L = K
        BY <1>1, <1>2, <3>2
      <4>2. QED BY <1>1, <3>1, <3>2, <4>1
    <3>3. CASE a # L + K
      <4>1. a - L # K /\ a \in L + 1 .. L + K - 1
        BY <1>1, <1>2, <2>2, <3>3
      <4>2. QED BY <1>1, <3>1, <4>1
    <3>4. QED BY <3>2, <3>3
  <2>3. QED BY <1>2, <2>1, <2>2
<1>6. ASSUME NEW a \in 1 .. L + K PROVE new[a] \in -1 .. n
  BY <1>5
<1>7. ASSUME NEW a \in 1 .. L + K, NEW b \in 1 .. L + K, a < b, new[a] >= 0, new[b] >= 0
      PROVE  new[a] < new[b]
  <2>1. a \in 1 .. L
    <3>1. a # L + K
      BY <1>1, <1>2, <1>7
    <3>2. QED BY <1>5, <1>7, <3>1
  <2>2. new[a] = rows[a] /\ new[a] \in -1 .. n - 1
    BY <1>1, <1>2, <1>5, <2>1
  <2>3. CASE b \in 1 .. L
    <3>1. new[b] = rows[b]
      BY <1>1, <1>2, <1>5, <2>3
    <3>2. QED BY <1>4, <1>7, <2>1, <2>2, <2>3, <3>1
  <2>4. CASE b \notin 1 .. L
    <3>1. new[b] = n
      BY <1>5, <1>7, <2>4
    <3>2. QED BY <2>2, <3>1
  <2>5. QED BY <2>3, <2>4
<1>8. ASSUME NEW i \in 0 .. n PROVE \E a \in 1 .. L + K : new[a] = i
  <2>1. CASE i = n
    <3>1. L + K \in 1 .. L + K
      BY <1>1, <1>2
    <3>2. new[L + K] = n
      BY <1>1, <1>2, <1>5, <3>1
    <3>3. QED BY <2>1, <3>1, <3>2
  <2>2. CASE i # n
    <3>1. i \in 0 .. n - 1
      BY <2>2
    <3>2. PICK a \in 1 .. L : rows[a] = i
      BY <1>4, <3>1
    <3>3. a \in 1 .. L + K
      BY <1>1, <1>2
    <3>4. new[a] = rows[a]
      BY <1>1, <1>2, <1>5, <3>3
    <3>5. QED BY <3>2, <3>3, <3>4
  <2>3. QED BY <2>1, <2>2
<1>9. L + K > 0 /\ new[L + K] = n
  <2>1. L + K \in 1 .. L + K
    BY <1>1, <1>2
  <2>2. new[L + K] = n
    BY <1>1, <1>2, <1>5, <2>1
  <2>3. QED BY <2>1, <2>2, <1>1, <1>2
<1>10. (n + 1) - 1 = n
  OBVIOUS
<1>11. ItemRows(new, n + 1)
  BY <1>3, <1>6, <1>7, <1>8, <1>9, <1>10 DEF ItemRows
<1>12. QED BY <1>3, <1>11 DEF new, tail

LEMMA RowsIs ==
  ASSUME NEW r, NEW X, NEW items \in Seq(X)
  PROVE  Rows(r, items) \in Seq(Int) /\ ItemRows(Rows(r, items), Len(items))
<1> DEFINE N == Len(items)
           Step(k, n) == k \o (IF Headed(r, items, n) THEN <<-1, n - 1>> ELSE <<n - 1>>)
           Eq(f) == f = [n \in 0 .. N |-> IF n = 0 THEN <<>> ELSE f[n - 1] \o
                           (IF Headed(r, items, n) THEN <<-1, n - 1>> ELSE <<n - 1>>)]
           rows == CHOOSE f : Eq(f)
           step == [p \in Seq(Int) \X (1 .. N) |-> Step(p[1], p[2])]
<1>1. N \in Nat /\ <<>> \in Seq(Int)
  BY LenProperties, EmptySeq
<1>2. ASSUME NEW k \in Seq(Int), NEW n \in 1 .. N PROVE Step(k, n) \in Seq(Int)
  <2>1. <<-1, n - 1>> \in Seq(Int) /\ <<n - 1>> \in Seq(Int)
    BY <1>1
  <2>2. QED BY <2>1, ConcatProperties
<1>3. step \in [Seq(Int) \X (1 .. N) -> Seq(Int)]
  BY <1>2
<1>4. PICK f \in [0 .. N -> Seq(Int)] : f[0] = <<>> /\ \A n \in 1 .. N : f[n] = step[<<f[n - 1], n>>]
  <2>1. IsStep(step, Seq(Int), N)
    BY <1>3 DEF IsStep
  <2> HIDE DEF step
  <2>2. \E g : IsRun(g, step, Seq(Int), <<>>, N)
    BY <1>1, <2>1, Recursion
  <2>3. QED BY <2>2 DEF IsRun
<1>5. ASSUME NEW n \in 1 .. N PROVE f[n] = Step(f[n - 1], n)
  <2>1. n - 1 \in 0 .. N
    BY <1>1
  <2>2. f[n - 1] \in Seq(Int)
    BY <1>4, <2>1
  <2>3. step[<<f[n - 1], n>>] = Step(f[n - 1], n)
    BY <2>2
  <2> HIDE DEF step
  <2>4. QED BY <1>4, <2>3
<1> HIDE DEF step
<1>6. Eq(f)
  <2> DEFINE g == [n \in 0 .. N |-> IF n = 0 THEN <<>> ELSE f[n - 1] \o
                           (IF Headed(r, items, n) THEN <<-1, n - 1>> ELSE <<n - 1>>)]
  <2>1. ASSUME NEW n \in 0 .. N PROVE f[n] = g[n]
    <3>1. CASE n = 0
      BY <1>4, <3>1
    <3>2. CASE n # 0
      <4>1. n \in 1 .. N
        BY <1>1, <3>2
      <4>2. QED BY <1>5, <3>2, <4>1
    <3>3. QED BY <3>1, <3>2
  <2>2. f = [n \in 0 .. N |-> f[n]]
    BY <1>4
  <2>3. g = [n \in 0 .. N |-> g[n]]
    OBVIOUS
  <2> HIDE DEF g
  <2>4. f = g
    BY <2>1, <2>2, <2>3
  <2>5. QED BY <2>4 DEF g
<1>7. Eq(rows)
  <2> HIDE DEF Eq
  <2>1. QED BY <1>6
<1> HIDE DEF rows
<1>8. rows[0] = <<>> /\ \A n \in 1 .. N : rows[n] = Step(rows[n - 1], n)
  <2>1. 0 \in 0 .. N /\ \A n \in 1 .. N : n \in 0 .. N /\ n # 0
    BY <1>1
  <2>2. \A n \in 0 .. N : rows[n] = IF n = 0 THEN <<>> ELSE Step(rows[n - 1], n)
    BY <1>7
  <2> HIDE DEF Step
  <2>3. QED BY <2>1, <2>2
<1>9. Rows(r, items) = rows[N]
  BY DEF Rows, rows
<1> DEFINE T == {n \in 0 .. N : rows[n] \in Seq(Int) /\ ItemRows(rows[n], n)}
<1>10. 0 \in T
  <2>1. Len(<<>>) = 0
    OBVIOUS
  <2>2. ItemRows(<<>>, 0)
    BY <2>1 DEF ItemRows
  <2>3. 0 \in 0 .. N
    BY <1>1
  <2>4. QED BY <1>1, <1>8, <2>2, <2>3
<1>11. ASSUME NEW n \in 0 .. N - 1, n \in T PROVE n + 1 \in T
  <2>0. rows[n] \in Seq(Int) /\ ItemRows(rows[n], n)
    BY <1>11
  <2>1. n + 1 \in 1 .. N /\ n + 1 \in 0 .. N /\ (n + 1) - 1 = n /\ n \in Nat
    BY <1>1
  <2>2. rows[n + 1] = rows[n] \o (IF Headed(r, items, n + 1) THEN <<-1, n>> ELSE <<n>>)
    BY <1>8, <2>1
  <2>3. Headed(r, items, n + 1) \in BOOLEAN
    BY DEF Headed
  <2>4. rows[n + 1] \in Seq(Int) /\ ItemRows(rows[n + 1], n + 1)
    BY <2>0, <2>1, <2>2, <2>3, OneMoreItem
  <2>5. QED BY <2>1, <2>4
<1>12. \A n \in 0 .. N : n \in T
  <2> HIDE DEF T
  <2>1. QED BY <1>1, <1>10, <1>11, UpTo
<1>13. N \in T
  <2>1. N \in 0 .. N
    BY <1>1
  <2>2. QED BY <1>12, <2>1
<1>14. QED BY <1>9, <1>13

LEMMA LowestIs ==
  ASSUME NEW S \in SUBSET Nat, S # {}
  PROVE  Lowest(S) \in S /\ \A y \in S : Lowest(S) <= y
<1>1. \E x \in S : \A y \in S : x <= y
  BY LeastNumber
<1>2. QED BY <1>1 DEF Lowest

LEMMA HighestIs ==
  ASSUME NEW n \in Nat, NEW S \in SUBSET (0 .. n), S # {}
  PROVE  Highest(S) \in S /\ \A y \in S : y <= Highest(S)
<1>1. \E x \in S : \A y \in S : y <= x
  BY GreatestNumber
<1>2. QED BY <1>1 DEF Highest

LEMMA PagesMove ==
  ASSUME NEW n \in Nat, NEW rows \in Seq(Int), ItemRows(rows, n), NEW i \in 0 .. n - 1
  PROVE  /\ PageDown(rows, i) \in (IF i = n - 1 THEN {i} ELSE (i + 1) .. (n - 1))
         /\ PageUp(rows, i) \in (IF i = 0 THEN {i} ELSE 0 .. (i - 1))
<1> DEFINE L == Len(rows)
           row == CHOOSE a \in 1 .. L : rows[a] = i
<1>1. L \in Nat /\ L > 0 /\ rows[L] = n - 1 /\ n > 0 /\ Span \in Nat /\ Span > 0
  BY LenProperties, SpanAssumption DEF ItemRows
<1>2. /\ \A a \in 1 .. L : rows[a] \in -1 .. n - 1
      /\ \A a, b \in 1 .. L : a < b /\ rows[a] >= 0 /\ rows[b] >= 0 => rows[a] < rows[b]
      /\ \A k \in 0 .. n - 1 : \E a \in 1 .. L : rows[a] = k
  BY DEF ItemRows
<1>3. row \in 1 .. L /\ rows[row] = i
  BY <1>2
<1>3a. L = Len(rows)
  OBVIOUS
<1>3b. row = CHOOSE a \in 1 .. Len(rows) : rows[a] = i
  OBVIOUS
<1>3c. rows[row] >= 0
  BY <1>3
<1> HIDE DEF row, L
<1>3d. \A a, b \in 1 .. L : a < b /\ rows[a] >= 0 /\ rows[b] >= 0 => rows[a] < rows[b]
  BY <1>2
<1> DEFINE After(k) == {rows[a] : a \in {b \in k .. L : rows[b] >= 0}}
           Before(k) == {rows[a] : a \in {b \in 1 .. k : rows[b] >= 0}}
<1>4. ASSUME NEW k \in 1 .. L
      PROVE  /\ ItemsAtOrAfter(rows, k) = After(k) /\ ItemsAtOrBefore(rows, k) = Before(k)
             /\ After(k) \in SUBSET (0 .. n - 1) /\ Before(k) \in SUBSET (0 .. n - 1)
             /\ n - 1 \in After(k)
  <2>1. High(k, 1) = k /\ Low(k, L) = k
    BY <1>1 DEF High, Low
  <2>2. \A b \in k .. L : b \in 1 .. L
    BY <1>1
  <2>3. \A b \in 1 .. k : b \in 1 .. L
    BY <1>1
  <2>4. \A b \in 1 .. L : rows[b] >= 0 => rows[b] \in 0 .. n - 1
    BY <1>1, <1>2
  <2>5. L \in k .. L /\ rows[L] >= 0
    BY <1>1
  <2>6. ItemsAtOrAfter(rows, k) = After(k) /\ ItemsAtOrBefore(rows, k) = Before(k)
    BY <2>1, <1>3a DEF ItemsAtOrAfter, ItemsAtOrBefore
  <2>7. After(k) \in SUBSET (0 .. n - 1) /\ Before(k) \in SUBSET (0 .. n - 1)
    BY <2>2, <2>3, <2>4
  <2>8. n - 1 \in After(k)
    BY <1>1, <2>5
  <2>9. QED BY <2>6, <2>7, <2>8
<1>5. \A a, b \in 1 .. L : rows[a] >= 0 /\ rows[b] >= 0 /\ rows[a] < rows[b] => a < b
  <2>1. SUFFICES ASSUME NEW a \in 1 .. L, NEW b \in 1 .. L, rows[a] >= 0, rows[b] >= 0, rows[a] < rows[b],
                        ~(a < b)
                 PROVE  FALSE
    OBVIOUS
  <2>2. rows[a] \in Int /\ rows[b] \in Int /\ a \in Int /\ b \in Int
    BY <1>2
  <2>3. CASE a = b
    BY <2>1, <2>2, <2>3
  <2>4. CASE b < a
    <3>1. rows[b] < rows[a]
      BY <1>2, <2>1, <2>4
    <3>2. QED BY <2>1, <2>2, <3>1
  <2>5. QED BY <2>1, <2>2, <2>3, <2>4
<1>6. 0 .. n - 1 \in SUBSET Nat /\ n - 1 \in Nat
  BY <1>1
<1>7. PageDown(rows, i) \in (IF i = n - 1 THEN {i} ELSE (i + 1) .. (n - 1))
  <2> DEFINE k == Low(row + Span, L)
             S == After(k)
             d == Lowest(S)
  <2>1. k \in 1 .. L /\ (k = L \/ k > row)
    BY <1>1, <1>3 DEF Low
  <2>2. ItemsAtOrAfter(rows, k) = S /\ S # {} /\ S \in SUBSET (0 .. n - 1) /\ n - 1 \in S
    <3> HIDE DEF After, k
    <3>1. QED BY <1>4, <2>1
  <2>3. PageDown(rows, i) = d
    BY <1>3a, <1>3b, <2>2 DEF PageDown
  <2>4. d \in S
    <3> HIDE DEF S
    <3>0. S \in SUBSET Nat
      BY <1>6, <2>2
    <3>1. QED BY <2>2, <3>0, LowestIs
  <2> HIDE DEF d, k
  <2>5. PICK a \in k .. L : rows[a] >= 0 /\ rows[a] = d
    BY <2>4
  <2>6. a \in 1 .. L /\ d \in 0 .. n - 1
    <3>1. a \in 1 .. L
      BY <2>1, <1>1
    <3>2. d \in 0 .. n - 1
      BY <2>2, <2>4
    <3>3. QED BY <3>1, <3>2
  <2>7. CASE i = n - 1
    <3>1. row = L
      <4>1. ~(row < L)
        <5>1. L \in 1 .. L
          BY <1>1
        <5>2. rows[L] >= 0
          BY <1>1
        <5>2a. row < L => rows[row] < rows[L]
          BY <1>3, <1>3c, <1>3d, <5>1, <5>2
        <5>3. QED BY <1>1, <1>3, <2>7, <5>2a
      <4>2. QED BY <1>1, <1>3, <4>1
    <3>2. a = L
      BY <1>1, <1>3, <2>1, <2>5, <3>1
    <3>3. QED BY <1>1, <2>3, <2>5, <2>7, <3>2
  <2>8. CASE i # n - 1
    <3>1. row < L
      <4>1. row # L
        BY <1>1, <1>3, <2>8
      <4>2. QED BY <1>1, <1>3, <4>1
    <3>2. row < a
      BY <1>1, <1>3, <2>1, <2>5, <3>1
    <3>3. i < d
      <4>1. rows[row] < rows[a]
        BY <1>3, <1>3c, <1>3d, <2>5, <2>6, <3>2
      <4>2. QED BY <1>3, <2>5, <4>1
    <3>4. d \in i + 1 .. n - 1
      BY <2>6, <3>3
    <3>5. QED BY <2>3, <2>8, <3>4
  <2>9. QED BY <2>7, <2>8
<1>8. PageUp(rows, i) \in (IF i = 0 THEN {i} ELSE 0 .. (i - 1))
  <2> DEFINE k == IF row > Span THEN row - Span ELSE 1
             S == Before(k)
             A == After(1)
             u == Highest(S)
             l == Lowest(A)
  <2>1. k \in 1 .. L /\ (row > 1 => k < row) /\ k <= row /\ 1 \in 1 .. L
    BY <1>1, <1>3
  <2>2. ItemsAtOrBefore(rows, k) = S /\ S \in SUBSET (0 .. n - 1)
    <3> HIDE DEF Before, k
    <3>1. QED BY <1>4, <2>1
  <2>3. ItemsAtOrAfter(rows, 1) = A /\ A # {} /\ A \in SUBSET (0 .. n - 1)
    <3> HIDE DEF After
    <3>1. QED BY <1>4, <2>1
  <2>4. l = 0
    <3>1. PICK a \in 1 .. L : rows[a] = 0
      BY <1>1, <1>2
    <3>2. 0 \in A
      BY <3>1
    <3> HIDE DEF A
    <3>2a. A \in SUBSET Nat
      BY <1>6, <2>3
    <3>3. l \in A /\ l <= 0
      BY <2>3, <3>2, <3>2a, LowestIs
    <3> HIDE DEF l
    <3>4. QED BY <2>3, <3>3
  <2>5. PageUp(rows, i) = IF S # {} THEN u ELSE l
    <3> DEFINE B == ItemsAtOrBefore(rows, k)
               C == ItemsAtOrAfter(rows, 1)
    <3>1. PageUp(rows, i) = IF B # {} THEN Highest(B) ELSE Lowest(C)
      BY <1>3b DEF PageUp
    <3> HIDE DEF k, S, A
    <3>2. B = S /\ C = A
      BY <2>2, <2>3
    <3> HIDE DEF B, C
    <3>3. QED BY <3>1, <3>2
  <2> HIDE DEF l
  <2>6. CASE S = {}
    <3>1. PageUp(rows, i) = 0
      BY <2>4, <2>5, <2>6
    <3>2. QED BY <3>1
  <2>7. CASE S # {}
    <3>1. u \in S
      <4> HIDE DEF S
      <4>1. QED BY <1>6, <2>2, <2>7, HighestIs
    <3> HIDE DEF u, k
    <3>2. PICK a \in 1 .. k : rows[a] >= 0 /\ rows[a] = u
      BY <3>1
    <3>3. a \in 1 .. L /\ u \in 0 .. n - 1 /\ a <= row
      BY SMTT(30), <1>1, <1>3, <2>1, <2>2, <3>1, <3>2
    <3>4. u <= i
      <4>1. ~(i < u)
        BY SMTT(30), <1>3, <1>5, <3>2, <3>3
      <4>2. QED BY <3>3, <4>1
    <3>5. CASE i = 0
      <4>1. u = 0
        BY <3>3, <3>4, <3>5
      <4>2. QED BY <2>5, <2>7, <3>5, <4>1
    <3>6. CASE i # 0
      <4>1. row > 1
        <5>1. PICK b \in 1 .. L : rows[b] = 0
          BY <1>1, <1>2
        <5>2. b < row
          BY SMTT(30), <1>3, <1>5, <3>6, <5>1
        <5>3. QED BY <1>3, <5>1, <5>2
      <4>2. a < row
        BY <1>1, <1>3, <2>1, <3>2, <4>1
      <4>3. u < i
        <5>1. rows[a] < rows[row]
          BY <1>3, <1>3c, <1>3d, <3>2, <3>3, <4>2
        <5>2. QED BY <1>3, <3>2, <5>1
      <4>4. u \in 0 .. i - 1
        BY <3>3, <4>3
      <4>5. QED BY <2>5, <2>7, <3>6, <4>4
    <3>7. QED BY <3>5, <3>6
  <2>8. QED BY <2>6, <2>7
<1>9. QED BY <1>7, <1>8

-----------------------------------------------------------------------------
(***************************************************************************)
(* The text fields (TextEdit).                                             *)
(***************************************************************************)

LEMMA TextIs == ASSUME NEW t PROVE t \in Texts <=> t \in Seq(Chars) /\ Len(t) <= MaxText
<1>1. MaxText \in Nat
  BY TextsAssumption
<1>2. ASSUME t \in Texts PROVE t \in Seq(Chars) /\ Len(t) <= MaxText
  <2>1. PICK n \in 0 .. MaxText : t \in [1 .. n -> Chars]
    BY <1>2 DEF Texts
  <2>2. t \in Seq(Chars)
    BY <2>1
  <2>3. Len(t) = n
    <3>1. DOMAIN t = 1 .. n /\ DOMAIN t = 1 .. Len(t) /\ Len(t) \in Nat /\ n \in Nat
      BY <2>1, <2>2, LenProperties
    <3>2. QED BY <3>1
  <2>4. QED BY <2>1, <2>2, <2>3
<1>3. ASSUME t \in Seq(Chars), Len(t) <= MaxText PROVE t \in Texts
  <2>1. Len(t) \in 0 .. MaxText /\ t \in [1 .. Len(t) -> Chars]
    BY <1>1, <1>3, LenProperties
  <2>2. QED BY <2>1 DEF Texts
<1>4. QED BY <1>2, <1>3

LEMMA EmptyText == <<>> \in Texts /\ Len(<<>>) = 0
<1>1. <<>> \in Seq(Chars) /\ Len(<<>>) = 0
  BY EmptySeq
<1>2. Len(<<>>) <= MaxText
  BY <1>1, TextsAssumption
<1>3. QED BY <1>1, <1>2, TextIs

Inside(e, t) == e \in Carets /\ e.anchor <= Len(t) /\ e.focus <= Len(t)

LEMMA CaretIs == ASSUME NEW n \in Nat PROVE Caret(n) \in Carets /\ Caret(n).anchor = n /\ Caret(n).focus = n
BY DEF Caret, Carets

LEMMA SyncIs ==
  ASSUME NEW e \in Carets, NEW X, NEW t \in Seq(X)
  PROVE  Inside(Sync(e, t), t)
<1>1. Len(t) \in Nat
  BY LenProperties
<1>2. e.anchor \in Nat /\ e.focus \in Nat
  BY DEF Carets
<1>3. Low(e.anchor, Len(t)) \in Nat /\ Low(e.anchor, Len(t)) <= Len(t)
  BY <1>1, <1>2 DEF Low
<1>4. Low(e.focus, Len(t)) \in Nat /\ Low(e.focus, Len(t)) <= Len(t)
  BY <1>1, <1>2 DEF Low
<1>5. QED BY <1>3, <1>4 DEF Sync, Carets, Inside

LEMMA SelectionIs ==
  ASSUME NEW X, NEW t \in Seq(X), NEW e, Inside(e, t)
  PROVE  /\ SelStart(e) \in 0 .. Len(t) /\ SelEnd(e) \in SelStart(e) .. Len(t)
         /\ e.anchor \in 0 .. Len(t) /\ e.focus \in 0 .. Len(t)
<1>1. Len(t) \in Nat
  BY LenProperties
<1>2. e.anchor \in 0 .. Len(t) /\ e.focus \in 0 .. Len(t)
  BY <1>1 DEF Inside, Carets
<1>3. QED BY <1>1, <1>2 DEF SelStart, SelEnd, Low, High

LEMMA ReplacedIs ==
  ASSUME NEW X, NEW t \in Seq(X), NEW by \in Seq(X), NEW a \in 0 .. Len(t), NEW b \in a .. Len(t)
  PROVE  /\ ReplaceRange(t, a, b, by) \in Seq(X)
         /\ Len(ReplaceRange(t, a, b, by)) = a + Len(by) + (Len(t) - b)
<1> DEFINE L == Len(t)
           x == SubSeq(t, 1, a)
           y == SubSeq(t, b + 1, L)
<1>1. L \in Nat /\ Len(by) \in Nat /\ a \in Nat /\ b \in Nat /\ a <= b /\ b <= L
  BY LenProperties
<1>2. \A i \in 1 .. L : t[i] \in X
  BY ElementOfSeq
<1>3. x \in Seq(X) /\ Len(x) = a
  <2>1. \A i \in 1 .. a : t[i] \in X
    BY <1>1, <1>2
  <2>2. x \in Seq(X) /\ Len(x) = IF 1 <= a THEN a - 1 + 1 ELSE 0
    BY <1>1, <2>1, SubSeqProperties
  <2>3. QED BY <1>1, <2>2
<1>4. y \in Seq(X) /\ Len(y) = L - b
  <2>1. \A i \in b + 1 .. L : t[i] \in X
    BY <1>1, <1>2
  <2>2. y \in Seq(X) /\ Len(y) = IF b + 1 <= L THEN L - (b + 1) + 1 ELSE 0
    <3> HIDE DEF L
    <3>1. L = Len(t)
      BY DEF L
    <3>2. QED BY <1>1, <2>1, SubSeqProperties
  <2>3. QED BY <1>1, <2>2
<1> HIDE DEF x, y
<1>5. x \o by \in Seq(X) /\ Len(x \o by) = a + Len(by)
  BY <1>3, ConcatProperties
<1> DEFINE z == x \o by
<1> HIDE DEF z
<1>6. z \o y \in Seq(X) /\ Len(z \o y) = a + Len(by) + (L - b)
  <2>1. z \in Seq(X) /\ Len(z) = a + Len(by)
    BY <1>5 DEF z
  <2>2. z \o y \in Seq(X) /\ Len(z \o y) = Len(z) + Len(y)
    BY <1>4, <2>1, ConcatProperties
  <2>3. QED BY <1>4, <2>1, <2>2
<1>7. ReplaceRange(t, a, b, by) = (x \o by) \o y
  BY DEF ReplaceRange, x, y
<1>8. QED BY <1>6, <1>7 DEF z

\* What an edit leaves: a text over the same characters, with the caret inside it.
Edited(out, X) == out.text \in Seq(X) /\ Inside(out.ed, out.text)

LEMMA ReplaceSelectionIs ==
  ASSUME NEW X, NEW t \in Seq(X), NEW by \in Seq(X), NEW e \in Carets
  PROVE  Edited(ReplaceSelection(e, t, by), X)
<1> DEFINE s == Sync(e, t)
           a == SelStart(s)
           b == SelEnd(s)
           text == ReplaceRange(t, a, b, by)
<1>1. a \in 0 .. Len(t) /\ b \in a .. Len(t) /\ Len(t) \in Nat /\ Len(by) \in Nat
  BY SyncIs, SelectionIs, LenProperties
<1> HIDE DEF a, b
<1>2. text \in Seq(X) /\ Len(text) = a + Len(by) + (Len(t) - b)
  BY <1>1, ReplacedIs
<1> HIDE DEF text
<1>3. a + Len(by) \in Nat /\ a + Len(by) <= Len(text)
  BY <1>1, <1>2
<1>4. Inside(Caret(a + Len(by)), text)
  BY <1>3, CaretIs DEF Inside
<1>5. ReplaceSelection(e, t, by) = [ed |-> Caret(a + Len(by)), text |-> text]
  BY DEF ReplaceSelection, a, b, text
<1>6. QED BY <1>2, <1>4, <1>5 DEF Edited

LEMMA MovesIs ==
  ASSUME NEW X, NEW t \in Seq(X), NEW e \in Carets, NEW shift \in BOOLEAN
  PROVE  Inside(MoveLeft(e, t, shift), t) /\ Inside(MoveRight(e, t, shift), t)
<1> DEFINE s == Sync(e, t)
           l == IF s.focus = 0 THEN 0 ELSE s.focus - 1
           r == Low(s.focus + 1, Len(t))
<1>1. Inside(s, t) /\ Len(t) \in Nat
  BY SyncIs, LenProperties
<1> HIDE DEF s
<1>2. /\ SelStart(s) \in 0 .. Len(t) /\ SelEnd(s) \in SelStart(s) .. Len(t)
      /\ s.anchor \in 0 .. Len(t) /\ s.focus \in 0 .. Len(t)
  BY <1>1, SelectionIs
<1>3. l \in 0 .. Len(t) /\ r \in 0 .. Len(t) /\ SelEnd(s) \in 0 .. Len(t)
  BY <1>1, <1>2 DEF Low
<1> HIDE DEF l, r
<1>4. ASSUME NEW n \in 0 .. Len(t) PROVE Inside(Caret(n), t) /\ Inside(MoveTo(s, n, shift), t)
  <2>1. n \in Nat /\ n <= Len(t)
    BY <1>1
  <2>2. Inside(Caret(n), t)
    BY <2>1, CaretIs DEF Inside
  <2>3. CASE shift
    <3>1. MoveTo(s, n, shift) = [anchor |-> s.anchor, focus |-> n]
      BY <2>3 DEF MoveTo
    <3>2. QED BY <1>1, <2>1, <2>2, <3>1 DEF Inside, Carets
  <2>4. CASE ~shift
    <3>1. MoveTo(s, n, shift) = Caret(n)
      BY <2>4 DEF MoveTo, Caret
    <3>2. QED BY <2>2, <3>1
  <2>5. QED BY <2>3, <2>4
<1>5. MoveLeft(e, t, shift) = IF ~shift /\ HasSelection(s) THEN Caret(SelStart(s)) ELSE MoveTo(s, l, shift)
  BY DEF MoveLeft, s, l
<1>6. MoveRight(e, t, shift) = IF ~shift /\ HasSelection(s) THEN Caret(SelEnd(s)) ELSE MoveTo(s, r, shift)
  BY DEF MoveRight, s, r
<1>7. QED BY <1>2, <1>3, <1>4, <1>5, <1>6

LEMMA DeletesIs ==
  ASSUME NEW X, NEW t \in Seq(X), NEW e \in Carets
  PROVE  Edited(Backspace(e, t), X) /\ Edited(DeleteForward(e, t), X)
<1> DEFINE s == Sync(e, t)
           f == s.focus
<1>1. Inside(s, t) /\ Len(t) \in Nat /\ <<>> \in Seq(X) /\ Len(<<>>) = 0
  BY SyncIs, LenProperties, EmptySeq
<1> HIDE DEF s
<1>2. s \in Carets /\ f \in 0 .. Len(t)
  BY <1>1, SelectionIs DEF Inside
<1>3. Edited(ReplaceSelection(s, t, <<>>), X)
  BY <1>1, <1>2, ReplaceSelectionIs
<1>4. Edited([ed |-> s, text |-> t], X)
  BY <1>1 DEF Edited
<1>5. ASSUME NEW a \in 0 .. Len(t), NEW b \in a .. Len(t)
      PROVE  Edited([ed |-> Caret(a), text |-> ReplaceRange(t, a, b, <<>>)], X)
  <2> DEFINE text == ReplaceRange(t, a, b, <<>>)
  <2>1. text \in Seq(X) /\ Len(text) = a + 0 + (Len(t) - b)
    BY <1>1, ReplacedIs
  <2> HIDE DEF text
  <2>2. a \in Nat /\ a <= Len(text)
    BY <1>1, <2>1
  <2>3. Inside(Caret(a), text)
    BY <2>2, CaretIs DEF Inside
  <2>4. QED BY <2>1, <2>3 DEF Edited, text
<1>6. Edited(Backspace(e, t), X)
  <2>1. CASE HasSelection(s)
    BY <1>3, <2>1 DEF Backspace, s
  <2>2. CASE ~HasSelection(s) /\ f = 0
    BY <1>4, <2>2 DEF Backspace, s
  <2>3. CASE ~HasSelection(s) /\ f # 0
    <3>1. f - 1 \in 0 .. Len(t) /\ f \in f - 1 .. Len(t)
      BY <1>1, <1>2, <2>3
    <3>2. Edited([ed |-> Caret(f - 1), text |-> ReplaceRange(t, f - 1, f, <<>>)], X)
      BY <1>5, <3>1
    <3>3. Backspace(e, t) = [ed |-> Caret(f - 1), text |-> ReplaceRange(t, f - 1, f, <<>>)]
      BY <2>3 DEF Backspace, s
    <3>4. QED BY <3>2, <3>3
  <2>4. QED BY <2>1, <2>2, <2>3
<1>7. Edited(DeleteForward(e, t), X)
  <2>1. CASE HasSelection(s)
    BY <1>3, <2>1 DEF DeleteForward, s
  <2>2. CASE ~HasSelection(s) /\ f >= Len(t)
    BY <1>4, <2>2 DEF DeleteForward, s
  <2>3. CASE ~HasSelection(s) /\ ~(f >= Len(t))
    <3>1. f + 1 \in f .. Len(t)
      BY <1>1, <1>2, <2>3
    <3>2. Edited([ed |-> Caret(f), text |-> ReplaceRange(t, f, f + 1, <<>>)], X)
      BY <1>2, <1>5, <3>1
    <3>3. DeleteForward(e, t) = [ed |-> Caret(f), text |-> ReplaceRange(t, f, f + 1, <<>>)]
      BY <2>3 DEF DeleteForward, s
    <3>4. QED BY <3>2, <3>3
  <2>4. QED BY <2>1, <2>2, <2>3
<1>8. QED BY <1>6, <1>7

Keeps(out, e, t, X) ==
  out.ed \in Carets /\ out.text \in Seq(X) /\ (Inside(e, t) => Inside(out.ed, out.text))

\* A key keeps the text a text and, if the caret was inside it, the caret inside.
LEMMA ApplyKeyIs ==
  ASSUME NEW k \in EditKeys, NEW shift \in BOOLEAN, NEW X, NEW t \in Seq(X), NEW input \in Seq(X),
         NEW e \in Carets
  PROVE  Keeps(ApplyKey(k, shift, e, t, input), e, t, X)
<1> DEFINE out == ApplyKey(k, shift, e, t, input)
<1> SUFFICES Keeps(out, e, t, X)
  OBVIOUS
<1>1. Len(t) \in Nat /\ e.anchor \in Nat /\ e.focus \in Nat /\ <<>> \in Seq(X)
  BY LenProperties, EmptySeq DEF Carets
<1>4. ASSUME NEW n \in Nat, n <= Len(t)
      PROVE  MoveTo(e, n, shift) \in Carets /\ (Inside(e, t) => Inside(MoveTo(e, n, shift), t))
  <2>1. CASE shift
    <3>1. MoveTo(e, n, shift) = [anchor |-> e.anchor, focus |-> n]
      BY <2>1 DEF MoveTo
    <3>2. QED BY <1>1, <1>4, <3>1 DEF Inside, Carets
  <2>2. CASE ~shift
    <3>1. MoveTo(e, n, shift) = Caret(n)
      BY <2>2 DEF MoveTo, Caret
    <3>2. QED BY <1>4, <3>1, CaretIs DEF Inside
  <2>3. QED BY <2>1, <2>2
<1>5. CASE k = "left"
  <2>1. out = [ed |-> MoveLeft(e, t, shift), text |-> t] /\ Inside(MoveLeft(e, t, shift), t)
    BY <1>5, MovesIs DEF ApplyKey
  <2> HIDE DEF out
  <2>2. QED BY <2>1 DEF Inside, Keeps
<1>6. CASE k = "right"
  <2>1. out = [ed |-> MoveRight(e, t, shift), text |-> t] /\ Inside(MoveRight(e, t, shift), t)
    BY <1>6, MovesIs DEF ApplyKey
  <2> HIDE DEF out
  <2>2. QED BY <2>1 DEF Inside, Keeps
<1>7. CASE k = "home"
  <2>1. out = [ed |-> MoveTo(e, 0, shift), text |-> t]
    BY <1>7 DEF ApplyKey
  <2> HIDE DEF out
  <2>2. QED BY <1>1, <1>4, <2>1 DEF Keeps
<1>8. CASE k = "end"
  <2>1. out = [ed |-> MoveTo(e, Len(t), shift), text |-> t]
    BY <1>8 DEF ApplyKey
  <2>2. Len(t) <= Len(t)
    BY <1>1
  <2> HIDE DEF out
  <2>3. QED BY <1>1, <1>4, <2>1, <2>2 DEF Keeps
<1>9. CASE k = "all"
  <2>1. out = [ed |-> SelectAll(t), text |-> t]
    BY <1>9 DEF ApplyKey
  <2>2. SelectAll(t) \in Carets /\ Inside(SelectAll(t), t)
    BY <1>1 DEF SelectAll, Carets, Inside
  <2> HIDE DEF out
  <2>3. QED BY <2>1, <2>2 DEF Keeps
<1>10. CASE k = "backspace"
  <2>1. out = Backspace(e, t) /\ Edited(Backspace(e, t), X)
    BY <1>10, DeletesIs DEF ApplyKey
  <2> HIDE DEF out
  <2>2. QED BY <2>1 DEF Edited, Inside, Keeps
<1>11. CASE k = "delete"
  <2>1. out = DeleteForward(e, t) /\ Edited(DeleteForward(e, t), X)
    BY <1>11, DeletesIs DEF ApplyKey
  <2> HIDE DEF out
  <2>2. QED BY <2>1 DEF Edited, Inside, Keeps
<1>12. CASE k = "cut"
  <2>1. out = Cut(e, t)
    BY <1>12 DEF ApplyKey
  <2>2. CASE Selected(e, t) = <<>>
    <3>1. out = [ed |-> e, text |-> t]
      BY <2>1, <2>2 DEF Cut
    <3> HIDE DEF out
    <3>2. QED BY <3>1 DEF Keeps
  <2>3. CASE Selected(e, t) # <<>>
    <3>1. out = ReplaceSelection(e, t, <<>>) /\ Edited(ReplaceSelection(e, t, <<>>), X)
      BY <1>1, <2>1, <2>3, ReplaceSelectionIs DEF Cut
    <3> HIDE DEF out
    <3>2. QED BY <3>1 DEF Edited, Inside, Keeps
  <2>4. QED BY <2>2, <2>3
<1>13. CASE k = "type"
  <2>1. out = ReplaceSelection(e, t, input) /\ Edited(ReplaceSelection(e, t, input), X)
    BY <1>13, ReplaceSelectionIs DEF ApplyKey
  <2> HIDE DEF out
  <2>2. QED BY <2>1 DEF Edited, Inside, Keeps
<1> HIDE DEF out
<1>14. QED BY <1>5, <1>6, <1>7, <1>8, <1>9, <1>10, <1>11, <1>12, <1>13 DEF EditKeys

-----------------------------------------------------------------------------
(***************************************************************************)
(* One window: what it can be, and what the handlers do to it.             *)
(***************************************************************************)

NoTexts == [f \in Fields |-> <<>>]

PaletteRecords == [open : BOOLEAN, query : Texts, sel : Nat, ed : Carets]
Palettes == {p \in PaletteRecords : Inside(p.ed, p.query)}

ModalRecords ==
  [open : BOOLEAN, mode : {"create", "rename", "unlock"}, setup : BOOLEAN, target : BOOLEAN,
   method : {"passphrase", "device"}, text : [Fields -> Texts], sel : Fields,
   error : {"none", "incomplete", "target", "vault", "device"}, busy : BOOLEAN, reveal : BOOLEAN]

\* A closed dialog holds no text, and only the create form has a field after the first.
Modals == {m \in ModalRecords : (m.open \/ m.text = NoTexts) /\ (m.mode = "create" \/ m.sel = 0)}

Workspaces ==
  [cfg : Config, seen : VaultStates, upd : UpdateStates,
   surface : {"terminal", "settings", "secure", "closed"}, palette : Palettes, modal : Modals,
   field : 0 .. NoField, ed : Carets, dialog : BOOLEAN]

\* The window r after a handler that leaves its settings and its view of the vault alone.
Edits(r) == {x \in Workspaces : x.cfg = r.cfg /\ x.seen = r.seen}

LEMMA ClosedPaletteIs == ClosedPalette \in Palettes /\ [ClosedPalette EXCEPT !.open = TRUE] \in Palettes
<1>1. Caret(0) \in Carets /\ Caret(0).anchor = 0 /\ Caret(0).focus = 0
  BY CaretIs
<1>2. Inside(Caret(0), <<>>)
  BY <1>1, EmptyText DEF Inside
<1>3. ClosedPalette \in PaletteRecords /\ [ClosedPalette EXCEPT !.open = TRUE] \in PaletteRecords
  BY <1>1, EmptyText DEF ClosedPalette, PaletteRecords
<1>4. QED BY <1>2, <1>3 DEF ClosedPalette, Palettes

LEMMA ToggledIs == ASSUME NEW p PROVE Toggled(p) \in Palettes
BY ClosedPaletteIs DEF Toggled

LEMMA ModalParts ==
  ASSUME NEW m \in Modals
  PROVE  /\ m \in ModalRecords /\ m.open \in BOOLEAN /\ m.mode \in {"create", "rename", "unlock"}
         /\ m.method \in {"passphrase", "device"}
         /\ m.sel \in Fields /\ m.text \in [Fields -> Texts]
         /\ m.open \/ m.text = NoTexts
         /\ m.mode = "create" \/ m.sel = 0
BY DEF Modals, ModalRecords

LEMMA NoTextsIs == NoTexts \in [Fields -> Texts]
BY EmptyText DEF NoTexts

LEMMA ClosedModalIs == ClosedModal \in Modals /\ ClosedModal.text = NoTexts /\ ClosedModal.sel = 0
<1>1. 0 \in Fields
  BY DEF Fields
<1>2. ClosedModal \in ModalRecords
  BY <1>1, NoTextsIs DEF ClosedModal, ModalRecords, NoTexts
<1>3. QED BY <1>2 DEF ClosedModal, Modals, NoTexts

LEMMA OpenedModalIs ==
  ASSUME NEW x, NEW mode \in {"create", "rename", "unlock"}
  PROVE  /\ OpenedModal(x, mode) \in Modals /\ OpenedModal(x, mode).open
         /\ OpenedModal(x, mode).text = NoTexts /\ OpenedModal(x, mode).sel = 0
<1>1. ClosedModal \in ModalRecords /\ ClosedModal.text = NoTexts /\ ClosedModal.sel = 0
  BY ClosedModalIs DEF Modals
<1> DEFINE m == [ClosedModal EXCEPT !.open = TRUE, !.mode = mode]
<1>2. m \in ModalRecords /\ m.text = NoTexts /\ m.sel = 0 /\ m.open
  BY <1>1 DEF ModalRecords
<1>3. OpenedModal(x, mode) = m
  BY DEF OpenedModal
<1> HIDE DEF m
<1>4. QED BY <1>2, <1>3 DEF Modals

LEMMA NewModalIs == ASSUME NEW v \in VaultStates PROVE NewModal(v) \in Modals
<1>1. ClosedModal \in ModalRecords /\ ClosedModal.text = NoTexts /\ ClosedModal.sel = 0
  BY ClosedModalIs DEF Modals
<1> DEFINE mode == IF v = "none" THEN "create" ELSE "unlock"
           m == [ClosedModal EXCEPT !.open = (v # "unlocked"), !.mode = mode, !.setup = (v = "none")]
<1>2. mode \in {"create", "rename", "unlock"} /\ (v # "unlocked") \in BOOLEAN /\ (v = "none") \in BOOLEAN
  OBVIOUS
<1> HIDE DEF mode
<1>3. m \in ModalRecords /\ m.text = NoTexts /\ m.sel = 0
  BY <1>1, <1>2 DEF ModalRecords
<1>4. NewModal(v) = m
  BY DEF NewModal, mode
<1> HIDE DEF m
<1>5. QED BY <1>3, <1>4 DEF Modals

LEMMA CloseModalIs == ASSUME NEW m \in Modals PROVE CloseModal(m) \in Modals
<1> DEFINE x == [m EXCEPT !.open = FALSE, !.busy = FALSE, !.error = "none", !.target = FALSE,
                          !.text = NoTexts, !.sel = 0]
<1>1. m \in ModalRecords /\ 0 \in Fields
  BY ModalParts DEF Fields
<1>2. x \in ModalRecords /\ x.text = NoTexts /\ x.sel = 0
  BY <1>1, NoTextsIs DEF ModalRecords
<1>3. CloseModal(m) = x
  BY DEF CloseModal, NoTexts
<1> HIDE DEF x
<1>4. QED BY <1>2, <1>3 DEF Modals

LEMMA FieldCountIs ==
  ASSUME NEW m \in Modals
  PROVE  /\ FieldCount(m) \in {0, 1, 3} /\ (m.mode = "create" <=> FieldCount(m) = 3)
         /\ FieldCount(m) > 0 => m.sel <= FieldCount(m) - 1
<1>1. m.mode \in {"create", "rename", "unlock"} /\ m.sel \in 0 .. 2 /\ (m.mode = "create" \/ m.sel = 0)
  BY ModalParts DEF Fields
<1>2. CASE m.mode = "create"
  BY <1>1, <1>2 DEF FieldCount
<1>3. CASE m.mode = "rename"
  BY <1>1, <1>3 DEF FieldCount
<1>4. CASE m.mode = "unlock"
  BY <1>1, <1>4 DEF FieldCount
<1>5. QED BY <1>1, <1>2, <1>3, <1>4

\* A field of the form that is shown.
FormField(m, f) == f \in Fields /\ (m.mode = "create" \/ f = 0)

LEMMA SlotIs ==
  ASSUME NEW m \in Modals, NEW f \in Fields
  PROVE  Slot(m, f) \in Fields /\ m.text[Slot(m, f)] \in Seq(Chars) /\ Len(m.text[Slot(m, f)]) \in Nat
<1>1. Slot(m, f) \in Fields
  BY DEF Slot, Fields
<1>2. m.text[Slot(m, f)] \in Texts
  BY <1>1, ModalParts
<1>3. m.text[Slot(m, f)] \in Seq(Chars)
  BY <1>2, TextIs
<1>4. QED BY <1>1, <1>3, LenProperties

LEMMA WorkspaceParts ==
  ASSUME NEW r \in Workspaces
  PROVE  /\ r.cfg \in Config /\ r.seen \in VaultStates /\ r.upd \in UpdateStates
         /\ r.palette \in Palettes /\ r.modal \in Modals /\ r.field \in 0 .. NoField /\ r.ed \in Carets
         /\ r.dialog \in BOOLEAN
BY DEF Workspaces

\* One more part of the form with its own record.
LEMMA WithSelection ==
  ASSUME NEW m \in Modals, NEW f, FormField(m, f)
  PROVE  [m EXCEPT !.sel = f] \in Modals
<1>1. m \in ModalRecords /\ (m.open \/ m.text = NoTexts)
  BY ModalParts
<1> DEFINE x == [m EXCEPT !.sel = f]
<1>2. x \in ModalRecords /\ x.open = m.open /\ x.text = m.text /\ x.mode = m.mode /\ x.sel = f
  BY <1>1 DEF ModalRecords, FormField
<1> HIDE DEF x
<1>3. x \in Modals
  BY <1>1, <1>2 DEF Modals, FormField
<1>4. QED BY <1>3 DEF x

\* A method, an error, a flag: what the fields hold stays.
LEMMA WithFlags ==
  ASSUME NEW m \in Modals, NEW x \in ModalRecords,
         x.open = m.open, x.text = m.text, x.mode = m.mode, x.sel = m.sel
  PROVE  x \in Modals
<1>1. (m.open \/ m.text = NoTexts) /\ (m.mode = "create" \/ m.sel = 0)
  BY ModalParts
<1>2. QED BY <1>1 DEF Modals

LEMMA WithMethod ==
  ASSUME NEW m \in Modals, NEW method \in {"passphrase", "device"}
  PROVE  [m EXCEPT !.method = method] \in Modals /\ [m EXCEPT !.method = method].mode = m.mode
<1>1. m \in ModalRecords
  BY ModalParts
<1>2. [m EXCEPT !.method = method] \in ModalRecords /\ [m EXCEPT !.method = method].mode = m.mode
  BY <1>1 DEF ModalRecords
<1>3. QED BY <1>1, <1>2, WithFlags DEF ModalRecords

LEMMA WithPalette ==
  ASSUME NEW r \in Workspaces, NEW p \in Palettes
  PROVE  [r EXCEPT !.palette = p] \in Edits(r)
BY DEF Workspaces, Edits

LEMMA WithModal ==
  ASSUME NEW r \in Workspaces, NEW m \in Modals
  PROVE  [r EXCEPT !.modal = m] \in Edits(r) /\ [r EXCEPT !.modal = m].modal = m
                                             /\ [r EXCEPT !.modal = m].field = r.field
BY DEF Workspaces, Edits

LEMMA WithCaret ==
  ASSUME NEW r \in Workspaces, NEW m \in Modals, NEW f \in 0 .. NoField, NEW e \in Carets
  PROVE  [r EXCEPT !.modal = m, !.field = f, !.ed = e] \in Edits(r)
BY DEF Workspaces, Edits

LEMMA EditOfEdit ==
  ASSUME NEW r, NEW x \in Edits(r), NEW y \in Edits(x)
  PROVE  y \in Edits(r)
BY DEF Edits

LEMMA FocusFieldIs ==
  ASSUME NEW r \in Workspaces, NEW f, FormField(r.modal, f)
  PROVE  /\ FocusField(r, f) \in Edits(r) /\ FocusField(r, f).field = f
         /\ FocusField(r, f).modal = [r.modal EXCEPT !.sel = f]
<1> DEFINE m == [r.modal EXCEPT !.sel = f]
           t == r.modal.text[Slot(r.modal, f)]
           e == WithText(t)
<1>1. r.modal \in Modals /\ f \in Fields
  BY WorkspaceParts DEF FormField
<1>2. m \in Modals
  BY <1>1, WithSelection
<1>3. Len(t) \in Nat
  BY <1>1, SlotIs
<1>4. e \in Carets
  BY <1>3, CaretIs DEF WithText
<1>5. f \in 0 .. NoField
  BY <1>1 DEF Fields, NoField
<1> HIDE DEF m, e
<1> DEFINE x == [r EXCEPT !.modal = m, !.field = f, !.ed = e]
<1>6. x \in Edits(r)
  BY <1>2, <1>4, <1>5, WithCaret
<1>7. x.field = f /\ x.modal = m
  BY DEF Workspaces
<1>8. FocusField(r, f) = x
  BY DEF FocusField, m, e
<1> HIDE DEF x
<1>9. QED BY <1>6, <1>7, <1>8 DEF m

\* After a sync the caret belongs to the selected field, if the form has fields.
LEMMA SyncFieldIs ==
  ASSUME NEW r \in Workspaces
  PROVE  /\ SyncField(r) \in Edits(r)
         /\ FieldCount(r.modal) > 0 => SyncField(r).field = r.modal.sel
         /\ SyncField(r).modal = r.modal
<1> DEFINE m == r.modal
           n == FieldCount(m)
           f == Low(m.sel, n - 1)
           t == m.text[Slot(m, f)]
<1>1. m \in Modals /\ m.sel \in 0 .. 2 /\ r.field \in 0 .. NoField /\ r.ed \in Carets
  BY WorkspaceParts, ModalParts DEF Fields
<1>2. n \in {0, 1, 3} /\ (m.mode = "create" <=> n = 3) /\ (n > 0 => m.sel <= n - 1)
  BY <1>1, FieldCountIs
<1>3. CASE n = 0
  <2>1. SyncField(r) = [r EXCEPT !.field = NoField, !.ed = Caret(0)]
    BY <1>3 DEF SyncField
  <2>2. Caret(0) \in Carets /\ NoField \in 0 .. NoField
    BY CaretIs DEF NoField
  <2>3. [r EXCEPT !.field = NoField, !.ed = Caret(0)] \in Edits(r)
    BY <2>2 DEF Workspaces, Edits
  <2>4. [r EXCEPT !.field = NoField, !.ed = Caret(0)].modal = r.modal
    BY DEF Workspaces
  <2>5. QED BY <1>3, <2>1, <2>3, <2>4
<1>4. CASE n > 0
  <2>1. f = m.sel /\ f \in Fields
    <3> HIDE DEF n, m
    <3>1. Low(m.sel, n - 1) = m.sel
      BY <1>1, <1>2, <1>4 DEF Low
    <3>2. QED BY <1>1, <3>1 DEF Fields
  <2>2. t \in Seq(Chars)
    BY <1>1, <2>1, SlotIs
  <2>3. CASE r.field = f
    <3>1. SyncField(r) = [r EXCEPT !.ed = Sync(r.ed, t)]
      BY <1>2, <1>4, <2>3 DEF SyncField
    <3>2. Sync(r.ed, t) \in Carets
      BY <1>1, <2>2, SyncIs DEF Inside
    <3> HIDE DEF t
    <3> DEFINE x == [r EXCEPT !.ed = Sync(r.ed, t)]
    <3>3. x \in Edits(r) /\ x.modal = r.modal /\ x.field = r.field
      BY <3>2 DEF Workspaces, Edits
    <3> HIDE DEF x
    <3>4. QED BY <2>1, <2>3, <3>1, <3>3 DEF x
  <2>4. CASE r.field # f
    <3>1. SyncField(r) = FocusField(r, f)
      BY <1>2, <1>4, <2>4 DEF SyncField
    <3>2. FormField(r.modal, f)
      BY <2>1, <1>1, ModalParts DEF FormField
    <3>3. /\ FocusField(r, f) \in Edits(r) /\ FocusField(r, f).field = f
          /\ FocusField(r, f).modal = [r.modal EXCEPT !.sel = f]
      BY <3>2, FocusFieldIs
    <3>4. [r.modal EXCEPT !.sel = f] = r.modal
      <4>1. r.modal \in ModalRecords /\ r.modal.sel = f
        BY <1>1, <2>1, ModalParts
      <4> HIDE DEF f
      <4>2. QED BY <4>1 DEF ModalRecords
    <3>5. QED BY <2>1, <3>1, <3>3, <3>4
  <2>5. QED BY <2>3, <2>4
<1>5. QED BY <1>2, <1>3, <1>4

LEMMA ShowModalIs ==
  ASSUME NEW r \in Workspaces, NEW mode \in {"create", "rename", "unlock"},
         NEW target \in BOOLEAN, NEW device \in BOOLEAN
  PROVE  ShowModal(r, mode, target, device) \in Edits(r)
<1> DEFINE o == OpenedModal(r.modal, mode)
           name == IF mode = "unlock" THEN <<>> ELSE <<"a">>
           method == IF mode = "unlock" /\ device THEN "device" ELSE "passphrase"
           m == [o EXCEPT !.target = target, !.text[0] = name, !.method = method]
           x == [r EXCEPT !.modal = m]
<1>1. o \in ModalRecords /\ o.open /\ o.text = NoTexts /\ o.sel = 0
  BY OpenedModalIs DEF Modals
<1>2. name \in Texts
  <2>1. <<"a">> \in Seq(Chars) /\ Len(<<"a">>) = 1
    BY TextsAssumption
  <2>2. Len(<<"a">>) <= MaxText
    BY <2>1, TextsAssumption
  <2>3. QED BY <2>1, <2>2, TextIs, EmptyText
<1>3. method \in {"passphrase", "device"}
  OBVIOUS
<1> HIDE DEF o, name, method
<1>4. [o.text EXCEPT ![0] = name] \in [Fields -> Texts]
  BY <1>1, <1>2, NoTextsIs
<1>5. m \in ModalRecords /\ m.open /\ m.sel = 0
  BY <1>1, <1>3, <1>4 DEF ModalRecords
<1> HIDE DEF m
<1>6. m \in Modals
  BY <1>5 DEF Modals
<1>7. x \in Edits(r)
  BY <1>6, WithModal
<1>8. ShowModal(r, mode, target, device) = SyncField(x)
  BY DEF ShowModal, x, m, o, name, method
<1> HIDE DEF x
<1>9. x \in Workspaces
  BY <1>7 DEF Edits
<1>10. QED BY <1>7, <1>8, <1>9, SyncFieldIs, EditOfEdit

LEMMA TypeInModalIs ==
  ASSUME NEW r \in Workspaces, NEW k \in EditKeys, NEW shift \in BOOLEAN, NEW c \in Chars, r.modal.open,
         \A f \in Fields : Len(TypeInModal(r, k, shift, c).modal.text[f]) <= MaxText
  PROVE  TypeInModal(r, k, shift, c) \in Edits(r)
<1> DEFINE s == SyncField(r)
           m == s.modal
           slot == Slot(m, s.field)
           out == ApplyKey(k, shift, s.ed, m.text[slot], <<c>>)
           next == TypeInModal(r, k, shift, c)
<1>1. s \in Edits(r) /\ s \in Workspaces /\ s.modal = r.modal
  BY SyncFieldIs DEF Edits
<1> HIDE DEF s
<1>2. m \in Modals /\ m.open /\ s.field \in 0 .. NoField /\ s.ed \in Carets
  BY <1>1, WorkspaceParts
<1>3. CASE s.field = NoField
  <2>1. next = s
    BY <1>3 DEF TypeInModal, s
  <2>2. QED BY <1>1, <2>1
<1>4. CASE s.field # NoField
  <2>1. s.field \in Fields
    BY <1>2, <1>4 DEF Fields, NoField
  <2>2. slot \in Fields /\ m.text[slot] \in Seq(Chars)
    BY <1>2, <2>1, SlotIs
  <2> HIDE DEF m, slot
  <2>3. <<c>> \in Seq(Chars)
    OBVIOUS
  <2>4. out.ed \in Carets /\ out.text \in Seq(Chars)
    BY <1>2, <2>2, <2>3, ApplyKeyIs DEF Keeps
  <2> HIDE DEF out
  <2> DEFINE text == [m.text EXCEPT ![slot] = out.text]
             n == [m EXCEPT !.text = text]
             x == [s EXCEPT !.ed = out.ed, !.modal = n]
  <2>5. next = x
    BY <1>4 DEF TypeInModal, s, m, slot, out
  <2>6. s.modal = m
    BY DEF m
  <2>7. m \in ModalRecords /\ m.text \in [Fields -> Texts]
    BY <1>2, ModalParts DEF m
  <2>8. x.modal = n
    BY <1>1 DEF Workspaces
  <2>9. n.text = text
    BY <2>7 DEF ModalRecords
  <2>10. text[slot] = out.text
    BY <2>2, <2>7
  <2>11. Len(out.text) <= MaxText
    <3> HIDE DEF next, text, n, x
    <3>1. next.modal.text[slot] = out.text
      BY <2>5, <2>8, <2>9, <2>10
    <3>2. Len(next.modal.text[slot]) <= MaxText
      BY <2>2 DEF next
    <3>3. QED BY <3>1, <3>2
  <2>12. out.text \in Texts
    BY <2>4, <2>11, TextIs
  <2>13. text \in [Fields -> Texts]
    BY <2>7, <2>12
  <2> HIDE DEF text
  <2>14. n \in ModalRecords /\ n.open = m.open /\ n.mode = m.mode /\ n.sel = m.sel
    BY <2>7, <2>13 DEF ModalRecords
  <2>15. n \in Modals
    <3> HIDE DEF n
    <3>1. m.open /\ (m.mode = "create" \/ m.sel = 0)
      BY <1>2, ModalParts DEF m
    <3>2. QED BY <2>14, <3>1 DEF Modals
  <2> HIDE DEF n
  <2>16. x \in Edits(s)
    BY <1>1, <2>4, <2>15 DEF Workspaces, Edits
  <2>17. QED BY <1>1, <2>5, <2>16, EditOfEdit
<1>5. QED BY <1>3, <1>4

LEMMA PaletteParts ==
  ASSUME NEW r \in Workspaces
  PROVE  /\ r.palette \in PaletteRecords /\ Inside(r.palette.ed, r.palette.query)
         /\ r.palette.open \in BOOLEAN /\ r.palette.query \in Texts /\ r.palette.query \in Seq(Chars)
         /\ r.palette.sel \in Nat /\ r.palette.ed \in Carets
<1>1. r.palette \in PaletteRecords /\ Inside(r.palette.ed, r.palette.query)
  BY WorkspaceParts DEF Palettes
<1>2. QED BY <1>1, TextIs DEF PaletteRecords

LEMMA WithPaletteSelection ==
  ASSUME NEW r \in Workspaces, NEW n \in Nat
  PROVE  [r EXCEPT !.palette.sel = n] \in Edits(r)
<1> DEFINE p == [r.palette EXCEPT !.sel = n]
<1>1. p \in PaletteRecords /\ p.ed = r.palette.ed /\ p.query = r.palette.query
  BY PaletteParts DEF PaletteRecords
<1> HIDE DEF p
<1>2. p \in Palettes
  BY <1>1, PaletteParts DEF Palettes
<1>3. [r EXCEPT !.palette = p] \in Edits(r)
  BY <1>2, WithPalette
<1>4. QED BY <1>3 DEF p

LEMMA SelectIs ==
  ASSUME NEW r \in Workspaces, NEW X, NEW items \in Seq(X), NEW n \in Nat
  PROVE  Select(r, items, n) \in Edits(r)
<1> DEFINE k == IF items = <<>> THEN 0 ELSE Low(n, Len(items) - 1)
<1>1. k \in Nat
  <2>1. items # <<>> => Len(items) \in Nat \ {0}
    BY EmptySeq
  <2>2. QED BY <2>1 DEF Low
<1>2. Select(r, items, n) = [r EXCEPT !.palette.sel = k]
  BY DEF Select
<1> HIDE DEF k
<1>3. QED BY <1>1, <1>2, WithPaletteSelection

LEMMA PagedIs ==
  ASSUME NEW r \in Workspaces, NEW X, NEW items \in Seq(X), NEW up \in BOOLEAN
  PROVE  Paged(r, items, up) \in Edits(r)
<1>1. CASE items = <<>>
  <2>1. Paged(r, items, up) = [r EXCEPT !.palette.sel = 0]
    BY <1>1 DEF Paged
  <2>2. QED BY <2>1, WithPaletteSelection
<1>2. CASE items # <<>>
  <2> DEFINE n == Len(items)
             cur == Low(r.palette.sel, n - 1)
             d == PageDown(Rows(r, items), cur)
             u == PageUp(Rows(r, items), cur)
             t == IF up THEN u ELSE d
  <2>1. n \in Nat /\ n > 0
    BY <1>2, EmptySeq
  <2>2. cur \in 0 .. n - 1
    BY <2>1, PaletteParts DEF Low
  <2>3. Rows(r, items) \in Seq(Int) /\ ItemRows(Rows(r, items), n)
    BY RowsIs
  <2>4. d \in (IF cur = n - 1 THEN {cur} ELSE (cur + 1) .. (n - 1)) /\ u \in (IF cur = 0 THEN {cur} ELSE 0 .. (cur - 1))
    <3> HIDE DEF n, cur
    <3>1. QED BY <2>1, <2>2, <2>3, PagesMove
  <2>5. Paged(r, items, up) = Select(r, items, t)
    BY <1>2 DEF Paged
  <2> HIDE DEF d, u, cur
  <2>6. t \in Nat
    BY <2>1, <2>2, <2>4
  <2> HIDE DEF t
  <2>7. QED BY <2>5, <2>6, SelectIs
<1>3. QED BY <1>1, <1>2

LEMMA PaletteTypeIs ==
  ASSUME NEW r \in Workspaces, NEW k \in EditKeys, NEW shift \in BOOLEAN, NEW c \in Chars,
         NEW out, out = ApplyKey(k, shift, r.palette.ed, r.palette.query, <<c>>),
         Len(PaletteType(r, k, out).palette.query) <= MaxText
  PROVE  PaletteType(r, k, out) \in Edits(r)
<1> DEFINE sel == IF k \in MutatingKeys THEN 0 ELSE r.palette.sel
           p == [r.palette EXCEPT !.ed = out.ed, !.query = out.text, !.sel = sel]
           x == [r EXCEPT !.palette = p]
<1>1. <<c>> \in Seq(Chars)
  OBVIOUS
<1>2. Keeps(out, r.palette.ed, r.palette.query, Chars)
  BY <1>1, PaletteParts, ApplyKeyIs
<1>3. out.ed \in Carets /\ out.text \in Seq(Chars) /\ Inside(out.ed, out.text)
  BY <1>2, PaletteParts DEF Keeps
<1>4. sel \in Nat
  BY PaletteParts
<1>5. PaletteType(r, k, out) = x
  BY DEF PaletteType
<1> HIDE DEF sel
<1>6. x.palette = p /\ p.query = out.text /\ p.ed = out.ed
  BY PaletteParts DEF Workspaces, PaletteRecords
<1>7. out.text \in Texts
  <2> HIDE DEF x, p
  <2>1. QED BY <1>3, <1>5, <1>6, TextIs
<1>8. p \in PaletteRecords
  BY <1>3, <1>4, <1>7, PaletteParts DEF PaletteRecords
<1> HIDE DEF p
<1>9. p \in Palettes
  BY <1>3, <1>6, <1>8 DEF Palettes
<1>10. QED BY <1>5, <1>9, WithPalette

\* A command changes its window's view of the vault only if it locks the vault.
LEMMA LocalEffectIs ==
  ASSUME NEW r \in Workspaces, NEW c, NEW device \in BOOLEAN, vault \in VaultStates
  PROVE  /\ LocalEffect(c, r, device) \in Workspaces /\ LocalEffect(c, r, device).cfg = r.cfg
         /\ LocalEffect(c, r, device).seen = IF c = "lock" THEN LockedVault(r) ELSE r.seen
         /\ LockedVault(r) \in VaultStates
<1> DEFINE x == LocalEffect(c, r, device)
<1>0. LockedVault(r) \in VaultStates
  BY DEF LockedVault, VaultStates
<1>1. CASE c = "palette"
  <2>1. x = [r EXCEPT !.palette = Toggled(r.palette)]
    BY <1>1 DEF LocalEffect
  <2>2. x \in Edits(r)
    BY <2>1, ToggledIs, WithPalette
  <2>3. QED BY <1>0, <1>1, <2>2 DEF Edits
<1>2. CASE c = "prefs"
  <2> DEFINE p == Closed(r.palette)
  <2>1. x = [r EXCEPT !.surface = "settings", !.palette = p]
    BY <1>2 DEF LocalEffect
  <2>2. p \in Palettes
    BY ClosedPaletteIs DEF Closed
  <2> HIDE DEF p
  <2>3. [r EXCEPT !.surface = "settings", !.palette = p] \in Edits(r)
    BY <2>2 DEF Workspaces, Edits
  <2>4. QED BY <1>0, <1>2, <2>1, <2>3 DEF Edits
<1>3. CASE c = "panel"
  <2>1. x = [r EXCEPT !.surface = "secure"]
    BY <1>3 DEF LocalEffect
  <2>2. [r EXCEPT !.surface = "secure"] \in Edits(r)
    BY DEF Workspaces, Edits
  <2>3. QED BY <1>0, <1>3, <2>1, <2>2 DEF Edits
<1>4. CASE c = "check"
  <2>1. x = [r EXCEPT !.upd = "checking"]
    BY <1>4 DEF LocalEffect
  <2>2. [r EXCEPT !.upd = "checking"] \in Edits(r)
    BY DEF Workspaces, Edits, UpdateStates
  <2>3. QED BY <1>0, <1>4, <2>1, <2>2 DEF Edits
<1>5. CASE c = "unlock"
  <2>1. x = ShowModal(r, "unlock", FALSE, device)
    BY <1>5 DEF LocalEffect
  <2>2. ShowModal(r, "unlock", FALSE, device) \in Edits(r)
    BY ShowModalIs
  <2>3. QED BY <1>0, <1>5, <2>1, <2>2 DEF Edits
<1>6. CASE c = "lock"
  <2> DEFINE p == Closed(r.palette)
             m == OpenedModal(r.modal, "unlock")
             v == LockedVault(r)
             y == [r EXCEPT !.seen = v, !.dialog = FALSE, !.surface = "terminal", !.modal = m, !.palette = p]
  <2>1. x = y
    BY <1>6 DEF LocalEffect
  <2>2. p \in Palettes /\ m \in Modals
    BY ClosedPaletteIs, OpenedModalIs DEF Closed
  <2> HIDE DEF p, m, v
  <2>3. y \in Workspaces /\ y.cfg = r.cfg /\ y.seen = v
    BY <1>0, <2>2 DEF Workspaces, v
  <2> HIDE DEF x, y
  <2>4. QED BY <1>0, <1>6, <2>1, <2>3 DEF v, x
<1>7. CASE c \notin {"palette", "prefs", "panel", "check", "unlock", "lock"}
  <2>1. x = r
    BY <1>7 DEF LocalEffect
  <2>2. QED BY <1>0, <1>7, <2>1
<1>8. QED BY <1>1, <1>2, <1>3, <1>4, <1>5, <1>6, <1>7

-----------------------------------------------------------------------------
(***************************************************************************)
(* The inductive invariant.  Each part is about the variables that one     *)
(* kind of step changes, so that a step is looked at once per part.        *)
(***************************************************************************)

\* The registry names every open window once, and each window was counted.
RegistryInv ==
  /\ open \subseteq Windows /\ IsFiniteSet(open)
  /\ ordered \in Seq(Windows) /\ Distinct(ordered) /\ ToSet(ordered) = open
  /\ failed \in Nat /\ count = Cardinality(open) + failed
  /\ app \in {"shown", "hidden", "quit"} /\ quitting \in BOOLEAN /\ events \in Nat

\* The window that is being set up is open, and has a first action.
JoinInv ==
  joining # NoWindow => joining.w \in open /\ joining.action \in {"none", "palette", "prefs", "check"}

\* What is under way in a channel is what is saved; where nothing is, it has arrived.
ConfigInv ==
  /\ store \in Config /\ policy = PolicyOf(store)
  /\ cq \in [Windows -> {NoConfig, store}]
  /\ \A w \in Windows \ open : cq[w] = NoConfig
  /\ \A w \in open : cq[w] = NoConfig => win[w].cfg = store
  /\ kq \in {NoConfig, store}
  /\ kq = NoConfig => keymap = EffectiveKeymap(store)

VaultInv ==
  /\ vault \in VaultStates /\ vq \in [Windows -> BOOLEAN]
  /\ \A w \in open : ~vq[w] => win[w].seen = vault

WindowsInv == win \in [Windows -> Workspaces]

ShellInv == RegistryInv /\ JoinInv /\ ConfigInv /\ VaultInv /\ WindowsInv /\ UTypeOK

LEMMA ConfigsTyped ==
  /\ DefaultConfig \in Config /\ FileConfig \in Config /\ NoConfig \notin Config
  /\ \A c \in Config : \A b \in BOOLEAN : [c EXCEPT !.auto = b] \in Config
<1>1. DefaultConfig \in Config
  BY DEF DefaultConfig, Config, Themes
<1>2. FileConfig \in Config
  BY <1>1 DEF FileConfig, Config
<1>3. NoConfig \notin Config
  <2>1. NoConfig.binds = "none"
    BY DEF NoConfig, DefaultConfig
  <2>2. QED BY <2>1 DEF Config
<1>4. \A c \in Config : \A b \in BOOLEAN : [c EXCEPT !.auto = b] \in Config
  BY DEF Config
<1>5. QED BY <1>1, <1>2, <1>3, <1>4

LEMMA NothingIsNoState == Nothing \notin UpdateStates
BY DEF Nothing, UpdateStates

-----------------------------------------------------------------------------
(***************************************************************************)
(* What follows from the invariant.                                        *)
(***************************************************************************)

LEMMA InvGivesAgreement == ASSUME ShellInv PROVE WindowsAgree
<1>1. RegistryInv /\ ConfigInv /\ VaultInv /\ WindowsInv /\ UTypeOK
  BY DEF ShellInv
<1>2. Cardinality(open) \in Nat
  BY <1>1, FS_CardinalityType DEF RegistryInv
<1>3. ASSUME NEW w \in Windows
      PROVE  /\ win[w].cfg \in Config /\ win[w].seen \in VaultStates
             /\ win[w].upd \in UpdateStates /\ win[w].field \in 0 .. NoField
             /\ win[w].palette.query \in Texts /\ win[w].palette.sel \in Nat
             /\ win[w].palette.ed \in Carets /\ win[w].ed \in Carets
             /\ win[w].modal.text \in [Fields -> Texts]
  <2>1. win[w] \in Workspaces
    BY <1>1 DEF WindowsInv
  <2>2. QED BY <2>1, WorkspaceParts, PaletteParts, ModalParts
<1>4. policy \in {"hidden", "quit"}
  BY <1>1 DEF ConfigInv, PolicyOf
<1>5. count \in Nat
  BY <1>1, <1>2 DEF RegistryInv
<1>6. TypeOK
  BY <1>1, <1>3, <1>4, <1>5 DEF TypeOK, RegistryInv, ConfigInv, VaultInv
<1>7. RegistryExact
  <2>1. Len(ordered) = Cardinality(ToSet(ordered))
    BY <1>1, DistinctLength DEF RegistryInv
  <2>2. QED BY <1>1, <2>1 DEF RegistryInv, RegistryExact
<1>8. SettledShowsSaved
  BY <1>1 DEF ConfigInv, SettledShowsSaved
<1>9. SettledShowsVault
  BY <1>1 DEF VaultInv, SettledShowsVault
<1>10. QED BY <1>6, <1>7, <1>8, <1>9 DEF WindowsAgree

LEMMA InvGivesDialog == ASSUME ShellInv PROVE DialogSafe
<1>1. ASSUME NEW w \in open PROVE win[w] \in Workspaces
  BY DEF ShellInv, RegistryInv, WindowsInv
<1>2. SecretsWiped
  <2>1. ASSUME NEW w \in open, ~win[w].modal.open PROVE win[w].modal.text = [f \in Fields |-> <<>>]
    BY <1>1, <2>1, WorkspaceParts, ModalParts DEF NoTexts
  <2>2. QED BY <2>1 DEF SecretsWiped
<1>3. TypingGoesToHighlight
  <2>1. ASSUME NEW w \in open, FieldCount(win[w].modal) > 0
        PROVE  SyncField(win[w]).field = win[w].modal.sel
    BY <1>1, <2>1, SyncFieldIs
  <2>2. QED BY <2>1 DEF TypingGoesToHighlight
<1>4. TopmostGetsKeys
  <2>1. SUFFICES ASSUME NEW w \in open, Layers(win[w]) # {}
                 PROVE  \E l \in Layers(win[w]) : /\ l[2] = KeyTarget(win[w])
                                                  /\ \A o \in Layers(win[w]) : o[1] <= l[1]
    BY DEF TopmostGetsKeys
  <2> DEFINE r == win[w]
             L == Layers(r)
  <2>2. r.dialog \in BOOLEAN /\ r.modal.open \in BOOLEAN /\ r.palette.open \in BOOLEAN
    BY <1>1, WorkspaceParts, ModalParts, PaletteParts
  <2>3. /\ (<<1, "palette">> \in L <=> r.palette.open)
        /\ (<<3, "modal">> \in L <=> r.modal.open)
        /\ (<<5, "dialog">> \in L <=> r.dialog)
        /\ \A o \in L : o \in {<<1, "palette">>, <<3, "modal">>, <<5, "dialog">>}
    BY <2>2 DEF Layers
  <2>4. CASE r.dialog
    <3>1. KeyTarget(r) = "dialog"
      BY <2>4 DEF KeyTarget
    <3> HIDE DEF L
    <3>2. \A o \in L : o[1] <= 5
      BY <2>3
    <3>3. <<5, "dialog">>[1] = 5 /\ <<5, "dialog">>[2] = "dialog" /\ <<5, "dialog">> \in L
      BY <2>3, <2>4
    <3>4. QED BY <3>1, <3>2, <3>3 DEF L
  <2>5. CASE ~r.dialog /\ r.modal.open
    <3>1. KeyTarget(r) = "modal"
      BY <2>5 DEF KeyTarget
    <3> HIDE DEF L
    <3>2. \A o \in L : o[1] <= 3
      BY <2>3, <2>5
    <3>3. <<3, "modal">>[1] = 3 /\ <<3, "modal">>[2] = "modal" /\ <<3, "modal">> \in L
      BY <2>3, <2>5
    <3>4. QED BY <3>1, <3>2, <3>3 DEF L
  <2>6. CASE ~r.dialog /\ ~r.modal.open
    <3>0. r.palette.open
      <4> HIDE DEF L
      <4>1. L # {}
        BY <2>1 DEF L
      <4>2. QED BY <2>3, <2>6, <4>1
    <3>1. KeyTarget(r) = "palette"
      BY <2>6, <3>0 DEF KeyTarget
    <3> HIDE DEF L
    <3>2. \A o \in L : o[1] <= 1
      BY <2>3, <2>6
    <3>3. <<1, "palette">>[1] = 1 /\ <<1, "palette">>[2] = "palette" /\ <<1, "palette">> \in L
      BY <2>3, <3>0
    <3>4. QED BY <3>1, <3>2, <3>3 DEF L
  <2>7. QED BY <2>4, <2>5, <2>6
<1>5. QED BY <1>2, <1>3, <1>4 DEF DialogSafe

LEMMA InvGivesPalette == ASSUME ShellInv PROVE PaletteSound
<1>1. ASSUME NEW w \in open PROVE win[w] \in Workspaces
  BY DEF ShellInv, RegistryInv, WindowsInv
<1>2. PaletteCaretInQuery
  <2>1. ASSUME NEW w \in open
        PROVE  win[w].palette.ed.anchor <= Len(win[w].palette.query)
               /\ win[w].palette.ed.focus <= Len(win[w].palette.query)
    BY <1>1, PaletteParts DEF Inside
  <2>2. QED BY <2>1 DEF PaletteCaretInQuery
<1>3. PaletteListsMatches
  <2>1. ASSUME NEW w \in open
        PROVE  ToSet(Items(win[w])) = {a \in ToSet(AllItems(win[w])) : Listed(a, win[w].palette.query)}
    <3>1. win[w].palette.query \in Seq(Chars)
      BY <1>1, PaletteParts
    <3>2. QED BY <3>1, ItemsIs
  <2>2. QED BY <2>1 DEF PaletteListsMatches, Listed
<1>4. PagingMoves
  <2>1. ASSUME NEW w \in open, NEW i \in 0 .. Len(Items(win[w])) - 1
        PROVE  LET n == Len(Items(win[w]))
                   rows == Rows(win[w], Items(win[w]))
               IN  /\ PageDown(rows, i) \in (IF i = n - 1 THEN {i} ELSE (i + 1) .. (n - 1))
                   /\ PageUp(rows, i) \in (IF i = 0 THEN {i} ELSE 0 .. (i - 1))
    <3> DEFINE items == Items(win[w])
               n == Len(items)
               rows == Rows(win[w], items)
    <3>1. win[w].palette.query \in Seq(Chars)
      BY <1>1, PaletteParts
    <3>2. items \in Seq(Entries)
      BY <3>1, ItemsIs
    <3> HIDE DEF items
    <3>3. n \in Nat /\ rows \in Seq(Int) /\ ItemRows(rows, n)
      BY <3>2, RowsIs, LenProperties
    <3>4. i \in 0 .. n - 1
      BY DEF items
    <3> HIDE DEF n, rows
    <3>5. /\ PageDown(rows, i) \in (IF i = n - 1 THEN {i} ELSE (i + 1) .. (n - 1))
          /\ PageUp(rows, i) \in (IF i = 0 THEN {i} ELSE 0 .. (i - 1))
      BY <3>3, <3>4, PagesMove
    <3>6. QED BY <3>5 DEF n, rows, items
  <2>2. QED BY <2>1 DEF PagingMoves
<1>5. QED BY <1>2, <1>3, <1>4 DEF PaletteSound

-----------------------------------------------------------------------------
(***************************************************************************)
(* The start, and how a step keeps each part of the invariant.             *)
(***************************************************************************)

LEMMA KeymapFollowsBinds ==
  ASSUME NEW c, NEW d, c.binds = d.binds
  PROVE  EffectiveKeymap(c) = EffectiveKeymap(d)
BY DEF EffectiveKeymap

LEMMA FreshIs ==
  /\ FreshWindow \in Workspaces
  /\ [FreshWindow EXCEPT !.surface = "closed"] \in Workspaces
<1>1. ClosedPalette \in Palettes /\ ClosedModal \in Modals /\ Caret(0) \in Carets
  BY ClosedPaletteIs, ClosedModalIs, CaretIs
<1>2. DefaultConfig \in Config /\ NoField \in 0 .. NoField
  BY ConfigsTyped DEF NoField
<1>3. FreshWindow \in Workspaces
  BY <1>1, <1>2 DEF FreshWindow, Workspaces, VaultStates, UpdateStates
<1>4. [FreshWindow EXCEPT !.surface = "closed"] \in Workspaces
  BY <1>3 DEF Workspaces
<1>5. QED BY <1>3, <1>4

LEMMA InitEstablishes == ASSUME Init PROVE ShellInv
<1> USE DEF Init
<1>1. RegistryInv
  <2>1. <<>> \in Seq(Windows) /\ ToSet(<<>>) = {} /\ Distinct(<<>>)
    BY EmptySeq DEF ToSet, Distinct
  <2>2. IsFiniteSet({}) /\ Cardinality({}) = 0
    BY FS_EmptySet
  <2>3. open = {} /\ ordered = <<>> /\ count = 0 /\ failed = 0 /\ app = "shown" /\ quitting = FALSE /\ events = 0
    OBVIOUS
  <2>4. IsFiniteSet(open) /\ Cardinality(open) = 0 /\ Distinct(ordered) /\ ToSet(ordered) = open
    BY <2>1, <2>2, <2>3
  <2> HIDE DEF Init
  <2>5. count = Cardinality(open) + failed
    BY <2>3, <2>4
  <2>6. open \subseteq Windows /\ ordered \in Seq(Windows) /\ failed \in Nat /\ events \in Nat
        /\ app \in {"shown", "hidden", "quit"} /\ quitting \in BOOLEAN
    BY <2>1, <2>3
  <2>7. QED BY <2>4, <2>5, <2>6 DEF RegistryInv
<1>2. JoinInv
  BY DEF JoinInv
<1>3. store \in Config /\ store.binds = FileConfig.binds /\ store.auto = (scope.kind = "updates")
  <2>1. (scope.kind = "updates") \in BOOLEAN /\ FileConfig \in Config
    BY ConfigsTyped
  <2>2. store = [FileConfig EXCEPT !.auto = (scope.kind = "updates")]
    OBVIOUS
  <2>3. QED BY <2>1, <2>2 DEF Config
<1>4. ConfigInv
  <2>1. keymap = EffectiveKeymap(store)
    BY <1>3, KeymapFollowsBinds
  <2>2. QED BY <1>3, <2>1 DEF ConfigInv
<1>5. VaultInv
  BY ScopesAssumption DEF VaultInv
<1>6. WindowsInv
  BY FreshIs DEF WindowsInv
<1>7. UTypeOK
  <2>1. store.auto \in BOOLEAN
    BY <1>3
  <2>2. UInit(store.auto, IF scope.kind = "typing" THEN "available" ELSE "idle")
    OBVIOUS
  <2> DEFINE s == IF scope.kind = "typing" THEN "available" ELSE "idle"
  <2>3. s \in UpdateStates
    BY DEF UpdateStates
  <2> HIDE DEF s, Init
  <2>4. jobs \in [Jobs -> [kind : {"none", "check", "silent", "install"}, step : 0 .. 3]]
    BY <2>2 DEF UInit, IdleJob
  <2>5. QED BY <2>2, <2>3, <2>4 DEF UInit, UTypeOK, s
<1>8. QED BY <1>1, <1>2, <1>4, <1>5, <1>6, <1>7 DEF ShellInv

LEMMA RegistryKept ==
  ASSUME RegistryInv, UNCHANGED <<open, count, failed>>,
         NEW w \in open, ordered' \in {ordered, Promoted(ordered, w)},
         app' \in {"shown", "hidden", "quit"}, quitting' \in BOOLEAN, events' \in Nat
  PROVE  RegistryInv'
<1>1. w \in Windows /\ ordered \in Seq(Windows) /\ Distinct(ordered) /\ ToSet(ordered) = open
  BY DEF RegistryInv
<1>2. /\ Promoted(ordered, w) \in Seq(Windows) /\ ToSet(Promoted(ordered, w)) = open
      /\ Distinct(Promoted(ordered, w))
  <2>1. /\ Promoted(ordered, w) \in Seq(Windows) /\ ToSet(Promoted(ordered, w)) = ToSet(ordered) \cup {w}
        /\ Distinct(ordered) => Distinct(Promoted(ordered, w))
    BY <1>1, PromotedIs
  <2>2. open \cup {w} = open
    OBVIOUS
  <2>3. QED BY <1>1, <2>1, <2>2
<1>3. ordered' \in Seq(Windows) /\ Distinct(ordered') /\ ToSet(ordered') = open
  BY <1>1, <1>2
<1>4. Distinct(ordered)' /\ ToSet(ordered)' = open
  BY <1>3 DEF Distinct, ToSet
<1>5. open' = open /\ IsFiniteSet(open)' /\ Cardinality(open)' = Cardinality(open)
  BY DEF RegistryInv
<1>6. failed' \in Nat /\ count' = Cardinality(open') + failed'
  BY <1>5 DEF RegistryInv
<1>7. open' \subseteq Windows
  BY <1>5 DEF RegistryInv
<1>8. QED BY <1>3, <1>4, <1>5, <1>6, <1>7 DEF RegistryInv

LEMMA RegistrySame ==
  ASSUME RegistryInv, UNCHANGED <<open, ordered, count, failed>>,
         app' \in {"shown", "hidden", "quit"}, quitting' \in BOOLEAN, events' \in Nat
  PROVE  RegistryInv'
BY DEF RegistryInv, Distinct, ToSet

\* A saved change of the settings.
ConfigChange == (\E c \in Config : UpdateConfig(c)) \/ ResetConfig

LEMMA ConfigKept ==
  ASSUME ConfigInv, open \subseteq Windows, UNCHANGED open, UNCHANGED cvars \/ ConfigChange,
         \A w \in open : win'[w].cfg = win[w].cfg
  PROVE  ConfigInv'
<1>1. CASE UNCHANGED cvars
  BY <1>1 DEF ConfigInv, cvars
<1>2. ASSUME NEW c \in Config, store' = c, policy' = PolicyOf(c), PublishConfig(c), UNCHANGED keymap
      PROVE  ConfigInv'
  <2>1. /\ cq' = [w \in Windows |-> IF w \in open THEN c ELSE cq[w]] /\ kq' = c
        /\ c # NoConfig
    BY <1>2, ConfigsTyped DEF PublishConfig
  <2>2. cq' \in [Windows -> {NoConfig, c}] /\ \A w \in Windows \ open : cq'[w] = NoConfig
    BY <2>1 DEF ConfigInv
  <2>3. \A w \in open : cq'[w] # NoConfig
    BY <2>1
  <2>4. QED BY <1>2, <2>1, <2>2, <2>3 DEF ConfigInv
<1>3. CASE \E c \in Config : UpdateConfig(c)
  <2>1. PICK c \in Config : UpdateConfig(c)
    BY <1>3
  <2>2. QED BY <1>1, <1>2, <2>1 DEF UpdateConfig
<1>4. CASE ResetConfig
  BY <1>1, <1>2, <1>4, ConfigsTyped DEF ResetConfig
<1>5. QED BY <1>1, <1>3, <1>4 DEF ConfigChange

LEMMA VaultKept ==
  ASSUME VaultInv, UNCHANGED open, UNCHANGED vvars, \A w \in open : win'[w].seen = win[w].seen
  PROVE  VaultInv'
BY DEF VaultInv, vvars

LEMMA VaultSet ==
  ASSUME VaultInv, open \subseteq Windows, UNCHANGED open, NEW w \in open, NEW v \in VaultStates, SetVault(v),
         win'[w].seen = v, \A x \in open \ {w} : win'[x].seen = win[x].seen
  PROVE  VaultInv'
<1>1. vault' = v /\ vq' = [x \in Windows |-> vq[x] \/ (x \in open /\ v # vault)]
  BY DEF SetVault
<1>2. vq' \in [Windows -> BOOLEAN]
  BY <1>1 DEF VaultInv
<1>3. ASSUME NEW x \in open, ~vq'[x] PROVE win'[x].seen = v
  <2>1. CASE x = w
    BY <2>1
  <2>2. CASE x # w
    <3>1. ~vq[x] /\ v = vault
      BY <1>1, <1>3
    <3>2. QED BY <2>2, <3>1 DEF VaultInv
  <2>3. QED BY <2>1, <2>2
<1>4. QED BY <1>1, <1>2, <1>3 DEF VaultInv

LEMMA OneWindow ==
  ASSUME WindowsInv, NEW w \in Windows, NEW r \in Workspaces, win' = [win EXCEPT ![w] = r]
  PROVE  WindowsInv' /\ win'[w] = r /\ \A x \in Windows : x # w => win'[x] = win[x]
BY DEF WindowsInv

\* A step of one window that may change the settings, the vault and the updater.
LEMMA WindowStep ==
  ASSUME ShellInv, NEW w \in open, NEW r \in Workspaces, r.cfg = win[w].cfg, win' = [win EXCEPT ![w] = r],
         UNCHANGED <<open, count, failed, app, quitting, joining>>,
         ordered' \in {ordered, Promoted(ordered, w)}, events' \in Nat,
         UNCHANGED cvars \/ ConfigChange,
         (UNCHANGED vvars /\ r.seen = win[w].seen) \/ (\E v \in VaultStates : SetVault(v) /\ r.seen = v),
         UTypeOK'
  PROVE  ShellInv'
<1>1. RegistryInv /\ JoinInv /\ ConfigInv /\ VaultInv /\ WindowsInv /\ open \subseteq Windows /\ w \in Windows
  BY DEF ShellInv, RegistryInv
<1>2. WindowsInv' /\ win'[w] = r /\ \A x \in Windows : x # w => win'[x] = win[x]
  BY <1>1, OneWindow
<1>3. RegistryInv'
  BY <1>1, RegistryKept DEF RegistryInv
<1>4. JoinInv'
  BY <1>1 DEF JoinInv
<1>5. \A x \in open : win'[x].cfg = win[x].cfg
  BY <1>1, <1>2
<1>6. ConfigInv'
  BY <1>1, <1>5, ConfigKept
<1>7. VaultInv'
  <2>1. CASE UNCHANGED vvars /\ r.seen = win[w].seen
    <3>1. \A x \in open : win'[x].seen = win[x].seen
      BY <1>1, <1>2, <2>1
    <3>2. QED BY <1>1, <2>1, <3>1, VaultKept
  <2>2. CASE \E v \in VaultStates : SetVault(v) /\ r.seen = v
    <3>1. PICK v \in VaultStates : SetVault(v) /\ r.seen = v
      BY <2>2
    <3>2. win'[w].seen = v /\ \A x \in open \ {w} : win'[x].seen = win[x].seen
      BY <1>1, <1>2, <3>1
    <3>3. QED BY <1>1, <3>1, <3>2, VaultSet
  <2>3. QED BY <2>1, <2>2
<1>8. QED BY <1>2, <1>3, <1>4, <1>6, <1>7 DEF ShellInv

LEMMA UpdaterSame == ASSUME UTypeOK, UNCHANGED uvars PROVE UTypeOK'
BY DEF UTypeOK, uvars

\* A change of one window alone.
LEMMA EditStep ==
  ASSUME ShellInv, NEW w \in open, NEW r, r \in Edits(win[w]), Local(w, r), events' \in Nat
  PROVE  ShellInv'
<1>1. r \in Workspaces /\ r.cfg = win[w].cfg /\ r.seen = win[w].seen
  BY DEF Edits
<1>2. win' = [win EXCEPT ![w] = r] /\ UNCHANGED <<avars, cvars, vvars, uvars>>
  BY DEF Local
<1>3. UTypeOK'
  BY <1>2, UpdaterSame DEF ShellInv
<1>4. UNCHANGED <<open, count, failed, app, quitting, joining>> /\ ordered' \in {ordered, Promoted(ordered, w)}
  BY <1>2 DEF avars
<1>5. QED BY <1>1, <1>2, <1>3, <1>4, WindowStep

LEMMA UpdaterTyped ==
  ASSUME UTypeOK
  PROVE  /\ ustate \in UpdateStates
         /\ pend \in [Threads -> UpdateStates \cup {Nothing}]
         /\ jobs \in [Jobs -> [kind : {"none", "check", "silent", "install"}, step : 0 .. 3]]
         /\ subs \in SUBSET Windows /\ missed \in SUBSET Windows
         /\ uq \in [Windows -> UpdateStates \cup {Nothing}]
BY DEF UTypeOK

LEMMA StartSound ==
  ASSUME UTypeOK, NEW kind \in {"check", "silent", "install"}, StartJob(kind)
  PROVE  UTypeOK'
<1>1. PICK j \in Jobs : jobs' = [jobs EXCEPT ![j] = [kind |-> kind, step |-> 0]]
  BY DEF StartJob, FreeJobs
<1>2. [kind |-> kind, step |-> 0] \in [kind : {"none", "check", "silent", "install"}, step : 0 .. 3]
  OBVIOUS
<1>3. jobs' \in [Jobs -> [kind : {"none", "check", "silent", "install"}, step : 0 .. 3]]
  BY <1>1, <1>2, UpdaterTyped
<1>4. QED BY <1>3 DEF StartJob, UTypeOK

LEMMA StoreSound ==
  ASSUME UTypeOK, NEW t \in Threads, NEW s \in UpdateStates, Store(t, s), UNCHANGED <<subs, uq, missed>>,
         jobs' \in [Jobs -> [kind : {"none", "check", "silent", "install"}, step : 0 .. 3]]
  PROVE  UTypeOK'
<1>1. ustate' \in UpdateStates /\ pend' \in [Threads -> UpdateStates \cup {Nothing}]
  BY UpdaterTyped DEF Store
<1>2. QED BY <1>1 DEF UTypeOK

LEMMA ButtonSound ==
  ASSUME UTypeOK, InstallUpdate \/ DismissUpdate
  PROVE  UTypeOK'
<1>1. UiThread \in Threads /\ "idle" \in UpdateStates /\ "failed" \in UpdateStates
  BY DEF Threads, UpdateStates
<1>2. CASE DismissUpdate
  BY <1>1, <1>2, StoreSound, UpdaterTyped DEF DismissUpdate
<1>3. CASE InstallUpdate
  <2>1. CASE ustate = "available"
    BY <1>3, <2>1, StartSound DEF InstallUpdate
  <2>2. CASE ustate = "ready"
    BY <1>3, <2>2, UpdaterSame DEF InstallUpdate
  <2>3. CASE ustate \notin {"available", "ready"}
    <3>1. Store(UiThread, "failed") /\ UNCHANGED <<jobs, subs, uq, missed>>
      BY <1>3, <2>3 DEF InstallUpdate
    <3>2. QED BY <1>1, <3>1, StoreSound, UpdaterTyped
  <2>4. QED BY <2>1, <2>2, <2>3
<1>4. QED BY <1>2, <1>3

LEMMA AdvanceSound ==
  ASSUME UTypeOK, NEW j \in Jobs, NEW s \in UpdateStates, NEW n \in 0 .. 3, Advance(j, s, n)
  PROVE  UTypeOK'
<1>1. j \in Threads
  BY DEF Threads
<1>2. Store(j, s) /\ UNCHANGED <<subs, uq, missed>>
  BY DEF Advance
<1> DEFINE x == IF n = 0 THEN IdleJob ELSE [jobs[j] EXCEPT !.step = n]
<1>3. x \in [kind : {"none", "check", "silent", "install"}, step : 0 .. 3]
  BY UpdaterTyped DEF IdleJob
<1>4. jobs' = [jobs EXCEPT ![j] = x]
  BY DEF Advance
<1> HIDE DEF x
<1>5. jobs' \in [Jobs -> [kind : {"none", "check", "silent", "install"}, step : 0 .. 3]]
  BY <1>3, <1>4, UpdaterTyped
<1>6. QED BY <1>1, <1>2, <1>5, StoreSound

LEMMA ThreadSound ==
  ASSUME UTypeOK, NEW j \in Jobs, CheckStep(j) \/ InstallStep(j)
  PROVE  UTypeOK'
<1>1. {"checking", "downloading", "installing", "failed", "ready", "uptodate", "available", "idle"}
        \subseteq UpdateStates
  BY DEF UpdateStates
<1>2. {0, 1, 2, 3} \subseteq 0 .. 3
  OBVIOUS
<1>3. CASE CheckStep(j)
  <2>1. CASE Advance(j, "checking", 1)
    BY <1>1, <1>2, <2>1, AdvanceSound
  <2>2. CASE \E s \in CheckResults(jobs[j].kind) : Advance(j, s, 0)
    <3>1. PICK s \in CheckResults(jobs[j].kind) : Advance(j, s, 0)
      BY <2>2
    <3>2. s \in UpdateStates
      BY <1>1 DEF CheckResults
    <3>3. QED BY <1>2, <3>1, <3>2, AdvanceSound
  <2>3. QED BY <1>3, <2>1, <2>2 DEF CheckStep
<1>4. CASE InstallStep(j)
  <2>1. CASE Advance(j, "downloading", 1)
    BY <1>1, <1>2, <2>1, AdvanceSound
  <2>2. CASE Advance(j, "installing", 2)
    BY <1>1, <1>2, <2>2, AdvanceSound
  <2>3. CASE Advance(j, "failed", 0)
    BY <1>1, <1>2, <2>3, AdvanceSound
  <2>4. CASE Advance(j, "ready", 3)
    BY <1>1, <1>2, <2>4, AdvanceSound
  <2>5. CASE Advance(j, "ready", 0)
    BY <1>1, <1>2, <2>5, AdvanceSound
  <2>6. CASE jobs' = [jobs EXCEPT ![j] = IdleJob] /\ UNCHANGED <<ustate, pend, subs, uq, missed>>
    <3>1. IdleJob \in [kind : {"none", "check", "silent", "install"}, step : 0 .. 3]
      BY DEF IdleJob
    <3>2. jobs' \in [Jobs -> [kind : {"none", "check", "silent", "install"}, step : 0 .. 3]]
      BY <2>6, <3>1, UpdaterTyped
    <3>3. QED BY <2>6, <3>2 DEF UTypeOK
  <2>7. QED BY <1>4, <2>1, <2>2, <2>3, <2>4, <2>5, <2>6 DEF InstallStep
<1>5. QED BY <1>3, <1>4

LEMMA SendSound ==
  ASSUME UTypeOK, NEW t \in Threads, NEW passed \in SUBSET Windows, Send(t, passed)
  PROVE  UTypeOK'
<1>1. pend' \in [Threads -> UpdateStates \cup {Nothing}]
  BY UpdaterTyped DEF Send
<1>2. uq' \in [Windows -> UpdateStates \cup {Nothing}]
  <2>1. pend[t] \in UpdateStates \cup {Nothing}
    BY UpdaterTyped
  <2>2. QED BY <2>1, UpdaterTyped DEF Send
<1>3. missed' \subseteq Windows
  BY UpdaterTyped DEF Send
<1>4. QED BY <1>1, <1>2, <1>3 DEF Send, UTypeOK

-----------------------------------------------------------------------------
(***************************************************************************)
(* The handlers of a window.                                               *)
(***************************************************************************)

LEMMA EventIs ==
  ASSUME ShellInv, NEW kinds, Event(kinds)
  PROVE  events' \in Nat /\ joining = NoWindow
BY DEF ShellInv, RegistryInv, Event, UiIdle

LEMMA OpenIs ==
  ASSUME ShellInv, NEW w \in open
  PROVE  w \in Windows /\ win[w] \in Workspaces /\ vault \in VaultStates
BY DEF ShellInv, RegistryInv, WindowsInv, VaultInv

\* A command's effect on the rest, with its window's.
LEMMA CommandStep ==
  ASSUME ShellInv, NEW w \in open, NEW c, NEW r \in Workspaces, r.cfg = win[w].cfg,
         r.seen = IF c = "lock" THEN LockedVault(win[w]) ELSE win[w].seen,
         win' = [win EXCEPT ![w] = r], GlobalEffect(c, w),
         UNCHANGED <<open, count, failed, app, quitting, joining>>,
         ordered' \in {ordered, Promoted(ordered, w)}, events' \in Nat
  PROVE  ShellInv'
<1>1. UTypeOK /\ store \in Config
  BY DEF ShellInv, ConfigInv
<1>2. CASE c = "check"
  <2>1. StartJob("check") /\ UNCHANGED <<cvars, vvars>>
    BY <1>2 DEF GlobalEffect
  <2>2. UTypeOK'
    BY <1>1, <2>1, StartSound
  <2>3. r.seen = win[w].seen
    BY <1>2
  <2>4. QED BY <2>1, <2>2, <2>3, WindowStep
<1>3. CASE c = "install"
  <2>1. InstallUpdate /\ UNCHANGED <<cvars, vvars>>
    BY <1>3 DEF GlobalEffect
  <2>2. UTypeOK'
    BY <1>1, <2>1, ButtonSound
  <2>3. r.seen = win[w].seen
    BY <1>3
  <2>4. QED BY <2>1, <2>2, <2>3, WindowStep
<1>4. CASE c = "theme"
  <2>1. (\E t \in Themes : UpdateConfig([store EXCEPT !.theme = t])) /\ UNCHANGED <<uvars, vvars>>
    BY <1>4 DEF GlobalEffect
  <2>2. \A t \in Themes : [store EXCEPT !.theme = t] \in Config
    BY <1>1 DEF Config
  <2>3. ConfigChange
    BY <2>1, <2>2 DEF ConfigChange
  <2>4. UTypeOK'
    BY <1>1, <2>1, UpdaterSame
  <2>5. r.seen = win[w].seen
    BY <1>4
  <2>6. QED BY <2>1, <2>3, <2>4, <2>5, WindowStep
<1>5. CASE c = "lock"
  <2>1. SetVault(LockedVault(win[w])) /\ UNCHANGED <<uvars, cvars>> /\ r.seen = LockedVault(win[w])
    BY <1>5 DEF GlobalEffect
  <2>2. UTypeOK'
    BY <1>1, <2>1, UpdaterSame
  <2>3. LockedVault(win[w]) \in VaultStates
    BY OpenIs, LocalEffectIs
  <2>4. \E v \in VaultStates : SetVault(v) /\ r.seen = v
    BY <2>1, <2>3
  <2>5. QED BY <2>1, <2>2, <2>4, WindowStep
<1>6. CASE c \notin {"check", "install", "theme", "lock"}
  <2>1. UNCHANGED <<uvars, cvars, vvars>>
    BY <1>6 DEF GlobalEffect
  <2>2. UTypeOK'
    BY <1>1, <2>1, UpdaterSame
  <2>3. r.seen = win[w].seen
    BY <1>6
  <2>4. QED BY <2>1, <2>2, <2>3, WindowStep
<1>7. QED BY <1>2, <1>3, <1>4, <1>5, <1>6

LEMMA WindowCommandSound ==
  ASSUME ShellInv, NEW w \in Windows, NEW c, WindowCommand(w, c)
  PROVE  ShellInv'
<1> DEFINE r == LocalEffect(c, win[w], FALSE)
<1>1. /\ w \in open /\ ordered' \in {ordered, Promoted(ordered, w)}
      /\ win' = [win EXCEPT ![w] = r] /\ GlobalEffect(c, w)
      /\ UNCHANGED <<open, count, failed, app, quitting, joining>>
  BY DEF WindowCommand
<1>2. events' \in Nat
  BY EventIs DEF WindowCommand
<1>3. /\ r \in Workspaces /\ r.cfg = win[w].cfg
      /\ r.seen = IF c = "lock" THEN LockedVault(win[w]) ELSE win[w].seen
  BY <1>1, OpenIs, LocalEffectIs
<1> HIDE DEF r
<1>4. QED BY <1>1, <1>2, <1>3, CommandStep

LEMMA ExecuteSound ==
  ASSUME ShellInv, NEW w \in open, NEW c, NEW device \in BOOLEAN, Execute(w, c, device), events' \in Nat
  PROVE  ShellInv'
<1> DEFINE l == LocalEffect(c, win[w], device)
           p == Closed(l.palette)
           r == [l EXCEPT !.palette = p]
<1>1. win' = [win EXCEPT ![w] = r] /\ GlobalEffect(c, w) /\ UNCHANGED avars
  BY DEF Execute
<1>2. /\ l \in Workspaces /\ l.cfg = win[w].cfg
      /\ l.seen = IF c = "lock" THEN LockedVault(win[w]) ELSE win[w].seen
  <2>1. win[w] \in Workspaces /\ vault \in VaultStates
    BY OpenIs
  <2>2. QED BY <2>1, LocalEffectIs
<1> HIDE DEF l
<1>3. p \in Palettes
  BY ClosedPaletteIs DEF Closed
<1> HIDE DEF p
<1>4. r \in Edits(l)
  BY <1>2, <1>3, WithPalette
<1> HIDE DEF r
<1>5. /\ r \in Workspaces /\ r.cfg = win[w].cfg
      /\ r.seen = IF c = "lock" THEN LockedVault(win[w]) ELSE win[w].seen
  BY <1>2, <1>4 DEF Edits
<1>6. UNCHANGED <<open, count, failed, app, quitting, joining>> /\ ordered' \in {ordered, Promoted(ordered, w)}
  BY <1>1 DEF avars
<1>7. QED BY <1>1, <1>5, <1>6, CommandStep

\* A step that changes the vault and its window's view of it.
LEMMA VaultStep ==
  ASSUME ShellInv, NEW w \in open, NEW r \in Workspaces, r.cfg = win[w].cfg, win' = [win EXCEPT ![w] = r],
         NEW v \in VaultStates, SetVault(v), r.seen = v, UNCHANGED <<avars, cvars, uvars>>, events' \in Nat
  PROVE  ShellInv'
<1>1. UTypeOK'
  BY UpdaterSame DEF ShellInv
<1>2. UNCHANGED <<open, count, failed, app, quitting, joining>> /\ ordered' \in {ordered, Promoted(ordered, w)}
  BY DEF avars
<1>3. \E x \in VaultStates : SetVault(x) /\ r.seen = x
  OBVIOUS
<1>4. UNCHANGED cvars
  OBVIOUS
<1>5. QED BY <1>1, <1>2, <1>3, <1>4, WindowStep

-----------------------------------------------------------------------------
(***************************************************************************)
(* The windows come and go.                                                *)
(***************************************************************************)

LEMMA OpenedIs ==
  ASSUME ShellInv
  PROVE  OpenedWindow \in Workspaces /\ OpenedWindow.cfg = store /\ OpenedWindow.seen = vault
<1>1. store \in Config /\ vault \in VaultStates /\ ustate \in UpdateStates
  BY UpdaterTyped DEF ShellInv, ConfigInv, VaultInv
<1> DEFINE m == NewModal(vault)
<1>2. m \in Modals
  BY <1>1, NewModalIs
<1>3. OpenedWindow = [FreshWindow EXCEPT !.cfg = store, !.seen = vault, !.upd = ustate, !.modal = m]
  BY DEF OpenedWindow
<1> HIDE DEF m
<1>4. QED BY <1>1, <1>2, <1>3, FreshIs DEF Workspaces

LEMMA OpenWindowSound ==
  ASSUME ShellInv, NEW w \in Windows, NEW a \in FirstActions, OpenWindow(w, a)
  PROVE  ShellInv'
<1>1. /\ w \notin open /\ events' \in Nat
      /\ count' = count + 1 /\ open' = open \cup {w} /\ ordered' = Promoted(ordered, w)
      /\ joining' = [w |-> w, action |-> a] /\ app' = "shown" /\ win' = [win EXCEPT ![w] = OpenedWindow]
      /\ UNCHANGED <<failed, quitting, vvars, cvars, uvars>>
  BY DEF OpenWindow, ShellInv, RegistryInv
<1>2. RegistryInv /\ ConfigInv /\ VaultInv /\ WindowsInv /\ UTypeOK
  BY DEF ShellInv
<1>3. OpenedWindow \in Workspaces /\ OpenedWindow.cfg = store /\ OpenedWindow.seen = vault
  BY OpenedIs
<1>4. WindowsInv' /\ win'[w] = OpenedWindow /\ \A x \in Windows : x # w => win'[x] = win[x]
  BY <1>1, <1>2, <1>3, OneWindow
<1>5. RegistryInv'
  <2>1. ordered \in Seq(Windows) /\ Distinct(ordered) /\ ToSet(ordered) = open /\ open \subseteq Windows
    BY <1>2 DEF RegistryInv
  <2>2. /\ Promoted(ordered, w) \in Seq(Windows) /\ ToSet(Promoted(ordered, w)) = open \cup {w}
        /\ Distinct(Promoted(ordered, w))
    BY <2>1, PromotedIs
  <2>3. ordered' \in Seq(Windows) /\ Distinct(ordered') /\ ToSet(ordered') = open'
    BY <1>1, <2>2
  <2>4. Distinct(ordered)' /\ ToSet(ordered)' = open'
    BY <2>3 DEF Distinct, ToSet
  <2>5. IsFiniteSet(open) /\ Cardinality(open) \in Nat
    BY <1>2, FS_CardinalityType DEF RegistryInv
  <2>6. IsFiniteSet(open \cup {w}) /\ Cardinality(open \cup {w}) = Cardinality(open) + 1
    BY <1>1, <2>5, FS_AddElement
  <2>7. IsFiniteSet(open)' /\ Cardinality(open)' = Cardinality(open) + 1
    BY <1>1, <2>6
  <2>8. failed' \in Nat /\ count' = Cardinality(open)' + failed'
    BY <1>1, <1>2, <2>5, <2>7 DEF RegistryInv
  <2>9. app' \in {"shown", "hidden", "quit"} /\ quitting' \in BOOLEAN /\ open' \subseteq Windows
    BY <1>1, <1>2, <2>1 DEF RegistryInv
  <2>10. QED BY <1>1, <2>3, <2>4, <2>7, <2>8, <2>9 DEF RegistryInv
<1>6. JoinInv'
  BY <1>1 DEF JoinInv, FirstActions
<1>7. ConfigInv'
  <2>1. UNCHANGED <<store, policy, cq, keymap, kq>> /\ open' = open \cup {w}
    BY <1>1 DEF cvars
  <2>2. \A x \in open' : cq'[x] = NoConfig => win'[x].cfg = store'
    <3>1. ASSUME NEW x \in open', cq'[x] = NoConfig PROVE win'[x].cfg = store
      <4>1. CASE x = w
        BY <1>3, <1>4, <4>1
      <4>2. CASE x # w
        <5>1. x \in open /\ x \in Windows
          BY <1>2, <2>1, <4>2 DEF RegistryInv
        <5>2. win'[x] = win[x]
          BY <1>4, <4>2, <5>1
        <5>3. QED BY <1>2, <2>1, <3>1, <5>1, <5>2 DEF ConfigInv
      <4>3. QED BY <4>1, <4>2
    <3>2. QED BY <2>1, <3>1
  <2>3. QED BY <1>2, <2>1, <2>2 DEF ConfigInv
<1>8. VaultInv'
  <2>1. UNCHANGED <<vault, vq>> /\ open' = open \cup {w}
    BY <1>1 DEF vvars
  <2>2. ASSUME NEW x \in open', ~vq[x] PROVE win'[x].seen = vault
    <3>1. CASE x = w
      BY <1>3, <1>4, <3>1
    <3>2. CASE x # w
      <4>1. x \in open /\ x \in Windows
        BY <1>2, <2>1, <3>2 DEF RegistryInv
      <4>2. win'[x] = win[x]
        BY <1>4, <3>2, <4>1
      <4>3. QED BY <1>2, <2>2, <4>1, <4>2 DEF VaultInv
    <3>3. QED BY <3>1, <3>2
  <2>3. QED BY <1>2, <2>1, <2>2 DEF VaultInv
<1>9. UTypeOK'
  BY <1>1, <1>2, UpdaterSame
<1>10. QED BY <1>4, <1>5, <1>6, <1>7, <1>8, <1>9 DEF ShellInv

LEMMA OpenFailsSound == ASSUME ShellInv, OpenFails PROVE ShellInv'
<1>1. /\ count' = count + 1 /\ failed' = failed + 1 /\ events' \in Nat
      /\ UNCHANGED <<open, ordered, app, quitting, joining, cvars, vvars, win, uvars>>
  BY EventIs DEF OpenFails
<1>2. RegistryInv'
  <2>1. IsFiniteSet(open) /\ Cardinality(open) \in Nat
    BY FS_CardinalityType DEF ShellInv, RegistryInv
  <2>2. failed' \in Nat /\ count' = Cardinality(open)' + failed'
    BY <1>1, <2>1 DEF ShellInv, RegistryInv
  <2>3. Distinct(ordered)' /\ ToSet(ordered)' = open'
    BY <1>1 DEF ShellInv, RegistryInv, Distinct, ToSet
  <2>4. QED BY <1>1, <2>2, <2>3 DEF ShellInv, RegistryInv
<1>3. JoinInv' /\ VaultInv' /\ WindowsInv'
  BY <1>1 DEF ShellInv, JoinInv, VaultInv, vvars, WindowsInv
<1>4. ConfigInv'
  BY <1>1 DEF ShellInv, ConfigInv, cvars
<1>5. UTypeOK'
  BY <1>1, UpdaterSame DEF ShellInv
<1>6. QED BY <1>2, <1>3, <1>4, <1>5 DEF ShellInv

LEMMA JoinWindowSound == ASSUME ShellInv, JoinWindow PROVE ShellInv'
<1> DEFINE w == joining.w
           r == LocalEffect(joining.action, win[w], FALSE)
<1>1. /\ joining # NoWindow /\ joining' = NoWindow /\ subs' = subs \cup {w} /\ win' = [win EXCEPT ![w] = r]
      /\ UNCHANGED <<open, ordered, count, failed, app, quitting, cvars, vvars, events, ustate, pend, uq, missed>>
  BY DEF JoinWindow
<1>2. w \in open /\ joining.action # "lock"
  BY <1>1 DEF ShellInv, JoinInv
<1> HIDE DEF w
<1>3. w \in Windows /\ win[w] \in Workspaces /\ vault \in VaultStates
  BY <1>2, OpenIs
<1>4. r \in Workspaces /\ r.cfg = win[w].cfg /\ r.seen = win[w].seen
  BY <1>2, <1>3, LocalEffectIs
<1> HIDE DEF r
<1>5. WindowsInv' /\ win'[w] = r /\ \A x \in Windows : x # w => win'[x] = win[x]
  BY <1>1, <1>3, <1>4, OneWindow DEF ShellInv
<1>6. \A x \in open : win'[x].cfg = win[x].cfg /\ win'[x].seen = win[x].seen
  BY <1>4, <1>5 DEF ShellInv, RegistryInv
<1>7. RegistryInv'
  BY <1>1, RegistrySame DEF ShellInv, RegistryInv
<1>8. open \subseteq Windows
  BY DEF ShellInv, RegistryInv
<1>9. ConfigInv'
  BY <1>1, <1>6, <1>8, ConfigKept DEF ShellInv
<1>10. VaultInv'
  BY <1>1, <1>6, VaultKept DEF ShellInv
<1>11. JoinInv'
  BY <1>1 DEF JoinInv
<1>12. UTypeOK'
  <2>1. UTypeOK
    BY DEF ShellInv
  <2>2. jobs' \in [Jobs -> [kind : {"none", "check", "silent", "install"}, step : 0 .. 3]]
    <3>1. CASE UNCHANGED jobs
      BY <2>1, <3>1, UpdaterTyped
    <3>2. CASE \E j \in FreeJobs : jobs' = [jobs EXCEPT ![j] = [kind |-> "check", step |-> 0]]
      <4>1. PICK j \in FreeJobs : jobs' = [jobs EXCEPT ![j] = [kind |-> "check", step |-> 0]]
        BY <3>2
      <4>2. [kind |-> "check", step |-> 0] \in [kind : {"none", "check", "silent", "install"}, step : 0 .. 3]
        OBVIOUS
      <4>3. QED BY <2>1, <4>1, <4>2, UpdaterTyped
    <3>3. QED BY <3>1, <3>2 DEF JoinWindow
  <2>3. QED BY <1>1, <1>3, <2>1, <2>2 DEF UTypeOK
<1>13. QED BY <1>5, <1>7, <1>9, <1>10, <1>11, <1>12 DEF ShellInv

LEMMA CloseWindowSound == ASSUME ShellInv, NEW w \in Windows, CloseWindow(w) PROVE ShellInv'
<1> DEFINE closed == [FreshWindow EXCEPT !.surface = "closed"]
<1>1. /\ w \in open /\ events' \in Nat /\ joining = NoWindow
      /\ open' = open \ {w} /\ count' = (IF count = 0 THEN 0 ELSE count - 1)
      /\ ordered' = Retained(ordered, open') /\ app' \in {policy, app}
      /\ win' = [win EXCEPT ![w] = closed]
      /\ cq' = [cq EXCEPT ![w] = NoConfig] /\ vq' = [vq EXCEPT ![w] = FALSE]
      /\ uq' = [uq EXCEPT ![w] = Nothing] /\ subs' = subs \ {w} /\ missed' = missed \ {w}
      /\ UNCHANGED <<failed, quitting, joining, store, policy, keymap, kq, vault, ustate, pend, jobs>>
  BY EventIs DEF CloseWindow
<1>2. RegistryInv /\ ConfigInv /\ VaultInv /\ WindowsInv /\ UTypeOK
  BY DEF ShellInv
<1>3. closed \in Workspaces
  BY FreshIs
<1> HIDE DEF closed
<1>4. WindowsInv' /\ \A x \in Windows : x # w => win'[x] = win[x]
  BY <1>1, <1>2, <1>3, OneWindow
<1>5. \A x \in open' : x \in open /\ win'[x] = win[x] /\ x # w
  BY <1>1, <1>2, <1>4 DEF RegistryInv
<1>6. RegistryInv'
  <2>1. ordered \in Seq(Windows) /\ Distinct(ordered) /\ ToSet(ordered) = open /\ open \subseteq Windows
    BY <1>2 DEF RegistryInv
  <2>2. /\ ordered' \in Seq(Windows) /\ ToSet(ordered') = ToSet(ordered) \cap open'
        /\ Distinct(ordered')
    BY <1>1, <2>1, RetainedIs
  <2>3. ToSet(ordered') = open'
    BY <1>1, <2>1, <2>2
  <2>4. Distinct(ordered)' /\ ToSet(ordered)' = open'
    BY <2>2, <2>3 DEF Distinct, ToSet
  <2>5. IsFiniteSet(open) /\ Cardinality(open) \in Nat
    BY <1>2, FS_CardinalityType DEF RegistryInv
  <2>6. IsFiniteSet(open \ {w}) /\ Cardinality(open \ {w}) = Cardinality(open) - 1
    BY <1>1, <2>5, FS_RemoveElement
  <2>7. IsFiniteSet(open)' /\ Cardinality(open)' = Cardinality(open) - 1
    BY <1>1, <2>6
  <2>8. Cardinality(open) # 0
    <3>1. Cardinality(open \ {w}) \in Nat
      BY <2>6, FS_CardinalityType
    <3>2. QED BY <2>5, <2>6, <3>1
  <2>9. failed' \in Nat /\ count' = Cardinality(open)' + failed'
    BY <1>1, <1>2, <2>5, <2>7, <2>8 DEF RegistryInv
  <2>10. app' \in {"shown", "hidden", "quit"} /\ quitting' \in BOOLEAN
    BY <1>1, <1>2 DEF RegistryInv, ConfigInv, PolicyOf
  <2>11. open' \subseteq Windows
    BY <1>1, <2>1
  <2>12. QED BY <1>1, <2>2, <2>4, <2>7, <2>9, <2>10, <2>11 DEF RegistryInv
<1>7. JoinInv'
  BY <1>1 DEF JoinInv
<1>8. ConfigInv'
  <2>1. cq' \in [Windows -> {NoConfig, store}] /\ \A x \in Windows \ open' : cq'[x] = NoConfig
    BY <1>1, <1>2 DEF ConfigInv
  <2>2. \A x \in open' : cq'[x] = NoConfig => win'[x].cfg = store
    <3>1. \A x \in open' : cq'[x] = cq[x]
      BY <1>1, <1>2, <1>5 DEF ConfigInv, RegistryInv
    <3>2. QED BY <1>2, <1>5, <3>1 DEF ConfigInv
  <2>3. QED BY <1>1, <1>2, <2>1, <2>2 DEF ConfigInv
<1>9. VaultInv'
  <2>1. vq' \in [Windows -> BOOLEAN] /\ \A x \in open' : vq'[x] = vq[x]
    BY <1>1, <1>2, <1>5 DEF VaultInv, RegistryInv
  <2>2. QED BY <1>1, <1>2, <1>5, <2>1 DEF VaultInv
<1>10. UTypeOK'
  BY <1>1, <1>2 DEF UTypeOK
<1>11. QED BY <1>4, <1>6, <1>7, <1>8, <1>9, <1>10 DEF ShellInv

-----------------------------------------------------------------------------
(***************************************************************************)
(* The watchers and the updater's threads.                                 *)
(***************************************************************************)

LEMMA ApplyConfigSound == ASSUME ShellInv, NEW w \in Windows, ApplyConfig(w) PROVE ShellInv'
<1>1. /\ cq[w] # NoConfig /\ win' = [win EXCEPT ![w].cfg = cq[w]] /\ cq' = [cq EXCEPT ![w] = NoConfig]
      /\ UNCHANGED <<avars, store, policy, keymap, kq, vvars, events, uvars>>
  BY DEF ApplyConfig
<1>2. RegistryInv /\ ConfigInv /\ VaultInv /\ WindowsInv /\ UTypeOK /\ JoinInv
  BY DEF ShellInv
<1>3. cq[w] = store /\ w \in open /\ store \in Config
  BY <1>1, <1>2 DEF ConfigInv
<1> DEFINE r == [win[w] EXCEPT !.cfg = store]
<1>4. r \in Workspaces /\ r.cfg = store /\ r.seen = win[w].seen
  BY <1>2, <1>3 DEF WindowsInv, Workspaces
<1>5. win' = [win EXCEPT ![w] = r]
  BY <1>1, <1>3
<1> HIDE DEF r
<1>6. WindowsInv' /\ win'[w] = r /\ \A x \in Windows : x # w => win'[x] = win[x]
  BY <1>2, <1>4, <1>5, OneWindow
<1>7. UNCHANGED <<open, ordered, count, failed, app, quitting, joining>>
  BY <1>1 DEF avars
<1>8. RegistryInv' /\ JoinInv'
  <2>1. RegistryInv'
    BY <1>1, <1>2, <1>7, RegistrySame DEF RegistryInv
  <2>2. QED BY <1>2, <1>7, <2>1 DEF JoinInv
<1>9. ConfigInv'
  <2>1. cq' \in [Windows -> {NoConfig, store}] /\ \A x \in Windows \ open : cq'[x] = NoConfig
    BY <1>1, <1>2 DEF ConfigInv
  <2>2. \A x \in open : cq'[x] = NoConfig => win'[x].cfg = store
    <3>1. ASSUME NEW x \in open, cq'[x] = NoConfig PROVE win'[x].cfg = store
      <4>1. CASE x = w
        BY <1>4, <1>6, <4>1
      <4>2. CASE x # w
        <5>1. win'[x] = win[x] /\ cq'[x] = cq[x]
          BY <1>1, <1>2, <1>6, <4>2 DEF RegistryInv, ConfigInv
        <5>2. QED BY <1>2, <3>1, <5>1 DEF ConfigInv
      <4>3. QED BY <4>1, <4>2
    <3>2. QED BY <3>1
  <2>3. QED BY <1>1, <1>2, <1>7, <2>1, <2>2 DEF ConfigInv
<1>10. VaultInv'
  <2>1. \A x \in open : win'[x].seen = win[x].seen
    BY <1>2, <1>4, <1>6 DEF RegistryInv
  <2>2. QED BY <1>1, <1>2, <1>7, <2>1, VaultKept
<1>11. UTypeOK'
  BY <1>1, <1>2, UpdaterSame
<1>12. QED BY <1>6, <1>8, <1>9, <1>10, <1>11 DEF ShellInv

\* A step that touches neither the registry nor the windows.
LEMMA QuietStep ==
  ASSUME ShellInv, UNCHANGED <<open, ordered, count, failed, joining, vvars, win>>,
         app' \in {"shown", "hidden", "quit"}, quitting' \in BOOLEAN, events' \in Nat,
         ConfigInv', UTypeOK'
  PROVE  ShellInv'
<1>1. RegistryInv'
  BY RegistrySame DEF ShellInv
<1>2. JoinInv' /\ WindowsInv'
  BY DEF ShellInv, JoinInv, WindowsInv
<1>3. VaultInv'
  BY VaultKept DEF ShellInv
<1>4. QED BY <1>1, <1>2, <1>3 DEF ShellInv

LEMMA SettingsStay ==
  ASSUME ShellInv, UNCHANGED <<open, win, cvars>>
  PROVE  ConfigInv'
BY DEF ShellInv, ConfigInv, cvars

LEMMA ApplyKeymapSound == ASSUME ShellInv, ApplyKeymap PROVE ShellInv'
<1>1. /\ kq # NoConfig /\ keymap' = EffectiveKeymap(kq) /\ kq' = NoConfig
      /\ UNCHANGED <<avars, store, policy, cq, vvars, win, events, uvars>>
  BY DEF ApplyKeymap
<1>2. UNCHANGED <<open, ordered, count, failed, app, quitting, joining>>
  BY <1>1 DEF avars
<1>3. ConfigInv'
  <2>1. kq = store
    BY <1>1 DEF ShellInv, ConfigInv
  <2>2. keymap' = EffectiveKeymap(store)
    BY <1>1, <2>1
  <2>3. QED BY <1>1, <1>2, <2>2 DEF ShellInv, ConfigInv
<1>4. UTypeOK'
  BY <1>1, UpdaterSame DEF ShellInv
<1>5. QED BY <1>1, <1>2, <1>3, <1>4, QuietStep DEF ShellInv, RegistryInv

\* A watcher's change of one window, open or closed, that keeps its settings.
LEMMA WatcherStep ==
  ASSUME ShellInv, NEW w \in Windows, NEW r \in Workspaces, r.cfg = win[w].cfg, win' = [win EXCEPT ![w] = r],
         UNCHANGED <<avars, cvars, events>>, VaultInv', UTypeOK'
  PROVE  ShellInv'
<1>1. RegistryInv /\ JoinInv /\ ConfigInv /\ WindowsInv /\ open \subseteq Windows
  BY DEF ShellInv, RegistryInv
<1>2. WindowsInv' /\ win'[w] = r /\ \A x \in Windows : x # w => win'[x] = win[x]
  BY <1>1, OneWindow
<1>3. \A x \in open : win'[x].cfg = win[x].cfg
  BY <1>1, <1>2
<1>4. UNCHANGED <<open, ordered, count, failed, app, quitting, joining>>
  BY DEF avars
<1>5. RegistryInv'
  BY <1>1, <1>4, RegistrySame DEF RegistryInv
<1>6. JoinInv'
  BY <1>1, <1>4 DEF JoinInv
<1>7. ConfigInv'
  BY <1>1, <1>3, <1>4, ConfigKept
<1>8. QED BY <1>2, <1>5, <1>6, <1>7 DEF ShellInv

LEMMA ApplyVaultSound == ASSUME ShellInv, NEW w \in Windows, ApplyVault(w) PROVE ShellInv'
<1> DEFINE r == [win[w] EXCEPT !.seen = vault]
<1>1. /\ vq' = [vq EXCEPT ![w] = FALSE] /\ win' = [win EXCEPT ![w] = r]
      /\ UNCHANGED <<avars, cvars, vault, events, uvars>>
  BY DEF ApplyVault
<1>2. RegistryInv /\ VaultInv /\ WindowsInv /\ UTypeOK
  BY DEF ShellInv
<1>3. r \in Workspaces /\ r.cfg = win[w].cfg /\ r.seen = vault
  BY <1>2 DEF WindowsInv, VaultInv, Workspaces
<1> HIDE DEF r
<1>4. win'[w] = r /\ \A x \in Windows : x # w => win'[x] = win[x]
  BY <1>1, <1>2, <1>3, OneWindow
<1>5. VaultInv'
  <2>1. vq' \in [Windows -> BOOLEAN]
    BY <1>1, <1>2 DEF VaultInv
  <2>2. ASSUME NEW x \in open, ~vq'[x] PROVE win'[x].seen = vault
    <3>1. CASE x = w
      BY <1>3, <1>4, <3>1
    <3>2. CASE x # w
      BY <1>1, <1>2, <1>4, <2>2, <3>2 DEF VaultInv, RegistryInv
    <3>3. QED BY <3>1, <3>2
  <2>3. open' = open
    BY <1>1 DEF avars
  <2>4. QED BY <1>1, <1>2, <2>1, <2>2, <2>3 DEF VaultInv
<1>6. UTypeOK'
  BY <1>1, <1>2, UpdaterSame
<1>7. QED BY <1>1, <1>3, <1>5, <1>6, WatcherStep

LEMMA ApplyUpdateSound == ASSUME ShellInv, NEW w \in Windows, ApplyUpdate(w) PROVE ShellInv'
<1> DEFINE r == [win[w] EXCEPT !.upd = uq[w]]
<1>1. /\ uq[w] # Nothing /\ uq' = [uq EXCEPT ![w] = Nothing] /\ win' = [win EXCEPT ![w] = r]
      /\ UNCHANGED <<avars, cvars, vvars, events, ustate, pend, jobs, subs, missed>>
  BY DEF ApplyUpdate
<1>2. RegistryInv /\ VaultInv /\ WindowsInv /\ UTypeOK
  BY DEF ShellInv
<1>3. uq[w] \in UpdateStates
  BY <1>1, <1>2, UpdaterTyped
<1>4. r \in Workspaces /\ r.cfg = win[w].cfg /\ r.seen = win[w].seen
  BY <1>2, <1>3 DEF WindowsInv, Workspaces
<1> HIDE DEF r
<1>5. win'[w] = r /\ \A x \in Windows : x # w => win'[x] = win[x]
  BY <1>1, <1>2, <1>4, OneWindow
<1>6. VaultInv'
  <2>1. \A x \in open : win'[x].seen = win[x].seen
    BY <1>2, <1>4, <1>5 DEF RegistryInv
  <2>2. QED BY <1>1, <1>2, <2>1, VaultKept DEF avars
<1>7. UTypeOK'
  <2>1. uq' \in [Windows -> UpdateStates \cup {Nothing}]
    BY <1>1, <1>2, UpdaterTyped
  <2>2. QED BY <1>1, <1>2, <2>1 DEF UTypeOK
<1>8. QED BY <1>1, <1>4, <1>6, <1>7, WatcherStep

LEMMA UpdaterThreadSound ==
  ASSUME ShellInv,
         \/ \E t \in Threads : SendUpdate(t)
         \/ \E j \in Jobs : CheckThread(j) \/ InstallThread(j)
  PROVE  ShellInv'
<1>1. UNCHANGED <<avars, cvars, vvars, win, events>>
  BY DEF SendUpdate, CheckThread, InstallThread
<1>2. UTypeOK'
  <2>1. ASSUME NEW t \in Threads, SendUpdate(t) PROVE UTypeOK'
    <3> DEFINE passed == {w \in Windows : joining.w = w /\ win[w].upd # pend[t]}
    <3>1. passed \in SUBSET Windows /\ Send(t, passed)
      BY <2>1 DEF SendUpdate
    <3> HIDE DEF passed
    <3>2. QED BY <3>1, SendSound DEF ShellInv
  <2>2. ASSUME NEW j \in Jobs, CheckThread(j) \/ InstallThread(j) PROVE UTypeOK'
    BY <2>2, ThreadSound DEF ShellInv, CheckThread, InstallThread
  <2>3. QED BY <2>1, <2>2
<1>3. UNCHANGED <<open, ordered, count, failed, app, quitting, joining>>
  BY <1>1 DEF avars
<1>4. ConfigInv'
  BY <1>1, <1>3, SettingsStay
<1>5. QED BY <1>1, <1>2, <1>3, <1>4, QuietStep DEF ShellInv, RegistryInv

-----------------------------------------------------------------------------
(***************************************************************************)
(* The user's other events.                                                *)
(***************************************************************************)

LEMMA ApplicationSound == ASSUME ShellInv, AppCommand \/ Quit PROVE ShellInv'
<1>1. RegistryInv
  BY DEF ShellInv
<1>2. events' \in Nat
  BY <1>1, EventIs DEF AppCommand, Quit, RegistryInv
<1>3. /\ UNCHANGED <<open, ordered, count, failed, joining, cvars, vvars, win, uvars>>
      /\ app' \in {"shown", "hidden", "quit"} /\ quitting' \in BOOLEAN
  BY <1>1 DEF AppCommand, Quit, RegistryInv
<1>4. ConfigInv'
  BY <1>3, SettingsStay
<1>5. UTypeOK'
  BY <1>3, UpdaterSame DEF ShellInv
<1>6. QED BY <1>2, <1>3, <1>4, <1>5, QuietStep

LEMMA PaletteMoveSound ==
  ASSUME ShellInv, NEW w \in open, NEW items \in Seq(Entries), PaletteMove(w, win[w], items), events' \in Nat
  PROVE  ShellInv'
<1> DEFINE r == win[w]
<1>1. r \in Workspaces
  BY OpenIs
<1>2. r.palette.sel \in Nat
  BY <1>1, PaletteParts
<1>3. CASE Local(w, [r EXCEPT !.palette = Closed(r.palette)])
  <2>1. Closed(r.palette) \in Palettes
    BY ClosedPaletteIs DEF Closed
  <2>2. [r EXCEPT !.palette = Closed(r.palette)] \in Edits(r)
    BY <1>1, <2>1, WithPalette
  <2>3. QED BY <1>3, <2>2, EditStep
<1>4. CASE \E n \in {0, r.palette.sel + 1, High(r.palette.sel - 1, 0)} : Local(w, Select(r, items, n))
  <2>1. PICK n \in {0, r.palette.sel + 1, High(r.palette.sel - 1, 0)} : Local(w, Select(r, items, n))
    BY <1>4
  <2>2. n \in Nat
    BY <1>2 DEF High
  <2>3. Select(r, items, n) \in Edits(r)
    BY <1>1, <2>2, SelectIs
  <2>4. QED BY <2>1, <2>3, EditStep
<1>5. CASE items # <<>> /\ Local(w, Select(r, items, Len(items) - 1))
  <2>1. Len(items) - 1 \in Nat
    <3>1. Len(items) \in Nat /\ Len(items) # 0
      BY <1>5, EmptySeq, LenProperties
    <3>2. QED BY <3>1
  <2>2. Select(r, items, Len(items) - 1) \in Edits(r)
    BY <1>1, <2>1, SelectIs
  <2>3. QED BY <1>5, <2>2, EditStep
<1>6. CASE \E up \in BOOLEAN : Local(w, Paged(r, items, up))
  <2>1. PICK up \in BOOLEAN : Local(w, Paged(r, items, up))
    BY <1>6
  <2>2. Paged(r, items, up) \in Edits(r)
    BY <1>1, PagedIs
  <2>3. QED BY <2>1, <2>2, EditStep
<1>7. CASE \E d \in BOOLEAN : Execute(w, items[r.palette.sel + 1], d)
  <2>1. PICK d \in BOOLEAN : Execute(w, items[r.palette.sel + 1], d)
    BY <1>7
  <2>2. QED BY <2>1, ExecuteSound
<1>8. QED BY <1>3, <1>4, <1>5, <1>6, <1>7 DEF PaletteMove

LEMMA PaletteSoundSteps ==
  ASSUME ShellInv, NEW w \in Windows, PaletteKey(w) \/ PaletteClick(w)
  PROVE  ShellInv'
<1>1. w \in open /\ events' \in Nat
  BY EventIs DEF PaletteKey, PaletteClick
<1> DEFINE r == win[w]
           items == Items(r)
<1>2. r \in Workspaces
  BY <1>1, OpenIs
<1>3. items \in Seq(Entries)
  <2>1. r.palette.query \in Seq(Chars)
    BY <1>2, PaletteParts
  <2>2. QED BY <2>1, ItemsIs
<1>4. CASE PaletteMove(w, r, items)
  <2> HIDE DEF items
  <2>1. QED BY <1>1, <1>3, <1>4, PaletteMoveSound
<1>5. ASSUME NEW k \in EditKeys, NEW shift \in BOOLEAN, NEW c \in Chars,
             NEW out, out = ApplyKey(k, shift, r.palette.ed, r.palette.query, <<c>>),
             Len(PaletteType(r, k, out).palette.query) <= MaxText, Local(w, PaletteType(r, k, out))
      PROVE  ShellInv'
  <2>1. PaletteType(r, k, out) \in Edits(r)
    BY <1>2, <1>5, PaletteTypeIs
  <2>2. QED BY <1>1, <1>5, <2>1, EditStep
<1>6. CASE \E a \in ToSet(items), d \in BOOLEAN : Execute(w, a, d)
  <2>1. PICK a \in ToSet(items), d \in BOOLEAN : Execute(w, a, d)
    BY <1>6
  <2>2. QED BY <1>1, <2>1, ExecuteSound
<1>7. CASE PaletteKey(w)
  <2> HIDE DEF r, items
  <2>1. \/ PaletteMove(w, r, items)
        \/ \E k \in EditKeys, shift \in BOOLEAN, c \in Chars :
              LET out == ApplyKey(k, shift, r.palette.ed, r.palette.query, <<c>>)
              IN Len(PaletteType(r, k, out).palette.query) <= MaxText /\ Local(w, PaletteType(r, k, out))
    BY <1>7 DEF PaletteKey, r, items
  <2>2. CASE \E k \in EditKeys, shift \in BOOLEAN, c \in Chars :
              LET out == ApplyKey(k, shift, r.palette.ed, r.palette.query, <<c>>)
              IN Len(PaletteType(r, k, out).palette.query) <= MaxText /\ Local(w, PaletteType(r, k, out))
    <3>1. PICK k \in EditKeys, shift \in BOOLEAN, c \in Chars :
              LET out == ApplyKey(k, shift, r.palette.ed, r.palette.query, <<c>>)
              IN Len(PaletteType(r, k, out).palette.query) <= MaxText /\ Local(w, PaletteType(r, k, out))
      BY <2>2
    <3>2. QED BY <1>5, <3>1
  <2>3. QED BY <1>4, <2>1, <2>2
<1>8. CASE PaletteClick(w)
  BY <1>6, <1>8 DEF PaletteClick
<1>9. QED BY <1>7, <1>8

LEMMA DialogKeySound == ASSUME ShellInv, NEW w \in Windows, DialogKey(w) PROVE ShellInv'
<1>1. w \in open /\ events' \in Nat
  BY EventIs DEF DialogKey
<1> DEFINE x == [win[w] EXCEPT !.dialog = FALSE]
           y == [win[w] EXCEPT !.dialog = FALSE, !.seen = "none"]
<1>2. win[w] \in Workspaces /\ WindowsInv
  BY <1>1, OpenIs DEF ShellInv
<1>3. x \in Edits(win[w])
  BY <1>2 DEF Edits, Workspaces
<1>4. "none" \in VaultStates
  BY DEF VaultStates
<1>5. y \in Workspaces /\ y.cfg = win[w].cfg /\ y.seen = "none"
  BY <1>2, <1>4 DEF Workspaces
<1>6. CASE Local(w, x)
  <2> HIDE DEF x
  <2>1. QED BY <1>1, <1>3, <1>6, EditStep
<1>7. CASE SetVault("none") /\ win' = [win EXCEPT ![w].dialog = FALSE, ![w].seen = "none"]
             /\ UNCHANGED <<avars, cvars, uvars>>
  <2>1. win' = [win EXCEPT ![w] = y]
    BY <1>2, <1>7 DEF WindowsInv, Workspaces
  <2> HIDE DEF y
  <2>2. QED BY <1>1, <1>4, <1>5, <1>7, <2>1, VaultStep
<1>8. QED BY <1>6, <1>7 DEF DialogKey

LEMMA SettingsKeySound == ASSUME ShellInv, NEW w \in Windows, SettingsKey(w) PROVE ShellInv'
<1> DEFINE x == [win[w] EXCEPT !.surface = "terminal"]
<1>1. w \in open /\ events' \in Nat /\ Local(w, x)
  BY EventIs DEF SettingsKey
<1>2. x \in Edits(win[w])
  <2>1. win[w] \in Workspaces
    BY <1>1, OpenIs
  <2>2. QED BY <2>1 DEF Edits, Workspaces
<1> HIDE DEF x
<1>3. QED BY <1>1, <1>2, EditStep

LEMMA VaultListClickSound == ASSUME ShellInv, NEW w \in Windows, VaultListClick(w) PROVE ShellInv'
<1> DEFINE r == win[w]
           v == LockedVault(r)
           x == [r EXCEPT !.seen = v]
           y == [r EXCEPT !.dialog = TRUE]
<1>1. w \in open /\ events' \in Nat
  BY EventIs DEF VaultListClick
<1>2. r \in Workspaces /\ vault \in VaultStates
  BY <1>1, OpenIs
<1>3. v \in VaultStates
  BY <1>2, LocalEffectIs
<1> HIDE DEF v
<1>4. x \in Workspaces /\ x.cfg = r.cfg /\ x.seen = v
  BY <1>2, <1>3 DEF Workspaces
<1>5. y \in Edits(r)
  BY <1>2 DEF Edits, Workspaces
<1>6. CASE SetVault(v) /\ win' = [win EXCEPT ![w] = x] /\ UNCHANGED <<avars, cvars, uvars>>
  <2> HIDE DEF x
  <2>1. QED BY <1>1, <1>3, <1>4, <1>6, VaultStep
<1>7. ASSUME NEW mode \in {"create", "rename", "unlock"}, NEW target \in BOOLEAN, NEW device \in BOOLEAN,
             Local(w, ShowModal(r, mode, target, device))
      PROVE  ShellInv'
  <2>1. ShowModal(r, mode, target, device) \in Edits(r)
    BY <1>2, ShowModalIs
  <2>2. QED BY <1>1, <1>7, <2>1, EditStep
<1>8. CASE Local(w, y)
  <2> HIDE DEF y
  <2>1. QED BY <1>1, <1>5, <1>8, EditStep
<1>9. \/ SetVault(v) /\ win' = [win EXCEPT ![w] = x] /\ UNCHANGED <<avars, cvars, uvars>>
      \/ \E device \in BOOLEAN : Local(w, ShowModal(r, "unlock", TRUE, device))
      \/ Local(w, ShowModal(r, "rename", TRUE, FALSE))
      \/ Local(w, y)
      \/ Local(w, ShowModal(r, "create", FALSE, FALSE))
  BY DEF VaultListClick, v
<1> HIDE DEF x, y, r
<1>10. CASE \E device \in BOOLEAN : Local(w, ShowModal(r, "unlock", TRUE, device))
  BY <1>7, <1>10
<1>11. CASE Local(w, ShowModal(r, "rename", TRUE, FALSE)) \/ Local(w, ShowModal(r, "create", FALSE, FALSE))
  BY <1>7, <1>11
<1>12. QED BY <1>6, <1>8, <1>9, <1>10, <1>11

LEMMA SettingsClickSound == ASSUME ShellInv, NEW w \in Windows, SettingsClick(w) PROVE ShellInv'
<1> DEFINE r == win[w]
           x == [r EXCEPT !.surface = "terminal"]
           Saved == WindowSettings(r.cfg) \cup {[store EXCEPT !.auto = ~r.cfg.auto]}
                      \cup {[store EXCEPT !.theme = t] : t \in Themes}
<1>1. w \in open /\ events' \in Nat
  BY EventIs DEF SettingsClick
<1>2. r \in Workspaces /\ r.cfg \in Config /\ store \in Config
  <2>1. r \in Workspaces
    BY <1>1, OpenIs
  <2>2. QED BY <2>1, WorkspaceParts DEF ShellInv, ConfigInv
<1>3. x \in Edits(r)
  BY <1>2 DEF Edits, Workspaces
<1>4. ASSUME ConfigChange, UNCHANGED <<avars, vvars, win, uvars>> PROVE ShellInv'
  <2>1. UNCHANGED <<open, ordered, count, failed, app, quitting, joining>>
    BY <1>4 DEF avars
  <2>2. \A u \in open : win'[u].cfg = win[u].cfg
    BY <1>4
  <2>3. ConfigInv'
    BY <1>4, <2>1, <2>2, ConfigKept DEF ShellInv, RegistryInv
  <2>4. UTypeOK'
    BY <1>4, UpdaterSame DEF ShellInv
  <2>5. app' \in {"shown", "hidden", "quit"} /\ quitting' \in BOOLEAN
    BY <2>1 DEF ShellInv, RegistryInv
  <2>6. QED BY <1>1, <1>4, <2>1, <2>3, <2>4, <2>5, QuietStep
<1>5. Saved \subseteq Config
  <2>1. WindowSettings(r.cfg) \subseteq Config
    BY <1>2 DEF WindowSettings, Config
  <2>2. [store EXCEPT !.auto = ~r.cfg.auto] \in Config
    <3>1. (~r.cfg.auto) \in BOOLEAN
      OBVIOUS
    <3>2. QED BY <1>2, <3>1, ConfigsTyped
  <2>3. \A t \in Themes : [store EXCEPT !.theme = t] \in Config
    BY <1>2 DEF Config
  <2>4. QED BY <2>1, <2>2, <2>3
<1> HIDE DEF x, Saved
<1>6. CASE (\E c \in Saved : UpdateConfig(c)) /\ UNCHANGED <<avars, vvars, win, uvars>>
  BY <1>4, <1>5, <1>6 DEF ConfigChange
<1>7. CASE ResetConfig /\ UNCHANGED <<avars, vvars, win, uvars>>
  BY <1>4, <1>7 DEF ConfigChange
<1>8. CASE Local(w, x)
  BY <1>1, <1>3, <1>8, EditStep
<1>9. QED BY <1>6, <1>7, <1>8 DEF SettingsClick, x, Saved

LEMMA UpdatesClickSound == ASSUME ShellInv, NEW w \in Windows, UpdatesClick(w) PROVE ShellInv'
<1> DEFINE r == win[w]
<1>1. w \in open /\ events' \in Nat /\ UNCHANGED <<avars, cvars, vvars>>
  BY EventIs DEF UpdatesClick
<1>2. r \in Workspaces /\ WindowsInv /\ UTypeOK
  BY <1>1, OpenIs DEF ShellInv
<1>3. UNCHANGED <<open, count, failed, app, quitting, joining>> /\ ordered' \in {ordered, Promoted(ordered, w)}
  BY <1>1 DEF avars
<1>4. ASSUME NEW x \in Edits(r), win' = [win EXCEPT ![w] = x], UTypeOK' PROVE ShellInv'
  <2>1. x \in Workspaces /\ x.cfg = win[w].cfg /\ x.seen = win[w].seen
    BY DEF Edits
  <2>2. QED BY <1>1, <1>3, <1>4, <2>1, WindowStep
<1>5. \A s \in UpdateStates : [r EXCEPT !.upd = s] \in Edits(r)
  BY <1>2 DEF Edits, Workspaces
<1>6. r \in Edits(r)
  BY <1>2 DEF Edits
<1>7. CASE StartJob("check") /\ win' = [win EXCEPT ![w].upd = "checking"]
  <2>1. UTypeOK'
    BY <1>2, <1>7, StartSound
  <2>2. win' = [win EXCEPT ![w] = [r EXCEPT !.upd = "checking"]] /\ "checking" \in UpdateStates
    BY <1>7 DEF UpdateStates
  <2>3. QED BY <1>4, <1>5, <2>1, <2>2
<1>8. CASE InstallUpdate /\ UNCHANGED win
  <2>1. UTypeOK'
    BY <1>2, <1>8, ButtonSound
  <2>2. win' = [win EXCEPT ![w] = r]
    BY <1>2, <1>8 DEF WindowsInv
  <2>3. QED BY <1>4, <1>6, <2>1, <2>2
<1>9. CASE DismissUpdate /\ win' = [win EXCEPT ![w].upd = "idle"]
  <2>1. UTypeOK'
    BY <1>2, <1>9, ButtonSound
  <2>2. win' = [win EXCEPT ![w] = [r EXCEPT !.upd = "idle"]] /\ "idle" \in UpdateStates
    BY <1>9 DEF UpdateStates
  <2>3. QED BY <1>4, <1>5, <2>1, <2>2
<1>10. QED BY <1>7, <1>8, <1>9 DEF UpdatesClick

\* What submitting does to the dialog: busy, or with an error and another method.
LEMMA SubmittingIs ==
  ASSUME NEW m \in Modals
  PROVE  /\ Submitting(m) \in Modals
         /\ \A e \in {"none", "incomplete", "target", "vault", "device"} :
               /\ [Submitting(m) EXCEPT !.error = e, !.busy = FALSE] \in Modals
               /\ [Submitting(m) EXCEPT !.error = e, !.busy = FALSE, !.method = "passphrase"] \in Modals
<1> DEFINE s == Submitting(m)
<1>1. m \in ModalRecords
  BY ModalParts
<1>2. s \in ModalRecords /\ s.open = m.open /\ s.text = m.text /\ s.mode = m.mode /\ s.sel = m.sel
  BY <1>1 DEF Submitting, ModalRecords
<1>3. s \in Modals
  BY <1>2, WithFlags
<1> HIDE DEF s
<1>4. ASSUME NEW e \in {"none", "incomplete", "target", "vault", "device"}
      PROVE  /\ [s EXCEPT !.error = e, !.busy = FALSE] \in Modals
             /\ [s EXCEPT !.error = e, !.busy = FALSE, !.method = "passphrase"] \in Modals
  <2> DEFINE x == [s EXCEPT !.error = e, !.busy = FALSE]
             y == [s EXCEPT !.error = e, !.busy = FALSE, !.method = "passphrase"]
  <2>1. x \in ModalRecords /\ x.open = s.open /\ x.text = s.text /\ x.mode = s.mode /\ x.sel = s.sel
    BY <1>2 DEF ModalRecords
  <2>2. y \in ModalRecords /\ y.open = s.open /\ y.text = s.text /\ y.mode = s.mode /\ y.sel = s.sel
    BY <1>2 DEF ModalRecords
  <2> HIDE DEF x, y
  <2>3. x \in Modals /\ y \in Modals
    BY <1>3, <2>1, <2>2, WithFlags
  <2>4. QED BY <2>3 DEF x, y
<1>5. QED BY <1>3, <1>4 DEF s

LEMMA SubmitModalSound ==
  ASSUME ShellInv, NEW w \in open, NEW ok \in BOOLEAN, SubmitModal(w, ok), events' \in Nat
  PROVE  ShellInv'
<1> DEFINE r == win[w]
           m == Submitting(r.modal)
           Errors == {"none", "incomplete", "target", "vault", "device"}
           Fail(e) == Local(w, [r EXCEPT !.modal = [m EXCEPT !.error = e, !.busy = FALSE]])
           Succeed(v) == /\ win' = [win EXCEPT ![w] = [r EXCEPT !.modal = CloseModal(@), !.seen = v]]
                         /\ SetVault(v)
                         /\ UNCHANGED <<avars, cvars, uvars>>
           Passphrase == Local(w, [r EXCEPT !.modal =
                            [m EXCEPT !.error = "device", !.busy = FALSE, !.method = "passphrase"]])
<1>1. r \in Workspaces /\ r.modal \in Modals /\ vault \in VaultStates
  <2>1. r \in Workspaces /\ vault \in VaultStates
    BY OpenIs
  <2>2. QED BY <2>1, WorkspaceParts
<1>2. (\E e \in Errors : Fail(e)) \/ (\E v \in {"unlocked", vault} : Succeed(v)) \/ Passphrase
  <2> HIDE DEF m, r, Fail, Succeed, Passphrase
  <2>1. \/ Fail("incomplete") \/ Fail("vault") \/ Fail("target")
        \/ Succeed("unlocked") \/ Succeed(vault) \/ Passphrase
    BY SMTT(30) DEF SubmitModal, m, r, Fail, Succeed, Passphrase
  <2>2. QED BY <2>1
<1>3. /\ m \in Modals
      /\ \A e \in Errors : [m EXCEPT !.error = e, !.busy = FALSE] \in Modals
      /\ [m EXCEPT !.error = "device", !.busy = FALSE, !.method = "passphrase"] \in Modals
  BY <1>1, SubmittingIs
<1> HIDE DEF m
<1>4. CASE \E e \in Errors : Fail(e)
  <2>1. PICK e \in Errors : Fail(e)
    BY <1>4
  <2> DEFINE x == [m EXCEPT !.error = e, !.busy = FALSE]
  <2>2. x \in Modals /\ Local(w, [r EXCEPT !.modal = x])
    BY <1>3, <2>1
  <2> HIDE DEF x
  <2>3. [r EXCEPT !.modal = x] \in Edits(r)
    BY <1>1, <2>2, WithModal
  <2>4. QED BY <2>2, <2>3, EditStep
<1>5. CASE Passphrase
  <2> DEFINE x == [m EXCEPT !.error = "device", !.busy = FALSE, !.method = "passphrase"]
  <2>1. x \in Modals /\ Local(w, [r EXCEPT !.modal = x])
    BY <1>3, <1>5
  <2> HIDE DEF x
  <2>2. [r EXCEPT !.modal = x] \in Edits(r)
    BY <1>1, <2>1, WithModal
  <2>3. QED BY <2>1, <2>2, EditStep
<1>6. CASE \E v \in {"unlocked", vault} : Succeed(v)
  <2>1. PICK v \in {"unlocked", vault} : Succeed(v)
    BY <1>6
  <2>2. v \in VaultStates
    BY <1>1 DEF VaultStates
  <2> DEFINE c == CloseModal(r.modal)
             x == [r EXCEPT !.modal = c, !.seen = v]
  <2>3. c \in Modals
    BY <1>1, CloseModalIs
  <2>4. win' = [win EXCEPT ![w] = x] /\ SetVault(v) /\ UNCHANGED <<avars, cvars, uvars>>
    BY <2>1
  <2> HIDE DEF c
  <2>5. x \in Workspaces /\ x.cfg = r.cfg /\ x.seen = v
    BY <1>1, <2>2, <2>3 DEF Workspaces
  <2> HIDE DEF x
  <2>6. QED BY <2>2, <2>4, <2>5, VaultStep
<1>7. QED BY <1>2, <1>4, <1>5, <1>6

\* A step of the dialog from one field to another.
LEMMA FormFieldStep ==
  ASSUME NEW m \in Modals, NEW d, FieldCount(m) > 0, d \in {1, FieldCount(m) - 1}
  PROVE  FormField(m, (m.sel + d) % FieldCount(m))
<1>1. /\ FieldCount(m) \in {0, 1, 3} /\ (m.mode = "create" <=> FieldCount(m) = 3)
      /\ FieldCount(m) > 0 => m.sel <= FieldCount(m) - 1
  BY FieldCountIs
<1>2. m.sel \in 0 .. 2 /\ (m.mode = "create" \/ m.sel = 0)
  BY ModalParts DEF Fields
<1>3. CASE FieldCount(m) = 1
  <2>1. m.sel + d \in Nat /\ (m.sel + d) % 1 = 0
    BY <1>1, <1>2, <1>3
  <2>2. QED BY <1>3, <2>1 DEF FormField, Fields
<1>4. CASE FieldCount(m) = 3
  <2>1. m.sel + d \in 0 .. 4
    BY <1>2, <1>4
  <2>2. (m.sel + d) % 3 \in 0 .. 2
    BY <2>1
  <2>3. QED BY <1>1, <1>4, <2>2 DEF FormField, Fields
<1>5. QED BY <1>1, <1>3, <1>4

LEMMA CloseStep ==
  ASSUME ShellInv, NEW w \in open, Local(w, [win[w] EXCEPT !.modal = CloseModal(win[w].modal)]), events' \in Nat
  PROVE  ShellInv'
<1> DEFINE m == CloseModal(win[w].modal)
<1>1. win[w] \in Workspaces
  BY OpenIs
<1>2. m \in Modals
  BY <1>1, WorkspaceParts, CloseModalIs
<1> HIDE DEF m
<1>3. [win[w] EXCEPT !.modal = m] \in Edits(win[w])
  BY <1>1, <1>2, WithModal
<1>4. Local(w, [win[w] EXCEPT !.modal = m])
  BY DEF m
<1>5. QED BY <1>3, <1>4, EditStep

LEMMA ModalKeySound == ASSUME ShellInv, NEW w \in Windows, ModalKey(w) PROVE ShellInv'
<1> DEFINE r == win[w]
           n == FieldCount(r.modal)
<1>1. w \in open /\ events' \in Nat /\ KeyTarget(r) = "modal"
  BY EventIs DEF ModalKey
<1>2. r \in Workspaces /\ r.modal \in Modals
  <2>1. r \in Workspaces
    BY <1>1, OpenIs
  <2>2. QED BY <2>1, WorkspaceParts
<1>3. r.modal.open
  BY <1>1, <1>2 DEF KeyTarget, Workspaces
<1>4. ASSUME n > 0, NEW d \in {1, n - 1}, Local(w, FocusField(r, (r.modal.sel + d) % n)) PROVE ShellInv'
  <2>1. FormField(r.modal, (r.modal.sel + d) % n)
    BY <1>2, <1>4, FormFieldStep
  <2>2. FocusField(r, (r.modal.sel + d) % n) \in Edits(r)
    BY <1>2, <2>1, FocusFieldIs
  <2>3. QED BY <1>1, <1>4, <2>2, EditStep
<1>5. ASSUME NEW ok \in BOOLEAN, SubmitModal(w, ok) PROVE ShellInv'
  BY <1>1, <1>5, SubmitModalSound
<1>6. CASE Local(w, [r EXCEPT !.modal = CloseModal(r.modal)])
  BY <1>1, <1>6, CloseStep
<1>7. ASSUME NEW k \in EditKeys, NEW shift \in BOOLEAN, NEW c \in Chars,
             \A f \in Fields : Len(TypeInModal(r, k, shift, c).modal.text[f]) <= MaxText,
             Local(w, TypeInModal(r, k, shift, c))
      PROVE  ShellInv'
  <2>1. TypeInModal(r, k, shift, c) \in Edits(r)
    BY <1>2, <1>3, <1>7, TypeInModalIs
  <2>2. QED BY <1>1, <1>7, <2>1, EditStep
<1>8. \/ n > 0 /\ \E d \in {1, n - 1} : Local(w, FocusField(r, (r.modal.sel + d) % n))
      \/ \E ok \in BOOLEAN : SubmitModal(w, ok)
      \/ Local(w, [r EXCEPT !.modal = CloseModal(r.modal)])
      \/ \E k \in EditKeys, shift \in BOOLEAN, c \in Chars :
            /\ \A f \in Fields : Len(TypeInModal(r, k, shift, c).modal.text[f]) <= MaxText
            /\ Local(w, TypeInModal(r, k, shift, c))
  BY DEF ModalKey
<1> HIDE DEF r, n
<1>9. QED BY <1>4, <1>5, <1>6, <1>7, <1>8

LEMMA ModalClickSound == ASSUME ShellInv, NEW w \in Windows, ModalClick(w) PROVE ShellInv'
<1> DEFINE r == win[w]
           p == [r.modal EXCEPT !.method = "passphrase"]
           d == [r.modal EXCEPT !.method = "device"]
           s == [r.modal EXCEPT !.reveal = ~r.modal.reveal]
<1>1. w \in open /\ events' \in Nat
  BY EventIs DEF ModalClick
<1>2. r \in Workspaces /\ r.modal \in Modals
  <2>1. r \in Workspaces
    BY <1>1, OpenIs
  <2>2. QED BY <2>1, WorkspaceParts
<1>3. p \in Modals /\ d \in Modals /\ p.mode = r.modal.mode
  BY <1>2, WithMethod
<1>4. s \in Modals
  <2>1. r.modal \in ModalRecords /\ (~r.modal.reveal) \in BOOLEAN
    BY <1>2, ModalParts
  <2>2. s \in ModalRecords /\ s.open = r.modal.open /\ s.text = r.modal.text
        /\ s.mode = r.modal.mode /\ s.sel = r.modal.sel
    BY <2>1 DEF ModalRecords
  <2> HIDE DEF s
  <2>3. QED BY <1>2, <2>2, WithFlags
<1>5. \/ \E f \in 0 .. (FieldCount(r.modal) - 1) : Local(w, FocusField(r, f))
      \/ r.modal.mode = "unlock" /\ Local(w, FocusField([r EXCEPT !.modal = p], 0))
      \/ Local(w, SyncField([r EXCEPT !.modal = d]))
      \/ Local(w, [r EXCEPT !.modal = s])
      \/ Local(w, [r EXCEPT !.modal = CloseModal(r.modal)])
      \/ \E ok \in BOOLEAN : SubmitModal(w, ok)
  BY DEF ModalClick
<1> HIDE DEF r, p, d, s
<1>6. ASSUME NEW f \in 0 .. (FieldCount(r.modal) - 1), Local(w, FocusField(r, f)) PROVE ShellInv'
  <2>1. FieldCount(r.modal) \in {0, 1, 3} /\ (r.modal.mode = "create" <=> FieldCount(r.modal) = 3)
    BY <1>2, FieldCountIs
  <2>2. FormField(r.modal, f)
    BY <2>1 DEF FormField, Fields
  <2>3. FocusField(r, f) \in Edits(r)
    BY <1>2, <2>2, FocusFieldIs
  <2>4. QED BY <1>1, <1>6, <2>3, EditStep DEF r
<1>7. CASE Local(w, FocusField([r EXCEPT !.modal = p], 0))
  <2> DEFINE x == [r EXCEPT !.modal = p]
  <2>1. x \in Edits(r) /\ x.modal = p
    BY <1>2, <1>3, WithModal
  <2> HIDE DEF x
  <2>2. x \in Workspaces
    BY <2>1 DEF Edits
  <2>3. FormField(x.modal, 0)
    BY <2>1 DEF FormField, Fields
  <2>4. FocusField(x, 0) \in Edits(x)
    BY <2>2, <2>3, FocusFieldIs
  <2>5. FocusField(x, 0) \in Edits(r)
    BY <2>1, <2>4, EditOfEdit
  <2>6. Local(w, FocusField(x, 0))
    BY <1>7 DEF x
  <2>7. QED BY <1>1, <2>5, <2>6, EditStep DEF r
<1>8. CASE Local(w, SyncField([r EXCEPT !.modal = d]))
  <2> DEFINE x == [r EXCEPT !.modal = d]
  <2>1. x \in Edits(r)
    BY <1>2, <1>3, WithModal
  <2> HIDE DEF x
  <2>2. x \in Workspaces
    BY <2>1 DEF Edits
  <2>3. SyncField(x) \in Edits(x)
    BY <2>2, SyncFieldIs
  <2>4. SyncField(x) \in Edits(r)
    BY <2>1, <2>3, EditOfEdit
  <2>5. Local(w, SyncField(x))
    BY <1>8 DEF x
  <2>6. QED BY <1>1, <2>4, <2>5, EditStep DEF r
<1>9. CASE Local(w, [r EXCEPT !.modal = s])
  <2>1. [r EXCEPT !.modal = s] \in Edits(r)
    BY <1>2, <1>4, WithModal
  <2>2. QED BY <1>1, <1>9, <2>1, EditStep DEF r
<1>10. CASE Local(w, [r EXCEPT !.modal = CloseModal(r.modal)])
  BY <1>1, <1>10, CloseStep DEF r
<1>11. CASE \E ok \in BOOLEAN : SubmitModal(w, ok)
  BY <1>1, <1>11, SubmitModalSound
<1>12. QED BY <1>5, <1>6, <1>7, <1>8, <1>9, <1>10, <1>11

-----------------------------------------------------------------------------
(***************************************************************************)
(* Every step keeps the invariant.                                         *)
(***************************************************************************)

LEMMA NextKeeps == ASSUME ShellInv, [Next]_vars PROVE ShellInv'
<1>1. CASE UNCHANGED vars
  <2>1. UNCHANGED <<avars, cvars, vvars, win, events, uvars>>
    BY <1>1 DEF vars
  <2>2. UNCHANGED <<open, ordered, count, failed, app, quitting, joining>>
    BY <2>1 DEF avars
  <2>3. ConfigInv'
    BY <2>1, <2>2, SettingsStay
  <2>4. UTypeOK'
    BY <2>1, UpdaterSame DEF ShellInv
  <2>5. QED BY <2>1, <2>2, <2>3, <2>4, QuietStep DEF ShellInv, RegistryInv
<1>2. ASSUME NEW w \in Windows,
             \/ \E a \in FirstActions : OpenWindow(w, a)
             \/ \E c \in MenuCommands : WindowCommand(w, c)
             \/ CloseWindow(w)
             \/ ApplyConfig(w) \/ ApplyVault(w) \/ ApplyUpdate(w)
             \/ PaletteKey(w) \/ PaletteClick(w) \/ DialogKey(w) \/ SettingsKey(w)
             \/ ModalKey(w) \/ ModalClick(w) \/ VaultListClick(w)
             \/ SettingsClick(w) \/ UpdatesClick(w)
      PROVE  ShellInv'
  <2>1. CASE \E a \in FirstActions : OpenWindow(w, a)
    BY <2>1, OpenWindowSound
  <2>2. CASE \E c \in MenuCommands : WindowCommand(w, c)
    BY <2>2, WindowCommandSound
  <2>3. CASE CloseWindow(w)
    BY <2>3, CloseWindowSound
  <2>4. CASE ApplyConfig(w)
    BY <2>4, ApplyConfigSound
  <2>5. CASE ApplyVault(w)
    BY <2>5, ApplyVaultSound
  <2>6. CASE ApplyUpdate(w)
    BY <2>6, ApplyUpdateSound
  <2>7. CASE PaletteKey(w) \/ PaletteClick(w)
    BY <2>7, PaletteSoundSteps
  <2>8. CASE DialogKey(w)
    BY <2>8, DialogKeySound
  <2>9. CASE SettingsKey(w)
    BY <2>9, SettingsKeySound
  <2>10. CASE ModalKey(w)
    BY <2>10, ModalKeySound
  <2>11. CASE ModalClick(w)
    BY <2>11, ModalClickSound
  <2>12. CASE VaultListClick(w)
    BY <2>12, VaultListClickSound
  <2>13. CASE SettingsClick(w)
    BY <2>13, SettingsClickSound
  <2>14. CASE UpdatesClick(w)
    BY <2>14, UpdatesClickSound
  <2>15. QED
    BY <1>2, <2>1, <2>2, <2>3, <2>4, <2>5, <2>6, <2>7, <2>8, <2>9, <2>10, <2>11, <2>12, <2>13, <2>14
<1>3. CASE OpenFails
  BY <1>3, OpenFailsSound
<1>4. CASE JoinWindow
  BY <1>4, JoinWindowSound
<1>5. CASE AppCommand \/ Quit
  BY <1>5, ApplicationSound
<1>6. CASE ApplyKeymap
  BY <1>6, ApplyKeymapSound
<1>7. CASE (\E t \in Threads : SendUpdate(t)) \/ (\E j \in Jobs : CheckThread(j) \/ InstallThread(j))
  BY <1>7, UpdaterThreadSound
<1>8. QED BY <1>1, <1>2, <1>3, <1>4, <1>5, <1>6, <1>7 DEF Next

LEMMA ShellInvHolds == Spec => []ShellInv
<1>1. Init => ShellInv
  BY InitEstablishes
<1>2. ShellInv /\ [Next]_vars => ShellInv'
  BY NextKeeps
<1>3. QED BY <1>1, <1>2, PTL DEF Spec

-----------------------------------------------------------------------------
(***************************************************************************)
(* The theorems.                                                           *)
(***************************************************************************)

(* However windows are opened, closed, refused and raised, settings saved   *)
(* and reset and vaults locked, unlocked and deleted, in whatever order the *)
(* channels are drained: the registry names exactly the open windows and    *)
(* the controller counts them (promote_unique, retain_open_windows,         *)
(* on_window_closed), and a window whose channel is drained shows the saved *)
(* settings and the vault as it is (publish_config_update, the watchers of  *)
(* workspace.rs).  The state has its type, carets and texts included.       *)
THEOREM WindowsStayAgreed == Spec => []WindowsAgree
<1>1. ShellInv => WindowsAgree
  BY InvGivesAgreement
<1>2. QED BY <1>1, ShellInvHolds, PTL

(* Whatever dialogs are opened, switched, submitted and closed, by keys, by *)
(* clicks and by commands of the palette: no typed text outlives its dialog *)
(* (VaultModalState::close), a key edits the field that is highlighted      *)
(* (sync_vault_modal_text_input), and a key goes to what is drawn on top    *)
(* (handle_key_down against Render), for texts of any length.               *)
THEOREM DialogStaysSafe == Spec => []DialogSafe
<1>1. ShellInv => DialogSafe
  BY InvGivesDialog
<1>2. QED BY <1>1, ShellInvHolds, PTL

(* For every query, label and hint: the palette's caret stays in its query, *)
(* it lists exactly the commands of which the query is a subsequence,       *)
(* although fuzzy_score takes the first place of each character and never   *)
(* goes back, and a page key always moves to an item further on unless it   *)
(* is at that end already (page_target_index), for any number of rows that  *)
(* are visible.                                                             *)
THEOREM PaletteStaysSound == Spec => []PaletteSound
<1>1. ShellInv => PaletteSound
  BY InvGivesPalette
<1>2. QED BY <1>1, ShellInvHolds, PTL

\* Only closing a window takes one out of the open windows.
LEMMA OnlyCloseShrinks ==
  ASSUME [Next]_vars
  PROVE  open \subseteq open' \/ \E w \in Windows : CloseWindow(w)
<1>1. CASE UNCHANGED vars
  BY <1>1 DEF vars, avars
<1>2. ASSUME NEW w \in Windows, NEW r, Local(w, r) PROVE open' = open
  BY <1>2 DEF Local, avars
<1>3. ASSUME NEW w \in Windows, NEW c, NEW d, Execute(w, c, d) PROVE open' = open
  BY <1>3 DEF Execute, avars
<1>4. ASSUME NEW w \in Windows, NEW ok, SubmitModal(w, ok) PROVE open' = open
  BY <1>2, <1>4 DEF SubmitModal, avars
<1>5. ASSUME NEW w \in Windows, NEW a, OpenWindow(w, a) PROVE open \subseteq open'
  BY <1>5 DEF OpenWindow
<1>6. ASSUME NEW w \in Windows, NEW c, WindowCommand(w, c) PROVE open' = open
  BY <1>6 DEF WindowCommand
<1>7. ASSUME NEW w \in Windows, ApplyConfig(w) \/ ApplyVault(w) \/ ApplyUpdate(w) PROVE open' = open
  BY <1>7 DEF ApplyConfig, ApplyVault, ApplyUpdate, avars
<1>8. ASSUME NEW w \in Windows, PaletteKey(w) PROVE open' = open
  <2>1. ASSUME NEW items, PaletteMove(w, win[w], items) PROVE open' = open
    BY <1>2, <1>3, <2>1 DEF PaletteMove
  <2>2. QED BY <1>2, <1>8, <2>1 DEF PaletteKey
<1>9. ASSUME NEW w \in Windows, PaletteClick(w) PROVE open' = open
  BY <1>3, <1>9 DEF PaletteClick
<1>10. ASSUME NEW w \in Windows, DialogKey(w) \/ SettingsKey(w) \/ VaultListClick(w) PROVE open' = open
  BY <1>2, <1>10 DEF DialogKey, SettingsKey, VaultListClick, avars
<1>11. ASSUME NEW w \in Windows, ModalKey(w) PROVE open' = open
  BY <1>2, <1>4, <1>11 DEF ModalKey
<1>12. ASSUME NEW w \in Windows, ModalClick(w) PROVE open' = open
  BY <1>2, <1>4, <1>12 DEF ModalClick
<1>13. ASSUME NEW w \in Windows, SettingsClick(w) \/ UpdatesClick(w) PROVE open' = open
  BY <1>2, <1>13 DEF SettingsClick, UpdatesClick, avars
<1>14. CASE OpenFails \/ JoinWindow \/ AppCommand \/ Quit \/ ApplyKeymap
  BY <1>14 DEF OpenFails, JoinWindow, AppCommand, Quit, ApplyKeymap, avars
<1>15. CASE (\E t \in Threads : SendUpdate(t)) \/ (\E j \in Jobs : CheckThread(j) \/ InstallThread(j))
  BY <1>15 DEF SendUpdate, CheckThread, InstallThread, avars
<1>16. QED
  BY <1>1, <1>5, <1>6, <1>7, <1>8, <1>9, <1>10, <1>11, <1>12, <1>13, <1>14, <1>15 DEF Next

(* When the last window closes, on_window_closed asks the controller's      *)
(* lifecycle_policy, which was set when the settings were saved: the        *)
(* application is hidden or ended as the settings saved last say.           *)
THEOREM LastCloseIsAsSaved == Spec => LastCloseFollowsSettings
<1>1. ASSUME ShellInv, [Next]_vars, open # {}, open' = {}, ~quitting PROVE app' = PolicyOf(store)
  <2>1. PICK w \in Windows : CloseWindow(w)
    BY <1>1, OnlyCloseShrinks
  <2>2. app' = policy
    BY <1>1, <2>1 DEF CloseWindow
  <2>3. QED BY <1>1, <2>2 DEF ShellInv, ConfigInv
<1>2. ShellInv /\ [Next]_vars => [open # {} /\ open' = {} /\ ~quitting => app' = PolicyOf(store)]_vars
  BY <1>1
<1>3. QED BY <1>2, ShellInvHolds, PTL DEF Spec, LastCloseFollowsSettings
=============================================================================
