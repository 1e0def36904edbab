--------------------------- MODULE SequenceProofs ---------------------------
(* Induction over numbers, said of sets; what a fold over a sequence does,   *)
(* one item at a time; and how often an item occurs in a sequence.           *)
EXTENDS MethodCalls, FiniteSetTheorems, SequenceTheorems, TLAPS

\* A set of numbers has a least element.
LEMMA Least ==
    ASSUME NEW T, T \subseteq Nat, T # {}
    PROVE  \E x \in T : \A y \in T : x <= y
<1> DEFINE R == OpToRel(<, Nat)
<1>1. IsWellFoundedOn(R, Nat)
  BY NatLessThanWellFounded DEF OpToRel
<1>2. R = {ss \in Nat \X Nat : ss[1] < ss[2]}
  BY DEF OpToRel
<1> HIDE DEF R
<1>3. PICK x \in T : \A y \in T : <<y, x>> \notin R
  BY <1>1, WFMin
<1>4. ASSUME NEW y \in T
      PROVE  x <= y
  <2>1. <<y, x>> \notin R
    BY <1>3
  <2>2. ~(y < x)
    BY <1>2, <2>1
  <2> QED
    BY <2>2
<1> QED
  BY <1>4

\* A set that has 0, and with each number the next, has every number.
LEMMA Induction ==
    ASSUME NEW S, 0 \in S, \A n \in Nat : n \in S => n + 1 \in S
    PROVE  Nat \subseteq S
<1> SUFFICES ASSUME ~(Nat \subseteq S)
             PROVE  FALSE
  OBVIOUS
<1> DEFINE T == Nat \ S
<1>1. PICK x \in T : \A y \in T : x <= y
  <2>1. T \subseteq Nat /\ T # {}
    OBVIOUS
  <2> HIDE DEF T
  <2> QED
    BY <2>1, Least
<1>2. x # 0 /\ x \in Nat
  BY <1>1
<1>3. x - 1 \in Nat /\ ~(x <= x - 1)
  BY <1>2
<1>4. x - 1 \in S
  BY <1>1, <1>3
<1> QED
  BY <1>1, <1>2, <1>3, <1>4

\* A bounded set of numbers has a greatest element.
LEMMA Greatest ==
    ASSUME NEW n \in Nat, NEW T, T \subseteq 0..n, T # {}
    PROVE  \E x \in T : \A y \in T : x >= y
<1> DEFINE D == {n - y : y \in T}
<1>1. D \subseteq Nat /\ D # {}
  <2>1. \A y \in T : n - y \in Nat
    OBVIOUS
  <2> QED
    BY <2>1
<1>2. PICK d \in D : \A e \in D : d <= e
  <2> HIDE DEF D
  <2> QED
    BY <1>1, Least
<1>3. PICK x \in T : d = n - x
  OBVIOUS
<1>4. ASSUME NEW y \in T
      PROVE  x >= y
  <2>1. n - x <= n - y
    BY <1>2, <1>3
  <2> QED
    BY <2>1
<1> QED
  BY <1>4

\* A set of numbers that is bounded and not empty has its maximum.
LEMMA MaxProperty ==
    ASSUME NEW n \in Nat, NEW T, T \subseteq 1..n, T # {}
    PROVE  Max(T) \in T /\ \A y \in T : Max(T) >= y
<1>1. T \subseteq 0..n
  OBVIOUS
<1>2. \E x \in T : \A y \in T : x >= y
  BY <1>1, Greatest
<1> QED
  BY <1>2 DEF Max

\* The maximum of 1..n is n.
LEMMA MaxOfPrefix ==
    ASSUME NEW k \in Nat, k # 0
    PROVE  Max(1..k) = k /\ (1..k) \ {k} = 1..(k - 1)
<1>1. 1..k # {} /\ k \in 1..k
  OBVIOUS
<1>2. Max(1..k) \in 1..k /\ Max(1..k) >= k
  BY <1>1, MaxProperty
<1> QED
  BY <1>2

\* A set that has the empty sequence, and with each sequence its extensions by
\* one item, has every sequence.
LEMMA InductionAppend ==
    ASSUME NEW E, NEW S, <<>> \in S,
           \A s \in Seq(E) : s \in S => \A e \in E : Append(s, e) \in S
    PROVE  Seq(E) \subseteq S
<1> DEFINE T == {n \in Nat : \A s \in Seq(E) : Len(s) = n => s \in S}
<1>1. 0 \in T
  <2>1. \A s \in Seq(E) : Len(s) = 0 => s = <<>>
    BY EmptySeq
  <2> QED
    BY <2>1
<1>2. ASSUME NEW n \in Nat, n \in T
      PROVE  n + 1 \in T
  <2> SUFFICES ASSUME NEW s \in Seq(E), Len(s) = n + 1
               PROVE  s \in S
    OBVIOUS
  <2>1. s # <<>>
    BY EmptySeq
  <2>2. PICK t \in Seq(E), e \in E : s = Append(t, e)
    BY <2>1, SequenceEmptyOrAppend
  <2>3. Len(t) = n
    <3>1. Len(t) \in Nat /\ Len(s) = Len(t) + 1
      BY <2>2, LenProperties, AppendProperties
    <3> QED
      BY <3>1
  <2>4. t \in S
    BY <1>2, <2>3
  <2> QED
    BY <2>2, <2>4
<1>3. Nat \subseteq T
  <2> HIDE DEF T
  <2> QED
    BY <1>1, <1>2, Induction
<1> QED
  BY <1>3, LenProperties

-----------------------------------------------------------------------------
(* Folds. *)

\* A fold over n items: at a set of positions, what it made of the items at
\* these positions, one after the other, each by a step F of the value before.
IsFold(f, n, V, base, F) ==
    /\ f \in [SUBSET (1..n) -> V]
    /\ \A s \in SUBSET (1..n) :
          f[s] = IF s = {} THEN base ELSE F[<<f[s \ {Max(s)}], Max(s)>>]

\* The values a fold goes through, after 0, 1, ... n items.
IsRun(g, n, V, base, F) ==
    /\ g \in [0..n -> V] /\ g[0] = base
    /\ \A k \in 1..n : g[k] = F[<<g[k - 1], k>>]

\* Such a run ends with what f has for all items.
HasRun(f, n, V, base, F) == \E g : IsRun(g, n, V, base, F) /\ g[n] = f[1..n]

\* What is known of a solution of the equation of a fold that may also have
\* others values than those of V.
Solves(f, n, V, base, F) ==
    /\ f[{}] = base
    /\ \A k \in 1..n : f[1..k - 1] \in V => f[1..k] = F[<<f[1..k - 1], k>>]

\* There is a fold for every step.
LEMMA FoldExists ==
    ASSUME NEW n \in Nat, NEW V, NEW base \in V, NEW F \in [V \X (1..n) -> V]
    PROVE  \E f : IsFold(f, n, V, base, F)
<1> DEFINE Folding(m) == {f \in [SUBSET (1..m) -> V] : \A s \in SUBSET (1..m) :
              f[s] = IF s = {} THEN base ELSE F[<<f[s \ {Max(s)}], Max(s)>>]}
           S == {m \in Nat : m <= n => Folding(m) # {}}
<1> HIDE DEF Folding
<1>1. 0 \in S
  <2>1. 1..0 = {}
    OBVIOUS
  <2>2. [s \in SUBSET (1..0) |-> base] \in Folding(0)
    BY <2>1 DEF Folding
  <2> QED
    BY <2>2
<1>2. ASSUME NEW m \in Nat, m \in S
      PROVE  m + 1 \in S
  <2> SUFFICES ASSUME m + 1 <= n
               PROVE  Folding(m + 1) # {}
    OBVIOUS
  <2>1. PICK f \in Folding(m) : TRUE
    BY <1>2
  <2> DEFINE g == [s \in SUBSET (1..m + 1) |->
                      IF m + 1 \in s THEN F[<<f[s \ {m + 1}], m + 1>>] ELSE f[s]]
  <2>2. m + 1 \in 1..n
    OBVIOUS
  <2>3. \A s \in SUBSET (1..m + 1) : s \ {m + 1} \in SUBSET (1..m)
    OBVIOUS
  <2>4. \A s \in SUBSET (1..m + 1) : m + 1 \notin s => s \in SUBSET (1..m)
    OBVIOUS
  <2>5. g \in [SUBSET (1..m + 1) -> V]
    BY <2>1, <2>2, <2>3, <2>4 DEF Folding
  <2>6. ASSUME NEW s \in SUBSET (1..m + 1)
        PROVE  g[s] = IF s = {} THEN base ELSE F[<<g[s \ {Max(s)}], Max(s)>>]
    <3>1. CASE m + 1 \in s
      <4>1. Max(s) \in s /\ Max(s) >= m + 1
        BY <3>1, MaxProperty, m + 1 \in Nat
      <4>2. Max(s) = m + 1
        <5>1. Max(s) \in 1..m + 1
          BY <4>1
        <5> QED
          BY <4>1, <5>1
      <4>3. s \ {m + 1} \in SUBSET (1..m + 1) /\ m + 1 \notin s \ {m + 1}
        OBVIOUS
      <4>4. g[s \ {m + 1}] = f[s \ {m + 1}]
        BY <4>3
      <4> QED
        BY <3>1, <4>2, <4>4
    <3>2. CASE m + 1 \notin s
      <4>1. s \in SUBSET (1..m)
        BY <2>4, <3>2
      <4>2. g[s] = f[s]
        BY <3>2
      <4>3. s \ {Max(s)} \in SUBSET (1..m + 1) /\ m + 1 \notin s \ {Max(s)}
        BY <3>2
      <4>4. g[s \ {Max(s)}] = f[s \ {Max(s)}]
        BY <4>3
      <4> QED
        BY <2>1, <4>1, <4>2, <4>4 DEF Folding
    <3> QED
      BY <3>1, <3>2
  <2> HIDE DEF g
  <2>7. g \in Folding(m + 1)
    BY <2>5, <2>6 DEF Folding
  <2> QED
    BY <2>7
<1>3. Nat \subseteq S
  <2> HIDE DEF S
  <2> QED
    BY <1>1, <1>2, Induction
<1>4. Folding(n) # {}
  <2>1. n \in S /\ n <= n
    BY <1>3
  <2> QED
    BY <2>1
<1> QED
  BY <1>4 DEF Folding, IsFold

\* What a function that folds so has at the first k items, for each k.
LEMMA FoldSteps ==
    ASSUME NEW n \in Nat, NEW V, NEW base \in V, NEW F \in [V \X (1..n) -> V], NEW f,
           Solves(f, n, V, base, F)
    PROVE  HasRun(f, n, V, base, F)
<1> DEFINE S == {k \in Nat : k <= n => f[1..k] \in V}
<1>1. 0 \in S
  <2>1. 1..0 = {}
    OBVIOUS
  <2> QED
    BY <2>1 DEF Solves
<1>2. ASSUME NEW k \in Nat, k \in S
      PROVE  k + 1 \in S
  <2> SUFFICES ASSUME k + 1 <= n
               PROVE  f[1..k + 1] \in V
    OBVIOUS
  <2>1. f[1..k] \in V /\ k + 1 \in 1..n /\ (k + 1) - 1 = k
    BY <1>2
  <2> QED
    BY <2>1 DEF Solves
<1>3. Nat \subseteq S
  <2> HIDE DEF S
  <2> QED
    BY <1>1, <1>2, Induction
<1>4. \A k \in 0..n : f[1..k] \in V
  BY <1>3
<1>5. f[1..0] = base
  <2>1. 1..0 = {}
    OBVIOUS
  <2> QED
    BY <2>1 DEF Solves
<1>6. ASSUME NEW k \in 1..n
      PROVE  k - 1 \in 0..n /\ k \in 0..n /\ f[1..k] = F[<<f[1..k - 1], k>>]
  BY <1>4 DEF Solves
<1> DEFINE g == [k \in 0..n |-> f[1..k]]
<1>7. IsRun(g, n, V, base, F) /\ g[n] = f[1..n]
  BY <1>4, <1>5, <1>6 DEF IsRun
<1> QED
  BY <1>7 DEF HasRun

-----------------------------------------------------------------------------
(* What is picked of a sequence. *)

\* What is picked of the items of v by taking each, in their order, or not.
Picks(g, E, v) ==
    /\ g \in [0..Len(v) -> Seq(E)] /\ g[0] = <<>>
    /\ \A k \in 1..Len(v) : g[k] = Append(g[k - 1], v[k]) \/ g[k] = g[k - 1]

\* Kept does that.
LEMMA KeptPicks ==
    ASSUME NEW E, NEW v \in Seq(E), NEW keep
    PROVE  \E g : Picks(g, E, v) /\ g[Len(v)] = Kept(v, keep)
<1> DEFINE n == Len(v)
           V == Seq(E)
           base == <<>>
           F == [p \in V \X (1..n) |->
                    IF v[p[2]] \in keep THEN Append(p[1], v[p[2]]) ELSE p[1]]
           Eqn(f) == f = [s \in SUBSET DOMAIN v |->
                             IF s = {} THEN base
                             ELSE LET x == Max(s)
                                  IN IF v[x] \in keep THEN Append(f[s \ {x}], v[x])
                                     ELSE f[s \ {x}]]
<1>1. n \in Nat /\ DOMAIN v = 1..n /\ \A k \in 1..n : v[k] \in E
  BY LenProperties, ElementOfSeq
<1>2. base \in V /\ F \in [V \X (1..n) -> V]
  BY <1>1, AppendProperties, EmptySeq
<1>3. PICK h : IsFold(h, n, V, base, F)
  <2> HIDE DEF F, n, V, base
  <2> QED
    BY <1>1, <1>2, FoldExists
<1>4. Eqn(h)
  <2>1. \A s \in SUBSET (1..n) : s # {} => Max(s) \in 1..n /\ s \ {Max(s)} \in SUBSET (1..n)
    BY <1>1, MaxProperty
  <2> QED
    BY <1>1, <1>3, <2>1 DEF IsFold
<1>5. ASSUME NEW f, Eqn(f)
      PROVE  Solves(f, n, V, base, F)
  <2>1. f[{}] = base
    BY <1>5
  <2>2. ASSUME NEW k \in 1..n, f[1..k - 1] \in V
        PROVE  f[1..k] = F[<<f[1..k - 1], k>>]
    <3>1. 1..k \in SUBSET DOMAIN v /\ 1..k # {}
      <4> HIDE DEF n
      <4> QED
        BY <1>1
    <3>2. Max(1..k) = k /\ (1..k) \ {k} = 1..(k - 1)
      BY MaxOfPrefix, k \in Nat, k # 0
    <3> QED
      BY <1>5, <2>2, <3>1, <3>2
  <2> QED
    BY <2>1, <2>2 DEF Solves
<1>6. Kept(v, keep) = (CHOOSE f : Eqn(f))[DOMAIN v]
  BY DEF Kept, FoldLeft, MapThenFoldSet
<1> HIDE DEF Eqn, F, n, V, base
<1>7. PICK iter : Eqn(iter) /\ Kept(v, keep) = iter[DOMAIN v]
  BY <1>4, <1>6
<1>8. Solves(iter, n, V, base, F)
  BY <1>5, <1>7
<1>9. HasRun(iter, n, V, base, F)
  BY <1>1, <1>2, <1>8, FoldSteps
<1>10. PICK g : IsRun(g, n, V, base, F) /\ g[n] = Kept(v, keep)
  BY <1>1, <1>7, <1>9 DEF HasRun
<1>11. ASSUME NEW k \in 1..n
       PROVE  g[k] = Append(g[k - 1], v[k]) \/ g[k] = g[k - 1]
  <2>1. k - 1 \in 0..n
    BY <1>1
  <2>2. g[k - 1] \in V /\ g[k] = F[<<g[k - 1], k>>]
    BY <1>10, <2>1 DEF IsRun
  <2> QED
    BY <2>2 DEF F
<1> QED
  BY <1>10, <1>11 DEF Picks, IsRun, n, V, base

-----------------------------------------------------------------------------
(* How often an item occurs. *)

Count(s, x) == Cardinality({i \in DOMAIN s : s[i] = x})

\* How often an item occurs is a number.
LEMMA CountType ==
    ASSUME NEW E, NEW s \in Seq(E), NEW x
    PROVE  /\ IsFiniteSet({i \in DOMAIN s : s[i] = x}) /\ Count(s, x) \in Nat
           /\ Count(s, x) # 0 <=> \E i \in DOMAIN s : s[i] = x
<1> DEFINE P == {i \in DOMAIN s : s[i] = x}
<1>1. Len(s) \in Nat /\ DOMAIN s = 1..Len(s)
  BY LenProperties
<1>2. IsFiniteSet(DOMAIN s)
  BY <1>1, FS_Interval, 1 \in Int
<1>3. P \subseteq DOMAIN s
  OBVIOUS
<1>4. IsFiniteSet(P)
  BY <1>2, <1>3, FS_Subset
<1>5. Cardinality(P) \in Nat /\ (Cardinality(P) = 0 <=> P = {})
  BY <1>4, FS_CardinalityType, FS_EmptySet
<1> QED
  BY <1>4, <1>5 DEF Count

\* If each place of s has a place of t of its own that holds the same item,
\* then nothing occurs more often in s than in t.
LEMMA CountInjection ==
    ASSUME NEW D, NEW E, NEW s \in Seq(D), NEW t \in Seq(E), NEW x,
           NEW f \in Injection(DOMAIN s, DOMAIN t), \A i \in DOMAIN s : t[f[i]] = s[i]
    PROVE  Count(s, x) <= Count(t, x)
<1> DEFINE P == {i \in DOMAIN s : s[i] = x}
           Q == {i \in DOMAIN t : t[i] = x}
           g == [i \in P |-> f[i]]
<1>1. g \in Injection(P, Q)
  BY DEF Injection, IsInjective
<1>2. IsFiniteSet(Q)
  BY CountType
<1> QED
  BY <1>1, <1>2, FS_Injection DEF Count

\* Nothing occurs in the empty sequence.
LEMMA CountEmpty ==
    ASSUME NEW x
    PROVE  Count(<<>>, x) = 0
<1>1. {i \in DOMAIN <<>> : <<>>[i] = x} = {}
  OBVIOUS
<1> QED
  BY <1>1, FS_EmptySet DEF Count

\* An item that is appended occurs once more.
LEMMA CountAppend ==
    ASSUME NEW E, NEW s \in Seq(E), NEW e \in E, NEW x
    PROVE  Count(Append(s, e), x) = Count(s, x) + (IF e = x THEN 1 ELSE 0)
<1> DEFINE t == Append(s, e)
           P == {i \in DOMAIN s : s[i] = x}
           Q == {i \in DOMAIN t : t[i] = x}
           n == Len(s)
<1>1. n \in Nat /\ DOMAIN s = 1..n /\ DOMAIN t = 1..n + 1
  BY LenProperties, AppendProperties
<1>2. t[n + 1] = e /\ \A i \in 1..n : t[i] = s[i]
  BY AppendProperties
<1>3. IsFiniteSet(P)
  BY CountType
<1> HIDE DEF t, n
<1>4. 1..n + 1 = (1..n) \cup {n + 1} /\ n + 1 \notin 1..n
  BY <1>1
<1>5. CASE e = x
  <2>1. Q = P \cup {n + 1} /\ n + 1 \notin P
    BY <1>1, <1>2, <1>4, <1>5
  <2>2. Cardinality(Q) = Cardinality(P) + 1
    BY <1>3, <2>1, FS_AddElement
  <2> QED
    BY <1>5, <2>2 DEF Count, t
<1>6. CASE e # x
  <2>1. Q = P
    BY <1>1, <1>2, <1>4, <1>6
  <2>2. Count(s, x) \in Nat
    BY CountType
  <2>3. Count(Append(s, e), x) = Count(s, x)
    BY <2>1 DEF Count, t
  <2> QED
    BY <1>6, <2>2, <2>3
<1> QED
  BY <1>5, <1>6

\* What occurs in one sequence or the other occurs in both together.
LEMMA CountConcat ==
    ASSUME NEW E, NEW s \in Seq(E), NEW t \in Seq(E), NEW x
    PROVE  Count(s \o t, x) = Count(s, x) + Count(t, x)
<1> DEFINE S == {u \in Seq(E) : Count(s \o u, x) = Count(s, x) + Count(u, x)}
<1>1. <<>> \in S
  <2>1. s \o <<>> = s /\ <<>> \in Seq(E)
    BY ConcatEmptySeq, EmptySeq
  <2>2. Count(s, x) \in Nat
    BY CountType
  <2> QED
    BY <2>1, <2>2, CountEmpty
<1>2. ASSUME NEW u \in Seq(E), u \in S, NEW e \in E
      PROVE  Append(u, e) \in S
  <2>1. Append(u, e) \in Seq(E) /\ s \o u \in Seq(E)
    BY AppendProperties, ConcatProperties
  <2>2. s \o Append(u, e) = Append(s \o u, e)
    <3>1. <<e>> \in Seq(E)
      OBVIOUS
    <3> QED
      BY <2>1, <3>1, AppendIsConcat, ConcatAssociative
  <2>3. Count(s \o Append(u, e), x) = Count(s \o u, x) + (IF e = x THEN 1 ELSE 0)
    <3>1. PICK w \in Seq(E) : w = s \o u
      BY <2>1
    <3>2. Count(Append(w, e), x) = Count(w, x) + (IF e = x THEN 1 ELSE 0)
      BY CountAppend
    <3> QED
      BY <2>2, <3>1, <3>2
  <2>4. Count(Append(u, e), x) = Count(u, x) + (IF e = x THEN 1 ELSE 0)
    BY CountAppend
  <2>5. Count(s, x) \in Nat /\ Count(u, x) \in Nat
    BY CountType
  <2>6. Count(s \o u, x) = Count(s, x) + Count(u, x)
    BY <1>2
  <2>7. Count(s \o Append(u, e), x) = Count(s, x) + Count(Append(u, e), x)
    BY <2>3, <2>4, <2>5, <2>6
  <2> QED
    BY <2>1, <2>7
<1>3. Seq(E) \subseteq S
  <2> HIDE DEF S
  <2> QED
    BY <1>1, <1>2, InductionAppend
<1> QED
  BY <1>3

\* One item.
LEMMA CountOne ==
    ASSUME NEW e, NEW x
    PROVE  Count(<<e>>, x) = IF e = x THEN 1 ELSE 0
<1>1. PICK s \in Seq({e}) : s = <<>>
  BY EmptySeq
<1>2. Count(Append(s, e), x) = Count(s, x) + (IF e = x THEN 1 ELSE 0)
  BY e \in {e}, CountAppend
<1>3. Append(s, e) = <<e>>
  BY <1>1
<1>4. Count(s, x) = 0
  BY <1>1, CountEmpty
<1> QED
  BY <1>2, <1>3, <1>4

\* A sequence cut in two.
LEMMA CountCut ==
    ASSUME NEW E, NEW s \in Seq(E), NEW i \in 0..Len(s), NEW x
    PROVE  /\ SubSeq(s, 1, i) \in Seq(E) /\ SubSeq(s, i + 1, Len(s)) \in Seq(E)
           /\ Count(s, x) = Count(SubSeq(s, 1, i), x) + Count(SubSeq(s, i + 1, Len(s)), x)
<1>1. Len(s) \in Nat /\ i \in Int /\ i + 1 \in Int
  BY LenProperties
<1>2. \A k \in 1..Len(s) : s[k] \in E
  BY ElementOfSeq
<1>3. SubSeq(s, 1, i) \in Seq(E) /\ SubSeq(s, i + 1, Len(s)) \in Seq(E)
  <2>1. (\A k \in 1..i : s[k] \in E) /\ \A k \in (i + 1)..Len(s) : s[k] \in E
    BY <1>1, <1>2
  <2> QED
    BY <1>1, <2>1, SubSeqProperties
<1>4. SubSeq(s, 1, i) \o SubSeq(s, i + 1, Len(s)) = s
  <2>1. 1 \in 1..Len(s) + 1 /\ i \in 1 - 1..Len(s) /\ Len(s) \in i..Len(s)
    BY <1>1
  <2>2. SubSeq(s, 1, i) \o SubSeq(s, i + 1, Len(s)) = SubSeq(s, 1, Len(s))
    BY <2>1, ConcatAdjacentSubSeq
  <2> QED
    BY <2>2, SubSeqFull
<1>5. PICK a \in Seq(E), b \in Seq(E) :
            a = SubSeq(s, 1, i) /\ b = SubSeq(s, i + 1, Len(s))
  BY <1>3
<1>6. Count(a \o b, x) = Count(a, x) + Count(b, x)
  BY CountConcat
<1> QED
  BY <1>3, <1>4, <1>5, <1>6

\* What is at one place.
LEMMA CountPlace ==
    ASSUME NEW E, NEW s \in Seq(E), NEW i \in 1..Len(s), NEW x
    PROVE  /\ SubSeq(s, 1, i - 1) \in Seq(E) /\ SubSeq(s, i + 1, Len(s)) \in Seq(E)
           /\ Count(s, x) = Count(SubSeq(s, 1, i - 1), x) + Count(<<s[i]>>, x)
                              + Count(SubSeq(s, i + 1, Len(s)), x)
<1> DEFINE t == SubSeq(s, 1, i)
<1>1. Len(s) \in Nat /\ i - 1 \in 0..Len(s) /\ i \in 0..Len(s) /\ s[i] \in E
  BY LenProperties, ElementOfSeq
<1>2. /\ t \in Seq(E) /\ SubSeq(s, i + 1, Len(s)) \in Seq(E)
      /\ Count(s, x) = Count(t, x) + Count(SubSeq(s, i + 1, Len(s)), x)
  BY <1>1, CountCut
<1>3. SubSeq(s, 1, i - 1) \in Seq(E)
  BY <1>1, CountCut
<1>4. t = Append(SubSeq(s, 1, i - 1), s[i])
  <2>1. 1 \in 1..Len(s) /\ i \in 1..Len(s)
    BY <1>1
  <2>2. t = SubSeq(s, 1, i - 1) \o <<s[i]>>
    BY <2>1, SubSeqRecursiveSecond
  <2> QED
    BY <1>1, <1>3, <2>2, AppendIsConcat
<1>5. Count(t, x) = Count(SubSeq(s, 1, i - 1), x) + (IF s[i] = x THEN 1 ELSE 0)
  <2>1. PICK a \in Seq(E), e \in E : a = SubSeq(s, 1, i - 1) /\ e = s[i]
    BY <1>1, <1>3
  <2>2. Count(Append(a, e), x) = Count(a, x) + (IF e = x THEN 1 ELSE 0)
    BY CountAppend
  <2> QED
    BY <1>4, <2>1, <2>2
<1> QED
  BY <1>2, <1>3, <1>5, CountOne

\* A sequence whose places are those of s in another order.
LEMMA CountPermuted ==
    ASSUME NEW D, NEW E, NEW s \in Seq(D), NEW t \in Seq(E), NEW x,
           NEW f \in Bijection(DOMAIN s, DOMAIN t), \A i \in DOMAIN s : t[f[i]] = s[i]
    PROVE  Count(s, x) = Count(t, x)
<1> DEFINE P == {i \in DOMAIN s : s[i] = x}
           Q == {i \in DOMAIN t : t[i] = x}
           g == [i \in P |-> f[i]]
<1>1. g \in Bijection(P, Q)
  BY DEF Bijection, Injection, Surjection, IsInjective
<1>2. IsFiniteSet(P)
  BY CountType
<1>3. ExistsBijection(P, Q)
  BY <1>1 DEF ExistsBijection
<1> QED
  BY <1>2, <1>3, FS_Bijection DEF Count

\* What is picked of a sequence is part of it.
LEMMA CountPicked ==
    ASSUME NEW E, NEW v \in Seq(E), NEW g, Picks(g, E, v), NEW x
    PROVE  g[Len(v)] \in Seq(E) /\ Count(g[Len(v)], x) <= Count(v, x)
<1> DEFINE S == {k \in Nat : k <= Len(v) => Count(g[k], x) <= Count(SubSeq(v, 1, k), x)}
<1>1. Len(v) \in Nat
  BY LenProperties
<1>2. 0 \in S
  <2>1. SubSeq(v, 1, 0) = <<>>
    BY SubSeqEmpty, 0 \in Int, 1 \in Int
  <2>2. g[0] = <<>>
    BY DEF Picks
  <2>3. Count(g[0], x) = 0 /\ Count(SubSeq(v, 1, 0), x) = 0
    BY <2>1, <2>2, CountEmpty
  <2> QED
    BY <2>3
<1>3. ASSUME NEW k \in Nat, k \in S
      PROVE  k + 1 \in S
  <2> SUFFICES ASSUME k + 1 <= Len(v)
               PROVE  Count(g[k + 1], x) <= Count(SubSeq(v, 1, k + 1), x)
    OBVIOUS
  <2>1. k \in 0..Len(v) /\ k + 1 \in 1..Len(v) /\ (k + 1) - 1 = k
    BY <1>1
  <2>2. g[k + 1] = Append(g[k], v[k + 1]) \/ g[k + 1] = g[k]
    BY <2>1 DEF Picks
  <2>3. PICK a \in Seq(E), b \in Seq(E), e \in E :
              a = SubSeq(v, 1, k) /\ b = g[k] /\ e = v[k + 1]
    <3>1. SubSeq(v, 1, k) \in Seq(E)
      BY <2>1, CountCut
    <3>2. g[k] \in Seq(E)
      BY <2>1 DEF Picks
    <3> QED
      BY <2>1, <3>1, <3>2, ElementOfSeq
  <2>4. SubSeq(v, 1, k + 1) = Append(a, e)
    <3>1. 1 \in 1..Len(v) /\ k + 1 \in 1..Len(v)
      BY <1>1, <2>1
    <3>2. SubSeq(v, 1, k + 1) = SubSeq(v, 1, k) \o <<v[k + 1]>>
      BY <2>1, <3>1, SubSeqRecursiveSecond
    <3> QED
      BY <2>3, <3>2, AppendIsConcat
  <2>5. /\ Count(Append(a, e), x) = Count(a, x) + (IF e = x THEN 1 ELSE 0)
        /\ Count(Append(b, e), x) = Count(b, x) + (IF e = x THEN 1 ELSE 0)
    BY CountAppend
  <2>6. Count(b, x) <= Count(a, x)
    BY <1>3, <2>1, <2>3
  <2>7. Count(b, x) \in Nat /\ Count(a, x) \in Nat
    BY CountType
  <2>8. g[k + 1] = Append(b, e) \/ g[k + 1] = b
    BY <2>2, <2>3
  <2>9. Count(g[k + 1], x) <= Count(Append(a, e), x)
    <3>1. CASE g[k + 1] = Append(b, e)
      BY <2>5, <2>6, <2>7, <3>1
    <3>2. CASE g[k + 1] = b
      BY <2>5, <2>6, <2>7, <3>2
    <3> QED
      BY <2>8, <3>1, <3>2
  <2> QED
    BY <2>4, <2>9
<1>4. Nat \subseteq S
  <2> HIDE DEF S
  <2> QED
    BY <1>2, <1>3, Induction
<1>5. Count(g[Len(v)], x) <= Count(SubSeq(v, 1, Len(v)), x)
  BY <1>1, <1>4
<1>6. SubSeq(v, 1, Len(v)) = v
  BY SubSeqFull
<1>7. Count(g[Len(v)], x) <= Count(v, x)
  BY <1>5, <1>6
<1>8. g[Len(v)] \in Seq(E)
  BY <1>1 DEF Picks
<1> QED
  BY <1>7, <1>8

\* A sequence read backwards.
LEMMA CountReversed ==
    ASSUME NEW E, NEW s \in Seq(E), NEW x
    PROVE  Reverse(s) \in Seq(E) /\ Count(Reverse(s), x) = Count(s, x)
<1> DEFINE n == Len(s)
           t == Reverse(s)
           f == [i \in DOMAIN s |-> (n - i) + 1]
<1>1. n \in Nat /\ DOMAIN s = 1..n /\ \A i \in 1..n : s[i] \in E
  BY LenProperties, ElementOfSeq
<1>2. t = [i \in 1..n |-> s[(n - i) + 1]] /\ \A i \in 1..n : (n - i) + 1 \in 1..n
  BY <1>1 DEF Reverse
<1>3. t \in Seq(E) /\ DOMAIN t = 1..n
  BY <1>1, <1>2
<1>4. \A i \in 1..n : (n - ((n - i) + 1)) + 1 = i
  BY <1>1
<1>5. f \in Bijection(DOMAIN s, DOMAIN t)
  <2> HIDE DEF t, n
  <2>1. f \in [DOMAIN s -> DOMAIN t]
    BY <1>1, <1>2, <1>3
  <2>2. \A i, j \in DOMAIN s : f[i] = f[j] => i = j
    BY <1>1
  <2>3. \A k \in DOMAIN t : \E i \in DOMAIN s : f[i] = k
    BY <1>1, <1>2, <1>3, <1>4
  <2> QED
    BY <2>1, <2>2, <2>3 DEF Bijection, Injection, Surjection, IsInjective
<1>6. \A i \in DOMAIN s : t[f[i]] = s[i]
  <2> HIDE DEF t, n
  <2> QED
    BY <1>1, <1>2, <1>4
<1> HIDE DEF t, f
<1>7. Count(s, x) = Count(t, x)
  BY <1>3, <1>5, <1>6, CountPermuted
<1> QED
  BY <1>3, <1>7 DEF t

\* Two places exchanged.
Swapped(s, i, j) == [s EXCEPT ![i] = s[j], ![j] = s[i]]

\* The items are the same.
LEMMA CountSwapped ==
    ASSUME NEW E, NEW s \in Seq(E), NEW i \in DOMAIN s, NEW j \in DOMAIN s, NEW x
    PROVE  LET t == Swapped(s, i, j)
           IN t \in Seq(E) /\ Len(t) = Len(s) /\ Count(t, x) = Count(s, x)
<1> DEFINE n == Len(s)
           t == [s EXCEPT ![i] = s[j], ![j] = s[i]]
           f == [k \in DOMAIN s |-> IF k = i THEN j ELSE IF k = j THEN i ELSE k]
<1>1. n \in Nat /\ DOMAIN s = 1..n /\ s \in [1..n -> E]
  BY LenProperties
<1>2. t \in [1..n -> E]
  BY <1>1
<1>3. t \in Seq(E) /\ DOMAIN t = 1..n /\ Len(t) = n
  <2> HIDE DEF t
  <2> QED
    BY <1>1, <1>2
<1>4. f \in Bijection(DOMAIN s, DOMAIN t)
  BY <1>1, <1>3 DEF Bijection, Injection, Surjection, IsInjective
<1>5. \A k \in DOMAIN s : t[f[k]] = s[k]
  BY <1>1
<1>6. Count(s, x) = Count(t, x)
  <2> HIDE DEF t, f
  <2> QED
    BY <1>3, <1>4, <1>5, CountPermuted
<1> QED
  BY <1>3, <1>6 DEF Swapped

\* A strict order of the numbers up to n, and the place it gives to each.
IsOrder(R, n) ==
    /\ \A i \in 1..n : <<i, i>> \notin R
    /\ \A i, j \in 1..n : i # j => <<i, j>> \in R \/ <<j, i>> \in R
    /\ \A i, j, k \in 1..n : <<i, j>> \in R /\ <<j, k>> \in R => <<i, k>> \in R
PlacesBy(R, n) == [i \in 1..n |-> 1 + Cardinality({j \in 1..n : <<j, i>> \in R})]

\* These places are the numbers up to n.
LEMMA Places ==
    ASSUME NEW n \in Nat, NEW R, IsOrder(R, n)
    PROVE  /\ PlacesBy(R, n) \in Bijection(1..n, 1..n)
           /\ \A i, k \in 1..n : <<i, k>> \in R => PlacesBy(R, n)[i] < PlacesBy(R, n)[k]
<1> USE DEF IsOrder
<1> DEFINE D == 1..n
           Below(i) == {j \in D : <<j, i>> \in R}
           f == [i \in D |-> 1 + Cardinality(Below(i))]
<1>1. IsFiniteSet(D) /\ Cardinality(D) = n
  BY FS_Interval, 1 \in Int, n \in Int
<1>2. ASSUME NEW i \in D
      PROVE  IsFiniteSet(Below(i)) /\ Cardinality(Below(i)) \in Nat /\ Cardinality(Below(i)) < n
  <2>1. Below(i) \in SUBSET D /\ Below(i) # D
    OBVIOUS
  <2> HIDE DEF Below, D
  <2>2. IsFiniteSet(Below(i))
    BY <1>1, <2>1, FS_Subset
  <2>3. Cardinality(Below(i)) <= n /\ Cardinality(Below(i)) # n
    BY <1>1, <2>1, FS_Subset
  <2>4. Cardinality(Below(i)) \in Nat
    BY <2>2, FS_CardinalityType
  <2> QED
    BY <2>2, <2>3, <2>4
<1>3. ASSUME NEW i \in D, NEW k \in D, <<i, k>> \in R
      PROVE  Cardinality(Below(i)) < Cardinality(Below(k))
  <2>1. Below(i) \subseteq Below(k) /\ Below(i) # Below(k)
    BY <1>3
  <2>2. IsFiniteSet(Below(k)) /\ Cardinality(Below(k)) \in Nat /\ Cardinality(Below(i)) \in Nat
    BY <1>2
  <2>3. Cardinality(Below(i)) <= Cardinality(Below(k))
            /\ Cardinality(Below(i)) # Cardinality(Below(k))
    BY <2>1, <2>2, FS_Subset
  <2> QED
    BY <2>2, <2>3
<1>4. f \in [D -> D]
  <2>1. ASSUME NEW i \in D
        PROVE  1 + Cardinality(Below(i)) \in D
    <3>1. PICK c \in Nat : c = Cardinality(Below(i)) /\ c < n
      BY <1>2
    <3> QED
      BY <3>1
  <2> QED
    BY <2>1
<1>5. \A i, k \in D : f[i] = f[k] => i = k
  <2> SUFFICES ASSUME NEW i \in D, NEW k \in D, i # k
               PROVE  f[i] # f[k]
    OBVIOUS
  <2>1. Cardinality(Below(i)) \in Nat /\ Cardinality(Below(k)) \in Nat
    BY <1>2
  <2>2. <<i, k>> \in R \/ <<k, i>> \in R
    OBVIOUS
  <2>3. Cardinality(Below(i)) # Cardinality(Below(k))
    BY <1>3, <2>1, <2>2
  <2> QED
    BY <2>1, <2>3
<1>9. \A i, k \in D : <<i, k>> \in R => f[i] < f[k]
  <2> SUFFICES ASSUME NEW i \in D, NEW k \in D, <<i, k>> \in R
               PROVE  f[i] < f[k]
    OBVIOUS
  <2>1. /\ Cardinality(Below(i)) \in Nat /\ Cardinality(Below(k)) \in Nat
        /\ Cardinality(Below(i)) < Cardinality(Below(k))
    BY <1>2, <1>3
  <2> QED
    BY <2>1
<1> HIDE DEF f, D
<1>6. f \in Injection(D, D)
  BY <1>4, <1>5 DEF Injection, IsInjective
<1>7. f \in Surjection(D, D)
  BY <1>1, <1>6, FS_Injection
<1>8. f \in Bijection(D, D)
  BY <1>6, <1>7 DEF Bijection
<1> QED
  BY <1>8, <1>9 DEF f, D, PlacesBy

\* A sequence with its items at the places f gives them has the same items.
LEMMA CountPlaced ==
    ASSUME NEW E, NEW s \in Seq(E), NEW f \in Bijection(DOMAIN s, DOMAIN s), NEW x
    PROVE  Placed(s, f) \in Seq(E) /\ Count(Placed(s, f), x) = Count(s, x)
<1> DEFINE t == [k \in DOMAIN s |-> s[CHOOSE i \in DOMAIN s : f[i] = k]]
<1>1. Len(s) \in Nat /\ DOMAIN s = 1..Len(s) /\ s \in [1..Len(s) -> E]
  BY LenProperties
<1>2. \A k \in DOMAIN s : \E i \in DOMAIN s : f[i] = k
  BY DEF Bijection, Surjection
<1>3. \A i, j \in DOMAIN s : f[i] = f[j] => i = j
  BY DEF Bijection, Injection, IsInjective
<1>4. \A k \in DOMAIN s : s[CHOOSE i \in DOMAIN s : f[i] = k] \in E
  BY <1>1, <1>2
<1>5. t \in [1..Len(s) -> E] /\ DOMAIN t = DOMAIN s
  BY <1>1, <1>4
<1>6. t \in Seq(E)
  <2> HIDE DEF t
  <2> QED
    BY <1>1, <1>5
<1>7. \A i \in DOMAIN s : t[f[i]] = s[i]
  <2> TAKE i \in DOMAIN s
  <2>1. f[i] \in DOMAIN s
    BY DEF Bijection, Injection
  <2>2. (CHOOSE j \in DOMAIN s : f[j] = f[i]) = i
    BY <1>3
  <2> QED
    BY <2>1, <2>2
<1> HIDE DEF t
<1>8. Count(s, x) = Count(t, x)
  BY <1>5, <1>6, <1>7, CountPermuted
<1> QED
  BY <1>6, <1>8 DEF t, Placed

\* Nothing is lost or doubled when old and what came in became new and what
\* went out.
Conserved(new, out, old, in) ==
    \A x : Count(new, x) + Count(out, x) = Count(old, x) + Count(in, x)

\* Nothing is doubled.
Dropped(new, out, old, in) ==
    \A x : Count(new, x) + Count(out, x) <= Count(old, x) + Count(in, x)

\* A stretch of a sequence in two parts.
LEMMA CountStretch ==
    ASSUME NEW E, NEW v \in Seq(E), NEW i \in 0..Len(v), NEW j \in i..Len(v), NEW x
    PROVE  /\ SubSeq(v, 1, i) \in Seq(E) /\ SubSeq(v, i + 1, j) \in Seq(E)
           /\ SubSeq(v, 1, j) \in Seq(E) /\ SubSeq(v, j + 1, Len(v)) \in Seq(E)
           /\ Count(v, x) = Count(SubSeq(v, 1, i), x) + Count(SubSeq(v, i + 1, j), x)
                              + Count(SubSeq(v, j + 1, Len(v)), x)
<1>1. Len(v) \in Nat /\ i \in Int /\ j \in Int /\ i + 1 \in Int /\ j \in 0..Len(v)
  BY LenProperties
<1>2. \A k \in 1..Len(v) : v[k] \in E
  BY ElementOfSeq
<1>3. SubSeq(v, i + 1, j) \in Seq(E)
  <2>1. \A k \in (i + 1)..j : v[k] \in E
    BY <1>1, <1>2
  <2> QED
    BY <1>1, <2>1, SubSeqProperties
<1>4. /\ SubSeq(v, 1, j) \in Seq(E) /\ SubSeq(v, j + 1, Len(v)) \in Seq(E)
      /\ Count(v, x) = Count(SubSeq(v, 1, j), x) + Count(SubSeq(v, j + 1, Len(v)), x)
  BY <1>1, CountCut
<1>5. SubSeq(v, 1, i) \in Seq(E)
  BY CountCut
<1>6. SubSeq(v, 1, i) \o SubSeq(v, i + 1, j) = SubSeq(v, 1, j)
  <2>1. 1 \in 1..Len(v) + 1 /\ i \in 1 - 1..Len(v) /\ j \in i..Len(v)
    BY <1>1
  <2> QED
    BY <2>1, ConcatAdjacentSubSeq
<1>7. PICK a \in Seq(E), b \in Seq(E) : a = SubSeq(v, 1, i) /\ b = SubSeq(v, i + 1, j)
  BY <1>3, <1>5
<1>8. Count(a \o b, x) = Count(a, x) + Count(b, x)
  BY CountConcat
<1> QED
  BY <1>3, <1>4, <1>5, <1>6, <1>7, <1>8

\* A stretch is cut out.
LEMMA CutOut ==
    ASSUME NEW E, NEW v \in Seq(E), NEW i \in 0..Len(v), NEW j \in i..Len(v)
    PROVE  LET new == SubSeq(v, 1, i) \o SubSeq(v, j + 1, Len(v))
               out == SubSeq(v, i + 1, j)
           IN new \in Seq(E) /\ out \in Seq(E) /\ Conserved(new, out, v, <<>>)
<1>1. PICK a \in Seq(E), b \in Seq(E), c \in Seq(E) :
          a = SubSeq(v, 1, i) /\ b = SubSeq(v, i + 1, j) /\ c = SubSeq(v, j + 1, Len(v))
  BY CountStretch
<1>2. a \o c \in Seq(E)
  BY ConcatProperties
<1>3. ASSUME NEW x
      PROVE  Count(a \o c, x) + Count(b, x) = Count(v, x) + Count(<<>>, x)
  <2>1. Count(v, x) = Count(a, x) + Count(b, x) + Count(c, x)
    BY <1>1, CountStretch
  <2>2. Count(a \o c, x) = Count(a, x) + Count(c, x)
    BY CountConcat
  <2>3. Count(a, x) \in Nat /\ Count(b, x) \in Nat /\ Count(c, x) \in Nat
    BY CountType
  <2>4. Count(<<>>, x) = 0
    BY CountEmpty
  <2> QED
    BY <2>1, <2>2, <2>3, <2>4
<1> QED
  BY <1>1, <1>2, <1>3 DEF Conserved

\* A sequence is put in at a place.
LEMMA PutIn ==
    ASSUME NEW E, NEW v \in Seq(E), NEW t \in Seq(E), NEW i \in 0..Len(v)
    PROVE  LET new == SubSeq(v, 1, i) \o t \o SubSeq(v, i + 1, Len(v))
           IN new \in Seq(E) /\ Conserved(new, <<>>, v, t)
<1>1. PICK a \in Seq(E), c \in Seq(E) : a = SubSeq(v, 1, i) /\ c = SubSeq(v, i + 1, Len(v))
  BY CountCut
<1>2. PICK b \in Seq(E) : b = a \o t
  BY ConcatProperties
<1>3. b \o c \in Seq(E)
  BY ConcatProperties
<1>4. ASSUME NEW x
      PROVE  Count(b \o c, x) + Count(<<>>, x) = Count(v, x) + Count(t, x)
  <2>1. Count(v, x) = Count(a, x) + Count(c, x)
    BY <1>1, CountCut
  <2>2. Count(b \o c, x) = Count(b, x) + Count(c, x)
    BY CountConcat
  <2>3. Count(b, x) = Count(a, x) + Count(t, x)
    BY <1>2, CountConcat
  <2>4. Count(a, x) \in Nat /\ Count(c, x) \in Nat /\ Count(t, x) \in Nat
    BY CountType
  <2>5. Count(<<>>, x) = 0
    BY CountEmpty
  <2> QED
    BY <2>1, <2>2, <2>3, <2>4, <2>5
<1> QED
  BY <1>1, <1>2, <1>3, <1>4 DEF Conserved

\* A sequence is put at the end.
LEMMA PutLast ==
    ASSUME NEW E, NEW v \in Seq(E), NEW t \in Seq(E)
    PROVE  v \o t \in Seq(E) /\ Conserved(v \o t, <<>>, v, t)
<1>1. ASSUME NEW x
      PROVE  Count(v \o t, x) + Count(<<>>, x) = Count(v, x) + Count(t, x)
  <2>1. Count(v \o t, x) = Count(v, x) + Count(t, x)
    BY CountConcat
  <2>2. Count(v, x) \in Nat /\ Count(t, x) \in Nat
    BY CountType
  <2> QED
    BY <2>1, <2>2, CountEmpty
<1> QED
  BY <1>1, ConcatProperties DEF Conserved

\* An item is.
LEMMA PutItem ==
    ASSUME NEW E, NEW v \in Seq(E), NEW e \in E
    PROVE  Append(v, e) \in Seq(E) /\ Conserved(Append(v, e), <<>>, v, <<e>>)
<1>1. Append(v, e) = v \o <<e>>
  BY AppendIsConcat
<1>2. <<e>> \in Seq(E)
  OBVIOUS
<1>3. PICK t \in Seq(E) : t = <<e>>
  BY <1>2
<1> QED
  BY <1>1, <1>3, PutLast

\* The item at a place is taken out.
LEMMA TakeOut ==
    ASSUME NEW E, NEW v \in Seq(E), NEW i \in Nat, i < Len(v)
    PROVE  LET new == SubSeq(v, 1, i) \o SubSeq(v, i + 2, Len(v))
           IN /\ new \in Seq(E) /\ <<v[i + 1]>> \in Seq(E)
              /\ Conserved(new, <<v[i + 1]>>, v, <<>>)
<1>1. Len(v) \in Nat /\ i \in 0..Len(v) /\ i + 1 \in i..Len(v) /\ i + 1 \in 1..Len(v)
        /\ (i + 1) + 1 = i + 2
  BY LenProperties
<1>2. SubSeq(v, i + 1, i + 1) = <<v[i + 1]>>
  <2>1. v[i + 1] \in E /\ i + 1 \in Int
    BY <1>1, ElementOfSeq
  <2>2. \A k \in (i + 1)..(i + 1) : v[k] \in E
    BY <2>1
  <2>3. /\ SubSeq(v, i + 1, i + 1) \in Seq(E) /\ Len(SubSeq(v, i + 1, i + 1)) = 1
        /\ SubSeq(v, i + 1, i + 1)[1] = v[i + 1]
    <3>1. PICK k \in Int : k = i + 1
      BY <2>1
    <3>2. /\ SubSeq(v, k, k) \in Seq(E)
          /\ Len(SubSeq(v, k, k)) = IF k <= k THEN k - k + 1 ELSE 0
          /\ \A l \in 1..k - k + 1 : SubSeq(v, k, k)[l] = v[k + l - 1]
      BY <2>2, <3>1, SubSeqProperties
    <3> QED
      BY <3>1, <3>2
  <2>4. PICK s \in Seq(E) : s = SubSeq(v, i + 1, i + 1)
    BY <2>3
  <2>5. PICK t \in Seq(E) : t = <<v[i + 1]>>
    <3>1. <<v[i + 1]>> \in Seq(E)
      BY <2>1
    <3> QED
      BY <3>1
  <2>6. s = t
    <3>1. Len(s) = 1 /\ Len(t) = 1 /\ s[1] = t[1]
      BY <2>3, <2>4, <2>5
    <3>2. \A k \in 1..Len(s) : s[k] = t[k]
      BY <3>1
    <3> QED
      BY <3>1, <3>2, SeqEqual
  <2> QED
    BY <2>4, <2>5, <2>6
<1>3. PICK j \in i..Len(v) : j = i + 1
  BY <1>1
<1>4. LET new == SubSeq(v, 1, i) \o SubSeq(v, j + 1, Len(v))
          out == SubSeq(v, i + 1, j)
      IN new \in Seq(E) /\ out \in Seq(E) /\ Conserved(new, out, v, <<>>)
  BY <1>1, CutOut
<1> QED
  BY <1>1, <1>2, <1>3, <1>4

\* What is picked of a sequence is part of it.
LEMMA PickedOf ==
    ASSUME NEW E, NEW v \in Seq(E), NEW g, Picks(g, E, v)
    PROVE  g[Len(v)] \in Seq(E) /\ Dropped(g[Len(v)], <<>>, v, <<>>)
<1>1. PICK t \in Seq(E) : t = g[Len(v)] /\ \A x : Count(t, x) <= Count(v, x)
  BY CountPicked
<1>2. ASSUME NEW x
      PROVE  Count(t, x) + Count(<<>>, x) <= Count(v, x) + Count(<<>>, x)
  <2>1. Count(t, x) \in Nat /\ Count(v, x) \in Nat
    BY CountType
  <2> QED
    BY <1>1, <2>1, CountEmpty
<1> QED
  BY <1>1, <1>2 DEF Dropped

\* So is what is kept of it.
LEMMA KeptOf ==
    ASSUME NEW E, NEW v \in Seq(E), NEW keep
    PROVE  Kept(v, keep) \in Seq(E) /\ Dropped(Kept(v, keep), <<>>, v, <<>>)
<1>1. PICK g : Picks(g, E, v) /\ g[Len(v)] = Kept(v, keep)
  BY KeptPicks
<1> QED
  BY <1>1, PickedOf

\* The end is dropped.
LEMMA CutOff ==
    ASSUME NEW E, NEW v \in Seq(E), NEW i \in 0..Len(v)
    PROVE  SubSeq(v, 1, i) \in Seq(E) /\ Dropped(SubSeq(v, 1, i), <<>>, v, <<>>)
<1>1. PICK a \in Seq(E), b \in Seq(E) : a = SubSeq(v, 1, i) /\ b = SubSeq(v, i + 1, Len(v))
  BY CountCut
<1>2. ASSUME NEW x
      PROVE  Count(a, x) + Count(<<>>, x) <= Count(v, x) + Count(<<>>, x)
  <2>1. Count(a, x) \in Nat /\ Count(b, x) \in Nat /\ Count(v, x) = Count(a, x) + Count(b, x)
    BY <1>1, CountCut, CountType
  <2> QED
    BY <2>1, CountEmpty
<1> QED
  BY <1>1, <1>2 DEF Dropped

\* Everything is.
LEMMA AllDropped ==
    ASSUME NEW E, NEW v \in Seq(E)
    PROVE  <<>> \in Seq(E) /\ Dropped(<<>>, <<>>, v, <<>>)
<1>1. ASSUME NEW x
      PROVE  Count(<<>>, x) + Count(<<>>, x) <= Count(v, x) + Count(<<>>, x)
  <2>1. Count(v, x) \in Nat
    BY CountType
  <2> QED
    BY <2>1, CountEmpty
<1> QED
  BY <1>1, EmptySeq DEF Dropped

\* Nothing happens, or only the order changes.
LEMMA SameCounts ==
    ASSUME NEW E, NEW v \in Seq(E), NEW t \in Seq(E), \A x : Count(t, x) = Count(v, x)
    PROVE  Conserved(t, <<>>, v, <<>>) /\ <<>> \in Seq(E)
  BY EmptySeq DEF Conserved

\* The end is handed over.
LEMMA SplitOff ==
    ASSUME NEW E, NEW v \in Seq(E), NEW i \in Nat, i <= Len(v)
    PROVE  LET new == SubSeq(v, 1, i)
               out == SubSeq(v, i + 1, Len(v))
           IN new \in Seq(E) /\ out \in Seq(E) /\ Conserved(new, out, v, <<>>)
<1>1. Len(v) \in Nat /\ i \in 0..Len(v) /\ Len(v) \in i..Len(v)
  BY LenProperties
<1>2. SubSeq(v, Len(v) + 1, Len(v)) = <<>>
  BY <1>1, Len(v) + 1 \in Int, Len(v) \in Int, Len(v) < Len(v) + 1, SubSeqEmpty
<1>3. PICK a \in Seq(E), b \in Seq(E) : a = SubSeq(v, 1, i) /\ b = SubSeq(v, i + 1, Len(v))
  BY <1>1, CountCut
<1>4. a \o <<>> = a
  BY ConcatEmptySeq
<1>5. PICK n \in i..Len(v) : n = Len(v)
  BY <1>1
<1>6. LET new == SubSeq(v, 1, i) \o SubSeq(v, n + 1, Len(v))
          out == SubSeq(v, i + 1, n)
      IN Conserved(new, out, v, <<>>)
  BY <1>1, CutOut
<1> QED
  BY <1>2, <1>3, <1>4, <1>5, <1>6

\* The last item is, if there is one.
LEMMA PopLast ==
    ASSUME NEW E, NEW v \in Seq(E)
    PROVE  LET new == IF v = <<>> THEN v ELSE Front(v)
               out == IF v = <<>> THEN <<>> ELSE <<Last(v)>>
           IN new \in Seq(E) /\ out \in Seq(E) /\ Conserved(new, out, v, <<>>)
<1>1. CASE v = <<>>
  BY <1>1, SameCounts
<1>2. CASE v # <<>>
  <2>1. PICK n \in Nat : n + 1 = Len(v)
    <3>1. Len(v) \in Nat \ {0}
      BY <1>2, EmptySeq
    <3> QED
      BY <3>1, Len(v) - 1 \in Nat
  <2>2. LET new == SubSeq(v, 1, n) \o SubSeq(v, n + 2, Len(v))
        IN new \in Seq(E) /\ <<v[n + 1]>> \in Seq(E) /\ Conserved(new, <<v[n + 1]>>, v, <<>>)
    BY <2>1, n < Len(v), TakeOut
  <2>3. SubSeq(v, n + 2, Len(v)) = <<>>
    BY <2>1, n + 2 \in Int, Len(v) \in Int, Len(v) < n + 2, SubSeqEmpty
  <2>4. PICK a \in Seq(E) : a = SubSeq(v, 1, n)
    BY <2>1, n \in 0..Len(v), CountCut
  <2>5. a \o <<>> = a
    BY ConcatEmptySeq
  <2>6. Front(v) = a /\ Last(v) = v[n + 1]
    BY <2>1, <2>4, Len(v) - 1 = n DEF Front, Last
  <2> QED
    BY <1>2, <2>2, <2>3, <2>4, <2>5, <2>6
<1> QED
  BY <1>1, <1>2

\* Two items change places.
LEMMA SwapOf ==
    ASSUME NEW E, NEW v \in Seq(E), NEW i \in Nat, NEW j \in Nat, i < Len(v), j < Len(v)
    PROVE  LET new == Swapped(v, i + 1, j + 1)
           IN new \in Seq(E) /\ Conserved(new, <<>>, v, <<>>)
<1>1. PICK a \in DOMAIN v, b \in DOMAIN v : a = i + 1 /\ b = j + 1
  BY LenProperties
<1>2. PICK t \in Seq(E) : t = Swapped(v, a, b) /\ \A x : Count(t, x) = Count(v, x)
  BY CountSwapped
<1> QED
  BY <1>1, <1>2, SameCounts

\* A sequence is cut or filled up.
LEMMA Resized ==
    ASSUME NEW E, NEW v \in Seq(E), NEW n \in Nat, NEW e \in E
    PROVE  SubSeq(v, 1, IF n < Len(v) THEN n ELSE Len(v))
               \o [k \in 1..(IF n < Len(v) THEN 0 ELSE n - Len(v)) |-> e] \in Seq(E)
<1>1. Len(v) \in Nat
  BY LenProperties
<1>2. PICK i \in 0..Len(v) : i = IF n < Len(v) THEN n ELSE Len(v)
  BY <1>1
<1>3. PICK m \in Nat : m = IF n < Len(v) THEN 0 ELSE n - Len(v)
  <2>1. CASE n < Len(v)
    BY <2>1
  <2>2. CASE ~(n < Len(v))
    BY <1>1, <2>2, n - Len(v) \in Nat
  <2> QED
    BY <2>1, <2>2
<1>4. SubSeq(v, 1, i) \in Seq(E)
  BY CountCut
<1>5. [k \in 1..m |-> e] \in Seq(E)
  OBVIOUS
<1>6. SubSeq(v, 1, i) \o [k \in 1..m |-> e] \in Seq(E)
  BY <1>4, <1>5, ConcatProperties
<1> QED
  BY <1>2, <1>3, <1>6

\* The first item is taken out.
LEMMA PopFirst ==
    ASSUME NEW E, NEW v \in Seq(E), v # <<>>
    PROVE  /\ Tail(v) \in Seq(E) /\ <<Head(v)>> \in Seq(E)
           /\ Conserved(Tail(v), <<Head(v)>>, v, <<>>)
<1>1. Len(v) \in Nat \ {0} /\ 0 \in Nat
  BY EmptySeq
<1>2. LET new == SubSeq(v, 1, 0) \o SubSeq(v, 0 + 2, Len(v))
      IN /\ new \in Seq(E) /\ <<v[0 + 1]>> \in Seq(E)
         /\ Conserved(new, <<v[0 + 1]>>, v, <<>>)
  <2>1. 0 < Len(v)
    BY <1>1
  <2> QED
    BY <1>1, <2>1, TakeOut
<1>3. SubSeq(v, 1, 0) = <<>>
  BY SubSeqEmpty, 0 \in Int, 1 \in Int
<1>4. PICK t \in Seq(E) : t = Tail(v)
  BY HeadTailProperties
<1>5. t = SubSeq(v, 0 + 2, Len(v))
  BY <1>4, TailIsSubSeq, 0 + 2 = 2
<1>6. <<>> \o t = t
  BY ConcatEmptySeq
<1>7. Head(v) = v[0 + 1]
  BY 0 + 1 = 1
<1> QED
  BY <1>2, <1>3, <1>4, <1>5, <1>6, <1>7

\* An item is put first.
LEMMA PutFirst ==
    ASSUME NEW E, NEW v \in Seq(E), NEW t \in Seq(E)
    PROVE  t \o v \in Seq(E) /\ Conserved(t \o v, <<>>, v, t)
<1>1. ASSUME NEW x
      PROVE  Count(t \o v, x) + Count(<<>>, x) = Count(v, x) + Count(t, x)
  <2>1. Count(t \o v, x) = Count(t, x) + Count(v, x)
    BY CountConcat
  <2>2. Count(v, x) \in Nat /\ Count(t, x) \in Nat
    BY CountType
  <2> QED
    BY <2>1, <2>2, CountEmpty
<1> QED
  BY <1>1, ConcatProperties DEF Conserved

\* One value is exchanged for another.
LEMMA Exchanged ==
    ASSUME NEW E, NEW v \in Seq(E), NEW t \in Seq(E)
    PROVE  Conserved(t, v, v, t)
<1>1. ASSUME NEW x
      PROVE  Count(t, x) + Count(v, x) = Count(v, x) + Count(t, x)
  <2>1. Count(v, x) \in Nat /\ Count(t, x) \in Nat
    BY CountType
  <2> QED
    BY <2>1
<1> QED
  BY <1>1 DEF Conserved

\* All is handed over.
LEMMA HandedOver ==
    ASSUME NEW E, NEW v \in Seq(E)
    PROVE  Conserved(<<>>, v, v, <<>>) /\ <<>> \in Seq(E)
  BY Exchanged, EmptySeq

\* Every item of a sequence is edited.
LEMMA Edited ==
    ASSUME NEW E, NEW v \in Seq(E), NEW edit, \A x \in E : edit[x] \in E
    PROVE  [k \in DOMAIN v |-> edit[v[k]]] \in Seq(E)
<1> DEFINE w == [k \in DOMAIN v |-> edit[v[k]]]
<1>1. Len(v) \in Nat /\ DOMAIN v = 1..Len(v) /\ \A k \in 1..Len(v) : v[k] \in E
  BY LenProperties, ElementOfSeq
<1>2. w \in [1..Len(v) -> E]
  BY <1>1
<1> HIDE DEF w
<1>3. w \in Seq(E)
  BY <1>1, <1>2
<1> QED
  BY <1>3 DEF w

-----------------------------------------------------------------------------
(* The same of finite functions. *)

\* How often an item occurs in a finite function is a number.
LEMMA CountFinite ==
    ASSUME NEW s, IsFiniteSet(DOMAIN s), NEW x
    PROVE  IsFiniteSet({i \in DOMAIN s : s[i] = x}) /\ Count(s, x) \in Nat
<1> DEFINE P == {i \in DOMAIN s : s[i] = x}
<1>1. IsFiniteSet(P)
  BY P \subseteq DOMAIN s, FS_Subset
<1> QED
  BY <1>1, FS_CardinalityType DEF Count

\* A function with other names for its keys.
Renames(f, s, t) == f \in Bijection(DOMAIN s, DOMAIN t) /\ \A i \in DOMAIN s : t[f[i]] = s[i]

\* It has the same items.
LEMMA CountRenamed ==
    ASSUME NEW s, NEW t, IsFiniteSet(DOMAIN s), NEW x, NEW f, Renames(f, s, t)
    PROVE  Count(s, x) = Count(t, x)
<1> DEFINE P == {i \in DOMAIN s : s[i] = x}
           Q == {i \in DOMAIN t : t[i] = x}
           g == [i \in P |-> f[i]]
<1>1. g \in Bijection(P, Q)
  BY DEF Renames, Bijection, Injection, Surjection, IsInjective
<1>2. IsFiniteSet(P)
  BY CountFinite
<1>3. ExistsBijection(P, Q)
  BY <1>1 DEF ExistsBijection
<1> QED
  BY <1>2, <1>3, FS_Bijection DEF Count

\* A part of a function.
LEMMA CountPart ==
    ASSUME NEW s, NEW t, IsFiniteSet(DOMAIN t), DOMAIN s \subseteq DOMAIN t,
           \A i \in DOMAIN s : s[i] = t[i], NEW x
    PROVE  IsFiniteSet(DOMAIN s) /\ Count(s, x) <= Count(t, x)
<1>1. {i \in DOMAIN s : s[i] = x} \subseteq {i \in DOMAIN t : t[i] = x}
  OBVIOUS
<1>2. IsFiniteSet({i \in DOMAIN t : t[i] = x})
  BY CountFinite
<1> QED
  BY <1>1, <1>2, FS_Subset DEF Count

\* Two functions that differ at one key, and what each has there.
SameBut(s, t, k) ==
    DOMAIN s \ {k} = DOMAIN t \ {k} /\ \A i \in DOMAIN s \ {k} : s[i] = t[i]
At(s, k) == IF k \in DOMAIN s THEN <<s[k]>> ELSE <<>>

\* What a function has at one key, and at the others.
LEMMA CountKey ==
    ASSUME NEW s, IsFiniteSet(DOMAIN s), NEW k, NEW x
    PROVE  LET others == {i \in DOMAIN s \ {k} : s[i] = x}
           IN /\ Cardinality(others) \in Nat
              /\ Count(s, x) = Cardinality(others) + Count(At(s, k), x)
<1> DEFINE others == {i \in DOMAIN s \ {k} : s[i] = x}
           P == {i \in DOMAIN s : s[i] = x}
<1>1. IsFiniteSet(others)
  BY others \subseteq DOMAIN s, FS_Subset
<1>2. Cardinality(others) \in Nat
  BY <1>1, FS_CardinalityType
<1>3. Count(s, x) = Cardinality(P)
  BY DEF Count
<1>4. CASE k \in DOMAIN s /\ s[k] = x
  <2>1. P = others \cup {k} /\ k \notin others
    BY <1>4
  <2>2. Cardinality(P) = Cardinality(others) + 1
    BY <1>1, <2>1, FS_AddElement
  <2>3. Count(At(s, k), x) = 1
    BY <1>4, CountOne DEF At
  <2> QED
    BY <1>2, <1>3, <2>2, <2>3
<1>5. CASE ~(k \in DOMAIN s /\ s[k] = x)
  <2>1. P = others
    BY <1>5
  <2>2. Count(At(s, k), x) = 0
    BY <1>5, CountOne, CountEmpty DEF At
  <2>3. PICK c \in Nat : c = Cardinality(others)
    BY <1>2
  <2>4. Count(s, x) = c
    BY <1>3, <2>1, <2>3
  <2> QED
    BY <2>2, <2>3, <2>4
<1> QED
  BY <1>2, <1>4, <1>5

\* What was at the key goes out, and what is there now came in.
LEMMA OneKey ==
    ASSUME NEW s, IsFiniteSet(DOMAIN s), NEW t, NEW k, SameBut(s, t, k)
    PROVE  IsFiniteSet(DOMAIN t) /\ Conserved(t, At(s, k), s, At(t, k))
<1>1. IsFiniteSet(DOMAIN t)
  <2>1. DOMAIN t \subseteq DOMAIN s \cup {k}
    BY DEF SameBut
  <2>2. IsFiniteSet(DOMAIN s \cup {k})
    BY FS_AddElement
  <2> QED
    BY <2>1, <2>2, FS_Subset
<1>2. ASSUME NEW x
      PROVE  Count(t, x) + Count(At(s, k), x) = Count(s, x) + Count(At(t, k), x)
  <2> DEFINE a == Cardinality({i \in DOMAIN s \ {k} : s[i] = x})
             b == Cardinality({i \in DOMAIN t \ {k} : t[i] = x})
  <2>1. a \in Nat /\ Count(s, x) = a + Count(At(s, k), x)
    BY CountKey
  <2>2. Count(t, x) = b + Count(At(t, k), x)
    BY <1>1, CountKey
  <2>3. {i \in DOMAIN s \ {k} : s[i] = x} = {i \in DOMAIN t \ {k} : t[i] = x}
    BY DEF SameBut
  <2>4. a = b
    BY <2>3
  <2>5. Count(At(s, k), x) \in Nat /\ Count(At(t, k), x) \in Nat
    BY CountOne, CountEmpty DEF At
  <2> HIDE DEF a, b
  <2> QED
    BY <2>1, <2>2, <2>4, <2>5
<1> QED
  BY <1>1, <1>2 DEF Conserved

\* What is kept of a function is part of it.
LEMMA PartOf ==
    ASSUME NEW s, NEW t, IsFiniteSet(DOMAIN t), DOMAIN s \subseteq DOMAIN t,
           \A i \in DOMAIN s : s[i] = t[i]
    PROVE  IsFiniteSet(DOMAIN s) /\ Dropped(s, <<>>, t, <<>>)
<1>1. ASSUME NEW x
      PROVE  Count(s, x) + Count(<<>>, x) <= Count(t, x) + Count(<<>>, x)
  <2>1. IsFiniteSet(DOMAIN s) /\ Count(s, x) <= Count(t, x)
    BY CountPart
  <2>2. Count(s, x) \in Nat /\ Count(t, x) \in Nat
    BY <2>1, CountFinite
  <2> QED
    BY <2>1, <2>2, CountEmpty
<1>2. IsFiniteSet(DOMAIN s)
  BY FS_Subset
<1> QED
  BY <1>1, <1>2 DEF Dropped

\* What goes out, and what comes in, may be dropped.
LEMMA MayDrop ==
    ASSUME NEW new, NEW out, NEW old, NEW in, IsFiniteSet(DOMAIN new), IsFiniteSet(DOMAIN out),
           IsFiniteSet(DOMAIN old), IsFiniteSet(DOMAIN in), Conserved(new, out, old, in)
    PROVE  Dropped(new, <<>>, old, in)
<1>1. ASSUME NEW x
      PROVE  Count(new, x) + Count(<<>>, x) <= Count(old, x) + Count(in, x)
  <2>1. /\ Count(new, x) \in Nat /\ Count(out, x) \in Nat
        /\ Count(old, x) \in Nat /\ Count(in, x) \in Nat
    BY CountFinite
  <2>2. Count(new, x) + Count(out, x) = Count(old, x) + Count(in, x)
    BY DEF Conserved
  <2> QED
    BY <2>1, <2>2, CountEmpty
<1> QED
  BY <1>1 DEF Dropped

\* A finite set as a sequence: each element once.
LEMMA ListOfSet ==
    ASSUME NEW S, IsFiniteSet(S)
    PROVE  SetToSeq(S) \in Seq(S) /\ SetToSeq(S) \in Bijection(1..Cardinality(S), S)
<1> DEFINE n == Cardinality(S)
           s == SetToSeq(S)
<1>1. n \in Nat /\ ExistsBijection(1..n, S)
  BY FS_CardinalityType
<1>2. PICK f : f \in Bijection(1..n, S)
  BY <1>1 DEF ExistsBijection
<1>3. f \in [1..n -> S] /\ IsInjective(f)
  BY <1>2 DEF Bijection, Injection, IsInjective
<1>4. s \in [1..n -> S] /\ IsInjective(s)
  BY <1>3 DEF SetToSeq
<1> HIDE DEF s
<1>5. s \in Seq(S)
  BY <1>1, <1>4
<1>6. IsFiniteSet(1..n) /\ Cardinality(1..n) = n
  BY <1>1, FS_Interval, 1 \in Int, n \in Int
<1>7. s \in Injection(1..n, S)
  BY <1>4 DEF Injection, IsInjective
<1>8. s \in Surjection(1..n, S)
  BY <1>6, <1>7, FS_Injection
<1> QED
  BY <1>5, <1>7, <1>8 DEF Bijection, s

\* The keys of a finite function label, each with a name of its own, listed in some
\* order as s, and of each what label has.
IsListing(s, items, name, label) ==
    /\ IsFiniteSet(DOMAIN name) /\ \A k, l \in DOMAIN name : name[k] = name[l] => k = l
    /\ s = SetToSeq({name[k] : k \in DOMAIN name})
    /\ DOMAIN items = DOMAIN s /\ DOMAIN label = DOMAIN name
    /\ \A i \in DOMAIN s, k \in DOMAIN name : s[i] = name[k] => items[i] = label[k]

\* Nothing is left out or listed twice.
LEMMA Listed ==
    ASSUME NEW s, NEW items, NEW name, NEW label, IsListing(s, items, name, label)
    PROVE  IsFiniteSet(DOMAIN s) /\ \A x : Count(items, x) = Count(label, x)
<1> USE DEF IsListing
<1> DEFINE D == DOMAIN name
           S == {name[k] : k \in D}
           g == [k \in D |-> name[k]]
<1>1. g \in Surjection(D, S)
  BY DEF Surjection
<1>2. IsFiniteSet(S)
  <2> HIDE DEF g, S, D
  <2> QED
    BY <1>1, FS_Surjection DEF D
<1>3. s \in Seq(S) /\ s \in Bijection(1..Cardinality(S), S)
  BY <1>2, ListOfSet
<1>4. DOMAIN s = 1..Cardinality(S) /\ Cardinality(S) \in Nat /\ IsFiniteSet(DOMAIN s)
  <2>1. Cardinality(S) \in Nat
    BY <1>2, FS_CardinalityType
  <2>2. DOMAIN s = 1..Cardinality(S)
    BY <1>3 DEF Bijection, Injection
  <2> QED
    BY <2>1, <2>2, FS_Interval, 1 \in Int, Cardinality(S) \in Int
<1> DEFINE f == [k \in D |-> CHOOSE i \in DOMAIN s : s[i] = name[k]]
<1>5. \A k \in D : f[k] \in DOMAIN s /\ s[f[k]] = name[k]
  <2>1. \A k \in D : \E i \in DOMAIN s : s[i] = name[k]
    BY <1>3, <1>4 DEF Bijection, Surjection
  <2> QED
    BY <2>1
<1>6. \A i, j \in DOMAIN s : s[i] = s[j] => i = j
  BY <1>3, <1>4 DEF Bijection, Injection, IsInjective
<1>7. \A i \in DOMAIN s : \E k \in D : s[i] = name[k]
  <2>1. s \in [1..Cardinality(S) -> S]
    BY <1>3 DEF Bijection, Injection
  <2>2. \A i \in DOMAIN s : s[i] \in S
    <3> HIDE DEF S
    <3> QED
      BY <1>4, <2>1
  <2> QED
    BY <2>2
<1>8. f \in Bijection(D, DOMAIN s)
  <2>1. f \in [D -> DOMAIN s]
    BY <1>5
  <2>2. \A k, l \in D : f[k] = f[l] => k = l
    <3> HIDE DEF f
    <3> QED
      BY <1>5
  <2> HIDE DEF f
  <2>3. \A i \in DOMAIN s : \E k \in D : f[k] = i
    BY <1>5, <1>6, <1>7
  <2> QED
    BY <2>1, <2>2, <2>3 DEF Bijection, Injection, Surjection, IsInjective
<1>9. \A k \in DOMAIN label : items[f[k]] = label[k]
  BY <1>5
<1> HIDE DEF f, S, g
<1>10. Renames(f, label, items) /\ IsFiniteSet(DOMAIN label)
  BY <1>8, <1>9 DEF Renames
<1>11. ASSUME NEW x
       PROVE  Count(label, x) = Count(items, x)
  BY <1>10, CountRenamed
<1> QED
  BY <1>4, <1>11

\* A fold that puts in one item after another, or drops it.
LEMMA RunDrops ==
    ASSUME NEW E, NEW in \in Seq(E), NEW V, NEW base, NEW F, NEW g,
           IsRun(g, Len(in), V, base, F), NEW L,
           \A t \in V : IsFiniteSet(DOMAIN L[t]),
           \A t \in V, k \in 1..Len(in) : Dropped(L[F[<<t, k>>]], <<>>, L[t], <<in[k]>>)
    PROVE  g[Len(in)] \in V /\ Dropped(L[g[Len(in)]], <<>>, L[base], in)
<1> DEFINE n == Len(in)
           Upto(k) == SubSeq(in, 1, k)
           Fine(k) == Dropped(L[g[k]], <<>>, L[base], Upto(k))
           S == {k \in Nat : k <= n => Fine(k)}
<1>1. n \in Nat /\ g \in [0..n -> V] /\ g[0] = base
  BY LenProperties DEF IsRun
<1>2. 0 \in S
  <2>1. Upto(0) = <<>>
    BY SubSeqEmpty, 0 \in Int, 1 \in Int
  <2>2. IsFiniteSet(DOMAIN L[base])
    BY <1>1
  <2>3. \A x : Count(L[base], x) \in Nat /\ Count(<<>>, x) = 0
    BY <2>2, CountFinite, CountEmpty
  <2>4. Dropped(L[g[0]], <<>>, L[base], <<>>)
    BY <1>1, <2>3 DEF Dropped
  <2> QED
    BY <2>1, <2>4
<1>3. ASSUME NEW k \in Nat, k \in S
      PROVE  k + 1 \in S
  <2> SUFFICES ASSUME k + 1 <= n
               PROVE  Fine(k + 1)
    OBVIOUS
  <2>1. k \in 0..n /\ k + 1 \in 1..n /\ k + 1 \in 0..n /\ (k + 1) - 1 = k
    BY <1>1
  <2>2. g[k] \in V /\ g[k + 1] = F[<<g[k], k + 1>>] /\ g[k + 1] \in V
    BY <1>1, <2>1 DEF IsRun
  <2>3. PICK a \in Seq(E), e \in E : a = Upto(k) /\ e = in[k + 1]
    BY <2>1, CountCut, ElementOfSeq
  <2>4. Upto(k + 1) = Append(a, e)
    <3>1. 1 \in 1..n /\ k + 1 \in 1..n
      BY <1>1, <2>1
    <3>2. SubSeq(in, 1, k + 1) = SubSeq(in, 1, k) \o <<in[k + 1]>>
      BY <2>1, <3>1, SubSeqRecursiveSecond
    <3> QED
      BY <2>3, <3>2, AppendIsConcat
  <2>5. Dropped(L[g[k + 1]], <<>>, L[g[k]], <<e>>)
    BY <2>1, <2>2, <2>3
  <2>6. Dropped(L[g[k]], <<>>, L[base], a)
    BY <1>3, <2>1, <2>3
  <2>7. ASSUME NEW x
        PROVE  Count(L[g[k + 1]], x) + Count(<<>>, x)
                   <= Count(L[base], x) + Count(Append(a, e), x)
    <3>1. /\ Count(L[g[k + 1]], x) \in Nat /\ Count(L[g[k]], x) \in Nat
          /\ Count(L[base], x) \in Nat /\ Count(a, x) \in Nat
      <4>1. PICK p, q, b : p = L[g[k + 1]] /\ q = L[g[k]] /\ b = L[base]
        OBVIOUS
      <4>2. g[0] \in V
        BY <1>1
      <4>3. IsFiniteSet(DOMAIN p) /\ IsFiniteSet(DOMAIN q) /\ IsFiniteSet(DOMAIN b)
        BY <1>1, <2>2, <4>1, <4>2
      <4>4. Count(p, x) \in Nat /\ Count(q, x) \in Nat /\ Count(b, x) \in Nat
        BY <4>3, CountFinite
      <4> QED
        BY <4>1, <4>4, CountType
    <3>2. Count(L[g[k + 1]], x) + Count(<<>>, x) <= Count(L[g[k]], x) + Count(<<e>>, x)
      BY <2>5 DEF Dropped
    <3>3. Count(L[g[k]], x) + Count(<<>>, x) <= Count(L[base], x) + Count(a, x)
      BY <2>6 DEF Dropped
    <3>4. Count(Append(a, e), x) = Count(a, x) + Count(<<e>>, x)
      BY CountAppend, CountOne
    <3>5. Count(<<e>>, x) \in Nat /\ Count(<<>>, x) = 0
      BY CountOne, CountEmpty
    <3> QED
      BY <3>1, <3>2, <3>3, <3>4, <3>5
  <2>8. Dropped(L[g[k + 1]], <<>>, L[base], Append(a, e))
    BY <2>7 DEF Dropped
  <2> QED
    BY <2>4, <2>8
<1>4. Nat \subseteq S
  <2> HIDE DEF S
  <2> QED
    BY <1>2, <1>3, Induction
<1>5. Fine(n)
  BY <1>1, <1>4
<1>6. Upto(n) = in
  BY SubSeqFull
<1>7. g[n] \in V
  BY <1>1
<1> QED
  BY <1>5, <1>6, <1>7

\* A sequence is a finite function.
LEMMA SeqFinite ==
    ASSUME NEW E, NEW s \in Seq(E)
    PROVE  IsFiniteSet(DOMAIN s)
<1>1. Len(s) \in Nat /\ DOMAIN s = 1..Len(s)
  BY LenProperties
<1> QED
  BY <1>1, FS_Interval, 1 \in Int, Len(s) \in Int

\* So are one item and none.
LEMMA OneFinite ==
    ASSUME NEW e
    PROVE  IsFiniteSet(DOMAIN <<e>>) /\ IsFiniteSet(DOMAIN <<>>)
<1>1. DOMAIN <<>> = {}
  OBVIOUS
<1>2. <<e>> \in Seq({e})
  OBVIOUS
<1>3. PICK s \in Seq({e}) : s = <<e>>
  BY <1>2
<1> QED
  BY <1>1, <1>3, SeqFinite, FS_EmptySet

\* So is what is at a key.
LEMMA AtFinite == \A s, k : IsFiniteSet(DOMAIN At(s, k))
  BY OneFinite DEF At

\* An item that comes in is not taken.
LEMMA NotTaken ==
    ASSUME NEW s, IsFiniteSet(DOMAIN s), NEW in, IsFiniteSet(DOMAIN in)
    PROVE  Dropped(s, <<>>, s, in)
<1>1. ASSUME NEW x
      PROVE  Count(s, x) + Count(<<>>, x) <= Count(s, x) + Count(in, x)
  <2>1. Count(s, x) \in Nat /\ Count(in, x) \in Nat
    BY CountFinite
  <2> QED
    BY <2>1, CountEmpty
<1> QED
  BY <1>1 DEF Dropped

\* Nothing happens.
LEMMA Unmoved ==
    ASSUME NEW s, IsFiniteSet(DOMAIN s)
    PROVE  Conserved(s, <<>>, s, <<>>)
  BY DEF Conserved

\* All is handed over, in some order.
LEMMA AllHandedOver ==
    ASSUME NEW s, IsFiniteSet(DOMAIN s), NEW items, \A x : Count(items, x) = Count(s, x)
    PROVE  Conserved(<<>>, items, s, <<>>)
<1>1. ASSUME NEW x
      PROVE  Count(<<>>, x) + Count(items, x) = Count(s, x) + Count(<<>>, x)
  <2>1. Count(s, x) \in Nat
    BY CountFinite
  <2> QED
    BY <2>1, CountEmpty
<1> QED
  BY <1>1 DEF Conserved
=============================================================================
