-------------------------- MODULE CollectionProofs --------------------------
(* What the methods of the extension traits do to the collection they are     *)
(* called on, for every value and every call: when they panic, that those     *)
(* that take &self leave it alone, and where the items come from and go to.   *)
EXTENDS Program, SequenceProofs

-----------------------------------------------------------------------------
(* Panics. *)

\* A method of a Vec panics exactly when its documentation says so.
LEMMA VecPanics ==
    ASSUME NEW call, NEW v, call.m \in DOMAIN Vec!ActorVec
    PROVE  Vec!Apply(call, v).panics <=> Vec!Unsafe(call, v)
  BY DEF Vec!ActorVec, Vec!Apply, Vec!Unsafe, Vec!Checked, Vec!Panics, Vec!Takes,
    Vec!Writes, Vec!Returns, Vec!push, Vec!is_empty, Vec!drain, Vec!len, Vec!pop, Vec!clear,
    Vec!remove, Vec!swap_remove, Vec!insert, Vec!truncate, Vec!reverse, Vec!split_off,
    Vec!get_index, Vec!first, Vec!last, Vec!contains, Vec!extend, Vec!dedup, Vec!sort,
    Vec!retain, Vec!sort_by, Vec!retain_mut, Vec!swap, Vec!resize

\* So does one of a VecDeque, whose remove does not.
LEMMA VecDequePanics ==
    ASSUME NEW call, NEW v, call.m \in DOMAIN VecDeque!ActorVecDeque
    PROVE  VecDeque!Apply(call, v).panics <=> VecDeque!Unsafe(call, v)
  BY DEF
    VecDeque!EndOf, VecDeque!V!EndOf, VecDeque!ActorVecDeque, VecDeque!push_back, VecDeque!push_front,
    VecDeque!pop_back, VecDeque!pop_front, VecDeque!len, VecDeque!is_empty,
    VecDeque!clear, VecDeque!get_index, VecDeque!front, VecDeque!back,
    VecDeque!contains, VecDeque!drain, VecDeque!retain, VecDeque!insert,
    VecDeque!remove, VecDeque!swap, VecDeque!truncate, VecDeque!extend,
    VecDeque!split_off, VecDeque!retain_mut, VecDeque!resize, VecDeque!Apply,
    VecDeque!Unsafe, VecDeque!V!push, VecDeque!V!pop, VecDeque!V!len,
    VecDeque!V!is_empty, VecDeque!V!clear, VecDeque!V!get_index, VecDeque!V!first,
    VecDeque!V!last, VecDeque!V!contains, VecDeque!V!drain, VecDeque!V!retain,
    VecDeque!V!insert, VecDeque!V!remove, VecDeque!V!swap, VecDeque!V!truncate,
    VecDeque!V!extend, VecDeque!V!split_off, VecDeque!V!retain_mut,
    VecDeque!V!resize, VecDeque!V!Unsafe, VecDeque!Checked, VecDeque!Panics,
    VecDeque!Takes, VecDeque!Writes, VecDeque!Returns, VecDeque!V!Checked,
    VecDeque!V!Panics, VecDeque!V!Takes, VecDeque!V!Writes, VecDeque!V!Returns

\* So does one of a String.
LEMMA StringPanics ==
    ASSUME NEW call, NEW v, call.m \in DOMAIN String!ActorString
    PROVE  String!Apply(call, v).panics <=> String!Unsafe(call, v)
  BY DEF
    String!EndOf, String!ActorString, String!Range_, String!Boundary, String!len, String!is_empty,
    String!clear, String!to_uppercase, String!to_lowercase, String!push_str,
    String!push, String!starts_with, String!ends_with, String!pop, String!retain,
    String!truncate, String!remove, String!insert_str, String!insert,
    String!split_off, String!drain, String!replace_range, String!contains,
    String!split, String!replace, String!trim, String!Apply, String!Unsafe,
    String!Checked, String!Panics, String!Takes, String!Writes, String!Returns

\* No method of a HashMap does.
LEMMA MapNeverPanics ==
    ASSUME NEW call, NEW v, call.m \in DOMAIN HashMap!ActorMap
    PROVE  ~HashMap!Apply(call, v).panics
  BY DEF
    HashMap!ActorMap, HashMap!get_key, HashMap!contains_key, HashMap!is_empty,
    HashMap!len, HashMap!keys, HashMap!values, HashMap!clear, HashMap!TakesEntries,
    HashMap!drain, HashMap!insert, HashMap!remove, HashMap!remove_entry,
    HashMap!extend, HashMap!retain, HashMap!get_or_insert_with, HashMap!modify,
    HashMap!Apply, HashMap!Takes, HashMap!Writes, HashMap!Returns

\* Nor of a HashSet.
LEMMA SetNeverPanics ==
    ASSUME NEW call, NEW v, call.m \in DOMAIN HashSet!ActorSet
    PROVE  ~HashSet!Apply(call, v).panics
  BY DEF
    HashSet!ActorSet, HashSet!is_empty, HashSet!len, HashSet!clear, HashSet!contains,
    HashSet!to_vec, HashSet!drain, HashSet!insert, HashSet!replace, HashSet!remove,
    HashSet!take, HashSet!extend, HashSet!retain, HashSet!difference,
    HashSet!intersection, HashSet!union, HashSet!is_subset, HashSet!is_superset,
    HashSet!is_disjoint, HashSet!Apply, HashSet!Takes, HashSet!Writes,
    HashSet!Returns

\* Nor of an Option.
LEMMA OptionNeverPanics ==
    ASSUME NEW call, NEW v, call.m \in DOMAIN Option!ActorOption
    PROVE  ~Option!Apply(call, v).panics
  BY DEF
    Option!ActorOption, Option!is_some, Option!is_none, Option!unwrap_or,
    Option!unwrap_or_default, Option!unwrap_or_else, Option!filter, Option!map,
    Option!take, Option!replace, Option!get_or_insert_with, Option!take_if,
    Option!Apply, Option!Takes, Option!Writes, Option!Returns

\* The "# Panics" sections are exact: a call of a method of an extension trait
\* panics if and only if they say so, for every value and every position.
LEMMA PanicsAreDocumented ==
    ASSUME NEW call, NEW v, program.kind \in Collections, call.m \in DOMAIN TraitOf[program.kind]
    PROVE  Apply(call, v).panics <=> Unsafe(call, v)
<1>1. CASE program.kind = "Vec"
  BY <1>1, VecPanics DEF TraitOf, Apply, Unsafe
<1>2. CASE program.kind = "VecDeque"
  BY <1>2, VecDequePanics DEF TraitOf, Apply, Unsafe
<1>3. CASE program.kind = "HashMap"
  BY <1>3, MapNeverPanics DEF TraitOf, Apply, Unsafe
<1>4. CASE program.kind = "HashSet"
  BY <1>4, SetNeverPanics DEF TraitOf, Apply, Unsafe
<1>5. CASE program.kind = "Option"
  BY <1>5, OptionNeverPanics DEF TraitOf, Apply, Unsafe
<1>6. CASE program.kind = "String"
  BY <1>6, StringPanics DEF TraitOf, Apply, Unsafe
<1> QED
  BY <1>1, <1>2, <1>3, <1>4, <1>5, <1>6 DEF Collections

-----------------------------------------------------------------------------
(* Sequences. *)

\* dedup picks of a sequence, too.
LEMMA DedupPicks ==
    ASSUME NEW E, NEW v \in Seq(E)
    PROVE  \E g : Picks(g, E, v) /\ g[Len(v)] = Vec!dedup(v).new
<1> DEFINE n == Len(v)
           V == Seq(E)
           base == <<>>
           Step(s, x) == IF s # <<>> /\ Last(s) = x THEN s ELSE Append(s, x)
           F == [p \in V \X (1..n) |-> Step(p[1], v[p[2]])]
           Eqn(f) == f = [s \in SUBSET DOMAIN v |->
                             IF s = {} THEN base
                             ELSE LET x == Max(s) IN Step(f[s \ {x}], v[x])]
<1>1. n \in Nat /\ DOMAIN v = 1..n /\ \A k \in 1..n : v[k] \in E
  BY LenProperties, ElementOfSeq
<1>2. base \in V /\ F \in [V \X (1..n) -> V]
  <2>1. ASSUME NEW s \in V, NEW k \in 1..n
        PROVE  Step(s, v[k]) \in V
    BY <1>1, AppendProperties
  <2> HIDE DEF Step
  <2> QED
    BY <2>1, EmptySeq
<1> HIDE DEF Step
<1>3. PICK h : IsFold(h, n, V, base, F)
  <2> HIDE DEF F, n, V, base
  <2> QED
    BY <1>1, <1>2, FoldExists
<1>4. Eqn(h)
  <2>1. \A s \in SUBSET (1..n) : s # {} => Max(s) \in 1..n /\ s \ {Max(s)} \in SUBSET (1..n)
    BY <1>1, MaxProperty
  <2> QED
    BY <1>1, <1>3, <2>1 DEF IsFold
<1>5. ASSUME NEW f, Eqn(f)
      PROVE  Solves(f, n, V, base, F)
  <2>1. f[{}] = base
    BY <1>5
  <2>2. ASSUME NEW k \in 1..n, f[1..k - 1] \in V
        PROVE  f[1..k] = F[<<f[1..k - 1], k>>]
    <3>1. 1..k \in SUBSET DOMAIN v /\ 1..k # {}
      <4> HIDE DEF n
      <4> QED
        BY <1>1
    <3>2. Max(1..k) = k /\ (1..k) \ {k} = 1..(k - 1)
      BY MaxOfPrefix, k \in Nat, k # 0
    <3> QED
      BY <1>5, <2>2, <3>1, <3>2
  <2> QED
    BY <2>1, <2>2 DEF Solves
<1>6. Vec!dedup(v).new = (CHOOSE f : Eqn(f))[DOMAIN v]
  BY DEF Vec!dedup, Vec!Writes, Vec!Returns, Vec!FoldLeft, Vec!MapThenFoldSet, Vec!Max, Max,
    Vec!Last, Last, Step
<1> HIDE DEF Eqn, F, n, V, base
<1>7. PICK iter : Eqn(iter) /\ Vec!dedup(v).new = iter[DOMAIN v]
  BY <1>4, <1>6
<1>8. Solves(iter, n, V, base, F)
  BY <1>5, <1>7
<1>9. HasRun(iter, n, V, base, F)
  BY <1>1, <1>2, <1>8, FoldSteps
<1>10. PICK g : IsRun(g, n, V, base, F) /\ g[n] = Vec!dedup(v).new
  BY <1>1, <1>7, <1>9 DEF HasRun
<1>11. ASSUME NEW k \in 1..n
       PROVE  g[k] = Append(g[k - 1], v[k]) \/ g[k] = g[k - 1]
  <2>1. k - 1 \in 0..n
    BY <1>1
  <2>2. g[k - 1] \in V /\ g[k] = F[<<g[k - 1], k>>]
    BY <1>10, <2>1 DEF IsRun
  <2>3. g[k] = Step(g[k - 1], v[k])
    BY <2>2 DEF F
  <2> QED
    BY <2>3 DEF Step
<1> QED
  BY <1>10, <1>11 DEF Picks, IsRun, n, V, base

\* The number of elements is the same in every module.
LEMMA VecCardinality == \A S : Vec!Cardinality(S) = Cardinality(S)
  BY DEF Vec!Cardinality, Cardinality, Vec!IsFiniteSet, IsFiniteSet

\* A sort puts each item at a place of its own, in the order of the keys, and those
\* of one key in the order in which they were.
LEMMA SortPlaces ==
    ASSUME NEW E, NEW v \in Seq(E), NEW key, \A x \in E : key[x] \in Int
    PROVE  \E place \in Bijection(DOMAIN v, DOMAIN v) :
              /\ Vec!sort_by(v, key).new = Placed(v, place)
              /\ \A i, k \in DOMAIN v :
                    (key[v[i]] < key[v[k]] \/ (key[v[i]] = key[v[k]] /\ i < k))
                        => place[i] < place[k]
<1> DEFINE n == Len(v)
           Before(j, i) == key[v[j]] < key[v[i]] \/ (key[v[j]] = key[v[i]] /\ j < i)
           R == {p \in (1..n) \X (1..n) : Before(p[1], p[2])}
           place == [i \in DOMAIN v |-> 1 + Cardinality({j \in DOMAIN v : Before(j, i)})]
<1>1. n \in Nat /\ DOMAIN v = 1..n
  BY LenProperties
<1>2. \A k \in 1..n : key[v[k]] \in Int
  BY ElementOfSeq
<1>3. \A i, j \in 1..n : <<j, i>> \in R <=> Before(j, i)
  OBVIOUS
<1>4. IsOrder(R, n)
  <2>1. \A i \in 1..n : <<i, i>> \notin R
    BY <1>2, <1>3
  <2>2. \A i, j \in 1..n : i # j => <<i, j>> \in R \/ <<j, i>> \in R
    BY <1>1, <1>2, <1>3
  <2>3. ASSUME NEW i \in 1..n, NEW j \in 1..n, NEW k \in 1..n, <<i, j>> \in R, <<j, k>> \in R
        PROVE  <<i, k>> \in R
    <3>1. Before(i, j) /\ Before(j, k)
      BY <1>3, <2>3
    <3>2. Before(i, k)
      BY <1>1, <1>2, <3>1
    <3> QED
      BY <1>3, <3>2
  <2> HIDE DEF R
  <2> QED
    BY <2>1, <2>2, <2>3 DEF IsOrder
<1>5. place = PlacesBy(R, n)
  <2>1. \A i \in 1..n : {j \in DOMAIN v : Before(j, i)} = {j \in 1..n : <<j, i>> \in R}
    BY <1>1, <1>3
  <2> HIDE DEF R, Before, n
  <2> QED
    BY <1>1, <2>1 DEF PlacesBy
<1>6. Vec!sort_by(v, key).new = Placed(v, place)
  <2>1. Vec!sort_by(v, key).new = Vec!Placed(v, place)
    BY VecCardinality DEF Vec!sort_by, Vec!Writes, Vec!Returns
  <2> HIDE DEF place
  <2>2. Vec!Placed(v, place) = Placed(v, place)
    BY DEF Vec!Placed, Placed
  <2> QED
    BY <2>1, <2>2
<1>7. /\ place \in Bijection(DOMAIN v, DOMAIN v)
      /\ \A i, k \in DOMAIN v : <<i, k>> \in R => place[i] < place[k]
  <2> HIDE DEF place, R, n
  <2> QED
    BY <1>1, <1>4, <1>5, Places
<1>8. \A i, k \in DOMAIN v : Before(i, k) => place[i] < place[k]
  <2> HIDE DEF place, R, n, Before
  <2> QED
    BY <1>1, <1>3, <1>7
<1> HIDE DEF place, R, n
<1> QED
  BY <1>6, <1>7, <1>8

\* sort_by changes only the order.
LEMMA SortPermutes ==
    ASSUME NEW E, NEW v \in Seq(E), NEW key, \A x \in E : key[x] \in Int
    PROVE  LET t == Vec!sort_by(v, key).new
           IN t \in Seq(E) /\ Conserved(t, <<>>, v, <<>>)
<1>1. PICK place \in Bijection(DOMAIN v, DOMAIN v) : Vec!sort_by(v, key).new = Placed(v, place)
  BY SortPlaces
<1>2. PICK t \in Seq(E) : t = Placed(v, place) /\ \A x : Count(t, x) = Count(v, x)
  BY CountPlaced
<1> QED
  BY <1>1, <1>2, SameCounts

\* sort and sort_by sort, and are stable: the items come out in the order of their
\* keys, and those of one key in the order in which they were.
THEOREM SortIsStable ==
    ASSUME NEW E, NEW v \in Seq(E), NEW key, \A x \in E : key[x] \in Int
    PROVE  \E from \in Bijection(DOMAIN v, DOMAIN v) :
              LET t == Vec!sort_by(v, key).new
              IN /\ t = [k \in DOMAIN v |-> v[from[k]]]
                 /\ \A k, l \in DOMAIN v : k < l =>
                       \/ key[t[k]] < key[t[l]]
                       \/ key[t[k]] = key[t[l]] /\ from[k] < from[l]
<1> DEFINE D == DOMAIN v
<1>1. PICK place \in Bijection(D, D) :
          /\ Vec!sort_by(v, key).new = Placed(v, place)
          /\ \A i, k \in D :
                (key[v[i]] < key[v[k]] \/ (key[v[i]] = key[v[k]] /\ i < k)) => place[i] < place[k]
  BY SortPlaces
<1>2. PICK from : from = [k \in D |-> CHOOSE i \in D : place[i] = k]
  OBVIOUS
<1>3. place \in [D -> D] /\ (\A i, k \in D : place[i] = place[k] => i = k)
      /\ \A k \in D : \E i \in D : place[i] = k
  BY DEF Bijection, Injection, Surjection, IsInjective
<1>4. from \in [D -> D] /\ (\A k \in D : place[from[k]] = k) /\ \A i \in D : from[place[i]] = i
  <2>1. \A k \in D : from[k] \in D /\ place[from[k]] = k
    BY <1>2, <1>3
  <2> QED
    BY <1>2, <1>3, <2>1
<1>5. from \in Bijection(D, D)
  <2> HIDE DEF D
  <2>1. \A k, l \in D : from[k] = from[l] => k = l
    BY <1>4
  <2>2. \A i \in D : \E k \in D : from[k] = i
    BY <1>3, <1>4
  <2> QED
    BY <1>4, <2>1, <2>2 DEF Bijection, Injection, Surjection, IsInjective
<1>6. PICK t : t = Vec!sort_by(v, key).new
  OBVIOUS
<1>7. t = [k \in D |-> v[from[k]]]
  BY <1>1, <1>2, <1>6 DEF Placed
<1>8. D = 1..Len(v) /\ Len(v) \in Nat /\ \A i \in D : key[v[i]] \in Int
  BY LenProperties, ElementOfSeq
<1>9. ASSUME NEW k \in D, NEW l \in D, k < l
      PROVE  key[t[k]] < key[t[l]] \/ (key[t[k]] = key[t[l]] /\ from[k] < from[l])
  <2>1. PICK i \in D, j \in D : i = from[k] /\ j = from[l]
    BY <1>4
  <2>2. place[i] = k /\ place[j] = l /\ k \in Nat /\ l \in Nat /\ i \in Nat /\ j \in Nat
    BY <1>4, <1>8, <2>1
  <2>3. ~(place[j] < place[i])
    BY <1>9, <2>2
  <2>4. ~(key[v[j]] < key[v[i]] \/ (key[v[j]] = key[v[i]] /\ j < i))
    BY <1>1, <2>3
  <2>5. i # j
    BY <1>9, <2>2
  <2>6. key[v[i]] < key[v[j]] \/ (key[v[i]] = key[v[j]] /\ i < j)
    BY <1>8, <2>2, <2>4, <2>5
  <2> QED
    BY <1>7, <2>1, <2>6
<1> QED
  BY <1>5, <1>6, <1>7, <1>9

\* swap_remove puts the last item where it takes one out.
LEMMA SwapRemoved ==
    ASSUME NEW E, NEW v \in Seq(E), NEW i \in Nat, i < Len(v)
    PROVE  LET new == Front([v EXCEPT ![i + 1] = Last(v)])
           IN /\ new \in Seq(E) /\ <<v[i + 1]>> \in Seq(E)
              /\ Conserved(new, <<v[i + 1]>>, v, <<>>)
<1> DEFINE n == Len(v)
           w == [v EXCEPT ![i + 1] = v[n]]
           t == Swapped(v, i + 1, n)
<1>1. n \in Nat /\ DOMAIN v = 1..n /\ i + 1 \in 1..n /\ n \in 1..n /\ v \in [1..n -> E]
  BY LenProperties
<1>2. t \in Seq(E) /\ Len(t) = n /\ \A x : Count(t, x) = Count(v, x)
  <2>1. PICK a \in DOMAIN v, b \in DOMAIN v : a = i + 1 /\ b = n
    BY <1>1
  <2>2. LET u == Swapped(v, a, b)
        IN u \in Seq(E) /\ Len(u) = Len(v) /\ \A x : Count(u, x) = Count(v, x)
    BY CountSwapped
  <2> QED
    BY <2>1, <2>2
<1>3. t[n] = v[i + 1]
  BY <1>1 DEF Swapped
<1>4. w \in Seq(E) /\ Len(w) = n
  <2>1. v[n] \in E
    BY <1>1
  <2> QED
    BY <1>1, <2>1, ExceptSeq
<1>5. SubSeq(w, 1, n - 1) = SubSeq(t, 1, n - 1)
  <2>1. \A k \in 1..n - 1 : w[k] \in E /\ t[k] \in E
    BY <1>2, <1>4, <1>1, ElementOfSeq
  <2>2. \A k \in 1..n - 1 : w[k] = t[k]
    BY <1>1 DEF Swapped
  <2> HIDE DEF w, t, n
  <2>3. n - 1 \in Int /\ n - 1 >= 0
    BY <1>1
  <2>4. PICK m \in Int : m = n - 1 /\ m >= 0
    BY <2>3
  <2>5. /\ SubSeq(w, 1, m) \in Seq(E) /\ Len(SubSeq(w, 1, m)) = m
        /\ \A k \in 1..m : SubSeq(w, 1, m)[k] = w[k]
    <3>1. /\ SubSeq(w, 1, m) \in Seq(E) /\ Len(SubSeq(w, 1, m)) = IF 1 <= m THEN m - 1 + 1 ELSE 0
          /\ \A k \in 1..m - 1 + 1 : SubSeq(w, 1, m)[k] = w[1 + k - 1]
      BY <2>1, <2>4, 1 \in Int, SubSeqProperties
    <3>2. m - 1 + 1 = m /\ \A k \in 1..m : 1 + k - 1 = k
      BY <2>4
    <3> QED
      BY <2>4, <3>1, <3>2
  <2>6. /\ SubSeq(t, 1, m) \in Seq(E) /\ Len(SubSeq(t, 1, m)) = m
        /\ \A k \in 1..m : SubSeq(t, 1, m)[k] = t[k]
    <3>1. /\ SubSeq(t, 1, m) \in Seq(E) /\ Len(SubSeq(t, 1, m)) = IF 1 <= m THEN m - 1 + 1 ELSE 0
          /\ \A k \in 1..m - 1 + 1 : SubSeq(t, 1, m)[k] = t[1 + k - 1]
      BY <2>1, <2>4, 1 \in Int, SubSeqProperties
    <3>2. m - 1 + 1 = m /\ \A k \in 1..m : 1 + k - 1 = k
      BY <2>4
    <3> QED
      BY <2>4, <3>1, <3>2
  <2>7. PICK a \in Seq(E), b \in Seq(E) : a = SubSeq(w, 1, m) /\ b = SubSeq(t, 1, m)
    BY <2>5, <2>6
  <2>8. a = b
    BY <2>2, <2>4, <2>5, <2>6, <2>7, SeqEqual
  <2> QED
    BY <2>4, <2>7, <2>8
<1> HIDE DEF t
<1>6. LET new == SubSeq(t, 1, n - 1) \o SubSeq(t, n - 1 + 2, n)
      IN new \in Seq(E) /\ <<t[n - 1 + 1]>> \in Seq(E) /\ Conserved(new, <<t[n - 1 + 1]>>, t, <<>>)
  BY <1>1, <1>2, n - 1 \in Nat, n - 1 < n, TakeOut
<1>7. SubSeq(t, n - 1 + 2, n) = <<>> /\ n - 1 + 1 = n
  BY <1>1, n - 1 + 2 \in Int, n \in Int, n < n - 1 + 2, SubSeqEmpty
<1>8. PICK a \in Seq(E) : a = SubSeq(t, 1, n - 1)
  BY <1>1, <1>2, CountCut, n - 1 \in 0..n
<1>9. a \o <<>> = a
  BY ConcatEmptySeq
<1>10. Conserved(a, <<v[i + 1]>>, t, <<>>) /\ <<v[i + 1]>> \in Seq(E)
  BY <1>3, <1>6, <1>7, <1>8, <1>9
<1>11. Conserved(a, <<v[i + 1]>>, v, <<>>)
  BY <1>2, <1>10 DEF Conserved
<1>12. Front(w) = a /\ Last(v) = v[n]
  BY <1>4, <1>5, <1>8 DEF Front, Last
<1> QED
  BY <1>8, <1>10, <1>11, <1>12

\* Kept is the same in every module.
LEMMA VecKept == \A v, keep : Vec!Kept(v, keep) = Kept(v, keep)
  BY DEF Vec!Kept, Kept, Vec!FoldLeft, FoldLeft, Vec!MapThenFoldSet, MapThenFoldSet, Vec!Max, Max

\* dedup drops items.
LEMMA DedupedOf ==
    ASSUME NEW E, NEW v \in Seq(E)
    PROVE  Vec!dedup(v).new \in Seq(E) /\ Dropped(Vec!dedup(v).new, <<>>, v, <<>>)
<1>1. PICK g : Picks(g, E, v) /\ g[Len(v)] = Vec!dedup(v).new
  BY DedupPicks
<1> QED
  BY <1>1, PickedOf

\* A call of a method of trait, on a sequence of items of E.
IsCallOn(trait, E, call) ==
    /\ call.m \in DOMAIN trait /\ call.i \in Nat /\ call.j \in Nat /\ call.items \in Seq(E)
    /\ "item" \in trait[call.m].takes => Len(call.items) = 1
    /\ "edit" \in trait[call.m].takes => \A x \in E : call.edit[x] \in E

\* The outcome o of a call leaves a value, and nothing is lost or doubled but what
\* the method is known to drop or to make.
Accounts(adding, dropping, making, E, call, o, v) ==
    /\ o.new \in Seq(E)
    /\ call.m \notin making =>
          LET in == IF call.m \in adding THEN call.items ELSE <<>>
          IN /\ o.out \in Seq(E)
             /\ IF call.m \in dropping THEN Dropped(o.new, o.out, v, in)
                ELSE Conserved(o.new, o.out, v, in)

\* The only item of a list.
LEMMA OnlyItem ==
    ASSUME NEW E, NEW s \in Seq(E), Len(s) = 1
    PROVE  Head(s) \in E /\ s = <<Head(s)>>
<1>1. s # <<>>
  BY EmptySeq
<1>2. Head(s) \in E
  BY <1>1, HeadTailProperties
<1>3. s[1] = Head(s)
  OBVIOUS
<1>4. <<Head(s)>> \in Seq(E)
  BY <1>2
<1>5. PICK t \in Seq(E) : t = <<Head(s)>>
  BY <1>4
<1>6. Len(t) = 1 /\ t[1] = s[1]
  BY <1>3, <1>5
<1>7. \A k \in 1..Len(s) : s[k] = t[k]
  BY <1>6
<1> QED
  BY <1>2, <1>5, <1>6, <1>7, SeqEqual

\* A method of a Vec that takes &self leaves it as it is.
LEMMA VecReads ==
    ASSUME NEW call, NEW v, call.m \in DOMAIN Vec!ActorVec, Vec!ActorVec[call.m].self = "ref"
    PROVE  /\ Vec!Apply(call, v).new = v /\ Vec!Apply(call, v).out = <<>>
           /\ call.m \notin Vec!Adding \cup Vec!Dropping
<1>1. call.m \in {"is_empty", "len", "get_index", "first", "last", "contains"}
  BY DEF Vec!ActorVec, Vec!ByMut, Vec!ByRef
<1> QED
  BY <1>1 DEF Vec!Apply, Vec!is_empty, Vec!len, Vec!get_index, Vec!first, Vec!last,
    Vec!contains, Vec!Returns, Vec!Adding, Vec!Dropping

\* What was kept is all that a call could drop.
LEMMA ReadsAccount ==
    ASSUME NEW adding, NEW dropping, NEW making, NEW E, NEW call, NEW o, NEW v \in Seq(E),
           o.new = v, o.out = <<>>, call.m \notin adding \cup dropping
    PROVE  Accounts(adding, dropping, making, E, call, o, v)
<1>1. Conserved(v, <<>>, v, <<>>) /\ <<>> \in Seq(E)
  BY SameCounts
<1> QED
  BY <1>1 DEF Accounts

\* A call of a Vec's methods that does not panic.
VecCall(call, E, v) ==
    IsCallOn(Vec!ActorVec, E, call) /\ v \in Seq(E) /\ ~Vec!Apply(call, v).panics

\* What its outcome has to be.
VecAccounts(call, E, v) ==
    Accounts(Vec!Adding, Vec!Dropping, Vec!Making, E, call, Vec!Apply(call, v), v)

\* The methods that put items in.
LEMMA VecPuts ==
    ASSUME NEW E, NEW v, NEW call, VecCall(call, E, v), call.m \in Vec!Adding
    PROVE  VecAccounts(call, E, v)
<1> DEFINE o == Vec!Apply(call, v)
           e == Head(call.items)
<1>1. v \in Seq(E) /\ call.items \in Seq(E) /\ call.i \in Nat /\ ~o.panics
  BY DEF VecCall, IsCallOn
<1>2. Len(v) \in Nat
  BY <1>1, LenProperties
<1>3. call.m \in {"push", "insert"} => e \in E /\ call.items = <<e>>
  <2>1. call.m \in {"push", "insert"} => "item" \in Vec!ActorVec[call.m].takes
    BY DEF Vec!ActorVec, Vec!ByMut, Vec!ByRef
  <2> QED
    BY <2>1, OnlyItem DEF VecCall, IsCallOn
<1>4. SUFFICES o.new \in Seq(E) /\ o.out = <<>> /\ Conserved(o.new, <<>>, v, call.items)
  BY EmptySeq DEF VecAccounts, Accounts, Vec!Adding, Vec!Dropping, Vec!Making
<1>5. CASE call.m = "push"
  <2>1. o.new = Append(v, e) /\ o.out = <<>>
    BY <1>5 DEF Vec!Apply, Vec!push, Vec!Writes, Vec!Returns
  <2> HIDE DEF o
  <2> QED
    BY <1>1, <1>3, <1>5, <2>1, PutItem
<1>6. CASE call.m = "extend"
  <2>1. o.new = v \o call.items /\ o.out = <<>>
    BY <1>6 DEF Vec!Apply, Vec!extend, Vec!Writes, Vec!Returns
  <2> HIDE DEF o
  <2> QED
    BY <1>1, <2>1, PutLast
<1>7. CASE call.m = "insert"
  <2>1. o = Vec!insert(v, call.i, e)
    BY <1>7 DEF Vec!Apply
  <2>2. call.i <= Len(v) /\ o.out = <<>> /\ o.new = Vec!InsertAt(v, call.i + 1, e)
    BY <1>1, <2>1 DEF Vec!insert, Vec!Checked, Vec!Panics, Vec!Writes, Vec!Returns
  <2>3. PICK i \in 0..Len(v), t \in Seq(E) : i = call.i /\ t = <<e>> /\ t = call.items
    <3>1. call.i \in 0..Len(v)
      BY <1>1, <1>2, <2>2
    <3>2. call.items = <<e>>
      BY <1>3, <1>7
    <3> QED
      BY <1>1, <3>1, <3>2
  <2>4. Vec!InsertAt(v, i + 1, e) = SubSeq(v, 1, i) \o t \o SubSeq(v, i + 1, Len(v))
    <3>1. PICK k : k = i + 1
      OBVIOUS
    <3>2. k - 1 = i
      BY <3>1
    <3> QED
      BY <2>3, <3>1, <3>2 DEF Vec!InsertAt
  <2>5. LET new == SubSeq(v, 1, i) \o t \o SubSeq(v, i + 1, Len(v))
        IN new \in Seq(E) /\ Conserved(new, <<>>, v, t)
    BY <1>1, PutIn
  <2> HIDE DEF o
  <2> QED
    BY <2>2, <2>3, <2>4, <2>5
<1> QED
  BY <1>5, <1>6, <1>7 DEF Vec!Adding

\* The methods that drop items.
LEMMA VecDrops ==
    ASSUME NEW E, NEW v, NEW call, VecCall(call, E, v), call.m \in Vec!Dropping
    PROVE  VecAccounts(call, E, v)
<1> DEFINE o == Vec!Apply(call, v)
<1>1. v \in Seq(E) /\ call.i \in Nat /\ Len(v) \in Nat
  BY LenProperties DEF VecCall, IsCallOn
<1>2. SUFFICES o.new \in Seq(E) /\ o.out = <<>> /\ Dropped(o.new, <<>>, v, <<>>)
  BY EmptySeq DEF VecAccounts, Accounts, Vec!Adding, Vec!Dropping, Vec!Making
<1>3. CASE call.m = "clear"
  <2>1. o.new = <<>> /\ o.out = <<>>
    BY <1>3 DEF Vec!Apply, Vec!clear, Vec!Writes, Vec!Returns
  <2> HIDE DEF o
  <2> QED
    BY <1>1, <2>1, AllDropped
<1>4. CASE call.m = "truncate"
  <2>1. o.new = SubSeq(v, 1, IF call.i < Len(v) THEN call.i ELSE Len(v)) /\ o.out = <<>>
    BY <1>4 DEF Vec!Apply, Vec!truncate, Vec!Upto, Vec!Writes, Vec!Returns
  <2>2. PICK i \in 0..Len(v) : o.new = SubSeq(v, 1, i)
    BY <1>1, <2>1
  <2> HIDE DEF o
  <2> QED
    BY <1>1, <2>1, <2>2, CutOff
<1>5. CASE call.m = "retain"
  <2>1. o.new = Vec!Kept(v, call.keep) /\ o.out = <<>>
    BY <1>5 DEF Vec!Apply, Vec!retain, Vec!Writes, Vec!Returns
  <2>2. Vec!Kept(v, call.keep) = Kept(v, call.keep)
    BY VecKept
  <2> HIDE DEF o
  <2> QED
    BY <1>1, <2>1, <2>2, KeptOf
<1>6. CASE call.m = "dedup"
  <2>1. o.new = Vec!dedup(v).new /\ o.out = <<>>
    BY <1>6 DEF Vec!Apply, Vec!dedup, Vec!Writes, Vec!Returns
  <2> HIDE DEF o
  <2> QED
    BY <1>1, <2>1, DedupedOf
<1> QED
  BY <1>3, <1>4, <1>5, <1>6 DEF Vec!Dropping

\* The methods that take items out.
LEMMA VecTakes ==
    ASSUME NEW E, NEW v, NEW call, VecCall(call, E, v),
           call.m \in {"drain", "pop", "remove", "swap_remove", "split_off"}
    PROVE  VecAccounts(call, E, v)
<1> DEFINE o == Vec!Apply(call, v)
           n == Len(v)
<1>1. v \in Seq(E) /\ call.i \in Nat /\ call.j \in Nat /\ n \in Nat /\ ~o.panics
  BY LenProperties DEF VecCall, IsCallOn
<1>2. SUFFICES o.new \in Seq(E) /\ o.out \in Seq(E) /\ Conserved(o.new, o.out, v, <<>>)
  BY DEF VecAccounts, Accounts, Vec!Adding, Vec!Dropping, Vec!Making
<1>3. CASE call.m = "drain"
  <2>1. PICK j : /\ call.i <= j /\ j <= n /\ j \in Nat
                 /\ o.new = SubSeq(v, 1, call.i) \o SubSeq(v, j + 1, n)
                 /\ o.out = SubSeq(v, call.i + 1, j)
    BY <1>1, <1>3 DEF Vec!Apply, Vec!drain, Vec!EndOf, Vec!Checked, Vec!Panics, Vec!Takes,
      Vec!Upto, Vec!From, Vec!Slice
  <2>2. call.i \in 0..n /\ j \in call.i..n
    BY <1>1, <2>1
  <2> HIDE DEF o
  <2> QED
    BY <1>1, <2>1, <2>2, CutOut
<1>4. CASE call.m = "split_off"
  <2>1. call.i <= n /\ o.new = SubSeq(v, 1, call.i) /\ o.out = SubSeq(v, call.i + 1, n)
    BY <1>1, <1>4 DEF Vec!Apply, Vec!split_off, Vec!Checked, Vec!Panics, Vec!Takes, Vec!Upto, Vec!From
  <2> HIDE DEF o
  <2> QED
    BY <1>1, <2>1, SplitOff
<1>5. CASE call.m = "remove"
  <2>1. o = Vec!remove(v, call.i)
    BY <1>5 DEF Vec!Apply
  <2>2. /\ call.i < n /\ o.out = <<v[call.i + 1]>> /\ o.new = Vec!RemoveAt(v, call.i + 1)
    BY <1>1, <2>1 DEF Vec!remove, Vec!Checked, Vec!Panics, Vec!Takes
  <2>3. Vec!RemoveAt(v, call.i + 1) = SubSeq(v, 1, call.i) \o SubSeq(v, call.i + 2, n)
    <3>1. PICK k : k = call.i + 1
      OBVIOUS
    <3>2. k - 1 = call.i /\ k + 1 = call.i + 2
      BY <1>1, <3>1
    <3> QED
      BY <3>1, <3>2 DEF Vec!RemoveAt
  <2> HIDE DEF o
  <2> QED
    BY <1>1, <2>2, <2>3, TakeOut
<1>6. CASE call.m = "swap_remove"
  <2>1. /\ call.i < n /\ o.out = <<v[call.i + 1]>>
        /\ o.new = Front([v EXCEPT ![call.i + 1] = Last(v)])
    BY <1>1, <1>6 DEF Vec!Apply, Vec!swap_remove, Vec!Checked, Vec!Panics, Vec!Takes, Vec!Front,
      Vec!Last, Front, Last
  <2> HIDE DEF o
  <2> QED
    BY <1>1, <2>1, SwapRemoved
<1>7. CASE call.m = "pop"
  <2>1. /\ o.new = IF v = <<>> THEN v ELSE Front(v)
        /\ o.out = IF v = <<>> THEN <<>> ELSE <<Last(v)>>
    BY <1>1, <1>7 DEF Vec!Apply, Vec!pop, Vec!Takes, Vec!Front, Vec!Last, Front, Last
  <2> HIDE DEF o
  <2> QED
    BY <1>1, <2>1, PopLast
<1> QED
  BY <1>3, <1>4, <1>5, <1>6, <1>7

\* The methods that only change the order.
LEMMA VecOrders ==
    ASSUME NEW E \in SUBSET Int, NEW v, NEW call, VecCall(call, E, v),
           call.m \in {"reverse", "sort", "sort_by", "swap"}
    PROVE  VecAccounts(call, E, v)
<1> DEFINE o == Vec!Apply(call, v)
           n == Len(v)
<1>1. v \in Seq(E) /\ call.i \in Nat /\ call.j \in Nat /\ n \in Nat /\ DOMAIN v = 1..n /\ ~o.panics
  BY LenProperties DEF VecCall, IsCallOn
<1>2. SUFFICES o.new \in Seq(E) /\ o.out = <<>> /\ Conserved(o.new, <<>>, v, <<>>)
  BY EmptySeq DEF VecAccounts, Accounts, Vec!Adding, Vec!Dropping, Vec!Making
<1>3. CASE call.m = "reverse"
  <2>1. o.new = Reverse(v) /\ o.out = <<>>
    BY <1>3 DEF Vec!Apply, Vec!reverse, Vec!Writes, Vec!Returns, Vec!Reverse, Reverse
  <2>2. PICK t \in Seq(E) : t = Reverse(v) /\ \A x : Count(t, x) = Count(v, x)
    BY <1>1, CountReversed
  <2> HIDE DEF o
  <2> QED
    BY <1>1, <2>1, <2>2, SameCounts
<1>4. CASE call.m = "sort_by"
  <2>1. o.new = Vec!sort_by(v, call.edit).new /\ o.out = <<>>
    BY <1>4 DEF Vec!Apply, Vec!sort_by, Vec!Writes, Vec!Returns
  <2>2. "edit" \in Vec!ActorVec[call.m].takes
    BY <1>4 DEF Vec!ActorVec, Vec!ByMut
  <2>3. \A x \in E : call.edit[x] \in Int
    BY <2>2 DEF VecCall, IsCallOn
  <2> HIDE DEF o
  <2> QED
    BY <1>1, <2>1, <2>3, SortPermutes
<1>5. CASE call.m = "sort"
  <2> DEFINE D == {v[k] : k \in DOMAIN v}
             key == [x \in D |-> x]
  <2>1. o.new = Vec!sort_by(v, key).new /\ o.out = <<>>
    BY <1>5 DEF Vec!Apply, Vec!sort, Vec!ToSet, Vec!sort_by, Vec!Writes, Vec!Returns
  <2>2. v \in Seq(D) /\ D \subseteq E
    BY <1>1, ElementOfSeq
  <2>3. \A x \in D : key[x] \in Int
    BY <2>2
  <2> HIDE DEF o, key, D
  <2>4. LET t == Vec!sort_by(v, key).new
        IN t \in Seq(D) /\ Conserved(t, <<>>, v, <<>>)
    BY <2>2, <2>3, SortPermutes
  <2> QED
    BY <2>1, <2>2, <2>4, SeqMonotonic
<1>6. CASE call.m = "swap"
  <2>1. /\ call.i < n /\ call.j < n /\ o.out = <<>>
        /\ o.new = Swapped(v, call.i + 1, call.j + 1)
    BY <1>1, <1>6 DEF Vec!Apply, Vec!swap, Vec!Checked, Vec!Panics, Vec!Writes, Vec!Returns, Swapped
  <2> HIDE DEF o
  <2> QED
    BY <1>1, <2>1, SwapOf
<1> QED
  BY <1>3, <1>4, <1>5, <1>6

\* The methods that make items.
LEMMA VecMakes ==
    ASSUME NEW E, NEW v, NEW call, VecCall(call, E, v), call.m \in Vec!Making
    PROVE  VecAccounts(call, E, v)
<1> DEFINE o == Vec!Apply(call, v)
           n == Len(v)
<1>1. v \in Seq(E) /\ call.i \in Nat /\ call.items \in Seq(E) /\ n \in Nat /\ DOMAIN v = 1..n
  BY LenProperties DEF VecCall, IsCallOn
<1>2. SUFFICES o.new \in Seq(E)
  BY DEF VecAccounts, Accounts
<1>3. CASE call.m = "retain_mut"
  <2> DEFINE w == [k \in DOMAIN v |-> call.edit[v[k]]]
  <2>1. o.new = Vec!Kept(w, call.keep)
    BY <1>3 DEF Vec!Apply, Vec!retain_mut, Vec!retain, Vec!Writes, Vec!Returns
  <2>2. "edit" \in Vec!ActorVec[call.m].takes
    BY <1>3 DEF Vec!ActorVec, Vec!ByMut
  <2>3. w \in Seq(E)
    <3>1. \A k \in 1..n : call.edit[v[k]] \in E
      BY <1>1, <2>2, ElementOfSeq DEF VecCall, IsCallOn
    <3>2. w \in [1..n -> E]
      BY <1>1, <3>1
    <3> HIDE DEF w
    <3> QED
      BY <1>1, <3>2
  <2> HIDE DEF o, w
  <2> QED
    BY <2>1, <2>3, VecKept, KeptOf
<1>4. CASE call.m = "resize"
  <2>1. o.new = SubSeq(v, 1, IF call.i < n THEN call.i ELSE n)
                    \o [k \in 1..(IF call.i < n THEN 0 ELSE call.i - n) |-> Head(call.items)]
    BY <1>4 DEF Vec!Apply, Vec!resize, Vec!Upto, Vec!Writes, Vec!Returns
  <2>2. "item" \in Vec!ActorVec[call.m].takes
    BY <1>4 DEF Vec!ActorVec, Vec!ByMut
  <2>3. Head(call.items) \in E
    BY <2>2, OnlyItem DEF VecCall, IsCallOn
  <2> HIDE DEF o
  <2> QED
    BY <1>1, <2>1, <2>3, Resized
<1> QED
  BY <1>3, <1>4 DEF Vec!Making

\* Every method of a Vec.
LEMMA VecBalances ==
    ASSUME NEW E \in SUBSET Int, NEW v, NEW call, VecCall(call, E, v)
    PROVE  VecAccounts(call, E, v)
<1>1. CASE Vec!ActorVec[call.m].self = "ref"
  BY <1>1, VecReads, ReadsAccount DEF VecCall, VecAccounts, IsCallOn
<1>2. CASE Vec!ActorVec[call.m].self # "ref"
  <2>1. call.m \in Vec!Adding \cup Vec!Dropping \cup Vec!Making
            \cup {"drain", "pop", "remove", "swap_remove", "split_off"}
            \cup {"reverse", "sort", "sort_by", "swap"}
    BY <1>2 DEF VecCall, IsCallOn, Vec!ActorVec, Vec!ByMut, Vec!ByRef, Vec!Adding, Vec!Dropping,
      Vec!Making
  <2> QED
    BY <2>1, VecPuts, VecDrops, VecMakes, VecTakes, VecOrders
<1> QED
  BY <1>1, <1>2

\* A method of a VecDeque that takes &self leaves it as it is.
LEMMA VecDequeReads ==
    ASSUME NEW call, NEW v, call.m \in DOMAIN VecDeque!ActorVecDeque,
           VecDeque!ActorVecDeque[call.m].self = "ref"
    PROVE  /\ VecDeque!Apply(call, v).new = v /\ VecDeque!Apply(call, v).out = <<>>
           /\ call.m \notin VecDeque!Adding \cup VecDeque!Dropping
<1>1. call.m \in {"is_empty", "len", "get_index", "front", "back", "contains"}
  BY DEF VecDeque!ActorVecDeque, VecDeque!ByMut, VecDeque!ByRef
<1> QED
  BY <1>1 DEF VecDeque!Apply, VecDeque!is_empty, VecDeque!len, VecDeque!get_index,
    VecDeque!front, VecDeque!back, VecDeque!contains, VecDeque!V!is_empty, VecDeque!V!len,
    VecDeque!V!get_index, VecDeque!V!first, VecDeque!V!last, VecDeque!V!contains,
    VecDeque!V!Returns, VecDeque!Adding, VecDeque!Dropping

\* The methods a Vec has too.
Shared == {"drain", "retain", "insert", "swap", "truncate", "extend", "split_off", "clear",
           "retain_mut", "resize"}

\* They do to a VecDeque what they do to a Vec.
LEMMA SharedMethods ==
    ASSUME NEW call, NEW v, call.m \in Shared \/ (call.m = "remove" /\ call.i < Len(v))
    PROVE  VecDeque!Apply(call, v) = Vec!Apply(call, v)
<1>1. \A w, keep : VecDeque!V!Kept(w, keep) = Vec!Kept(w, keep)
  BY DEF Vec!Kept, VecDeque!V!Kept, Vec!FoldLeft, VecDeque!V!FoldLeft, Vec!MapThenFoldSet,
    VecDeque!V!MapThenFoldSet, Vec!Max, VecDeque!V!Max
<1>2. CASE call.m \in {"insert", "remove"}
  <2>1. \A w, i, x : VecDeque!V!InsertAt(w, i, x) = Vec!InsertAt(w, i, x)
    BY DEF Vec!InsertAt, VecDeque!V!InsertAt
  <2>2. \A w, i : VecDeque!V!RemoveAt(w, i) = Vec!RemoveAt(w, i)
    BY DEF Vec!RemoveAt, VecDeque!V!RemoveAt
  <2> QED
    BY <1>2, <2>1, <2>2 DEF Shared, VecDeque!Apply, Vec!Apply, VecDeque!insert, VecDeque!remove,
      VecDeque!V!insert, VecDeque!V!remove, Vec!insert, Vec!remove,
      VecDeque!V!Checked, VecDeque!V!Panics, VecDeque!V!Takes, VecDeque!V!Writes,
      VecDeque!V!Returns, Vec!Checked, Vec!Panics, Vec!Takes, Vec!Writes, Vec!Returns
<1>3. CASE call.m \in Shared \ {"insert"}
  BY <1>1, <1>3 DEF Shared, VecDeque!Apply, Vec!Apply, VecDeque!drain, VecDeque!retain,
    VecDeque!swap, VecDeque!truncate, VecDeque!extend, VecDeque!split_off, VecDeque!clear,
    VecDeque!retain_mut, VecDeque!resize, VecDeque!EndOf, Vec!EndOf,
    VecDeque!V!drain, VecDeque!V!retain, VecDeque!V!swap, VecDeque!V!truncate,
    VecDeque!V!extend, VecDeque!V!split_off, VecDeque!V!clear, VecDeque!V!retain_mut,
    VecDeque!V!resize, Vec!drain, Vec!retain, Vec!swap, Vec!truncate, Vec!extend,
    Vec!split_off, Vec!clear, Vec!retain_mut, Vec!resize, VecDeque!V!Upto, VecDeque!V!From,
    VecDeque!V!Slice, Vec!Upto, Vec!From, Vec!Slice, VecDeque!V!Checked, VecDeque!V!Panics,
    VecDeque!V!Takes, VecDeque!V!Writes, VecDeque!V!Returns, Vec!Checked, Vec!Panics,
    Vec!Takes, Vec!Writes, Vec!Returns
<1> QED
  BY <1>2, <1>3

\* Every method of a VecDeque.
LEMMA VecDequeBalances ==
    ASSUME NEW E \in SUBSET Int, NEW v \in Seq(E), NEW call,
           IsCallOn(VecDeque!ActorVecDeque, E, call), ~VecDeque!Apply(call, v).panics
    PROVE  Accounts(VecDeque!Adding, VecDeque!Dropping, VecDeque!Making, E, call,
                    VecDeque!Apply(call, v), v)
<1> DEFINE o == VecDeque!Apply(call, v)
           e == Head(call.items)
<1>1. CASE VecDeque!ActorVecDeque[call.m].self = "ref"
  BY <1>1, VecDequeReads, ReadsAccount DEF IsCallOn
<1>2. CASE call.m \in Shared \/ (call.m = "remove" /\ call.i < Len(v))
  <2>1. o = Vec!Apply(call, v)
    BY <1>2, SharedMethods
  <2>2. IsCallOn(Vec!ActorVec, E, call)
    BY <1>2 DEF Shared, IsCallOn, Vec!ActorVec, Vec!ByMut, Vec!ByRef, VecDeque!ActorVecDeque,
      VecDeque!ByMut, VecDeque!ByRef
  <2>3. VecCall(call, E, v)
    BY <2>1, <2>2 DEF VecCall
  <2>4. VecAccounts(call, E, v)
    BY <2>3, VecBalances
  <2> HIDE DEF o
  <2>5. /\ call.m \in Vec!Adding <=> call.m \in VecDeque!Adding
        /\ call.m \in Vec!Dropping <=> call.m \in VecDeque!Dropping
        /\ call.m \in Vec!Making <=> call.m \in VecDeque!Making
    BY <1>2 DEF Shared, Vec!Adding, Vec!Dropping, Vec!Making, VecDeque!Adding,
      VecDeque!Dropping, VecDeque!Making
  <2>6. Accounts(VecDeque!Adding, VecDeque!Dropping, VecDeque!Making, E, call, o, v)
    BY <2>1, <2>4, <2>5 DEF VecAccounts, Accounts
  <2> QED
    BY <2>6 DEF o
<1>3. CASE call.m \in {"push_back", "push_front"}
  <2>1. "item" \in VecDeque!ActorVecDeque[call.m].takes
    BY <1>3 DEF VecDeque!ActorVecDeque, VecDeque!ByMut
  <2>2. e \in E /\ call.items = <<e>> /\ call.items \in Seq(E)
    BY <2>1, OnlyItem DEF IsCallOn
  <2>3. /\ o.out = <<>>
        /\ o.new = IF call.m = "push_back" THEN Append(v, e) ELSE <<e>> \o v
    BY <1>3 DEF VecDeque!Apply, VecDeque!push_back, VecDeque!push_front, VecDeque!V!push,
      VecDeque!V!Writes, VecDeque!V!Returns, VecDeque!Writes, VecDeque!Returns
  <2> HIDE DEF o
  <2>4. o.new \in Seq(E) /\ Conserved(o.new, <<>>, v, call.items)
    <3>1. CASE call.m = "push_back"
      BY <2>2, <2>3, <3>1, PutItem
    <3>2. CASE call.m = "push_front"
      BY <2>2, <2>3, <3>2, PutFirst
    <3> QED
      BY <1>3, <3>1, <3>2
  <2>5. Accounts(VecDeque!Adding, VecDeque!Dropping, VecDeque!Making, E, call, o, v)
    BY <1>3, <2>3, <2>4, EmptySeq DEF Accounts, VecDeque!Adding, VecDeque!Dropping, VecDeque!Making
  <2> QED
    BY <2>5 DEF o
<1>4. CASE \/ call.m \in {"pop_back", "pop_front"}
           \/ call.m = "remove" /\ ~(call.i < Len(v))
  <2>1. CASE call.m = "pop_back"
    <3>1. /\ o.new = IF v = <<>> THEN v ELSE Front(v)
          /\ o.out = IF v = <<>> THEN <<>> ELSE <<Last(v)>>
      BY <2>1 DEF VecDeque!Apply, VecDeque!pop_back, VecDeque!V!pop, VecDeque!V!Takes,
        VecDeque!V!Front, VecDeque!V!Last, Front, Last
    <3> HIDE DEF o
    <3>2. o.new \in Seq(E) /\ o.out \in Seq(E) /\ Conserved(o.new, o.out, v, <<>>)
      BY <3>1, PopLast
    <3>3. Accounts(VecDeque!Adding, VecDeque!Dropping, VecDeque!Making, E, call, o, v)
      BY <2>1, <3>2 DEF Accounts, VecDeque!Adding, VecDeque!Dropping
    <3> QED
      BY <3>3 DEF o
  <2>2. CASE call.m = "pop_front" /\ v # <<>>
    <3>1. o.new = Tail(v) /\ o.out = <<Head(v)>>
      BY <2>2 DEF VecDeque!Apply, VecDeque!pop_front, VecDeque!Takes
    <3> HIDE DEF o
    <3>2. o.new \in Seq(E) /\ o.out \in Seq(E) /\ Conserved(o.new, o.out, v, <<>>)
      BY <2>2, <3>1, PopFirst
    <3>3. Accounts(VecDeque!Adding, VecDeque!Dropping, VecDeque!Making, E, call, o, v)
      BY <2>2, <3>2 DEF Accounts, VecDeque!Adding, VecDeque!Dropping
    <3> QED
      BY <3>3 DEF o
  <2>3. CASE \/ call.m = "pop_front" /\ v = <<>>
             \/ call.m = "remove" /\ ~(call.i < Len(v))
    <3>1. o.new = v /\ o.out = <<>> /\ call.m \notin VecDeque!Adding \cup VecDeque!Dropping
      BY <2>3 DEF VecDeque!Apply, VecDeque!pop_front, VecDeque!remove, VecDeque!Takes,
        VecDeque!Adding, VecDeque!Dropping
    <3> QED
      BY <3>1, ReadsAccount
  <2> QED
    BY <1>4, <2>1, <2>2, <2>3
<1>5. \/ VecDeque!ActorVecDeque[call.m].self = "ref"
      \/ call.m \in Shared \cup {"remove", "push_back", "push_front", "pop_back", "pop_front"}
  BY DEF IsCallOn, Shared, VecDeque!ActorVecDeque, VecDeque!ByMut, VecDeque!ByRef
<1> QED
  BY <1>1, <1>2, <1>3, <1>4, <1>5

\* A method of an Option that takes &self works on a clone.
LEMMA OptionReads ==
    ASSUME NEW call, NEW o, call.m \in DOMAIN Option!ActorOption,
           Option!ActorOption[call.m].self = "ref"
    PROVE  /\ Option!Apply(call, o).new = o /\ Option!Apply(call, o).out = <<>>
           /\ call.m \notin Option!Adding
<1>1. call.m \in {"is_some", "is_none", "unwrap_or", "unwrap_or_default", "unwrap_or_else",
                  "filter", "map"}
  BY DEF Option!ActorOption, Option!ByMut, Option!ByRef
<1> QED
  BY <1>1 DEF Option!Apply, Option!is_some, Option!is_none, Option!unwrap_or,
    Option!unwrap_or_default, Option!unwrap_or_else, Option!filter, Option!map, Option!Returns,
    Option!Adding

\* Every method of an Option.
LEMMA OptionBalances ==
    ASSUME NEW E, NEW v \in Seq(E), NEW call, IsCallOn(Option!ActorOption, E, call)
    PROVE  Accounts(Option!Adding, {}, Option!Making, E, call, Option!Apply(call, v), v)
<1> DEFINE o == Option!Apply(call, v)
           e == Head(call.items)
<1>1. CASE Option!ActorOption[call.m].self = "ref"
  BY <1>1, OptionReads, ReadsAccount DEF IsCallOn
<1>2. CASE call.m = "take"
  <2>1. o.new = <<>> /\ o.out = v
    BY <1>2 DEF Option!Apply, Option!take, Option!None, Option!Takes
  <2>2. Conserved(<<>>, v, v, <<>>) /\ <<>> \in Seq(E)
    BY HandedOver
  <2> HIDE DEF o
  <2>3. Accounts(Option!Adding, {}, Option!Making, E, call, o, v)
    BY <1>2, <2>1, <2>2 DEF Accounts, Option!Adding
  <2> QED
    BY <2>3 DEF o
<1>3. CASE call.m = "replace"
  <2>1. "item" \in Option!ActorOption[call.m].takes
    BY <1>3 DEF Option!ActorOption, Option!ByMut
  <2>2. e \in E /\ call.items = <<e>> /\ call.items \in Seq(E)
    BY <2>1, OnlyItem DEF IsCallOn
  <2>3. o.new = <<e>> /\ o.out = v
    BY <1>3 DEF Option!Apply, Option!replace, Option!Takes
  <2>4. Conserved(call.items, v, v, call.items)
    BY <2>2, Exchanged
  <2> HIDE DEF o
  <2>5. Accounts(Option!Adding, {}, Option!Making, E, call, o, v)
    BY <1>3, <2>2, <2>3, <2>4 DEF Accounts, Option!Adding
  <2> QED
    BY <2>5 DEF o
<1>4. CASE call.m = "take_if"
  <2> DEFINE w == [k \in DOMAIN v |-> call.edit[v[k]]]
  <2>1. o.new \in {<<>>, w}
    BY <1>4 DEF Option!Apply, Option!take_if, Option!None, Option!Takes
  <2>2. w \in Seq(E)
    <3>1. "edit" \in Option!ActorOption[call.m].takes
      BY <1>4 DEF Option!ActorOption, Option!ByMut
    <3> QED
      BY <3>1, Edited DEF IsCallOn
  <2> HIDE DEF o, w
  <2>3. Accounts(Option!Adding, {}, Option!Making, E, call, o, v)
    BY <1>4, <2>1, <2>2, EmptySeq DEF Accounts, Option!Making
  <2> QED
    BY <2>3 DEF o
<1>5. CASE call.m = "get_or_insert_with"
  <2>1. "item" \in Option!ActorOption[call.m].takes
    BY <1>5 DEF Option!ActorOption, Option!ByMut
  <2>2. e \in E /\ call.items = <<e>> /\ call.items \in Seq(E)
    BY <2>1, OnlyItem DEF IsCallOn
  <2>3. o.new \in {v, <<e>>}
    BY <1>5 DEF Option!Apply, Option!get_or_insert_with, Option!Or, Option!Returns
  <2> HIDE DEF o
  <2>4. Accounts(Option!Adding, {}, Option!Making, E, call, o, v)
    BY <1>5, <2>2, <2>3 DEF Accounts, Option!Making
  <2> QED
    BY <2>4 DEF o
<1>6. \/ Option!ActorOption[call.m].self = "ref"
      \/ call.m \in {"take", "replace", "take_if", "get_or_insert_with"}
  BY DEF IsCallOn, Option!ActorOption, Option!ByMut, Option!ByRef
<1> QED
  BY <1>1, <1>2, <1>3, <1>4, <1>5, <1>6

\* A list is a sequence.
LEMMA ListOfItems ==
    ASSUME NEW s, IsList(s)
    PROVE  /\ s \in Seq({s[i] : i \in 1..Len(s)}) /\ Len(s) \in Nat /\ DOMAIN s = 1..Len(s)
           /\ IsFiniteSet(DOMAIN s)
           /\ Len(s) = 1 => s = <<Head(s)>> /\ Head(s) = s[1]
<1> DEFINE E == {s[i] : i \in 1..Len(s)}
<1>1. Len(s) \in Nat /\ DOMAIN s = 1..Len(s)
  BY DEF IsList
<1>2. s \in [1..Len(s) -> E]
  BY DEF IsList
<1> HIDE DEF E
<1>3. s \in Seq(E)
  BY <1>1, <1>2
<1>4. Len(s) = 1 => s = <<Head(s)>> /\ Head(s) = s[1]
  BY <1>3, OnlyItem
<1>5. IsFiniteSet(DOMAIN s)
  BY <1>3, SeqFinite
<1> QED
  BY <1>1, <1>3, <1>4, <1>5 DEF E

\* A call of a method of trait, on a set or map.
IsCallByKey(trait, kind, call) ==
    /\ call.m \in DOMAIN trait /\ IsList(call.items)
    /\ \A i \in DOMAIN call.items : IsItem(kind, call.items[i])
    /\ "item" \in trait[call.m].takes => Len(call.items) = 1

\* What its outcome o has to be, where old and new are the items before and after.
Settles(adding, dropping, call, o, new, old, given) ==
    /\ IsFiniteSet(DOMAIN o.out)
    /\ LET in == IF call.m \in adding THEN given ELSE <<>>
       IN IF call.m \in dropping THEN Dropped(new, o.out, old, in)
          ELSE Conserved(new, o.out, old, in)

-----------------------------------------------------------------------------
(* Sets. *)

IsSet(v) == IsFiniteSet(DOMAIN v) /\ v = [k \in DOMAIN v |-> v[k]]
SetItems(v) == [k \in DOMAIN v |-> HashSet!Stored(v, k)]

\* The operators of the library are the same in the module of sets.
LEMMA SetCardinality == \A S : HashSet!Cardinality(S) = Cardinality(S)
  BY DEF HashSet!Cardinality, Cardinality, HashSet!IsFiniteSet, IsFiniteSet

\* So is the list it makes of a set.
LEMMA SetSetToSeq == \A S : HashSet!SetToSeq(S) = SetToSeq(S)
  BY SetCardinality DEF HashSet!SetToSeq, SetToSeq, HashSet!IsInjective, IsInjective

\* The list of all elements.
LEMMA SetListed ==
    ASSUME NEW v, IsSet(v)
    PROVE  /\ IsFiniteSet(DOMAIN HashSet!AllOf(v))
           /\ \A x : Count(HashSet!AllOf(v), x) = Count(SetItems(v), x)
<1>1. PICK name : name = SetItems(v)
  OBVIOUS
<1>2. PICK s : s = HashSet!AllOf(v)
  OBVIOUS
<1>3. DOMAIN name = DOMAIN v /\ \A k \in DOMAIN v : name[k] = HashSet!Stored(v, k)
  BY <1>1 DEF SetItems
<1>4. s = SetToSeq({name[k] : k \in DOMAIN name})
  <2>1. {name[k] : k \in DOMAIN name} = {HashSet!Stored(v, k) : k \in DOMAIN v}
    BY <1>3
  <2> QED
    BY <1>2, <2>1, SetSetToSeq DEF HashSet!AllOf
<1>5. \A k, l \in DOMAIN name : name[k] = name[l] => k = l
  BY <1>3 DEF HashSet!Stored, HashSet!Element
<1>6. IsFiniteSet(DOMAIN name)
  BY <1>3 DEF IsSet
<1>7. \A i \in DOMAIN s, k \in DOMAIN name : s[i] = name[k] => s[i] = name[k]
  OBVIOUS
<1>8. IsListing(s, s, name, name)
  BY <1>4, <1>5, <1>6, <1>7 DEF IsListing
<1>9. IsFiniteSet(DOMAIN s) /\ \A x : Count(s, x) = Count(name, x)
  BY <1>8, Listed
<1> QED
  BY <1>1, <1>2, <1>9

\* x goes in for what was at its key.
LEMMA SetPuts ==
    ASSUME NEW v, IsSet(v), NEW x, IsItem("HashSet", x)
    PROVE  LET new == HashSet!WithKey(v, x.key, x.tag)
           IN /\ IsSet(new) /\ DOMAIN new = DOMAIN v \cup {x.key}
              /\ Conserved(SetItems(new), At(SetItems(v), x.key), SetItems(v), <<x>>)
<1>1. PICK k : k = x.key
  OBVIOUS
<1>2. PICK new : new = HashSet!WithKey(v, k, x.tag)
  OBVIOUS
<1>3. DOMAIN new = DOMAIN v \cup {k} /\ new[k] = x.tag /\ \A l \in DOMAIN v \ {k} : new[l] = v[l]
  BY <1>2 DEF HashSet!WithKey
<1>4. IsSet(new)
  <2>1. IsFiniteSet(DOMAIN new)
    BY <1>3, FS_AddElement DEF IsSet
  <2> QED
    BY <1>2, <2>1 DEF IsSet, HashSet!WithKey
<1>5. PICK s, t : s = SetItems(v) /\ t = SetItems(new)
  OBVIOUS
<1>6. SameBut(s, t, k) /\ DOMAIN s = DOMAIN v
  BY <1>3, <1>5 DEF SetItems, SameBut, HashSet!Stored
<1>7. At(t, k) = <<x>>
  <2>1. t[k] = HashSet!Element(k, x.tag) /\ k \in DOMAIN t
    BY <1>3, <1>5 DEF SetItems, HashSet!Stored
  <2>2. x = HashSet!Element(x.key, x.tag)
    BY DEF IsItem
  <2> QED
    BY <1>1, <2>1, <2>2 DEF At
<1>8. Conserved(t, At(s, k), s, At(t, k))
  BY <1>6, OneKey DEF IsSet
<1> QED
  BY <1>1, <1>2, <1>3, <1>4, <1>5, <1>7, <1>8

\* What is at a key goes out.
LEMMA SetCuts ==
    ASSUME NEW v, IsSet(v), NEW k
    PROVE  LET new == HashSet!WithoutKey(v, k)
           IN /\ IsSet(new)
              /\ Conserved(SetItems(new), At(SetItems(v), k), SetItems(v), <<>>)
<1>1. PICK new : new = HashSet!WithoutKey(v, k)
  OBVIOUS
<1>2. DOMAIN new = DOMAIN v \ {k} /\ \A l \in DOMAIN v \ {k} : new[l] = v[l]
  BY <1>1 DEF HashSet!WithoutKey
<1>3. IsSet(new)
  <2>1. IsFiniteSet(DOMAIN new)
    BY <1>2, FS_Subset, DOMAIN new \subseteq DOMAIN v DEF IsSet
  <2> QED
    BY <1>1, <2>1 DEF IsSet, HashSet!WithoutKey
<1>4. PICK s, t : s = SetItems(v) /\ t = SetItems(new)
  OBVIOUS
<1>5. SameBut(s, t, k) /\ DOMAIN s = DOMAIN v /\ k \notin DOMAIN t
  BY <1>2, <1>4 DEF SetItems, SameBut, HashSet!Stored
<1>6. Conserved(t, At(s, k), s, At(t, k))
  BY <1>5, OneKey DEF IsSet
<1>7. At(t, k) = <<>>
  BY <1>5 DEF At
<1> QED
  BY <1>1, <1>3, <1>4, <1>6, <1>7

\* insert drops what it does not put in.
LEMMA SetInserts ==
    ASSUME NEW v, IsSet(v), NEW x, IsItem("HashSet", x)
    PROVE  LET new == HashSet!insert(v, x).new
           IN IsSet(new) /\ Dropped(SetItems(new), <<>>, SetItems(v), <<x>>)
<1>1. IsFiniteSet(DOMAIN SetItems(v)) /\ IsFiniteSet(DOMAIN <<x>>)
  BY OneFinite DEF IsSet, SetItems
<1>2. CASE x.key \in DOMAIN v
  <2>1. HashSet!insert(v, x).new = v
    BY <1>2 DEF HashSet!insert, HashSet!Returns
  <2> QED
    BY <1>1, <2>1, NotTaken
<1>3. CASE x.key \notin DOMAIN v
  <2>1. HashSet!insert(v, x).new = HashSet!WithKey(v, x.key, x.tag)
    BY <1>3 DEF HashSet!insert, HashSet!Returns
  <2>2. PICK new : new = HashSet!WithKey(v, x.key, x.tag)
    OBVIOUS
  <2>3. IsSet(new) /\ Conserved(SetItems(new), At(SetItems(v), x.key), SetItems(v), <<x>>)
    BY <2>2, SetPuts
  <2>4. IsFiniteSet(DOMAIN SetItems(new))
    BY <2>3 DEF IsSet, SetItems
  <2>5. Dropped(SetItems(new), <<>>, SetItems(v), <<x>>)
    <3>1. IsFiniteSet(DOMAIN At(SetItems(v), x.key))
      BY AtFinite
    <3> QED
      BY <1>1, <2>3, <2>4, <3>1, MayDrop
  <2> QED
    BY <2>1, <2>2, <2>3, <2>5
<1> QED
  BY <1>2, <1>3

\* A method of a set that takes &self leaves it as it is.
LEMMA SetReads ==
    ASSUME NEW call, NEW v, call.m \in DOMAIN HashSet!ActorSet,
           HashSet!ActorSet[call.m].self = "ref"
    PROVE  /\ HashSet!Apply(call, v).new = v /\ HashSet!Apply(call, v).out = <<>>
           /\ call.m \notin HashSet!Adding \cup HashSet!Dropping
<1>1. call.m \in {"is_empty", "len", "contains", "to_vec", "difference", "intersection", "union",
                  "is_subset", "is_superset", "is_disjoint"}
  BY DEF HashSet!ActorSet, HashSet!ByMut, HashSet!ByRef
<1> QED
  BY <1>1 DEF HashSet!Apply, HashSet!is_empty, HashSet!len, HashSet!contains, HashSet!to_vec,
    HashSet!difference, HashSet!intersection, HashSet!union, HashSet!is_subset,
    HashSet!is_superset, HashSet!is_disjoint, HashSet!Returns, HashSet!Adding, HashSet!Dropping

\* A run that inserts one item after another.
IsInserting(V, F, g, v, items) ==
    /\ IsRun(g, Len(items), V, v, F) /\ \A t \in V : IsSet(t)
    /\ \A t \in V, k \in 1..Len(items) : F[<<t, k>>] = HashSet!insert(t, items[k]).new

\* extend is one.
LEMMA SetExtends ==
    ASSUME NEW v, IsSet(v), NEW items, IsList(items)
    PROVE  \E V, F, g : /\ IsInserting(V, F, g, v, items)
                        /\ g[Len(items)] = HashSet!extend(v, items).new
<1> DEFINE n == Len(items)
           T == {v[k] : k \in DOMAIN v} \cup {items[i].tag : i \in 1..n}
           K == DOMAIN v \cup {items[i].key : i \in 1..n}
           V == {t \in UNION {[D -> T] : D \in SUBSET K} : IsFiniteSet(DOMAIN t)}
           Step(t, x) == HashSet!insert(t, x).new
           F == [p \in V \X (1..n) |-> Step(p[1], items[p[2]])]
           Eqn(f) == f = [s \in SUBSET DOMAIN items |->
                             IF s = {} THEN v
                             ELSE LET x == Max(s) IN Step(f[s \ {x}], items[x])]
<1>1. n \in Nat /\ DOMAIN items = 1..n
  BY ListOfItems
<1>2. v \in V
  <2>1. v \in [DOMAIN v -> T] /\ DOMAIN v \in SUBSET K
    BY DEF IsSet
  <2> HIDE DEF T, K
  <2> QED
    BY <2>1 DEF IsSet
<1>3. \A t \in V : IsSet(t)
  BY DEF IsSet
<1>4. ASSUME NEW t \in V, NEW k \in 1..n
      PROVE  Step(t, items[k]) \in V
  <2>1. PICK x : x = items[k] /\ x.key \in K /\ x.tag \in T
    OBVIOUS
  <2>2. CASE x.key \in DOMAIN t
    <3>1. Step(t, x) = t
      BY <2>2 DEF HashSet!insert, HashSet!Returns
    <3> HIDE DEF Step, V
    <3> QED
      BY <2>1, <3>1
  <2>3. CASE x.key \notin DOMAIN t
    <3>1. Step(t, x) = HashSet!WithKey(t, x.key, x.tag)
      BY <2>3 DEF HashSet!insert, HashSet!Returns
    <3>2. PICK u : u = HashSet!WithKey(t, x.key, x.tag)
      OBVIOUS
    <3>3. PICK D \in SUBSET K : t \in [D -> T] /\ D = DOMAIN t /\ IsFiniteSet(D)
      <4> HIDE DEF K, T
      <4> QED
        OBVIOUS
    <3>4. u \in [D \cup {x.key} -> T] /\ D \cup {x.key} \in SUBSET K
      <4> HIDE DEF K, T, V
      <4> QED
        BY <2>1, <3>2, <3>3 DEF HashSet!WithKey
    <3>5. IsFiniteSet(D \cup {x.key})
      BY <3>3, FS_AddElement
    <3>6. u \in V
      <4> HIDE DEF K, T
      <4> QED
        BY <3>4, <3>5
    <3> HIDE DEF Step, V
    <3> QED
      BY <2>1, <3>1, <3>2, <3>6
  <2> QED
    BY <2>2, <2>3
<1> HIDE DEF Step
<1>5. F \in [V \X (1..n) -> V]
  <2> HIDE DEF V, n
  <2> QED
    BY <1>4
<1>6. PICK h : IsFold(h, n, V, v, F)
  <2> HIDE DEF F, n, V
  <2> QED
    BY <1>1, <1>2, <1>5, FoldExists
<1> HIDE DEF V
<1>7. Eqn(h)
  <2>1. \A s \in SUBSET (1..n) : s # {} => Max(s) \in 1..n /\ s \ {Max(s)} \in SUBSET (1..n)
    BY <1>1, MaxProperty
  <2> QED
    BY <1>1, <1>6, <2>1 DEF IsFold
<1>8. ASSUME NEW f, Eqn(f)
      PROVE  Solves(f, n, V, v, F)
  <2>1. f[{}] = v
    BY <1>8
  <2>2. ASSUME NEW k \in 1..n, f[1..k - 1] \in V
        PROVE  f[1..k] = F[<<f[1..k - 1], k>>]
    <3>1. 1..k \in SUBSET DOMAIN items /\ 1..k # {}
      <4>1. PICK d \in Nat : d = n /\ DOMAIN items = 1..d
        BY <1>1
      <4>2. k \in 1..d
        BY <4>1
      <4>3. 1..k \subseteq 1..d /\ k \in 1..k
        BY <4>2
      <4> QED
        BY <4>1, <4>3
    <3>2. Max(1..k) = k /\ (1..k) \ {k} = 1..(k - 1)
      BY MaxOfPrefix, k \in Nat, k # 0
    <3> QED
      BY <1>8, <2>2, <3>1, <3>2
  <2> QED
    BY <2>1, <2>2 DEF Solves
<1>9. HashSet!extend(v, items).new = (CHOOSE f : Eqn(f))[DOMAIN items]
  BY DEF HashSet!extend, HashSet!Writes, HashSet!Returns, HashSet!FoldLeft,
    HashSet!MapThenFoldSet, HashSet!Max, Max, Step
<1>10. \A t \in V, k \in 1..n : F[<<t, k>>] = HashSet!insert(t, items[k]).new
  BY DEF Step
<1> HIDE DEF Eqn, F
<1>11. PICK iter : Eqn(iter) /\ HashSet!extend(v, items).new = iter[DOMAIN items]
  BY <1>7, <1>9
<1> HIDE DEF n
<1>12. HasRun(iter, n, V, v, F)
  BY <1>1, <1>2, <1>5, <1>8, <1>11, FoldSteps
<1>13. PICK g : IsRun(g, n, V, v, F) /\ g[n] = HashSet!extend(v, items).new
  BY <1>1, <1>11, <1>12 DEF HasRun
<1> QED
  BY <1>3, <1>10, <1>13 DEF IsInserting, n

\* What is right of a call on a set that does what it should.
SetSettles(call, v) ==
    LET o == HashSet!Apply(call, v)
    IN /\ IsSet(o.new)
       /\ Settles(HashSet!Adding, HashSet!Dropping, call, o, SetItems(o.new), SetItems(v),
                  call.items)

\* The methods that take an item.
LEMMA SetOfItem ==
    ASSUME NEW v, IsSet(v), NEW call, IsCallByKey(HashSet!ActorSet, "HashSet", call),
           call.m \in {"insert", "replace", "remove", "take"}
    PROVE  SetSettles(call, v)
<1>1. PICK o, x : o = HashSet!Apply(call, v) /\ x = Head(call.items)
  OBVIOUS
<1>2. call.items = <<x>> /\ IsItem("HashSet", x)
  <2>1. "item" \in HashSet!ActorSet[call.m].takes
    BY DEF HashSet!ActorSet, HashSet!ByMut
  <2>2. Len(call.items) = 1 /\ IsList(call.items)
    BY <2>1 DEF IsCallByKey
  <2>3. call.items = <<x>> /\ x = call.items[1] /\ 1 \in DOMAIN call.items
    <3>1. PICK s : s = call.items
      OBVIOUS
    <3>2. s = <<Head(s)>> /\ Head(s) = s[1] /\ DOMAIN s = 1..1
      BY <2>2, <3>1, ListOfItems
    <3>3. 1 \in DOMAIN s
      BY <3>2
    <3> QED
      BY <1>1, <3>1, <3>2, <3>3
  <2> QED
    BY <2>3 DEF IsCallByKey
<1>3. DOMAIN SetItems(v) = DOMAIN v /\ IsFiniteSet(DOMAIN v)
  BY DEF SetItems, IsSet
<1>4. At(SetItems(v), x.key)
          = IF x.key \in DOMAIN v THEN <<HashSet!Stored(v, x.key)>> ELSE <<>>
  BY DEF At, SetItems
<1>5. CASE call.m = "insert"
  <2>1. o.new = HashSet!insert(v, x).new /\ o.out = <<>>
    BY <1>1, <1>5 DEF HashSet!Apply, HashSet!insert, HashSet!Returns
  <2>2. IsSet(o.new) /\ Dropped(SetItems(o.new), <<>>, SetItems(v), <<x>>)
    BY <1>2, <2>1, SetInserts
  <2> QED
    BY <1>1, <1>2, <1>5, <2>1, <2>2, OneFinite
      DEF SetSettles, Settles, HashSet!Adding, HashSet!Dropping
<1>6. CASE call.m = "replace"
  <2>1. o.new = HashSet!WithKey(v, x.key, x.tag) /\ o.out = At(SetItems(v), x.key)
    BY <1>1, <1>4, <1>6 DEF HashSet!Apply, HashSet!replace, HashSet!Takes, HashSet!None
  <2>2. IsSet(o.new) /\ Conserved(SetItems(o.new), o.out, SetItems(v), <<x>>)
    BY <1>2, <2>1, SetPuts
  <2>3. IsFiniteSet(DOMAIN o.out)
    BY <2>1, AtFinite
  <2> QED
    BY <1>1, <1>2, <1>6, <2>2, <2>3
      DEF SetSettles, Settles, HashSet!Adding, HashSet!Dropping
<1>7. CASE call.m = "take"
  <2>1. o.new = HashSet!WithoutKey(v, x.key) /\ o.out = At(SetItems(v), x.key)
    BY <1>1, <1>4, <1>7 DEF HashSet!Apply, HashSet!take, HashSet!Takes, HashSet!None
  <2>2. IsSet(o.new) /\ Conserved(SetItems(o.new), o.out, SetItems(v), <<>>)
    BY <2>1, SetCuts
  <2>3. IsFiniteSet(DOMAIN o.out)
    BY <2>1, AtFinite
  <2> QED
    BY <1>1, <1>7, <2>2, <2>3 DEF SetSettles, Settles, HashSet!Adding, HashSet!Dropping
<1>8. CASE call.m = "remove"
  <2>1. o.new = HashSet!WithoutKey(v, x.key) /\ o.out = <<>>
    BY <1>1, <1>8 DEF HashSet!Apply, HashSet!remove, HashSet!Returns
  <2>2. IsSet(o.new) /\ Conserved(SetItems(o.new), At(SetItems(v), x.key), SetItems(v), <<>>)
    BY <2>1, SetCuts
  <2>3. Dropped(SetItems(o.new), <<>>, SetItems(v), <<>>)
    <3>1. IsFiniteSet(DOMAIN SetItems(v)) /\ IsFiniteSet(DOMAIN SetItems(o.new))
      BY <2>2 DEF IsSet, SetItems
    <3>2. IsFiniteSet(DOMAIN At(SetItems(v), x.key)) /\ IsFiniteSet(DOMAIN <<>>)
      BY AtFinite, OneFinite
    <3> QED
      BY <2>2, <3>1, <3>2, MayDrop
  <2> QED
    BY <1>1, <1>8, <2>1, <2>2, <2>3, OneFinite
      DEF SetSettles, Settles, HashSet!Adding, HashSet!Dropping
<1> QED
  BY <1>5, <1>6, <1>7, <1>8

\* The methods that look at every element.
LEMMA SetOfAll ==
    ASSUME NEW v, IsSet(v), NEW call, IsCallByKey(HashSet!ActorSet, "HashSet", call),
           call.m \in {"clear", "drain", "retain", "extend"}
    PROVE  SetSettles(call, v)
<1>1. PICK o : o = HashSet!Apply(call, v)
  OBVIOUS
<1>2. DOMAIN SetItems(v) = DOMAIN v /\ IsFiniteSet(DOMAIN v) /\ IsFiniteSet(DOMAIN SetItems(v))
  BY DEF SetItems, IsSet
<1>3. IsSet(<<>>) /\ SetItems(<<>>) = <<>> /\ IsFiniteSet(DOMAIN <<>>)
  <2>1. DOMAIN <<>> = {} /\ IsFiniteSet({})
    BY FS_EmptySet
  <2> QED
    BY <2>1 DEF IsSet, SetItems
<1>4. CASE call.m = "clear"
  <2>1. o.new = <<>> /\ o.out = <<>>
    BY <1>1, <1>4 DEF HashSet!Apply, HashSet!clear, HashSet!Writes, HashSet!Returns
  <2>2. PICK s, t : s = SetItems(o.new) /\ t = SetItems(v)
    OBVIOUS
  <2>3. Dropped(s, <<>>, t, <<>>)
    BY <1>2, <1>3, <2>1, <2>2, PartOf
  <2> QED
    BY <1>1, <1>3, <1>4, <2>1, <2>2, <2>3
      DEF SetSettles, Settles, HashSet!Adding, HashSet!Dropping
<1>5. CASE call.m = "drain"
  <2>1. o.new = <<>> /\ o.out = HashSet!AllOf(v)
    BY <1>1, <1>5 DEF HashSet!Apply, HashSet!drain, HashSet!Takes
  <2>2. IsFiniteSet(DOMAIN o.out) /\ \A x : Count(o.out, x) = Count(SetItems(v), x)
    BY <2>1, SetListed
  <2>3. PICK s, t : s = SetItems(v) /\ t = o.out
    OBVIOUS
  <2>4. Conserved(<<>>, t, s, <<>>)
    BY <1>2, <2>2, <2>3, AllHandedOver
  <2> QED
    BY <1>1, <1>3, <1>5, <2>1, <2>2, <2>3, <2>4
      DEF SetSettles, Settles, HashSet!Adding, HashSet!Dropping
<1>6. CASE call.m = "retain"
  <2>1. o.new = [k \in DOMAIN v \cap call.keep |-> v[k]] /\ o.out = <<>>
    BY <1>1, <1>6 DEF HashSet!Apply, HashSet!retain, HashSet!Writes, HashSet!Returns
  <2>2. IsFiniteSet(DOMAIN o.new)
    <3>1. DOMAIN o.new \subseteq DOMAIN v
      BY <2>1
    <3> QED
      BY <1>2, <3>1, FS_Subset
  <2>3. IsSet(o.new)
    BY <2>1, <2>2 DEF IsSet
  <2>4. PICK s, t : s = SetItems(o.new) /\ t = SetItems(v)
    OBVIOUS
  <2>5. DOMAIN s \subseteq DOMAIN t /\ \A k \in DOMAIN s : s[k] = t[k]
    BY <2>1, <2>4 DEF SetItems, HashSet!Stored
  <2>6. Dropped(s, <<>>, t, <<>>)
    BY <1>2, <2>4, <2>5, PartOf
  <2> QED
    BY <1>1, <1>3, <1>6, <2>1, <2>3, <2>4, <2>6
      DEF SetSettles, Settles, HashSet!Adding, HashSet!Dropping
<1>7. CASE call.m = "extend"
  <2>1. PICK items, E, n : items = call.items /\ E = {items[i] : i \in 1..n} /\ n = Len(items)
    OBVIOUS
  <2>2. /\ items \in Seq(E) /\ n \in Nat /\ DOMAIN items = 1..n /\ IsList(items)
        /\ \A i \in 1..n : IsItem("HashSet", items[i])
    BY <2>1, ListOfItems DEF IsCallByKey
  <2>3. o.new = HashSet!extend(v, items).new /\ o.out = <<>>
    BY <1>1, <1>7, <2>1 DEF HashSet!Apply, HashSet!extend, HashSet!Writes, HashSet!Returns
  <2>4. PICK V, F, g : IsInserting(V, F, g, v, items) /\ g[n] = o.new
    BY <2>1, <2>2, <2>3, SetExtends
  <2> DEFINE W == V \cup {HashSet!insert(t, items[k]).new : t \in V, k \in 1..n}
             L == [t \in W |-> SetItems(t)]
  <2>5. \A t \in V : IsFiniteSet(DOMAIN L[t])
    BY <2>4 DEF IsInserting, SetItems, IsSet
  <2>6. ASSUME NEW t \in V, NEW k \in 1..n
        PROVE  Dropped(L[F[<<t, k>>]], <<>>, L[t], <<items[k]>>)
    <3>1. F[<<t, k>>] = HashSet!insert(t, items[k]).new /\ IsSet(t)
      BY <2>1, <2>4 DEF IsInserting
    <3>2. F[<<t, k>>] \in W /\ t \in W
      BY <3>1
    <3>3. PICK x : x = items[k] /\ IsItem("HashSet", x)
      BY <2>2
    <3>4. Dropped(SetItems(HashSet!insert(t, x).new), <<>>, SetItems(t), <<x>>)
      BY <3>1, <3>3, SetInserts
    <3> QED
      BY <3>1, <3>2, <3>3, <3>4
  <2>7. IsRun(g, Len(items), V, v, F) /\ v \in V
    <3>1. IsRun(g, Len(items), V, v, F)
      BY <2>4 DEF IsInserting
    <3>2. 0 \in 0..Len(items)
      BY <2>1, <2>2
    <3> QED
      BY <3>1, <3>2 DEF IsRun
  <2> HIDE DEF L
  <2>8. g[Len(items)] \in V /\ Dropped(L[g[Len(items)]], <<>>, L[v], items)
    BY <2>1, <2>2, <2>5, <2>6, <2>7, RunDrops
  <2>9. o.new \in V /\ Dropped(SetItems(o.new), <<>>, SetItems(v), items)
    BY <2>1, <2>4, <2>7, <2>8 DEF L
  <2>10. IsSet(o.new)
    BY <2>4, <2>9 DEF IsInserting
  <2> QED
    BY <1>1, <1>3, <1>7, <2>1, <2>3, <2>9, <2>10
      DEF SetSettles, Settles, HashSet!Adding, HashSet!Dropping
<1> QED
  BY <1>4, <1>5, <1>6, <1>7

\* Every method of a set.
LEMMA SetBalances ==
    ASSUME NEW v, IsSet(v), NEW call, IsCallByKey(HashSet!ActorSet, "HashSet", call)
    PROVE  SetSettles(call, v)
<1>1. CASE HashSet!ActorSet[call.m].self = "ref"
  <2>1. PICK o : o = HashSet!Apply(call, v)
    OBVIOUS
  <2>2. o.new = v /\ o.out = <<>> /\ call.m \notin HashSet!Adding \cup HashSet!Dropping
    BY <1>1, <2>1, SetReads DEF IsCallByKey
  <2>3. Conserved(SetItems(v), <<>>, SetItems(v), <<>>)
    <3>1. IsFiniteSet(DOMAIN SetItems(v))
      BY DEF SetItems, IsSet
    <3> QED
      BY <3>1, Unmoved
  <2> QED
    BY <2>1, <2>2, <2>3, OneFinite DEF SetSettles, Settles
<1>2. CASE HashSet!ActorSet[call.m].self # "ref"
  <2>1. call.m \in {"insert", "replace", "remove", "take", "clear", "drain", "retain", "extend"}
    BY <1>2 DEF IsCallByKey, HashSet!ActorSet, HashSet!ByMut, HashSet!ByRef
  <2> QED
    BY <2>1, SetOfItem, SetOfAll
<1> QED
  BY <1>1, <1>2

-----------------------------------------------------------------------------
(* Maps. *)

IsMap(t) == IsFiniteSet(DOMAIN t) /\ t = [k \in DOMAIN t |-> HashMap!Slot(t[k])]
MapItems(t) == [k \in DOMAIN t |-> t[k].val]

\* The operators of the library are the same in the module of maps.
LEMMA MapCardinality == \A S : HashMap!Cardinality(S) = Cardinality(S)
  BY DEF HashMap!Cardinality, Cardinality, HashMap!IsFiniteSet, IsFiniteSet

\* So is the list it makes of a set.
LEMMA MapSetToSeq == \A S : HashMap!SetToSeq(S) = SetToSeq(S)
  BY MapCardinality DEF HashMap!SetToSeq, SetToSeq, HashMap!IsInjective, IsInjective

\* The list of all values.
LEMMA MapListed ==
    ASSUME NEW t, IsMap(t), NEW items,
           items = [i \in DOMAIN HashMap!AllOf(t) |-> HashMap!AllOf(t)[i].val]
    PROVE  IsFiniteSet(DOMAIN items) /\ \A x : Count(items, x) = Count(MapItems(t), x)
<1>1. PICK name : name = [k \in DOMAIN t |-> HashMap!Stored(t, k)]
  OBVIOUS
<1>2. PICK s, label : s = HashMap!AllOf(t) /\ label = MapItems(t)
  OBVIOUS
<1>3. /\ DOMAIN name = DOMAIN t /\ \A k \in DOMAIN t : name[k] = HashMap!Stored(t, k)
      /\ DOMAIN label = DOMAIN t /\ \A k \in DOMAIN t : label[k] = t[k].val
      /\ DOMAIN items = DOMAIN s /\ \A i \in DOMAIN s : items[i] = s[i].val
  BY <1>1, <1>2 DEF MapItems
<1>4. s = SetToSeq({name[k] : k \in DOMAIN name})
  <2>1. {name[k] : k \in DOMAIN name} = {HashMap!Stored(t, k) : k \in DOMAIN t}
    BY <1>3
  <2> QED
    BY <1>2, <2>1, MapSetToSeq DEF HashMap!AllOf
<1>5. \A k, l \in DOMAIN name : name[k] = name[l] => k = l
  BY <1>3 DEF HashMap!Stored, HashMap!Entry
<1>6. IsFiniteSet(DOMAIN name) /\ DOMAIN label = DOMAIN name
  BY <1>3 DEF IsMap
<1>7. \A i \in DOMAIN s, k \in DOMAIN name : s[i] = name[k] => items[i] = label[k]
  BY <1>3 DEF HashMap!Stored, HashMap!Entry
<1>8. IsListing(s, items, name, label)
  BY <1>3, <1>4, <1>5, <1>6, <1>7 DEF IsListing
<1>9. IsFiniteSet(DOMAIN s) /\ \A x : Count(items, x) = Count(label, x)
  BY <1>8, Listed
<1> QED
  BY <1>2, <1>3, <1>9

\* A value goes in for what was at its key.
LEMMA MapPuts ==
    ASSUME NEW t, IsMap(t), NEW k, NEW slot, slot = HashMap!Slot(slot), NEW new,
           DOMAIN new = DOMAIN t \cup {k}, new[k] = slot,
           \A l \in DOMAIN t \ {k} : new[l] = t[l], new = [l \in DOMAIN new |-> new[l]]
    PROVE  /\ IsMap(new)
           /\ Conserved(MapItems(new), At(MapItems(t), k), MapItems(t), <<slot.val>>)
<1>1. IsMap(new)
  <2>1. IsFiniteSet(DOMAIN new)
    BY FS_AddElement DEF IsMap
  <2>2. ASSUME NEW l \in DOMAIN new
        PROVE  new[l] = HashMap!Slot(new[l])
    <3>1. CASE l = k
      BY <3>1
    <3>2. CASE l # k
      <4>1. l \in DOMAIN t /\ new[l] = t[l]
        BY <3>2
      <4>2. t[l] = HashMap!Slot(t[l])
        BY <4>1 DEF IsMap
      <4> QED
        BY <4>1, <4>2
    <3> QED
      BY <3>1, <3>2
  <2>3. new = [l \in DOMAIN new |-> HashMap!Slot(new[l])]
    BY <2>2
  <2> QED
    BY <2>1, <2>3 DEF IsMap
<1>2. PICK s, u : s = MapItems(t) /\ u = MapItems(new)
  OBVIOUS
<1>3. SameBut(s, u, k) /\ DOMAIN s = DOMAIN t /\ IsFiniteSet(DOMAIN s)
  BY <1>2 DEF MapItems, SameBut, IsMap
<1>4. At(u, k) = <<slot.val>>
  BY <1>2 DEF MapItems, At
<1>5. Conserved(u, At(s, k), s, At(u, k))
  BY <1>3, OneKey
<1> QED
  BY <1>1, <1>2, <1>4, <1>5

\* What is at a key goes out.
LEMMA MapCuts ==
    ASSUME NEW t, IsMap(t), NEW k
    PROVE  LET new == HashMap!WithoutKey(t, k)
           IN /\ IsMap(new)
              /\ Conserved(MapItems(new), At(MapItems(t), k), MapItems(t), <<>>)
<1>1. PICK new : new = HashMap!WithoutKey(t, k)
  OBVIOUS
<1>2. DOMAIN new = DOMAIN t \ {k} /\ \A l \in DOMAIN t \ {k} : new[l] = t[l]
  BY <1>1 DEF HashMap!WithoutKey
<1>3. IsMap(new)
  <2>1. IsFiniteSet(DOMAIN new)
    BY <1>2, FS_Subset, DOMAIN new \subseteq DOMAIN t DEF IsMap
  <2>2. \A l \in DOMAIN new : new[l] = HashMap!Slot(new[l])
    BY <1>2 DEF IsMap
  <2>3. new = [l \in DOMAIN new |-> HashMap!Slot(new[l])]
    BY <1>1, <2>2 DEF HashMap!WithoutKey
  <2> QED
    BY <2>1, <2>3 DEF IsMap
<1>4. PICK s, u : s = MapItems(t) /\ u = MapItems(new)
  OBVIOUS
<1>5. SameBut(s, u, k) /\ IsFiniteSet(DOMAIN s) /\ k \notin DOMAIN u
  BY <1>2, <1>4 DEF MapItems, SameBut, IsMap
<1>6. Conserved(u, At(s, k), s, At(u, k))
  BY <1>5, OneKey
<1>7. At(u, k) = <<>>
  BY <1>5 DEF At
<1> QED
  BY <1>1, <1>3, <1>4, <1>6, <1>7

\* A value in a map is changed.
LEMMA MapChanges ==
    ASSUME NEW t, IsMap(t), NEW k \in DOMAIN t, NEW y
    PROVE  LET new == [t EXCEPT ![k].val = y]
           IN /\ IsMap(new)
              /\ Conserved(MapItems(new), At(MapItems(t), k), MapItems(t), <<y>>)
<1>1. PICK new : new = [t EXCEPT ![k].val = y]
  OBVIOUS
<1>2. PICK slot : slot = [tag |-> t[k].tag, val |-> y]
  OBVIOUS
<1>3. slot = HashMap!Slot(slot) /\ slot.val = y
  BY <1>2 DEF HashMap!Slot
<1>4. t = [l \in DOMAIN t |-> t[l]] /\ t[k] = [tag |-> t[k].tag, val |-> t[k].val]
  BY DEF IsMap, HashMap!Slot
<1>5. new = [t EXCEPT ![k] = slot]
  <2>1. [t[k] EXCEPT !.val = y] = slot
    BY <1>2, <1>4
  <2> QED
    BY <1>1, <2>1
<1>6. /\ DOMAIN new = DOMAIN t \cup {k} /\ new[k] = slot /\ \A l \in DOMAIN t \ {k} : new[l] = t[l]
      /\ new = [l \in DOMAIN new |-> new[l]]
  BY <1>4, <1>5
<1> QED
  BY <1>1, <1>3, <1>6, MapPuts

\* A new entry.
LEMMA MapAdds ==
    ASSUME NEW t, IsMap(t), NEW x
    PROVE  LET new == HashMap!WithKey(t, x.key, HashMap!Slot(x))
           IN /\ IsMap(new)
              /\ Conserved(MapItems(new), At(MapItems(t), x.key), MapItems(t), <<x.val>>)
<1>1. PICK k, slot, new : /\ k = x.key /\ slot = HashMap!Slot(x)
                          /\ new = HashMap!WithKey(t, k, slot)
  OBVIOUS
<1>2. slot = HashMap!Slot(slot) /\ slot.val = x.val
  BY <1>1 DEF HashMap!Slot
<1>3. /\ DOMAIN new = DOMAIN t \cup {k} /\ new[k] = slot /\ \A l \in DOMAIN t \ {k} : new[l] = t[l]
      /\ new = [l \in DOMAIN new |-> new[l]]
  BY <1>1 DEF HashMap!WithKey
<1> QED
  BY <1>1, <1>2, <1>3, MapPuts

\* insert does the one or the other.
LEMMA MapInserts ==
    ASSUME NEW t, IsMap(t), NEW x
    PROVE  LET o == HashMap!insert(t, x)
           IN /\ IsMap(o.new) /\ o.out = At(MapItems(t), x.key)
              /\ Conserved(MapItems(o.new), o.out, MapItems(t), <<x.val>>)
<1>1. At(MapItems(t), x.key) = IF x.key \in DOMAIN t THEN <<t[x.key].val>> ELSE <<>>
  BY DEF At, MapItems
<1>2. CASE x.key \in DOMAIN t
  <2>1. /\ HashMap!insert(t, x).new = [t EXCEPT ![x.key].val = x.val]
        /\ HashMap!insert(t, x).out = <<t[x.key].val>>
    BY <1>2 DEF HashMap!insert, HashMap!Has, HashMap!Takes
  <2> QED
    BY <1>1, <1>2, <2>1, MapChanges
<1>3. CASE x.key \notin DOMAIN t
  <2>1. /\ HashMap!insert(t, x).new = HashMap!WithKey(t, x.key, HashMap!Slot(x))
        /\ HashMap!insert(t, x).out = <<>>
    BY <1>3 DEF HashMap!insert, HashMap!Has, HashMap!Takes, HashMap!None
  <2> QED
    BY <1>1, <1>3, <2>1, MapAdds
<1> QED
  BY <1>2, <1>3

\* A run that inserts one entry after another.
IsFilling(V, F, g, t, items) ==
    /\ IsRun(g, Len(items), V, t, F) /\ \A u \in V : IsMap(u)
    /\ \A u \in V, k \in 1..Len(items) : F[<<u, k>>] = HashMap!insert(u, items[k]).new

\* extend is one.
LEMMA MapExtends ==
    ASSUME NEW t, IsMap(t), NEW items, IsList(items)
    PROVE  \E V, F, g : /\ IsFilling(V, F, g, t, items)
                        /\ g[Len(items)] = HashMap!extend(t, items).new
<1> DEFINE n == Len(items)
           I == 1..n
           T == {t[k].tag : k \in DOMAIN t} \cup {items[i].tag : i \in I}
           U == {t[k].val : k \in DOMAIN t} \cup {items[i].val : i \in I}
           R == [tag : T, val : U]
           K == DOMAIN t \cup {items[i].key : i \in I}
           V == {u \in UNION {[D -> R] : D \in SUBSET K} : IsFiniteSet(DOMAIN u)}
           Step(u, x) == HashMap!insert(u, x).new
           F == [p \in V \X (1..n) |-> Step(p[1], items[p[2]])]
           Eqn(f) == f = [s \in SUBSET DOMAIN items |->
                             IF s = {} THEN t
                             ELSE LET x == Max(s) IN Step(f[s \ {x}], items[x])]
<1>1. n \in Nat /\ DOMAIN items = 1..n
  BY ListOfItems
<1>2. t \in V
  <2>1. ASSUME NEW k \in DOMAIN t
        PROVE  t[k] \in R
    <3>1. t[k] = [tag |-> t[k].tag, val |-> t[k].val]
      BY DEF IsMap, HashMap!Slot
    <3> QED
      BY <3>1
  <2>2. DOMAIN t \in SUBSET K
    OBVIOUS
  <2>3. IsFiniteSet(DOMAIN t) /\ t = [k \in DOMAIN t |-> t[k]]
    BY DEF IsMap
  <2> HIDE DEF R, K
  <2>4. t \in [DOMAIN t -> R]
    BY <2>1, <2>3
  <2> QED
    BY <2>2, <2>3, <2>4
<1>3. ASSUME NEW u \in V
      PROVE  IsMap(u)
  <2>1. PICK D \in SUBSET K : u \in [D -> R] /\ D = DOMAIN u /\ IsFiniteSet(D)
    <3> HIDE DEF K, R
    <3> QED
      OBVIOUS
  <2>2. ASSUME NEW k \in D
        PROVE  u[k] = HashMap!Slot(u[k])
    <3>1. u[k] \in [tag : T, val : U]
      BY <2>1
    <3>2. u[k] = [tag |-> u[k].tag, val |-> u[k].val]
      <4> HIDE DEF T, U
      <4> QED
        BY <3>1
    <3> QED
      BY <3>2 DEF HashMap!Slot
  <2> HIDE DEF K, R, V
  <2>3. u = [k \in DOMAIN u |-> HashMap!Slot(u[k])]
    BY <2>1, <2>2
  <2> QED
    BY <2>1, <2>3 DEF IsMap
<1>4. ASSUME NEW u \in V, NEW k \in 1..n
      PROVE  Step(u, items[k]) \in V
  <2>1. PICK x : x = items[k] /\ x.key \in K /\ x.tag \in T /\ x.val \in U
    OBVIOUS
  <2>2. PICK D \in SUBSET K : u \in [D -> R] /\ D = DOMAIN u /\ IsFiniteSet(D)
    <3> HIDE DEF K, R
    <3> QED
      OBVIOUS
  <2>3. PICK w : w = Step(u, x)
    OBVIOUS
  <2>4. ASSUME x.key \in D
        PROVE  w \in V
    <3>1. w = [u EXCEPT ![x.key].val = x.val]
      BY <2>2, <2>3, <2>4 DEF HashMap!insert, HashMap!Has, HashMap!Takes
    <3>2. PICK r : r = [u[x.key] EXCEPT !.val = x.val]
      OBVIOUS
    <3>3. w = [u EXCEPT ![x.key] = r]
      BY ONLY <3>1, <3>2
    <3>4. r \in R
      <4>1. u[x.key] \in [tag : T, val : U]
        BY <2>2, <2>4
      <4> HIDE DEF T, U
      <4> QED
        BY <2>1, <3>2, <4>1
    <3>5. w \in [D -> R]
      <4> HIDE DEF R, V, K
      <4> QED
        BY <2>2, <3>3, <3>4
    <3>6. DOMAIN w = D
      BY <3>5
    <3> HIDE DEF R, K, Step
    <3> QED
      BY <2>2, <3>5, <3>6
  <2>5. ASSUME x.key \notin D
        PROVE  w \in V
    <3>1. w = HashMap!WithKey(u, x.key, HashMap!Slot(x))
      BY <2>2, <2>3, <2>5 DEF HashMap!insert, HashMap!Has, HashMap!Takes
    <3>2. HashMap!Slot(x) \in R
      <4> HIDE DEF T, U
      <4> QED
        BY <2>1 DEF HashMap!Slot
    <3>3. w \in [D \cup {x.key} -> R] /\ D \cup {x.key} \in SUBSET K
      <4> HIDE DEF R, V, K
      <4> QED
        BY <2>1, <2>2, <3>1, <3>2 DEF HashMap!WithKey
    <3>4. IsFiniteSet(D \cup {x.key})
      <4> HIDE DEF R, V, K, T, U, F
      <4> QED
        BY <2>2, FS_AddElement
    <3> HIDE DEF R, K, Step
    <3> QED
      BY <3>3, <3>4
  <2>6. w \in V
    <3> HIDE DEF V
    <3> QED
      BY <2>4, <2>5
  <2> HIDE DEF V, Step
  <2> QED
    BY <2>1, <2>3, <2>6
<1> HIDE DEF Step
<1>5. F \in [V \X (1..n) -> V]
  <2> HIDE DEF V, n
  <2> QED
    BY <1>4
<1>6. PICK h : IsFold(h, n, V, t, F)
  <2> HIDE DEF F, n, V
  <2> QED
    BY <1>1, <1>2, <1>5, FoldExists
<1> HIDE DEF V
<1>7. Eqn(h)
  <2>1. \A s \in SUBSET (1..n) : s # {} => Max(s) \in 1..n /\ s \ {Max(s)} \in SUBSET (1..n)
    BY <1>1, MaxProperty
  <2> QED
    BY <1>1, <1>6, <2>1 DEF IsFold
<1>8. ASSUME NEW f, Eqn(f)
      PROVE  Solves(f, n, V, t, F)
  <2>1. f[{}] = t
    BY <1>8
  <2>2. ASSUME NEW k \in 1..n, f[1..k - 1] \in V
        PROVE  f[1..k] = F[<<f[1..k - 1], k>>]
    <3>1. 1..k \in SUBSET DOMAIN items /\ 1..k # {}
      <4>1. PICK d \in Nat : d = n /\ DOMAIN items = 1..d
        BY <1>1
      <4>2. k \in 1..d
        BY <4>1
      <4>3. 1..k \subseteq 1..d /\ k \in 1..k
        BY <4>2
      <4> QED
        BY <4>1, <4>3
    <3>2. Max(1..k) = k /\ (1..k) \ {k} = 1..(k - 1)
      BY MaxOfPrefix, k \in Nat, k # 0
    <3> QED
      BY <1>8, <2>2, <3>1, <3>2
  <2> QED
    BY <2>1, <2>2 DEF Solves
<1>9. HashMap!extend(t, items).new = (CHOOSE f : Eqn(f))[DOMAIN items]
  BY DEF HashMap!extend, HashMap!Writes, HashMap!Returns, HashMap!FoldLeft,
    HashMap!MapThenFoldSet, HashMap!Max, Max, Step
<1>10. \A u \in V, k \in 1..n : F[<<u, k>>] = HashMap!insert(u, items[k]).new
  BY DEF Step
<1> HIDE DEF Eqn, F
<1>11. PICK iter : Eqn(iter) /\ HashMap!extend(t, items).new = iter[DOMAIN items]
  BY <1>7, <1>9
<1> HIDE DEF n
<1>12. HasRun(iter, n, V, t, F)
  BY <1>1, <1>2, <1>5, <1>8, <1>11, FoldSteps
<1>13. PICK g : IsRun(g, n, V, t, F) /\ g[n] = HashMap!extend(t, items).new
  BY <1>1, <1>11, <1>12 DEF HasRun
<1> QED
  BY <1>3, <1>10, <1>13 DEF IsFilling, n

\* A method of a map that takes &self leaves it as it is.
LEMMA MapReads ==
    ASSUME NEW call, NEW v, call.m \in DOMAIN HashMap!ActorMap,
           HashMap!ActorMap[call.m].self = "ref"
    PROVE  /\ HashMap!Apply(call, v).new = v /\ HashMap!Apply(call, v).out = <<>>
           /\ call.m \notin HashMap!Adding \cup HashMap!Dropping
<1>1. call.m \in {"get_key", "contains_key", "is_empty", "len", "keys", "values"}
  BY DEF HashMap!ActorMap, HashMap!ByMut, HashMap!ByRef
<1> QED
  BY <1>1 DEF HashMap!Apply, HashMap!get_key, HashMap!contains_key, HashMap!is_empty,
    HashMap!len, HashMap!keys, HashMap!values, HashMap!Returns, HashMap!Adding, HashMap!Dropping

\* The values of a list of entries.
ValsOf(items) == [i \in DOMAIN items |-> items[i].val]

\* The values of one entry and of none.
LEMMA ValsOfOne == \A x : ValsOf(<<x>>) = <<x.val>> /\ ValsOf(<<>>) = <<>>
<1> TAKE x
<1>1. DOMAIN <<x>> = 1..1 /\ <<x>>[1] = x
  OBVIOUS
<1>2. ValsOf(<<x>>) \in Seq({x.val}) /\ Len(ValsOf(<<x>>)) = 1 /\ ValsOf(<<x>>)[1] = x.val
  <2>1. ValsOf(<<x>>) = [i \in 1..1 |-> x.val]
    BY <1>1 DEF ValsOf
  <2>2. PICK n \in Nat : n = 1
    OBVIOUS
  <2> DEFINE f == [i \in 1..n |-> x.val]
  <2>3. f \in Seq({x.val}) /\ Len(f) = n /\ \A i \in 1..n : f[i] = x.val
    BY <2>2
  <2>4. f = ValsOf(<<x>>)
    BY <2>1, <2>2
  <2>5. 1 \in 1..n
    BY <2>2
  <2>6. f[1] = x.val
    BY <2>3, <2>5
  <2> QED
    BY <2>2, <2>3, <2>4, <2>6
<1>3. <<x.val>> \in Seq({x.val})
  OBVIOUS
<1>4. PICK s \in Seq({x.val}), t \in Seq({x.val}) : s = ValsOf(<<x>>) /\ t = <<x.val>>
  BY <1>2, <1>3
<1>5. s = t
  <2>1. Len(s) = 1 /\ Len(t) = 1 /\ s[1] = t[1]
    BY <1>2, <1>4
  <2>2. \A i \in 1..Len(s) : s[i] = t[i]
    BY <2>1
  <2> QED
    BY <2>1, <2>2, SeqEqual
<1>6. ValsOf(<<>>) = <<>>
  BY DEF ValsOf
<1> QED
  BY <1>4, <1>5, <1>6

\* What is right of a call on a map that does what it should.
MapSettles(call, v) ==
    LET o == HashMap!Apply(call, v)
    IN /\ IsMap(o.new)
       /\ call.m \notin HashMap!Making =>
             Settles(HashMap!Adding, HashMap!Dropping, call, o, MapItems(o.new), MapItems(v),
                     ValsOf(call.items))

\* The methods that take an entry or a key.
LEMMA MapOfItem ==
    ASSUME NEW v, IsMap(v), NEW call, IsCallByKey(HashMap!ActorMap, "HashMap", call),
           call.m \in {"insert", "remove", "remove_entry"}
    PROVE  MapSettles(call, v)
<1>1. PICK o, x : o = HashMap!Apply(call, v) /\ x = Head(call.items)
  OBVIOUS
<1>2. ValsOf(call.items) = <<x.val>>
  <2>1. "item" \in HashMap!ActorMap[call.m].takes
    BY DEF HashMap!ActorMap, HashMap!ByMut
  <2>2. Len(call.items) = 1 /\ IsList(call.items)
    BY <2>1 DEF IsCallByKey
  <2>3. call.items = <<x>>
    BY <1>1, <2>2, ListOfItems
  <2> QED
    BY <2>3, ValsOfOne
<1>3. At(MapItems(v), x.key) = IF x.key \in DOMAIN v THEN <<v[x.key].val>> ELSE <<>>
  BY DEF At, MapItems
<1>4. CASE call.m = "insert"
  <2>1. o = HashMap!insert(v, x)
    BY <1>1, <1>4 DEF HashMap!Apply
  <2>2. /\ IsMap(o.new) /\ o.out = At(MapItems(v), x.key)
        /\ Conserved(MapItems(o.new), o.out, MapItems(v), <<x.val>>)
    BY <2>1, MapInserts
  <2>3. IsFiniteSet(DOMAIN o.out)
    BY <2>2, AtFinite
  <2> QED
    BY <1>1, <1>2, <1>4, <2>2, <2>3
      DEF MapSettles, Settles, HashMap!Adding, HashMap!Dropping, HashMap!Making
<1>5. CASE call.m \in {"remove", "remove_entry"}
  <2>1. o.new = HashMap!WithoutKey(v, x.key) /\ o.out = At(MapItems(v), x.key)
    <3>1. CASE call.m = "remove"
      BY <1>1, <1>3, <3>1 DEF HashMap!Apply, HashMap!remove, HashMap!Has, HashMap!Takes,
        HashMap!None
    <3>2. CASE call.m = "remove_entry"
      <4>1. o = HashMap!remove_entry(v, x)
        BY <1>1, <3>2 DEF HashMap!Apply
      <4>2. PICK es : es = IF x.key \in DOMAIN v THEN <<HashMap!Stored(v, x.key)>> ELSE <<>>
        OBVIOUS
      <4>3. o.new = HashMap!WithoutKey(v, x.key) /\ o.out = ValsOf(es)
        BY <4>1, <4>2 DEF HashMap!remove_entry, HashMap!TakesEntries, HashMap!Has,
          HashMap!Takes, HashMap!None, ValsOf
      <4>4. HashMap!Stored(v, x.key).val = v[x.key].val
        BY DEF HashMap!Stored, HashMap!Entry
      <4>5. ValsOf(es) = IF x.key \in DOMAIN v THEN <<v[x.key].val>> ELSE <<>>
        BY <4>2, <4>4, ValsOfOne
      <4> QED
        BY <1>3, <4>3, <4>5
    <3> QED
      BY <1>5, <3>1, <3>2
  <2>2. IsMap(o.new) /\ Conserved(MapItems(o.new), o.out, MapItems(v), <<>>)
    BY <2>1, MapCuts
  <2>3. IsFiniteSet(DOMAIN o.out)
    BY <2>1, AtFinite
  <2> QED
    BY <1>1, <1>5, <2>2, <2>3
      DEF MapSettles, Settles, HashMap!Adding, HashMap!Dropping, HashMap!Making
<1> QED
  BY <1>4, <1>5

\* The methods that look at every entry.
LEMMA MapOfAll ==
    ASSUME NEW v, IsMap(v), NEW call, IsCallByKey(HashMap!ActorMap, "HashMap", call),
           call.m \in {"clear", "drain", "extend"}
    PROVE  MapSettles(call, v)
<1>1. PICK o : o = HashMap!Apply(call, v)
  OBVIOUS
<1>2. DOMAIN MapItems(v) = DOMAIN v /\ IsFiniteSet(DOMAIN v) /\ IsFiniteSet(DOMAIN MapItems(v))
  BY DEF MapItems, IsMap
<1>3. IsMap(<<>>) /\ MapItems(<<>>) = <<>> /\ IsFiniteSet(DOMAIN <<>>)
  <2>1. DOMAIN <<>> = {} /\ IsFiniteSet({})
    BY FS_EmptySet
  <2> QED
    BY <2>1 DEF IsMap, MapItems
<1>4. CASE call.m = "clear"
  <2>1. o.new = <<>> /\ o.out = <<>>
    BY <1>1, <1>4 DEF HashMap!Apply, HashMap!clear, HashMap!Writes, HashMap!Returns
  <2>2. PICK s, t : s = MapItems(o.new) /\ t = MapItems(v)
    OBVIOUS
  <2>3. Dropped(s, <<>>, t, <<>>)
    BY <1>2, <1>3, <2>1, <2>2, PartOf
  <2> QED
    BY <1>1, <1>3, <1>4, <2>1, <2>2, <2>3
      DEF MapSettles, Settles, HashMap!Adding, HashMap!Dropping, HashMap!Making
<1>5. CASE call.m = "drain"
  <2>1. o.new = <<>> /\ o.out = [i \in DOMAIN HashMap!AllOf(v) |-> HashMap!AllOf(v)[i].val]
    BY <1>1, <1>5 DEF HashMap!Apply, HashMap!drain, HashMap!TakesEntries, HashMap!Takes
  <2>2. PICK s, t : s = MapItems(v) /\ t = o.out
    OBVIOUS
  <2>3. IsFiniteSet(DOMAIN t) /\ \A x : Count(t, x) = Count(s, x)
    BY <2>1, <2>2, MapListed
  <2>4. Conserved(<<>>, t, s, <<>>)
    BY <1>2, <2>2, <2>3, AllHandedOver
  <2> QED
    BY <1>1, <1>3, <1>5, <2>1, <2>2, <2>3, <2>4
      DEF MapSettles, Settles, HashMap!Adding, HashMap!Dropping, HashMap!Making
<1>6. CASE call.m = "extend"
  <2>1. PICK items, vals, E, n : /\ items = call.items /\ n = Len(items) /\ vals = ValsOf(items)
                                 /\ E = {items[i].val : i \in 1..n}
    OBVIOUS
  <2>2. n \in Nat /\ DOMAIN items = 1..n /\ IsList(items)
    BY <2>1, ListOfItems DEF IsCallByKey
  <2>3. vals \in Seq(E) /\ Len(vals) = n /\ \A k \in 1..n : vals[k] = items[k].val
    <3>1. vals \in [1..n -> E] /\ \A k \in 1..n : vals[k] = items[k].val
      BY <2>1, <2>2 DEF ValsOf
    <3> QED
      BY <2>2, <3>1
  <2>4. o.new = HashMap!extend(v, items).new /\ o.out = <<>>
    BY <1>1, <1>6, <2>1 DEF HashMap!Apply, HashMap!extend, HashMap!Writes, HashMap!Returns
  <2>5. PICK V, F, g : IsFilling(V, F, g, v, items) /\ g[n] = o.new
    BY <2>1, <2>2, <2>4, MapExtends
  <2> DEFINE W == V \cup {HashMap!insert(t, items[k]).new : t \in V, k \in 1..n}
             L == [t \in W |-> MapItems(t)]
  <2>6. \A t \in V : IsFiniteSet(DOMAIN L[t])
    BY <2>5 DEF IsFilling, MapItems, IsMap
  <2>7. ASSUME NEW t \in V, NEW k \in 1..n
        PROVE  Dropped(L[F[<<t, k>>]], <<>>, L[t], <<vals[k]>>)
    <3>1. F[<<t, k>>] = HashMap!insert(t, items[k]).new /\ IsMap(t)
      BY <2>1, <2>5 DEF IsFilling
    <3>2. F[<<t, k>>] \in W /\ t \in W
      BY <3>1
    <3>3. PICK x, new, out : /\ x = items[k] /\ new = HashMap!insert(t, x).new
                             /\ out = HashMap!insert(t, x).out
      OBVIOUS
    <3>4. /\ IsMap(new) /\ out = At(MapItems(t), x.key)
          /\ Conserved(MapItems(new), out, MapItems(t), <<x.val>>)
      BY <3>1, <3>3, MapInserts
    <3>5. Dropped(MapItems(new), <<>>, MapItems(t), <<x.val>>)
      <4>1. IsFiniteSet(DOMAIN MapItems(new)) /\ IsFiniteSet(DOMAIN MapItems(t))
        BY <3>1, <3>4 DEF IsMap, MapItems
      <4>2. IsFiniteSet(DOMAIN out) /\ IsFiniteSet(DOMAIN <<x.val>>)
        BY <3>4, AtFinite, OneFinite
      <4> QED
        BY <3>4, <4>1, <4>2, MayDrop
    <3> QED
      BY <2>3, <3>1, <3>2, <3>3, <3>5
  <2>8. IsRun(g, Len(vals), V, v, F) /\ v \in V
    <3>1. IsRun(g, Len(vals), V, v, F)
      BY <2>1, <2>3, <2>5 DEF IsFilling
    <3>2. 0 \in 0..Len(vals)
      BY <2>2, <2>3
    <3> QED
      BY <3>1, <3>2 DEF IsRun
  <2> HIDE DEF L
  <2>9. g[Len(vals)] \in V /\ Dropped(L[g[Len(vals)]], <<>>, L[v], vals)
    BY <2>3, <2>6, <2>7, <2>8, RunDrops
  <2>10. o.new \in V /\ Dropped(MapItems(o.new), <<>>, MapItems(v), vals)
    BY <2>3, <2>5, <2>8, <2>9 DEF L
  <2>11. IsMap(o.new)
    BY <2>5, <2>10 DEF IsFilling
  <2> QED
    BY <1>1, <1>3, <1>6, <2>1, <2>4, <2>10, <2>11
      DEF MapSettles, Settles, HashMap!Adding, HashMap!Dropping, HashMap!Making
<1> QED
  BY <1>4, <1>5, <1>6

\* The methods that make values.
LEMMA MapMakes ==
    ASSUME NEW v, IsMap(v), NEW call, call.m \in HashMap!Making
    PROVE  MapSettles(call, v)
<1>1. PICK o, x : o = HashMap!Apply(call, v) /\ x = Head(call.items)
  OBVIOUS
<1>2. SUFFICES IsMap(o.new)
  BY <1>1 DEF MapSettles
<1>3. CASE call.m = "retain"
  <2>1. PICK D, edit : /\ D \subseteq DOMAIN v
                       /\ o.new = [k \in D |-> [v[k] EXCEPT !.val = edit[@]]]
    BY <1>1, <1>3 DEF HashMap!Apply, HashMap!retain, HashMap!Writes, HashMap!Returns
  <2>2. IsFiniteSet(D)
    BY <2>1, FS_Subset DEF IsMap
  <2>3. ASSUME NEW k \in D
        PROVE  [v[k] EXCEPT !.val = edit[@]] = HashMap!Slot([v[k] EXCEPT !.val = edit[@]])
    <3>1. v[k] = [tag |-> v[k].tag, val |-> v[k].val]
      BY <2>1 DEF IsMap, HashMap!Slot
    <3> QED
      BY <3>1 DEF HashMap!Slot
  <2>4. o.new = [k \in D |-> HashMap!Slot(o.new[k])]
    BY <2>1, <2>3
  <2> QED
    BY <2>2, <2>4 DEF IsMap
<1>4. CASE call.m = "get_or_insert_with"
  <2>1. o.new = IF x.key \in DOMAIN v THEN v ELSE HashMap!WithKey(v, x.key, HashMap!Slot(x))
    BY <1>1, <1>4 DEF HashMap!Apply, HashMap!get_or_insert_with, HashMap!Has, HashMap!Returns
  <2> QED
    BY <2>1, MapAdds
<1>5. CASE call.m = "modify"
  <2>1. PICK y : y = call.edit[v[x.key].val]
    OBVIOUS
  <2>2. o.new = IF x.key \in DOMAIN v THEN [v EXCEPT ![x.key].val = y] ELSE v
    BY <1>1, <1>5, <2>1 DEF HashMap!Apply, HashMap!modify, HashMap!Has, HashMap!Returns
  <2>3. x.key \in DOMAIN v => IsMap([v EXCEPT ![x.key].val = y])
    BY MapChanges
  <2> QED
    BY <2>2, <2>3
<1> QED
  BY <1>3, <1>4, <1>5 DEF HashMap!Making

\* Every method of a map.
LEMMA MapBalances ==
    ASSUME NEW v, IsMap(v), NEW call, IsCallByKey(HashMap!ActorMap, "HashMap", call)
    PROVE  MapSettles(call, v)
<1>1. CASE HashMap!ActorMap[call.m].self = "ref"
  <2>1. PICK o : o = HashMap!Apply(call, v)
    OBVIOUS
  <2>2. o.new = v /\ o.out = <<>> /\ call.m \notin HashMap!Adding \cup HashMap!Dropping
    BY <1>1, <2>1, MapReads DEF IsCallByKey
  <2>3. Conserved(MapItems(v), <<>>, MapItems(v), <<>>)
    <3>1. IsFiniteSet(DOMAIN MapItems(v))
      BY DEF MapItems, IsMap
    <3> QED
      BY <3>1, Unmoved
  <2> QED
    BY <2>1, <2>2, <2>3, OneFinite DEF MapSettles, Settles
<1>2. CASE HashMap!ActorMap[call.m].self # "ref"
  <2>1. call.m \in {"insert", "remove", "remove_entry", "clear", "drain", "extend"}
                      \cup HashMap!Making
    BY <1>2 DEF IsCallByKey, HashMap!ActorMap, HashMap!ByMut, HashMap!ByRef, HashMap!Making
  <2> QED
    BY <2>1, MapOfItem, MapOfAll, MapMakes
<1> QED
  BY <1>1, <1>2

-----------------------------------------------------------------------------
(* Strings. *)

\* The bytes before each place of a string.
IsTally(g, s) ==
    /\ g \in [0..Len(s) -> Nat] /\ g[0] = 0
    /\ \A k \in 1..Len(s) : g[k] = g[k - 1] + Width[s[k]]

\* There is a tally, and it ends with the size.
LEMMA SizeTallied ==
    ASSUME NEW E, NEW s \in Seq(E), \A c \in E : Width[c] \in Nat
    PROVE  \E g : IsTally(g, s) /\ g[Len(s)] = String!Size(s)
<1> DEFINE n == Len(s)
           F == [p \in Nat \X (1..n) |-> p[1] + Width[s[p[2]]]]
           Eqn(f) == f = [p \in SUBSET DOMAIN s |->
                             IF p = {} THEN 0
                             ELSE LET x == Max(p) IN f[p \ {x}] + Width[s[x]]]
<1>1. n \in Nat /\ DOMAIN s = 1..n /\ \A k \in 1..n : s[k] \in E
  BY LenProperties, ElementOfSeq
<1>2. 0 \in Nat /\ F \in [Nat \X (1..n) -> Nat]
  BY <1>1
<1>3. PICK h : IsFold(h, n, Nat, 0, F)
  <2> HIDE DEF F, n
  <2> QED
    BY <1>1, <1>2, FoldExists
<1>4. Eqn(h)
  <2>1. \A p \in SUBSET (1..n) : p # {} => Max(p) \in 1..n /\ p \ {Max(p)} \in SUBSET (1..n)
    BY <1>1, MaxProperty
  <2>2. \A p \in SUBSET (1..n) : p # {} => h[p] = h[p \ {Max(p)}] + Width[s[Max(p)]]
    BY <1>3, <2>1 DEF IsFold
  <2>3. h[{}] = 0 /\ h = [p \in SUBSET (1..n) |-> h[p]]
    BY <1>3 DEF IsFold
  <2> QED
    BY <1>1, <2>2, <2>3
<1>5. ASSUME NEW f, Eqn(f)
      PROVE  Solves(f, n, Nat, 0, F)
  <2>1. f[{}] = 0
    BY <1>5
  <2>2. ASSUME NEW k \in 1..n, f[1..k - 1] \in Nat
        PROVE  f[1..k] = F[<<f[1..k - 1], k>>]
    <3>1. 1..k \in SUBSET DOMAIN s /\ 1..k # {}
      <4> HIDE DEF n
      <4> QED
        BY <1>1
    <3>2. Max(1..k) = k /\ (1..k) \ {k} = 1..(k - 1)
      BY MaxOfPrefix, k \in Nat, k # 0
    <3> QED
      BY <1>5, <2>2, <3>1, <3>2
  <2> QED
    BY <2>1, <2>2 DEF Solves
<1>6. String!Size(s) = (CHOOSE f : Eqn(f))[DOMAIN s]
  <2>1. SubSeq(s, 1, Len(s)) = s
    BY SubSeqFull
  <2> QED
    BY <2>1 DEF String!Size, String!Byte, String!FoldLeft, String!MapThenFoldSet, String!Max, Max
<1> HIDE DEF Eqn, F, n
<1>7. PICK iter : Eqn(iter) /\ String!Size(s) = iter[DOMAIN s]
  BY <1>4, <1>6
<1>8. HasRun(iter, n, Nat, 0, F)
  BY <1>1, <1>2, <1>5, <1>7, FoldSteps
<1>9. PICK g : IsRun(g, n, Nat, 0, F) /\ g[n] = String!Size(s)
  BY <1>1, <1>7, <1>8 DEF HasRun
<1>10. ASSUME NEW k \in 1..n
       PROVE  g[k] = g[k - 1] + Width[s[k]]
  <2>1. k - 1 \in 0..n
    BY <1>1
  <2>2. g[k - 1] \in Nat /\ g[k] = F[<<g[k - 1], k>>]
    BY <1>9, <2>1 DEF IsRun
  <2> QED
    BY <2>2 DEF F
<1> QED
  BY <1>9, <1>10 DEF IsTally, IsRun, n

\* One tally has the bytes before every place.
LEMMA Tallied ==
    ASSUME NEW E, NEW s \in Seq(E), \A c \in E : Width[c] \in Nat
    PROVE  \E g : IsTally(g, s) /\ \A n \in 0..Len(s) : String!Byte(s, n) = g[n]
<1>1. PICK g : IsTally(g, s)
  BY SizeTallied
<1>2. Len(s) \in Nat
  BY LenProperties
<1>3. ASSUME NEW n \in 0..Len(s)
      PROVE  String!Byte(s, n) = g[n]
  <2>1. PICK t \in Seq(E) : t = SubSeq(s, 1, n)
    BY CountCut
  <2>2. Len(t) = n /\ \A k \in 1..n : t[k] = s[k]
    <3>1. n \in Int /\ \A k \in 1..n : s[k] \in E
      BY <1>2, ElementOfSeq
    <3>2. /\ Len(SubSeq(s, 1, n)) = IF 1 <= n THEN n - 1 + 1 ELSE 0
          /\ \A k \in 1..n - 1 + 1 : SubSeq(s, 1, n)[k] = s[1 + k - 1]
      BY <3>1, 1 \in Int, SubSeqProperties
    <3>3. n - 1 + 1 = n /\ \A k \in 1..n : 1 + k - 1 = k
      BY <3>1
    <3>4. Len(t) = IF 1 <= n THEN n ELSE 0
      BY <2>1, <3>2, <3>3
    <3> QED
      BY <2>1, <3>2, <3>3, <3>4
  <2>3. PICK h : IsTally(h, t) /\ h[Len(t)] = String!Size(t)
    BY SizeTallied
  <2>4. String!Size(t) = String!Byte(s, n)
    <3>1. SubSeq(t, 1, Len(t)) = SubSeq(s, 1, n)
      BY <2>1, SubSeqFull
    <3> QED
      BY <3>1 DEF String!Size, String!Byte
  <2> DEFINE S == {k \in Nat : k <= n => h[k] = g[k]}
  <2>5. 0 \in S
    BY <2>3, <1>1 DEF IsTally
  <2>6. ASSUME NEW k \in Nat, k \in S
        PROVE  k + 1 \in S
    <3>1. CASE k + 1 <= n
      <4>1. k + 1 \in 1..n /\ k + 1 \in 1..Len(s) /\ (k + 1) - 1 = k /\ h[k] = g[k]
        BY <1>2, <2>6, <3>1
      <4>2. h[k + 1] = h[k] + Width[t[k + 1]]
        BY <2>2, <2>3, <4>1 DEF IsTally
      <4>3. g[k + 1] = g[k] + Width[s[k + 1]]
        BY <1>1, <4>1 DEF IsTally
      <4>4. h[k + 1] = g[k + 1]
        BY <2>2, <4>1, <4>2, <4>3
      <4> QED
        BY <4>4
    <3>2. CASE ~(k + 1 <= n)
      BY <3>2
    <3> QED
      BY <3>1, <3>2
  <2>7. Nat \subseteq S
    <3> HIDE DEF S
    <3> QED
      BY <2>5, <2>6, Induction
  <2>8. h[n] = g[n]
    <3>1. n \in Nat /\ n \in S /\ n <= n
      BY <1>2, <2>7
    <3> QED
      BY <3>1
  <2> QED
    BY <2>2, <2>3, <2>4, <2>8
<1> QED
  BY <1>1, <1>3

\* It never falls.
LEMMA TallyGrows ==
    ASSUME NEW E, NEW s \in Seq(E), \A c \in E : Width[c] \in Nat, NEW g, IsTally(g, s),
           NEW a \in 0..Len(s), NEW b \in a..Len(s)
    PROVE  g[a] <= g[b]
<1> DEFINE S == {d \in Nat : a + d <= Len(s) => g[a] <= g[a + d]}
<1>1. Len(s) \in Nat /\ a \in Nat /\ \A k \in 0..Len(s) : g[k] \in Nat
  BY LenProperties DEF IsTally
<1>2. 0 \in S
  BY <1>1
<1>3. ASSUME NEW d \in Nat, d \in S
      PROVE  d + 1 \in S
  <2>1. CASE a + (d + 1) <= Len(s)
    <3>1. PICK k : k = a + (d + 1)
      OBVIOUS
    <3>2. k \in 1..Len(s) /\ k - 1 = a + d /\ k - 1 \in 0..Len(s) /\ a + d <= Len(s)
      BY <1>1, <2>1, <3>1
    <3>3. s[k] \in E
      BY <3>2, ElementOfSeq
    <3>4. g[k] = g[k - 1] + Width[s[k]] /\ Width[s[k]] \in Nat /\ g[k - 1] \in Nat
      BY <1>1, <3>2, <3>3 DEF IsTally
    <3>5. g[a] <= g[k - 1]
      BY <1>3, <3>2
    <3>6. g[a] \in Nat
      BY <1>1
    <3>7. g[a] <= g[k]
      BY <3>4, <3>5, <3>6
    <3> QED
      BY <3>1, <3>7
  <2>2. CASE ~(a + (d + 1) <= Len(s))
    BY <2>2
  <2> QED
    BY <2>1, <2>2
<1>4. Nat \subseteq S
  <2> HIDE DEF S
  <2> QED
    BY <1>2, <1>3, Induction
<1>5. b - a \in Nat /\ a + (b - a) = b /\ b <= Len(s)
  BY <1>1
<1>6. b - a \in S
  BY <1>4, <1>5
<1> QED
  BY <1>5, <1>6

\* The characters before a byte.
LEMMA CharsBefore ==
    ASSUME NEW E, NEW s \in Seq(E), \A c \in E : Width[c] \in Nat, NEW g, IsTally(g, s),
           \A n \in 0..Len(s) : String!Byte(s, n) = g[n], NEW i \in Nat
    PROVE  LET n == String!Chars(s, i)
           IN n \in 0..Len(s) /\ g[n] <= i /\ (n # Len(s) => g[n + 1] > i)
<1>1. Len(s) \in Nat
  BY LenProperties
<1> DEFINE T == {n \in 0..Len(s) : g[n] <= i}
<1>2. T \subseteq 0..Len(s) /\ 0 \in T
  BY <1>1 DEF IsTally
<1>3. PICK n \in T : \A m \in T : n >= m
  <2>1. T # {}
    BY <1>2
  <2> HIDE DEF T
  <2> QED
    BY <1>1, <1>2, <2>1, Greatest
<1>4. n = Len(s) \/ g[n + 1] > i
  <2>1. CASE n # Len(s)
    <3>1. n \in 0..Len(s) /\ n + 1 \in 0..Len(s) /\ ~(n >= n + 1)
      BY <1>1, <2>1
    <3>2. n + 1 \notin T
      BY <1>3, <3>1
    <3>3. g[n + 1] \in Nat
      BY <3>1 DEF IsTally
    <3> QED
      BY <3>1, <3>2, <3>3
  <2> QED
    BY <2>1
<1> DEFINE Fits(m) == String!Byte(s, m) <= i /\ (m = Len(s) \/ String!Byte(s, m + 1) > i)
<1>5. \A m \in 0..Len(s) : m # Len(s) => m + 1 \in 0..Len(s)
  BY <1>1
<1>6. \A m \in 0..Len(s) : Fits(m) <=> g[m] <= i /\ (m = Len(s) \/ g[m + 1] > i)
  BY <1>5
<1>7. Fits(n) /\ n \in 0..Len(s)
  BY <1>3, <1>4, <1>6
<1>8. String!Chars(s, i) = CHOOSE m \in 0..Len(s) : Fits(m)
  BY DEF String!Chars
<1> HIDE DEF Fits
<1>9. PICK m : m = String!Chars(s, i) /\ m \in 0..Len(s) /\ Fits(m)
  BY <1>7, <1>8
<1> QED
  BY <1>6, <1>9

\* What the methods that cut a string rely on.
LEMMA CharsFit ==
    ASSUME NEW E, NEW s \in Seq(E), \A c \in E : Width[c] \in Nat, NEW i \in Nat
    PROVE  /\ String!Chars(s, i) \in 0..Len(s) /\ String!Size(s) \in Nat
           /\ i < String!Size(s) => String!Chars(s, i) < Len(s)
           /\ \A j \in Nat : i <= j => String!Chars(s, j) \in String!Chars(s, i)..Len(s)
<1>1. PICK g : IsTally(g, s) /\ \A n \in 0..Len(s) : String!Byte(s, n) = g[n]
  BY Tallied
<1>2. PICK a : /\ a = String!Chars(s, i) /\ a \in 0..Len(s) /\ g[a] <= i
               /\ a # Len(s) => g[a + 1] > i
  BY <1>1, CharsBefore
<1>3. Len(s) \in Nat /\ \A k \in 0..Len(s) : g[k] \in Nat
  BY <1>1, LenProperties DEF IsTally
<1>4. String!Size(s) = g[Len(s)] /\ g[Len(s)] \in Nat
  BY <1>1, <1>3, Len(s) \in 0..Len(s) DEF String!Size
<1>5. i < String!Size(s) => a < Len(s)
  <2>1. a = Len(s) => String!Size(s) <= i
    BY <1>2, <1>4
  <2>2. a \in Nat /\ a <= Len(s)
    BY <1>2, <1>3
  <2>3. CASE a = Len(s)
    BY <1>4, <2>1, <2>3
  <2>4. CASE a # Len(s)
    BY <1>3, <2>2, <2>4
  <2> QED
    BY <2>3, <2>4
<1>6. ASSUME NEW j \in Nat, i <= j
      PROVE  String!Chars(s, j) \in a..Len(s)
  <2>1. PICK b : /\ b = String!Chars(s, j) /\ b \in 0..Len(s) /\ g[b] <= j
                 /\ b # Len(s) => g[b + 1] > j
    BY <1>1, CharsBefore
  <2>2. ~(b < a)
    <3> SUFFICES ASSUME b < a
                 PROVE  FALSE
      OBVIOUS
    <3>1. b # Len(s) /\ b + 1 \in 0..Len(s) /\ a \in (b + 1)..Len(s)
      BY <1>2, <1>3, <2>1
    <3>2. PICK c \in 0..Len(s) : c = b + 1
      BY <3>1
    <3>3. g[c] <= g[a]
      BY <1>1, <3>1, <3>2, TallyGrows
    <3>4. g[c] > j /\ g[c] \in Nat /\ g[a] \in Nat
      BY <1>2, <1>3, <2>1, <3>1, <3>2
    <3> QED
      BY <1>2, <1>6, <3>3, <3>4
  <2> QED
    BY <1>2, <1>3, <2>1, <2>2
<1> QED
  BY <1>2, <1>4, <1>5, <1>6

\* A method of a String that takes &self leaves it as it is.
LEMMA StringReads ==
    ASSUME NEW call, NEW v, call.m \in DOMAIN String!ActorString,
           String!ActorString[call.m].self = "ref"
    PROVE  /\ String!Apply(call, v).new = v /\ String!Apply(call, v).out = <<>>
           /\ call.m \notin String!Adding \cup String!Dropping
<1>1. call.m \in {"len", "is_empty", "to_uppercase", "to_lowercase", "contains", "replace",
                  "trim", "starts_with", "ends_with", "split"}
  BY DEF String!ActorString, String!ByMut, String!ByRef
<1> QED
  BY <1>1 DEF String!Apply, String!len, String!is_empty, String!to_uppercase,
    String!to_lowercase, String!contains, String!replace, String!trim, String!starts_with,
    String!ends_with, String!split, String!Returns, String!Adding, String!Dropping

\* A call of a String's methods that does not panic, and what its outcome has to be.
StringCall(call, E, v) ==
    /\ \A c \in E : Width[c] \in Nat
    /\ IsCallOn(String!ActorString, E, call) /\ v \in Seq(E) /\ ~String!Apply(call, v).panics
StringAccounts(call, E, v) ==
    Accounts(String!Adding, String!Dropping, String!Making, E, call, String!Apply(call, v), v)

\* A sequence goes in at a byte.
LEMMA StringPutIn ==
    ASSUME NEW E, NEW v \in Seq(E), NEW t \in Seq(E), \A c \in E : Width[c] \in Nat, NEW i \in Nat
    PROVE  LET new == String!Upto(v, i) \o t \o String!From(v, i)
           IN new \in Seq(E) /\ Conserved(new, <<>>, v, t)
<1>1. PICK n \in 0..Len(v) : n = String!Chars(v, i)
  BY CharsFit
<1>2. LET new == SubSeq(v, 1, n) \o t \o SubSeq(v, n + 1, Len(v))
      IN new \in Seq(E) /\ Conserved(new, <<>>, v, t)
  BY PutIn
<1> QED
  BY <1>1, <1>2 DEF String!Upto, String!From

\* The methods that put characters in.
LEMMA StringPuts ==
    ASSUME NEW E, NEW v, NEW call, StringCall(call, E, v), call.m \in String!Adding
    PROVE  StringAccounts(call, E, v)
<1>1. PICK o, e : o = String!Apply(call, v) /\ e = Head(call.items)
  OBVIOUS
<1>2. v \in Seq(E) /\ call.items \in Seq(E) /\ call.i \in Nat /\ ~o.panics
  BY <1>1 DEF StringCall, IsCallOn
<1>3. call.m \in {"push", "insert"} => e \in E /\ call.items = <<e>>
  <2>1. call.m \in {"push", "insert"} => "item" \in String!ActorString[call.m].takes
    BY DEF String!ActorString, String!ByMut, String!ByRef
  <2> QED
    BY <1>1, <2>1, OnlyItem DEF StringCall, IsCallOn
<1>4. SUFFICES o.new \in Seq(E) /\ o.out = <<>> /\ Conserved(o.new, <<>>, v, call.items)
  BY <1>1, EmptySeq DEF StringAccounts, Accounts, String!Adding, String!Dropping, String!Making
<1>5. CASE call.m = "push"
  <2>1. o.new = Append(v, e) /\ o.out = <<>>
    BY <1>1, <1>5 DEF String!Apply, String!push, String!Writes, String!Returns
  <2> QED
    BY <1>2, <1>3, <1>5, <2>1, PutItem
<1>6. CASE call.m = "push_str"
  <2>1. o.new = v \o call.items /\ o.out = <<>>
    BY <1>1, <1>6 DEF String!Apply, String!push_str, String!Writes, String!Returns
  <2> QED
    BY <1>2, <2>1, PutLast
<1>7. CASE call.m \in {"insert", "insert_str"}
  <2>1. o = String!insert_str(v, call.i, call.items)
    <3>1. CASE call.m = "insert_str"
      BY <1>1, <3>1 DEF String!Apply
    <3>2. CASE call.m = "insert"
      <4>1. o = String!insert(v, call.i, e)
        BY <1>1, <3>2 DEF String!Apply
      <4> QED
        BY <1>3, <3>2, <4>1 DEF String!insert
    <3> QED
      BY <1>7, <3>1, <3>2
  <2>2. o.out = <<>> /\ o.new = String!Upto(v, call.i) \o call.items \o String!From(v, call.i)
    BY <1>2, <2>1 DEF String!insert_str, String!Checked, String!Panics, String!Writes,
      String!Returns
  <2>3. \A c \in E : Width[c] \in Nat
    BY DEF StringCall
  <2> QED
    BY <1>2, <2>2, <2>3, StringPutIn
<1> QED
  BY <1>5, <1>6, <1>7 DEF String!Adding

\* Kept is the same in every module.
LEMMA StringKept == \A v, keep : String!Kept(v, keep) = Kept(v, keep)
  BY DEF String!Kept, Kept, String!FoldLeft, FoldLeft, String!MapThenFoldSet, MapThenFoldSet,
    String!Max, Max

\* The methods that drop characters.
LEMMA StringDrops ==
    ASSUME NEW E, NEW v, NEW call, StringCall(call, E, v), call.m \in String!Dropping
    PROVE  StringAccounts(call, E, v)
<1>1. PICK o : o = String!Apply(call, v)
  OBVIOUS
<1>2. v \in Seq(E) /\ call.i \in Nat /\ Len(v) \in Nat /\ ~o.panics
  BY <1>1, LenProperties DEF StringCall, IsCallOn
<1>3. SUFFICES o.new \in Seq(E) /\ o.out = <<>> /\ Dropped(o.new, <<>>, v, <<>>)
  BY <1>1, EmptySeq DEF StringAccounts, Accounts, String!Adding, String!Dropping, String!Making
<1>4. CASE call.m = "clear"
  <2>1. o.new = <<>> /\ o.out = <<>>
    BY <1>1, <1>4 DEF String!Apply, String!clear, String!Writes, String!Returns
  <2> QED
    BY <1>2, <2>1, AllDropped
<1>5. CASE call.m = "truncate"
  <2>1. o = String!truncate(v, call.i)
    BY <1>1, <1>5 DEF String!Apply
  <2>2. (o.new = v \/ o.new = String!Upto(v, call.i)) /\ o.out = <<>>
    BY <1>2, <2>1 DEF String!truncate, String!Checked, String!Panics, String!Writes,
      String!Returns
  <2>3. PICK n \in 0..Len(v) : o.new = SubSeq(v, 1, n)
    <3>1. CASE o.new = v
      BY <1>2, <3>1, SubSeqFull, Len(v) \in 0..Len(v)
    <3>2. CASE o.new = String!Upto(v, call.i)
      <4>1. String!Chars(v, call.i) \in 0..Len(v)
        BY <1>2, CharsFit DEF StringCall
      <4> QED
        BY <3>2, <4>1 DEF String!Upto
    <3> QED
      BY <2>2, <3>1, <3>2
  <2> QED
    BY <1>2, <2>2, <2>3, CutOff
<1>6. CASE call.m = "retain"
  <2>1. o.new = Kept(v, call.keep) /\ o.out = <<>>
    BY <1>1, <1>6, StringKept DEF String!Apply, String!retain, String!Writes, String!Returns
  <2> QED
    BY <1>2, <2>1, KeptOf
<1> QED
  BY <1>4, <1>5, <1>6 DEF String!Dropping

\* The methods that take characters out.
LEMMA StringTakes ==
    ASSUME NEW E, NEW v, NEW call, StringCall(call, E, v),
           call.m \in {"pop", "remove", "drain", "split_off"}
    PROVE  StringAccounts(call, E, v)
<1>1. PICK o : o = String!Apply(call, v)
  OBVIOUS
<1>2. /\ v \in Seq(E) /\ call.i \in Nat /\ call.j \in Nat /\ Len(v) \in Nat /\ ~o.panics
      /\ \A c \in E : Width[c] \in Nat
  BY <1>1, LenProperties DEF StringCall, IsCallOn
<1>3. SUFFICES o.new \in Seq(E) /\ o.out \in Seq(E) /\ Conserved(o.new, o.out, v, <<>>)
  BY <1>1 DEF StringAccounts, Accounts, String!Adding, String!Dropping, String!Making
<1>4. PICK a : a = String!Chars(v, call.i) /\ a \in 0..Len(v)
  BY <1>2, CharsFit
<1>5. CASE call.m = "pop"
  <2>1. /\ o.new = IF v = <<>> THEN v ELSE Front(v)
        /\ o.out = IF v = <<>> THEN <<>> ELSE <<Last(v)>>
    BY <1>1, <1>5 DEF String!Apply, String!pop, String!Takes, String!Front, String!Last, Front, Last
  <2> QED
    BY <1>2, <2>1, PopLast
<1>6. CASE call.m = "remove"
  <2>1. o = String!remove(v, call.i)
    BY <1>1, <1>6 DEF String!Apply
  <2>2. call.i < String!Size(v) /\ o.out = <<v[a + 1]>> /\ o.new = String!RemoveAt(v, a + 1)
    BY <1>2, <1>4, <2>1 DEF String!remove, String!Checked, String!Panics, String!Takes
  <2>3. a \in Nat /\ a < Len(v)
    <3>1. call.i < String!Size(v) => String!Chars(v, call.i) < Len(v)
      BY <1>2, CharsFit
    <3> QED
      BY <1>4, <2>2, <3>1
  <2>4. String!RemoveAt(v, a + 1) = SubSeq(v, 1, a) \o SubSeq(v, a + 2, Len(v))
    <3>1. PICK k : k = a + 1
      OBVIOUS
    <3>2. k - 1 = a /\ k + 1 = a + 2
      BY <2>3, <3>1
    <3> QED
      BY <3>1, <3>2 DEF String!RemoveAt
  <2> QED
    BY <1>2, <2>2, <2>3, <2>4, TakeOut
<1>7. CASE call.m = "split_off"
  <2>1. o = String!split_off(v, call.i)
    BY <1>1, <1>7 DEF String!Apply
  <2>2. o.new = SubSeq(v, 1, a) /\ o.out = SubSeq(v, a + 1, Len(v))
    BY <1>2, <1>4, <2>1 DEF String!split_off, String!Checked, String!Panics, String!Takes,
      String!Upto, String!From
  <2>3. a \in Nat /\ a <= Len(v)
    BY <1>2, <1>4
  <2> QED
    BY <1>2, <2>2, <2>3, SplitOff
<1>8. CASE call.m = "drain"
  <2>1. PICK to : to = String!EndOf(call, String!Size(v))
    OBVIOUS
  <2>2. to \in Nat
    <3>1. String!Size(v) \in Nat
      BY <1>2, CharsFit
    <3> QED
      BY <1>2, <2>1, <3>1 DEF String!EndOf
  <2>3. o = String!drain(v, call.i, to)
    BY <1>1, <1>8, <2>1 DEF String!Apply
  <2>4. PICK b : b = String!Chars(v, to)
    OBVIOUS
  <2>5. /\ call.i <= to /\ o.new = SubSeq(v, 1, a) \o SubSeq(v, b + 1, Len(v))
        /\ o.out = SubSeq(v, a + 1, b)
    BY <1>2, <1>4, <2>3, <2>4 DEF String!drain, String!Checked, String!Panics, String!Takes,
      String!Range_, String!Upto, String!From, String!Slice
  <2>6. b \in a..Len(v)
    <3>1. \A j \in Nat :
              call.i <= j => String!Chars(v, j) \in String!Chars(v, call.i)..Len(v)
      BY <1>2, CharsFit
    <3> QED
      BY <1>4, <2>2, <2>4, <2>5, <3>1
  <2> QED
    BY <1>2, <1>4, <2>5, <2>6, CutOut
<1> QED
  BY <1>5, <1>6, <1>7, <1>8

\* The method that replaces some.
LEMMA StringMakes ==
    ASSUME NEW E, NEW v, NEW call, StringCall(call, E, v), call.m \in String!Making
    PROVE  StringAccounts(call, E, v)
<1>1. PICK o, to : o = String!Apply(call, v) /\ to = String!EndOf(call, String!Size(v))
  OBVIOUS
<1>2. /\ v \in Seq(E) /\ call.i \in Nat /\ call.j \in Nat /\ ~o.panics /\ call.items \in Seq(E)
      /\ \A c \in E : Width[c] \in Nat
  BY <1>1 DEF StringCall, IsCallOn
<1>3. to \in Nat
  <2>1. String!Size(v) \in Nat
    BY <1>2, CharsFit
  <2> QED
    BY <1>1, <1>2, <2>1 DEF String!EndOf
<1>4. o = String!replace_range(v, call.i, to, call.items)
  BY <1>1 DEF String!Apply, String!Making
<1>5. o.new = String!Upto(v, call.i) \o call.items \o String!From(v, to)
  BY <1>2, <1>4 DEF String!replace_range, String!Checked, String!Panics, String!Writes,
    String!Returns
<1>6. PICK a \in 0..Len(v), b \in 0..Len(v) :
          a = String!Chars(v, call.i) /\ b = String!Chars(v, to)
  BY <1>2, <1>3, CharsFit
<1>7. String!Upto(v, call.i) \in Seq(E) /\ String!From(v, to) \in Seq(E)
  BY <1>2, <1>6, CountCut DEF String!Upto, String!From
<1>8. PICK p \in Seq(E), q \in Seq(E) : p = String!Upto(v, call.i) /\ q = String!From(v, to)
  BY <1>7
<1>9. o.new \in Seq(E)
  <2>1. PICK t \in Seq(E) : t = call.items
    BY <1>2
  <2>2. PICK r \in Seq(E) : r = p \o t
    BY ConcatProperties
  <2>3. r \o q \in Seq(E)
    BY ConcatProperties
  <2> QED
    BY <1>5, <1>8, <2>1, <2>2, <2>3
<1> QED
  BY <1>1, <1>9 DEF StringAccounts, Accounts

\* Every method of a String.
LEMMA StringBalances ==
    ASSUME NEW E, NEW v, NEW call, StringCall(call, E, v)
    PROVE  StringAccounts(call, E, v)
<1>1. CASE String!ActorString[call.m].self = "ref"
  BY <1>1, StringReads, ReadsAccount DEF StringCall, StringAccounts, IsCallOn
<1>2. CASE String!ActorString[call.m].self # "ref"
  <2>1. call.m \in String!Adding \cup String!Dropping \cup String!Making
            \cup {"pop", "remove", "drain", "split_off"}
    BY <1>2 DEF StringCall, IsCallOn, String!ActorString, String!ByMut, String!ByRef,
      String!Adding, String!Dropping, String!Making
  <2> QED
    BY <2>1, StringPuts, StringDrops, StringMakes, StringTakes
<1> QED
  BY <1>1, <1>2

-----------------------------------------------------------------------------
(* Bags. *)

IsBag(b) == b = [x \in DOMAIN b |-> b[x]] /\ \A x \in DOMAIN b : b[x] \in Nat \ {0}
Copies(b, x) == IF x \in DOMAIN b THEN b[x] ELSE 0

\* A bag is known by its copies.
LEMMA SameBags ==
    ASSUME NEW a, NEW b, IsBag(a), IsBag(b), \A x : Copies(a, x) = Copies(b, x)
    PROVE  a = b
<1>1. \A x \in DOMAIN a : x \in DOMAIN b /\ a[x] = b[x]
  BY DEF IsBag, Copies
<1>2. \A x \in DOMAIN b : x \in DOMAIN a
  BY DEF IsBag, Copies
<1>3. DOMAIN a = DOMAIN b
  BY <1>1, <1>2
<1> QED
  BY <1>1, <1>3 DEF IsBag

\* The copies in a bag of items are how often they occur.
LEMMA BagOfItems ==
    ASSUME NEW s, IsFiniteSet(DOMAIN s)
    PROVE  IsBag(BagOf(s)) /\ \A x : Copies(BagOf(s), x) = Count(s, x)
<1>1. DOMAIN BagOf(s) = {s[i] : i \in DOMAIN s} /\ BagOf(s) = [x \in DOMAIN BagOf(s) |-> Count(s, x)]
  BY DEF BagOf, ToSet, Count
<1>2. ASSUME NEW x
      PROVE  Count(s, x) \in Nat /\ (x \in DOMAIN BagOf(s) <=> Count(s, x) # 0)
  <2> DEFINE P == {i \in DOMAIN s : s[i] = x}
  <2>1. IsFiniteSet(P) /\ Count(s, x) \in Nat
    BY CountFinite
  <2>2. Cardinality(P) = 0 <=> P = {}
    <3> HIDE DEF P
    <3> QED
      BY <2>1, FS_EmptySet
  <2>3. x \in DOMAIN BagOf(s) <=> P # {}
    BY <1>1
  <2> QED
    BY <2>1, <2>2, <2>3 DEF Count
<1> QED
  BY <1>1, <1>2 DEF IsBag, Copies

\* Copies add up.
LEMMA BagSum ==
    ASSUME NEW a, NEW b, IsBag(a), IsBag(b)
    PROVE  IsBag(a (+) b) /\ \A x : Copies(a (+) b, x) = Copies(a, x) + Copies(b, x)
<1>1. a (+) b = [x \in DOMAIN a \cup DOMAIN b |-> Copies(a, x) + Copies(b, x)]
  BY DEF (+), Copies
<1>2. \A x : Copies(a, x) \in Nat /\ Copies(b, x) \in Nat
  BY DEF IsBag, Copies
<1>3. \A x : x \in DOMAIN a \cup DOMAIN b <=> Copies(a, x) + Copies(b, x) # 0
  <2>1. \A x : x \in DOMAIN a <=> Copies(a, x) # 0
    BY DEF IsBag, Copies
  <2>2. \A x : x \in DOMAIN b <=> Copies(b, x) # 0
    BY DEF IsBag, Copies
  <2> QED
    BY <1>2, <2>1, <2>2
<1>4. PICK c : c = a (+) b
  OBVIOUS
<1>5. DOMAIN c = DOMAIN a \cup DOMAIN b /\ \A x \in DOMAIN c : c[x] = Copies(a, x) + Copies(b, x)
  BY <1>1, <1>4
<1>6. c = [x \in DOMAIN c |-> c[x]]
  BY <1>1, <1>4
<1>7. \A x : Copies(c, x) = Copies(a, x) + Copies(b, x)
  <2> TAKE x
  <2>1. CASE x \in DOMAIN c
    BY <1>5, <2>1 DEF Copies
  <2>2. CASE x \notin DOMAIN c
    <3>1. Copies(c, x) = 0
      BY <2>2 DEF Copies
    <3> QED
      BY <1>3, <1>5, <2>2, <3>1
  <2> QED
    BY <2>1, <2>2
<1>8. \A x \in DOMAIN c : c[x] \in Nat \ {0}
  <2> TAKE x \in DOMAIN c
  <2>1. c[x] = Copies(a, x) + Copies(b, x) /\ Copies(a, x) + Copies(b, x) # 0
    BY <1>3, <1>5
  <2> QED
    BY <1>2, <2>1
<1> QED
  BY <1>4, <1>6, <1>7, <1>8 DEF IsBag

\* Copies are taken away as far as there are any.
LEMMA BagDifference ==
    ASSUME NEW a, NEW b, IsBag(a), IsBag(b)
    PROVE  /\ IsBag(a (-) b)
           /\ \A x : Copies(a (-) b, x) =
                        IF Copies(a, x) > Copies(b, x) THEN Copies(a, x) - Copies(b, x) ELSE 0
<1> DEFINE D == {x \in DOMAIN a : Copies(a, x) - Copies(b, x) > 0}
<1>1. \A x : Copies(a, x) \in Nat /\ Copies(b, x) \in Nat
  BY DEF IsBag, Copies
<1>2. a (-) b = [x \in D |-> Copies(a, x) - Copies(b, x)]
  <2>1. PICK B : B = [x \in DOMAIN a |-> IF x \in DOMAIN b THEN a[x] - b[x] ELSE a[x]]
    OBVIOUS
  <2>2. a (-) b = [x \in {d \in DOMAIN B : B[d] > 0} |-> B[x]]
    BY <2>1 DEF (-)
  <2>3. DOMAIN B = DOMAIN a /\ \A x \in DOMAIN a : B[x] = Copies(a, x) - Copies(b, x)
    <3>1. ASSUME NEW x \in DOMAIN a
          PROVE  B[x] = Copies(a, x) - Copies(b, x)
      <4>1. Copies(a, x) = a[x] /\ a[x] \in Nat
        BY DEF Copies, IsBag
      <4>2. CASE x \in DOMAIN b
        BY <2>1, <4>1, <4>2 DEF Copies
      <4>3. CASE x \notin DOMAIN b
        <5>1. Copies(b, x) = 0 /\ B[x] = a[x]
          BY <2>1, <4>3 DEF Copies
        <5> QED
          BY <4>1, <5>1
      <4> QED
        BY <4>2, <4>3
    <3> QED
      BY <2>1, <3>1
  <2>4. {d \in DOMAIN B : B[d] > 0} = D
    BY <2>3
  <2> QED
    BY <2>2, <2>3, <2>4
<1>3. PICK c : c = a (-) b
  OBVIOUS
<1>4. DOMAIN c = D /\ (\A x \in D : c[x] = Copies(a, x) - Copies(b, x)) /\ c = [x \in DOMAIN c |-> c[x]]
  <2> HIDE DEF D
  <2> QED
    BY <1>2, <1>3
<1>5. ASSUME NEW x
      PROVE  x \in D <=> Copies(a, x) > Copies(b, x)
  <2>1. x \in DOMAIN a \/ Copies(a, x) = 0
    BY DEF Copies
  <2> QED
    BY <1>1, <2>1
<1>6. ASSUME NEW x
      PROVE  Copies(c, x) =
                IF Copies(a, x) > Copies(b, x) THEN Copies(a, x) - Copies(b, x) ELSE 0
  <2> HIDE DEF D
  <2>1. CASE x \in D
    <3>1. Copies(c, x) = c[x]
      BY <1>4, <2>1 DEF Copies
    <3> QED
      BY <1>4, <1>5, <2>1, <3>1
  <2>2. CASE x \notin D
    <3>1. Copies(c, x) = 0
      BY <1>4, <2>2 DEF Copies
    <3> QED
      BY <1>5, <2>2, <3>1
  <2> QED
    BY <2>1, <2>2
<1>7. ASSUME NEW x \in DOMAIN c
      PROVE  c[x] \in Nat \ {0}
  <2> HIDE DEF D
  <2>1. Copies(a, x) > Copies(b, x) /\ c[x] = Copies(a, x) - Copies(b, x)
    BY <1>4, <1>5
  <2> QED
    BY <1>1, <2>1
<1> QED
  BY <1>3, <1>4, <1>6, <1>7 DEF IsBag

\* The bag of nothing.
LEMMA BagOfNothing == BagOf(<<>>) = EmptyBag
  BY DEF BagOf, ToSet, EmptyBag, SetToBag

-----------------------------------------------------------------------------
(* What should be left is left. *)

\* What a call on items old has to leave, where new are the items after it, out
\* those handed over and in those given.
Leaves(dropping, new, out, old, in) ==
    /\ IsFiniteSet(DOMAIN new) /\ IsFiniteSet(DOMAIN out)
    /\ IsFiniteSet(DOMAIN old) /\ IsFiniteSet(DOMAIN in)
    /\ IF dropping THEN Dropped(new, out, old, in) ELSE Conserved(new, out, old, in)

\* What was there and what was given, without what was handed over, is what is
\* there; of what was dropped, without that.
LEMMA BagsBalance ==
    ASSUME NEW dropping, NEW new, NEW out, NEW old, NEW in, Leaves(dropping, new, out, old, in)
    PROVE  LET all == (BagOf(old) (+) BagOf(in)) (-) BagOf(out)
           IN BagOf(new) = IF dropping THEN all (-) (all (-) BagOf(new)) ELSE all
<1> DEFINE sum == BagOf(old) (+) BagOf(in)
           all == sum (-) BagOf(out)
           gone == all (-) BagOf(new)
<1>1. /\ IsBag(BagOf(new)) /\ IsBag(BagOf(out)) /\ IsBag(BagOf(old)) /\ IsBag(BagOf(in))
      /\ \A x : /\ Copies(BagOf(new), x) = Count(new, x) /\ Copies(BagOf(out), x) = Count(out, x)
                /\ Copies(BagOf(old), x) = Count(old, x) /\ Copies(BagOf(in), x) = Count(in, x)
  BY BagOfItems DEF Leaves
<1>2. \A x : /\ Count(new, x) \in Nat /\ Count(out, x) \in Nat
             /\ Count(old, x) \in Nat /\ Count(in, x) \in Nat
  BY CountFinite DEF Leaves
<1>3. IsBag(sum) /\ \A x : Copies(sum, x) = Count(old, x) + Count(in, x)
  BY <1>1, BagSum
<1>4. /\ IsBag(all)
      /\ \A x : Copies(all, x) = IF Copies(sum, x) > Copies(BagOf(out), x)
                                 THEN Copies(sum, x) - Copies(BagOf(out), x) ELSE 0
  <2> HIDE DEF sum
  <2> QED
    BY <1>1, <1>3, BagDifference
<1>5. CASE ~dropping
  <2>1. ASSUME NEW x
        PROVE  Copies(all, x) = Copies(BagOf(new), x)
    <3>1. Count(new, x) + Count(out, x) = Count(old, x) + Count(in, x)
      BY <1>5 DEF Leaves, Conserved
    <3> HIDE DEF sum, all
    <3> QED
      BY <1>1, <1>2, <1>3, <1>4, <3>1
  <2>2. all = BagOf(new)
    <3> HIDE DEF all
    <3> QED
      BY <1>1, <1>4, <2>1, SameBags
  <2> QED
    BY <1>5, <2>2
<1>6. CASE dropping
  <2>1. /\ IsBag(gone)
        /\ \A x : Copies(gone, x) = IF Copies(all, x) > Copies(BagOf(new), x)
                                    THEN Copies(all, x) - Copies(BagOf(new), x) ELSE 0
    <3> HIDE DEF all
    <3> QED
      BY <1>1, <1>4, BagDifference
  <2>2. /\ IsBag(all (-) gone)
        /\ \A x : Copies(all (-) gone, x) = IF Copies(all, x) > Copies(gone, x)
                                            THEN Copies(all, x) - Copies(gone, x) ELSE 0
    <3> HIDE DEF all, gone
    <3> QED
      BY <1>4, <2>1, BagDifference
  <2>3. ASSUME NEW x
        PROVE  Copies(all (-) gone, x) = Copies(BagOf(new), x)
    <3>1. Count(new, x) + Count(out, x) <= Count(old, x) + Count(in, x)
      BY <1>6 DEF Leaves, Dropped
    <3> HIDE DEF sum, all, gone
    <3>2. Copies(all, x) \in Nat /\ Copies(all, x) >= Count(new, x)
      BY <1>1, <1>2, <1>3, <1>4, <3>1
    <3>3. Copies(gone, x) = Copies(all, x) - Count(new, x)
      BY <1>1, <1>2, <2>1, <3>2
    <3> QED
      BY <1>1, <1>2, <2>2, <3>2, <3>3
  <2>4. all (-) gone = BagOf(new)
    <3> HIDE DEF all, gone
    <3> QED
      BY <1>1, <2>2, <2>3, SameBags
  <2> QED
    BY <1>6, <2>4
<1> QED
  BY <1>5, <1>6

\* The items given, as a list.
GivenItems(call) ==
    IF call.m \notin Adding THEN <<>>
    ELSE IF program.kind = "HashMap" THEN ValsOf(call.items) ELSE call.items

\* Its bag is what the ledger takes in.
LEMMA GivenIsBag == \A call : Given(call) = BagOf(GivenItems(call))
  BY BagOfNothing DEF Given, GivenItems, ValsOf

\* The outcome o of a call leaves a value, and what should be left is left.
Balances(call, o, v) ==
    /\ IsValue(program.kind, o.new)
    /\ Rest(call, o, BagOf(Items(v))) = BagOf(Items(o.new))

\* It does if nothing is lost or doubled but what the method drops or makes.
LEMMA RestIsLeft ==
    ASSUME NEW call, NEW o, NEW v, IsValue(program.kind, o.new),
           call.m \notin Making =>
              Leaves(call.m \in Dropping, Items(o.new), o.out, Items(v), GivenItems(call))
    PROVE  Balances(call, o, v)
<1>1. CASE call.m \in Making
  BY <1>1 DEF Balances, Rest
<1>2. CASE call.m \notin Making
  <2> DEFINE drops == call.m \in Dropping
             new == Items(o.new)
             all == (BagOf(Items(v)) (+) BagOf(GivenItems(call))) (-) BagOf(o.out)
  <2>1. Leaves(drops, new, o.out, Items(v), GivenItems(call))
    BY <1>2
  <2>2. BagOf(new) = IF drops THEN all (-) (all (-) BagOf(new)) ELSE all
    <3> HIDE DEF drops, new
    <3> QED
      BY <2>1, BagsBalance
  <2>3. Rest(call, o, BagOf(Items(v))) = IF drops THEN all (-) (all (-) BagOf(new)) ELSE all
    BY <1>2, GivenIsBag DEF Rest
  <2> QED
    BY <2>2, <2>3 DEF Balances
<1> QED
  BY <1>1, <1>2

\* A call on a sequence.
LEMMA SequenceLeaves ==
    ASSUME program.kind \in Collections \ {"HashMap", "HashSet"},
           NEW call, NEW o, NEW v, v \in Seq(Elements[program.kind]),
           call.items \in Seq(Elements[program.kind]),
           Accounts(Adding, Dropping, Making, Elements[program.kind], call, o, v)
    PROVE  Balances(call, o, v)
<1> DEFINE E == Elements[program.kind]
<1>1. o.new \in Seq(E) /\ IsValue(program.kind, o.new)
  BY DEF Accounts, IsValue, Collections
<1>2. Items(o.new) = o.new /\ Items(v) = v
  BY DEF Items
<1>3. GivenItems(call) = IF call.m \in Adding THEN call.items ELSE <<>>
  BY DEF GivenItems
<1>4. GivenItems(call) \in Seq(E)
  <2>1. <<>> \in Seq(E)
    BY EmptySeq
  <2> HIDE DEF E
  <2> QED
    BY <1>3, <2>1 DEF E
<1>5. ASSUME call.m \notin Making
      PROVE  Leaves(call.m \in Dropping, Items(o.new), o.out, Items(v), GivenItems(call))
  <2>1. o.out \in Seq(E)
    BY <1>5 DEF Accounts
  <2>2. /\ IsFiniteSet(DOMAIN o.new) /\ IsFiniteSet(DOMAIN o.out)
        /\ IsFiniteSet(DOMAIN v) /\ IsFiniteSet(DOMAIN GivenItems(call))
    <3> HIDE DEF E
    <3> QED
      BY <1>1, <1>4, <2>1, SeqFinite
  <2>3. IF call.m \in Dropping THEN Dropped(o.new, o.out, v, GivenItems(call))
        ELSE Conserved(o.new, o.out, v, GivenItems(call))
    BY <1>3, <1>5 DEF Accounts
  <2> QED
    BY <1>2, <2>2, <2>3 DEF Leaves
<1> QED
  BY <1>1, <1>5, RestIsLeft

\* The same of a set or map, whose items are known by how often each occurs.
LEMMA SameItems ==
    ASSUME NEW a, NEW b, NEW out, NEW c, NEW d, NEW in,
           \A x : Count(a, x) = Count(c, x) /\ Count(b, x) = Count(d, x)
    PROVE  /\ Conserved(a, out, b, in) <=> Conserved(c, out, d, in)
           /\ Dropped(a, out, b, in) <=> Dropped(c, out, d, in)
  BY DEF Conserved, Dropped

\* A call on a set.
LEMMA SetLeaves ==
    ASSUME program.kind = "HashSet", NEW call, NEW v, IsSet(v), IsCall("HashSet", call)
    PROVE  Balances(call, HashSet!Apply(call, v), v)
<1>1. PICK o : o = HashSet!Apply(call, v)
  OBVIOUS
<1>2. IsCallByKey(HashSet!ActorSet, "HashSet", call)
  BY DEF IsCall, TraitOf, IsCallByKey
<1>3. /\ IsSet(o.new)
      /\ Settles(HashSet!Adding, HashSet!Dropping, call, o, SetItems(o.new), SetItems(v), call.items)
  BY <1>1, <1>2, SetBalances DEF SetSettles
<1>4. Adding = HashSet!Adding /\ Dropping = HashSet!Dropping /\ Making = {}
  BY DEF Adding, Dropping, Making
<1>5. Items(o.new) = HashSet!AllOf(o.new) /\ Items(v) = HashSet!AllOf(v)
  BY DEF Items
<1>6. PICK a, b : a = Items(o.new) /\ b = Items(v)
  OBVIOUS
<1>7. IsFiniteSet(DOMAIN a) /\ \A x : Count(a, x) = Count(SetItems(o.new), x)
  BY <1>3, <1>5, <1>6, SetListed
<1>8. IsFiniteSet(DOMAIN b) /\ \A x : Count(b, x) = Count(SetItems(v), x)
  BY <1>5, <1>6, SetListed
<1>9. GivenItems(call) = IF call.m \in Adding THEN call.items ELSE <<>>
  BY DEF GivenItems
<1>10. IsFiniteSet(DOMAIN GivenItems(call))
  BY <1>2, <1>9, ListOfItems, OneFinite DEF IsCallByKey
<1>11. Leaves(call.m \in Dropping, a, o.out, b, GivenItems(call))
  <2>1. IF call.m \in Dropping THEN Dropped(SetItems(o.new), o.out, SetItems(v), GivenItems(call))
        ELSE Conserved(SetItems(o.new), o.out, SetItems(v), GivenItems(call))
    BY <1>3, <1>4, <1>9 DEF Settles
  <2>2. IF call.m \in Dropping THEN Dropped(a, o.out, b, GivenItems(call))
        ELSE Conserved(a, o.out, b, GivenItems(call))
    BY <1>7, <1>8, <2>1, SameItems
  <2> QED
    BY <1>3, <1>7, <1>8, <1>10, <2>2 DEF Leaves, Settles
<1>12. IsValue(program.kind, o.new)
  BY <1>3 DEF IsValue, IsSet
<1> QED
  BY <1>1, <1>6, <1>11, <1>12, RestIsLeft

\* A call on a map.
LEMMA MapLeaves ==
    ASSUME program.kind = "HashMap", NEW call, NEW v, IsMap(v), IsCall("HashMap", call)
    PROVE  Balances(call, HashMap!Apply(call, v), v)
<1>1. PICK o : o = HashMap!Apply(call, v)
  OBVIOUS
<1>2. IsCallByKey(HashMap!ActorMap, "HashMap", call)
  BY DEF IsCall, TraitOf, IsCallByKey
<1>3. /\ IsMap(o.new)
      /\ call.m \notin HashMap!Making =>
            Settles(HashMap!Adding, HashMap!Dropping, call, o, MapItems(o.new), MapItems(v),
                    ValsOf(call.items))
  BY <1>1, <1>2, MapBalances DEF MapSettles
<1>4. Adding = HashMap!Adding /\ Dropping = HashMap!Dropping /\ Making = HashMap!Making
  BY DEF Adding, Dropping, Making
<1>5. PICK a, b : a = Items(o.new) /\ b = Items(v)
  OBVIOUS
<1>6. /\ a = [i \in DOMAIN HashMap!AllOf(o.new) |-> HashMap!AllOf(o.new)[i].val]
      /\ b = [i \in DOMAIN HashMap!AllOf(v) |-> HashMap!AllOf(v)[i].val]
  BY <1>5 DEF Items
<1>7. IsFiniteSet(DOMAIN a) /\ \A x : Count(a, x) = Count(MapItems(o.new), x)
  BY <1>3, <1>6, MapListed
<1>8. IsFiniteSet(DOMAIN b) /\ \A x : Count(b, x) = Count(MapItems(v), x)
  BY <1>6, MapListed
<1>9. GivenItems(call) = IF call.m \in Adding THEN ValsOf(call.items) ELSE <<>>
  BY DEF GivenItems
<1>10. IsFiniteSet(DOMAIN GivenItems(call))
  <2>1. DOMAIN ValsOf(call.items) = DOMAIN call.items
    BY DEF ValsOf
  <2> QED
    BY <1>2, <1>9, <2>1, ListOfItems, OneFinite DEF IsCallByKey
<1>11. ASSUME call.m \notin Making
       PROVE  Leaves(call.m \in Dropping, a, o.out, b, GivenItems(call))
  <2>1. /\ IsFiniteSet(DOMAIN o.out)
        /\ IF call.m \in Dropping THEN Dropped(MapItems(o.new), o.out, MapItems(v), GivenItems(call))
           ELSE Conserved(MapItems(o.new), o.out, MapItems(v), GivenItems(call))
    BY <1>3, <1>4, <1>9, <1>11 DEF Settles
  <2>2. IF call.m \in Dropping THEN Dropped(a, o.out, b, GivenItems(call))
        ELSE Conserved(a, o.out, b, GivenItems(call))
    BY <1>7, <1>8, <2>1, SameItems
  <2> QED
    BY <1>7, <1>8, <1>10, <2>1, <2>2 DEF Leaves
<1>12. IsValue(program.kind, o.new)
  BY <1>3 DEF IsValue, IsMap
<1> QED
  BY <1>1, <1>5, <1>11, <1>12, RestIsLeft

\* The items of a call on a sequence.
LEMMA CallOnSequence ==
    ASSUME NEW kind \in Collections \ {"HashMap", "HashSet"}, NEW call, IsCall(kind, call)
    PROVE  IsCallOn(TraitOf[kind], Elements[kind], call)
<1>1. \A i \in DOMAIN call.items : call.items[i] \in Elements[kind]
  BY DEF IsCall, IsItem
<1>2. PICK s : s = call.items
  OBVIOUS
<1>3. s \in Seq(Elements[kind])
  <2>1. s = [i \in 1..Len(s) |-> s[i]] /\ Len(s) \in Nat
    BY <1>2 DEF IsCall, IsList
  <2>2. DOMAIN s = 1..Len(s)
    BY <2>1
  <2>3. s \in [1..Len(s) -> Elements[kind]]
    BY <1>1, <1>2, <2>1, <2>2
  <2> QED
    BY <2>1, <2>3
<1> QED
  BY <1>2, <1>3 DEF IsCall, IsCallOn

\* A call of any method of any extension trait, on any value it does not panic on,
\* leaves a value, and in it what should be left: nothing is lost and nothing is
\* doubled but what the method is documented to drop or to make.
THEOREM CallBalances ==
    ASSUME program.kind \in Collections, NEW call, IsCall(program.kind, call),
           NEW v, IsValue(program.kind, v), ~Apply(call, v).panics
    PROVE  Balances(call, Apply(call, v), v)
<1> DEFINE E == Elements[program.kind]
<1>1. CASE program.kind = "Vec"
  <2>1. IsCallOn(Vec!ActorVec, E, call) /\ v \in Seq(E) /\ E \in SUBSET Int
    BY <1>1, CallOnSequence, ElementsAssumption DEF TraitOf, IsValue, Collections
  <2>2. VecCall(call, E, v)
    BY <1>1, <2>1 DEF VecCall, Apply
  <2>3. VecAccounts(call, E, v)
    BY <2>1, <2>2, VecBalances
  <2>4. Accounts(Adding, Dropping, Making, E, call, Apply(call, v), v)
    BY <1>1, <2>3 DEF VecAccounts, Adding, Dropping, Making, Apply
  <2> QED
    BY <1>1, <2>1, <2>4, SequenceLeaves DEF IsCallOn
<1>2. CASE program.kind = "VecDeque"
  <2>1. IsCallOn(VecDeque!ActorVecDeque, E, call) /\ v \in Seq(E) /\ E \in SUBSET Int
    BY <1>2, CallOnSequence, ElementsAssumption DEF TraitOf, IsValue, Collections
  <2>2. ~VecDeque!Apply(call, v).panics
    BY <1>2 DEF Apply
  <2>3. Accounts(VecDeque!Adding, VecDeque!Dropping, VecDeque!Making, E, call,
                 VecDeque!Apply(call, v), v)
    BY <2>1, <2>2, VecDequeBalances
  <2>4. Accounts(Adding, Dropping, Making, E, call, Apply(call, v), v)
    BY <1>2, <2>3 DEF Adding, Dropping, Making, Apply
  <2> QED
    BY <1>2, <2>1, <2>4, SequenceLeaves DEF IsCallOn
<1>3. CASE program.kind = "Option"
  <2>1. IsCallOn(Option!ActorOption, E, call) /\ v \in Seq(E)
    BY <1>3, CallOnSequence DEF TraitOf, IsValue, Collections
  <2>2. Accounts(Option!Adding, {}, Option!Making, E, call, Option!Apply(call, v), v)
    BY <2>1, OptionBalances
  <2>3. Accounts(Adding, Dropping, Making, E, call, Apply(call, v), v)
    BY <1>3, <2>2 DEF Adding, Dropping, Making, Apply
  <2> QED
    BY <1>3, <2>1, <2>3, SequenceLeaves DEF IsCallOn
<1>4. CASE program.kind = "String"
  <2>1. IsCallOn(String!ActorString, E, call) /\ v \in Seq(E)
    BY <1>4, CallOnSequence DEF TraitOf, IsValue, Collections
  <2>2. StringCall(call, E, v)
    BY <1>4, <2>1, ElementsAssumption DEF StringCall, Apply
  <2>3. StringAccounts(call, E, v)
    BY <2>2, StringBalances
  <2>4. Accounts(Adding, Dropping, Making, E, call, Apply(call, v), v)
    BY <1>4, <2>3 DEF StringAccounts, Adding, Dropping, Making, Apply
  <2> QED
    BY <1>4, <2>1, <2>4, SequenceLeaves DEF IsCallOn
<1>5. CASE program.kind = "HashSet"
  <2>1. IsSet(v) /\ Apply(call, v) = HashSet!Apply(call, v)
    BY <1>5 DEF IsValue, IsSet, Apply
  <2> QED
    BY <1>5, <2>1, SetLeaves
<1>6. CASE program.kind = "HashMap"
  <2>1. IsMap(v) /\ Apply(call, v) = HashMap!Apply(call, v)
    BY <1>6 DEF IsValue, IsMap, Apply
  <2> QED
    BY <1>6, <2>1, MapLeaves
<1> QED
  BY <1>1, <1>2, <1>3, <1>4, <1>5, <1>6 DEF Collections
=============================================================================
