--------------------------- MODULE ProfilerProofs ---------------------------
(* What holds of Profiler for any number of actors, readers and broadcasts. *)
EXTENDS Profiler, TLAPS

ReaderRecs == [stage : {"idle", "locking", "listing", "holding", "dropping"},
               seen : SUBSET Actors, has : SUBSET Actors,
               sum : [Actors -> [Broadcasts -> Nat]],
               number : SUBSET Actors, from : [Actors -> 0..MaxMade]]

\* What the program counts once is counted at most once.
Once(n, a) == IF n <= made[a] THEN 1 ELSE 0

(***************************************************************************)
(* An actor: where its broadcasts are at each point of its life.           *)
(***************************************************************************)
Life(a) ==
    /\ phase[a] \in {"unborn", "registered"} => made[a] = 0
    /\ phase[a] \notin {"unborn", "registered"} => a \in counted
    /\ held[a] # {} => phase[a] \in {"live", "taking", "released", "dropping"}
    /\ taken[a] # {} => phase[a] = "taking"
    /\ Owned(a) => a \in registry
    /\ \A n \in Broadcasts : In(n, held[a]) + In(n, taken[a]) + totals[a][n] = Once(n, a)

(***************************************************************************)
(* A reader: what it has counted and what it still may count.              *)
(***************************************************************************)
\* It has the lock of the registry while it goes through it, and the counters
\* it holds on to are neither counted yet nor dropped.
Holds(r) ==
    /\ reader[r].stage \in {"listing", "holding", "dropping"} => owner = r
    /\ reader[r].stage = "holding" =>
            \A a \in reader[r].has :
                a \notin reader[r].seen /\ phase[a] \notin {"unborn", "dropping", "gone"}

\* What it has of an actor it has not come to yet was in the totals, and so is
\* in nobody's hands any more.
CountsOnce(r) ==
    \A a \in Actors : \A n \in Broadcasts :
        /\ reader[r].sum[a][n] <= Once(n, a)
        /\ a \notin reader[r].seen /\ reader[r].sum[a][n] # 0 => totals[a][n] = 1

\* What it lacks of an actor nothing happened to is still there to be counted.
Misses(r) ==
    \A a \in Actors \ raced[r] :
        /\ \A n \in 1..reader[r].from[a] :
                \/ reader[r].sum[a][n] = 1
                \/ n \in held[a] /\ phase[a] = "live" /\ a \notin reader[r].seen
        /\ a \in reader[r].number \/ phase[a] = "unborn"

IndInv ==
    /\ TypeOK
    /\ \A a \in Actors : Life(a)
    /\ \A r \in Readers : Holds(r) /\ CountsOnce(r)
    /\ \A r \in Totalling : reader[r].stage # "idle" => Misses(r)

-----------------------------------------------------------------------------
(* Records and types. *)

\* The parts of the state have their types.
LEMMA Parts ==
    ASSUME TypeOK
    PROVE  /\ MaxMade \in Nat /\ Broadcasts \subseteq Nat /\ Totalling \subseteq Readers
           /\ Nobody \notin Readers
           /\ \A a \in Actors : /\ held[a] \subseteq Broadcasts /\ taken[a] \subseteq Broadcasts
                                /\ made[a] \in 0..MaxMade
                                /\ totals[a] \in [Broadcasts -> {0, 1}]
                                /\ \A n \in Broadcasts : totals[a][n] \in {0, 1}
           /\ \A r \in Readers : reader[r] \in ReaderRecs
           /\ \A r \in Readers : \A a \in Actors :
                   /\ reader[r].sum[a] \in [Broadcasts -> Nat]
                   /\ reader[r].from[a] \in 0..MaxMade
                   /\ \A n \in Broadcasts : reader[r].sum[a][n] \in Nat
  <1>1. MaxMade \in Nat /\ Broadcasts \subseteq Nat /\ Totalling \subseteq Readers
        /\ Nobody \notin Readers
    BY ProfilerAssumption DEF Broadcasts
  <1>2. \A r \in Readers : reader[r] \in ReaderRecs
    BY DEF TypeOK, ReaderRecs
  <1>3. ASSUME NEW r \in Readers, NEW a \in Actors
        PROVE  /\ reader[r].sum[a] \in [Broadcasts -> Nat]
               /\ reader[r].from[a] \in 0..MaxMade
    BY <1>2, <1>3 DEF ReaderRecs
  <1> QED
    BY <1>1, <1>2, <1>3 DEF TypeOK

\* A reader that has read nothing has no counts.
LEMMA UnreadIs ==
    ASSUME NEW st \in {"idle", "locking"}
    PROVE  /\ NoCounts \in [Actors -> [Broadcasts -> {0, 1}]]
           /\ \A a \in Actors : \A n \in Broadcasts : NoCounts[a][n] = 0
           /\ Unread \in ReaderRecs /\ Unread.stage = "idle" /\ Unread.sum = NoCounts /\ Unread.seen = {}
           /\ LET x == [Unread EXCEPT !.stage = st]
              IN x \in ReaderRecs /\ x.stage = st /\ x.sum = NoCounts /\ x.seen = {}
  <1>1. MaxMade \in Nat
    BY ProfilerAssumption
  <1>2. /\ NoCounts \in [Actors -> [Broadcasts -> {0, 1}]]
        /\ NoCounts \in [Actors -> [Broadcasts -> Nat]]
        /\ \A a \in Actors : \A n \in Broadcasts : NoCounts[a][n] = 0
    BY DEF NoCounts
  <1>3. 0 \in 0..MaxMade
    BY <1>1
  <1>4. [a \in Actors |-> 0] \in [Actors -> 0..MaxMade]
    BY <1>3
  <1> HIDE DEF NoCounts
  <1>5. Unread \in ReaderRecs /\ Unread.stage = "idle" /\ Unread.sum = NoCounts
        /\ Unread.seen = {}
    BY <1>2, <1>4 DEF Unread, ReaderRecs
  <1> HIDE DEF Unread
  <1> QED
    BY <1>2, <1>5 DEF ReaderRecs

-----------------------------------------------------------------------------
(* The steps of an actor. *)

\* A step that leaves the readers alone keeps what they rely on.
LEMMA ReadersKeep ==
    ASSUME IndInv, NEW a \in Actors, UNCHANGED <<owner, reader>>, TypeOK',
           \A b \in Actors : Life(b)',
           \A b \in Actors \ {a} : /\ phase'[b] = phase[b] /\ held'[b] = held[b]
                                   /\ totals'[b] = totals[b] /\ made'[b] = made[b],
           made[a] <= made'[a], \A n \in Broadcasts : totals[a][n] <= totals'[a][n],
           HoldersOf(a) # {} => phase'[a] \notin {"unborn", "dropping", "gone"},
           \/ raced' = Overlapped(a)
           \/ /\ raced' = raced /\ phase[a] # "unborn"
              /\ phase[a] = "live" => phase'[a] = "live" /\ held[a] \subseteq held'[a]
    PROVE  IndInv'
  <1>1. TypeOK
    BY DEF IndInv
  <1>2. ASSUME NEW r \in Readers PROVE Holds(r)'
    <2>1. Holds(r)
      BY <1>2 DEF IndInv
    <2>2. ASSUME reader[r].stage = "holding", NEW b \in reader[r].has
          PROVE  b \notin reader[r].seen /\ phase'[b] \notin {"unborn", "dropping", "gone"}
      <3>1. reader[r].has \subseteq Actors
        BY <1>1, <1>2, Parts DEF ReaderRecs
      <3>2. CASE b = a
        <4>1. HoldersOf(a) # {}
          BY <1>2, <2>2, <3>2 DEF HoldersOf
        <4> QED
          BY <2>1, <2>2, <3>2, <4>1 DEF Holds
      <3>3. CASE b # a
        BY <2>1, <2>2, <3>1, <3>3 DEF Holds
      <3> QED
        BY <3>2, <3>3
    <2> QED
      BY <2>1, <2>2 DEF Holds
  <1>3. ASSUME NEW r \in Readers PROVE CountsOnce(r)'
    <2> SUFFICES ASSUME NEW b \in Actors, NEW n \in Broadcasts
                 PROVE  /\ reader[r].sum[b][n] <= Once(n, b)'
                        /\ b \notin reader[r].seen /\ reader[r].sum[b][n] # 0
                               => totals'[b][n] = 1
      BY DEF CountsOnce
    <2>1. /\ reader[r].sum[b][n] <= Once(n, b)
          /\ b \notin reader[r].seen /\ reader[r].sum[b][n] # 0 => totals[b][n] = 1
      BY <1>3 DEF IndInv, CountsOnce
    <2>2. /\ n \in Nat /\ made[b] \in Int /\ made'[b] \in Int /\ totals[b][n] \in {0, 1}
          /\ totals'[b][n] \in {0, 1} /\ reader[r].sum[b][n] \in Nat
      <3>1. made'[b] \in 0..MaxMade /\ totals'[b][n] \in {0, 1}
        BY DEF TypeOK
      <3> QED
        BY <1>1, <1>3, <3>1, Parts
    <2>3. made[b] <= made'[b] /\ totals[b][n] <= totals'[b][n]
      BY <2>2
    <2> QED
      BY <2>1, <2>2, <2>3 DEF Once
  <1>4. ASSUME NEW r \in Totalling, reader'[r].stage # "idle" PROVE Misses(r)'
    <2>1. Misses(r) /\ r \in Readers /\ raced[r] \subseteq Actors
      BY <1>1, <1>4, Parts DEF IndInv, TypeOK
    <2>2. CASE raced' = Overlapped(a)
      <3>1. raced'[r] = raced[r] \cup {a}
        BY <1>4, <2>2 DEF Overlapped
      <3> QED
        BY <2>1, <3>1 DEF Misses
    <2>3. CASE ~(raced' = Overlapped(a))
      BY <2>1, <2>3 DEF Misses
    <2> QED
      BY <2>2, <2>3
  <1> QED
    BY <1>2, <1>3, <1>4 DEF IndInv

\* The broadcasts of an actor, in numbers.
LEMMA LifeFacts ==
    ASSUME IndInv, NEW a \in Actors
    PROVE  /\ Life(a) /\ made[a] \in 0..MaxMade /\ MaxMade \in Nat
           /\ held[a] \subseteq Broadcasts /\ taken[a] \subseteq Broadcasts
           /\ totals[a] \in [Broadcasts -> {0, 1}]
           /\ \A n \in Broadcasts :
                   /\ n \in Nat /\ totals[a][n] \in {0, 1}
                   /\ n \in held[a] => n <= made[a] /\ n \notin taken[a] /\ totals[a][n] = 0
                   /\ n \in taken[a] => n <= made[a] /\ totals[a][n] = 0
  <1>1. /\ Life(a) /\ made[a] \in 0..MaxMade /\ MaxMade \in Nat
        /\ held[a] \subseteq Broadcasts /\ taken[a] \subseteq Broadcasts
        /\ totals[a] \in [Broadcasts -> {0, 1}]
        /\ \A n \in Broadcasts : n \in Nat /\ totals[a][n] \in {0, 1}
    BY Parts DEF IndInv
  <1> QED
    BY <1>1 DEF Life, In, Once

\* A registered actor is not counted yet, and holds nothing.
LEMMA NewCountersStep ==
    ASSUME IndInv, NEW a \in Actors, NewCounters(a)
    PROVE  IndInv'
  <1>1. TypeOK /\ TypeOK'
    BY DEF IndInv, NewCounters, TypeOK, Retain, Overlapped, cumulative
  <1>2. ASSUME NEW b \in Actors PROVE Life(b)'
    <2>1. Life(b) /\ Life(a)
      BY <1>2 DEF IndInv
    <2>2. UNCHANGED <<held, taken, made, totals, counted>>
      BY DEF NewCounters, cumulative
    <2>3. CASE b = a
      BY <1>1, <2>1, <2>2, <2>3 DEF NewCounters, Life, Owned, In, Once, TypeOK
    <2>4. CASE b # a
      <3>1. phase'[b] = phase[b] /\ (Owned(b) => b \in registry')
        BY <1>1, <1>2, <2>1, <2>4 DEF NewCounters, Life, Strong, Retain, TypeOK
      <3> QED
        BY <2>1, <2>2, <3>1 DEF Life, Owned, In, Once
    <2> QED
      BY <2>3, <2>4
  <1>3. \A b \in Actors \ {a} : phase'[b] = phase[b]
    BY <1>1 DEF NewCounters, TypeOK
  <1>4. phase'[a] = "registered" /\ UNCHANGED <<owner, reader, held, totals, made>>
        /\ raced' = Overlapped(a)
    BY <1>1 DEF NewCounters, TypeOK, cumulative
  <1>5. made[a] <= made'[a] /\ \A n \in Broadcasts : totals[a][n] <= totals'[a][n]
    BY <1>4, LifeFacts
  <1> QED
    BY <1>1, <1>2, <1>3, <1>4, <1>5, ReadersKeep

\* Counting an actor changes nothing but the number.
LEMMA CountActorStep ==
    ASSUME IndInv, NEW a \in Actors, CountActor(a)
    PROVE  IndInv'
  <1>1. TypeOK /\ TypeOK'
    BY DEF IndInv, CountActor, TypeOK
  <1>2. /\ phase[a] = "registered" /\ phase'[a] = "live"
        /\ \A b \in Actors \ {a} : phase'[b] = phase[b]
        /\ counted' = counted \cup {a}
        /\ UNCHANGED <<held, taken, registry, totals, owner, reader, made, raced>>
    BY <1>1 DEF CountActor, TypeOK
  <1>3. ASSUME NEW b \in Actors PROVE Life(b)'
    <2>1. Life(b)
      BY <1>3 DEF IndInv
    <2> QED
      BY <1>2, <2>1 DEF Life, Owned, In, Once
  <1>4. made[a] <= made'[a] /\ \A n \in Broadcasts : totals[a][n] <= totals'[a][n]
    BY <1>2, LifeFacts
  <1> QED
    BY <1>1, <1>2, <1>3, <1>4, ReadersKeep

\* A new broadcast is held by its actor and in nobody's count.
LEMMA RecordStep ==
    ASSUME IndInv, NEW a \in Actors, Record(a)
    PROVE  IndInv'
  <1> DEFINE m == made[a] + 1
  <1>1. m \in Broadcasts /\ m \in 0..MaxMade
    BY LifeFacts DEF Record, Broadcasts
  <1>2. /\ phase[a] = "live" /\ made'[a] = m /\ held'[a] = held[a] \cup {m}
        /\ \A b \in Actors \ {a} : made'[b] = made[b] /\ held'[b] = held[b]
        /\ UNCHANGED <<phase, taken, registry, totals, counted, owner, reader, raced>>
    BY DEF Record, IndInv, TypeOK, cumulative
  <1>3. TypeOK'
    BY <1>1 DEF IndInv, Record, TypeOK, cumulative
  <1>4. ASSUME NEW b \in Actors PROVE Life(b)'
    <2>1. Life(b)
      BY <1>4 DEF IndInv
    <2>2. CASE b = a
      BY <1>1, <1>2, <2>1, <2>2, LifeFacts DEF Life, Owned, In, Once
    <2>3. CASE b # a
      BY <1>2, <2>1, <2>3 DEF Life, Owned, In, Once
    <2> QED
      BY <2>2, <2>3
  <1>5. made[a] <= made'[a] /\ \A n \in Broadcasts : totals[a][n] <= totals'[a][n]
    BY <1>2, LifeFacts
  <1> QED
    BY <1>2, <1>3, <1>4, <1>5, ReadersKeep

\* A take moves what is held into the hands of the caller ...
LEMMA TakeDrainStep ==
    ASSUME IndInv, NEW a \in Actors, TakeDrain(a)
    PROVE  IndInv'
  <1>1. /\ phase[a] = "live" /\ phase'[a] = "taking" /\ taken'[a] = held[a] /\ held'[a] = {}
        /\ \A b \in Actors \ {a} :
                phase'[b] = phase[b] /\ held'[b] = held[b] /\ taken'[b] = taken[b]
        /\ raced' = Overlapped(a)
        /\ UNCHANGED <<registry, totals, counted, owner, reader, made>>
    BY DEF TakeDrain, IndInv, TypeOK, cumulative
  <1>2. TypeOK'
    BY DEF IndInv, TakeDrain, TypeOK, cumulative, Overlapped
  <1>3. ASSUME NEW b \in Actors PROVE Life(b)'
    <2>1. Life(b) /\ Life(a)
      BY <1>3 DEF IndInv
    <2>2. taken[a] = {}
      BY <1>1, <2>1 DEF Life
    <2>3. CASE b = a
      BY <1>1, <2>1, <2>2, <2>3, LifeFacts DEF Life, Owned, In, Once
    <2>4. CASE b # a
      BY <1>1, <2>1, <2>4 DEF Life, Owned, In, Once
    <2> QED
      BY <2>3, <2>4
  <1>4. made[a] <= made'[a] /\ \A n \in Broadcasts : totals[a][n] <= totals'[a][n]
    BY <1>1, LifeFacts
  <1> QED
    BY <1>1, <1>2, <1>3, <1>4, ReadersKeep

\* What is folded in was not in the totals.
LEMMA FoldIs ==
    ASSUME IndInv, NEW a \in Actors, NEW S \in SUBSET Broadcasts,
           S = held[a] \/ S = taken[a]
    PROVE  /\ Folded(a, S) \in [Actors -> [Broadcasts -> {0, 1}]]
           /\ \A n \in Broadcasts :
                   Folded(a, S)[a][n] = IF n \in S THEN 1 ELSE totals[a][n]
           /\ \A b \in Actors \ {a} : Folded(a, S)[b] = totals[b]
  <1>1. totals \in [Actors -> [Broadcasts -> {0, 1}]]
    BY DEF IndInv, TypeOK
  <1>2. \A n \in Broadcasts : Plus(totals[a], S)[n] = IF n \in S THEN 1 ELSE totals[a][n]
    BY LifeFacts DEF Plus
  <1>3. Plus(totals[a], S) \in [Broadcasts -> {0, 1}]
    <2>1. Plus(totals[a], S) = [n \in Broadcasts |-> IF n \in S THEN 1 ELSE totals[a][n]]
      BY <1>2 DEF Plus
    <2> QED
      BY <2>1, LifeFacts
  <1> QED
    BY <1>1, <1>2, <1>3 DEF Folded

\* ... and from there into the totals.
LEMMA TakeFoldStep ==
    ASSUME IndInv, NEW a \in Actors, TakeFold(a)
    PROVE  IndInv'
  <1>1. /\ phase[a] = "taking" /\ phase'[a] = "live" /\ taken'[a] = {}
        /\ \A b \in Actors \ {a} : phase'[b] = phase[b] /\ taken'[b] = taken[b]
        /\ totals' = Folded(a, taken[a])
        /\ UNCHANGED <<held, registry, counted, owner, reader, made, raced>>
    BY DEF TakeFold, IndInv, TypeOK
  <1>2. taken[a] \in SUBSET Broadcasts
    BY LifeFacts
  <1>3. TypeOK'
    <2>1. totals' \in [Actors -> [Broadcasts -> {0, 1}]]
      BY <1>1, <1>2, FoldIs
    <2> QED
      BY <2>1 DEF IndInv, TakeFold, TypeOK
  <1>4. ASSUME NEW b \in Actors PROVE Life(b)'
    <2>1. Life(b)
      BY <1>4 DEF IndInv
    <2>2. CASE b = a
      <3>1. \A n \in Broadcasts : totals'[a][n] = IF n \in taken[a] THEN 1 ELSE totals[a][n]
        BY <1>1, <1>2, FoldIs
      <3> QED
        BY <1>1, <2>1, <2>2, <3>1, LifeFacts DEF Life, Owned, In, Once
    <2>3. CASE b # a
      <3>1. totals'[b] = totals[b]
        BY <1>1, <1>2, <1>4, <2>3, FoldIs
      <3> QED
        BY <1>1, <2>1, <2>3, <3>1 DEF Life, Owned, In, Once
    <2> QED
      BY <2>2, <2>3
  <1>5. made[a] <= made'[a]
    BY <1>1, LifeFacts
  <1>6. \A n \in Broadcasts : totals[a][n] <= totals'[a][n]
    BY <1>1, <1>2, FoldIs, LifeFacts
  <1>7. \A b \in Actors \ {a} : totals'[b] = totals[b]
    BY <1>1, <1>2, FoldIs
  <1> QED
    BY <1>1, <1>3, <1>4, <1>5, <1>6, <1>7, ReadersKeep

\* A stopping actor leaves its counters to the reader that holds them, if any.
LEMMA StopStep ==
    ASSUME IndInv, NEW a \in Actors, Stop(a)
    PROVE  IndInv'
  <1>1. /\ phase[a] = "live"
        /\ phase'[a] = IF HoldersOf(a) = {} THEN "dropping" ELSE "released"
        /\ \A b \in Actors \ {a} : phase'[b] = phase[b]
        /\ raced' = Overlapped(a)
        /\ UNCHANGED <<held, taken, registry, totals, counted, owner, reader, made>>
    BY DEF Stop, IndInv, TypeOK, cumulative
  <1>2. TypeOK'
    BY DEF IndInv, Stop, TypeOK, cumulative, Overlapped
  <1>3. ASSUME NEW b \in Actors PROVE Life(b)'
    <2>1. Life(b)
      BY <1>3 DEF IndInv
    <2> QED
      BY <1>1, <2>1 DEF Life, Owned, In, Once
  <1>4. made[a] <= made'[a] /\ \A n \in Broadcasts : totals[a][n] <= totals'[a][n]
    BY <1>1, LifeFacts
  <1> QED
    BY <1>1, <1>2, <1>3, <1>4, ReadersKeep

-----------------------------------------------------------------------------
(* The steps of a reader, and of whoever drops counters. *)

\* A step of reader r alone.
LEMMA OneReader ==
    ASSUME IndInv, NEW r \in Readers, NEW x \in ReaderRecs, reader' = [reader EXCEPT ![r] = x],
           UNCHANGED <<held, taken, totals, counted, made>>, TypeOK',
           \A a \in Actors : Life(a)',
           \A a \in Actors : phase'[a] # phase[a] => phase[a] = "released" /\ HoldersOf(a) = {r},
           \A q \in Readers \ {r} : \/ reader[q].stage \in {"idle", "locking"}
                                   \/ owner' = owner,
           \A q \in Totalling \ {r} : raced'[q] = raced[q],
           Holds(r)', CountsOnce(r)', r \in Totalling /\ x.stage # "idle" => Misses(r)'
    PROVE  IndInv'
  <1>1. TypeOK
    BY DEF IndInv
  <1>2. reader'[r] = x /\ \A q \in Readers \ {r} : reader'[q] = reader[q]
    BY <1>1 DEF TypeOK
  <1>3. ASSUME NEW q \in Readers \ {r} PROVE Holds(q)' /\ CountsOnce(q)'
    <2>1. Holds(q) /\ CountsOnce(q) /\ reader'[q] = reader[q]
      BY <1>2 DEF IndInv
    <2>2. CountsOnce(q)'
      BY <2>1 DEF CountsOnce, Once
    <2>3. ASSUME reader[q].stage = "holding", NEW a \in reader[q].has
          PROVE  a \notin reader[q].seen /\ phase'[a] \notin {"unborn", "dropping", "gone"}
      <3>1. a \in Actors
        BY <1>1, <2>3, Parts DEF ReaderRecs
      <3>2. q \in HoldersOf(a)
        BY <2>3 DEF HoldersOf
      <3> QED
        BY <2>1, <2>3, <3>1, <3>2 DEF Holds
    <2>4. Holds(q)'
      BY <2>1, <2>3 DEF Holds
    <2> QED
      BY <2>2, <2>4
  <1>4. ASSUME NEW q \in Totalling \ {r}, reader'[q].stage # "idle" PROVE Misses(q)'
    <2>1. q \in Readers
      BY <1>1, Parts
    <2>2. Misses(q) /\ reader'[q] = reader[q] /\ raced'[q] = raced[q]
      BY <1>2, <1>4, <2>1 DEF IndInv
    <2>3. \A a \in Actors : /\ phase[a] = "live" => phase'[a] = "live"
                            /\ phase[a] = "unborn" => phase'[a] = "unborn"
      OBVIOUS
    <2> QED
      BY <2>2, <2>3 DEF Misses
  <1>5. ASSUME NEW q \in Readers PROVE Holds(q)' /\ CountsOnce(q)'
    BY <1>3
  <1>6. ASSUME NEW q \in Totalling, reader'[q].stage # "idle" PROVE Misses(q)'
    BY <1>2, <1>4, <1>6
  <1> QED
    BY <1>5, <1>6 DEF IndInv

\* The actors stay as they are.
LEMMA LivesStay ==
    ASSUME IndInv, UNCHANGED <<phase, held, taken, totals, counted, made>>,
           \A a \in Actors : Owned(a) /\ a \in registry => a \in registry'
    PROVE  \A a \in Actors : Life(a)'
  BY DEF IndInv, Life, Owned, In, Once

\* A read that starts has what is in the totals, and lacks what is held.
LEMMA StartStep ==
    ASSUME IndInv, NEW r \in Readers, Start(r)
    PROVE  IndInv'
  <1> DEFINE s == [Unread EXCEPT !.stage = "locking"]
             t == [Unread EXCEPT !.stage = "locking", !.sum = totals, !.number = counted,
                                 !.from = made]
             x == IF r \in Totalling THEN t ELSE s
  <1>1. TypeOK /\ MaxMade \in Nat
    BY Parts DEF IndInv
  <1>2. totals \in [Actors -> [Broadcasts -> Nat]] /\ made \in [Actors -> 0..MaxMade]
        /\ counted \in SUBSET Actors
    <2>1. totals \in [Actors -> [Broadcasts -> {0, 1}]] /\ made \in [Actors -> 0..MaxMade]
          /\ counted \in SUBSET Actors
      BY <1>1 DEF TypeOK
    <2>2. [Broadcasts -> {0, 1}] \subseteq [Broadcasts -> Nat]
      OBVIOUS
    <2> QED
      BY <2>1, <2>2
  <1>3. /\ t \in ReaderRecs /\ t.stage = "locking" /\ t.sum = totals /\ t.number = counted
        /\ t.from = made /\ t.seen = {}
    <2>1. Unread \in ReaderRecs /\ Unread.seen = {}
      BY UnreadIs
    <2> QED
      BY <1>2, <2>1 DEF ReaderRecs
  <1>4. /\ s \in ReaderRecs /\ s.stage = "locking" /\ s.sum = NoCounts
        /\ \A a \in Actors : \A n \in Broadcasts : NoCounts[a][n] = 0
    BY <1>2, UnreadIs
  <1>5. /\ reader[r].stage = "idle" /\ reader' = [reader EXCEPT ![r] = x]
        /\ UNCHANGED <<phase, held, taken, registry, totals, counted, owner, made>>
        /\ \A q \in Totalling \ {r} : raced'[q] = raced[q]
        /\ r \in Totalling => raced'[r] = UnderWay
    BY <1>1 DEF Start, counters, cumulative, TypeOK
  <1>6. raced' \in [Totalling -> SUBSET Actors]
    <2>1. UnderWay \in SUBSET Actors
      BY DEF UnderWay
    <2> QED
      BY <1>1, <2>1 DEF Start, TypeOK
  <1> HIDE DEF s, t
  <1>7. x \in ReaderRecs
    BY <1>3, <1>4
  <1>8. TypeOK'
    BY <1>1, <1>5, <1>6, <1>7 DEF TypeOK, ReaderRecs
  <1>9. \A a \in Actors : Life(a)'
    BY <1>5, LivesStay
  <1>10. reader'[r] = x
    BY <1>1, <1>5 DEF TypeOK
  <1>11. Holds(r)'
    BY <1>3, <1>4, <1>10 DEF Holds
  <1>12. CountsOnce(r)'
    <2> SUFFICES ASSUME NEW a \in Actors, NEW n \in Broadcasts
                 PROVE  x.sum[a][n] <= Once(n, a) /\ (x.sum[a][n] # 0 => totals[a][n] = 1)
      BY <1>5, <1>10 DEF CountsOnce, Once
    <2>1. totals[a][n] \in {0, 1} /\ totals[a][n] <= Once(n, a) /\ 0 <= Once(n, a)
      BY LifeFacts DEF Life, In, Once
    <2> QED
      BY <1>3, <1>4, <2>1
  <1>13. ASSUME r \in Totalling PROVE Misses(r)'
    <2> SUFFICES ASSUME NEW a \in Actors \ UnderWay
                 PROVE  /\ \A n \in 1..made[a] :
                              totals[a][n] = 1 \/ (n \in held[a] /\ phase[a] = "live")
                        /\ a \in counted \/ phase[a] = "unborn"
      BY <1>3, <1>4, <1>5, <1>10, <1>13 DEF Misses
    <2>1. Life(a)
      BY DEF IndInv
    <2>2. phase[a] \notin {"registered", "taking", "released", "dropping"}
      BY DEF UnderWay
    <2>3. taken[a] = {}
      BY <2>1, <2>2 DEF Life
    <2>4. ASSUME NEW n \in 1..made[a]
          PROVE  totals[a][n] = 1 \/ (n \in held[a] /\ phase[a] = "live")
      <3>1. n \in Broadcasts /\ n <= made[a]
        BY LifeFacts DEF Broadcasts
      <3>2. totals[a][n] \in {0, 1} /\ In(n, held[a]) + In(n, taken[a]) + totals[a][n] = 1
        BY <2>1, <3>1, LifeFacts DEF Life, Once
      <3>3. n \in held[a] \/ totals[a][n] = 1
        BY <2>3, <3>2 DEF In
      <3>4. held[a] # {} => phase[a] = "live"
        BY <2>1, <2>2 DEF Life
      <3> QED
        BY <3>3, <3>4
    <2> QED
      BY <2>1, <2>2, <2>4 DEF Life
  <1>14. \A a \in Actors : phase'[a] = phase[a]
    BY <1>5
  <1> QED
    BY <1>5, <1>7, <1>8, <1>9, <1>11, <1>12, <1>13, <1>14, OneReader

\* The registry loses only actors that are not their own any more.
LEMMA LockStep ==
    ASSUME IndInv, NEW r \in Readers, Lock(r)
    PROVE  IndInv'
  <1> DEFINE x == [reader[r] EXCEPT !.stage = "listing"]
  <1>1. TypeOK /\ reader[r] \in ReaderRecs
    BY Parts DEF IndInv
  <1>2. /\ x \in ReaderRecs /\ x.stage = "listing" /\ x.sum = reader[r].sum
        /\ x.seen = reader[r].seen /\ x.from = reader[r].from /\ x.number = reader[r].number
    BY <1>1 DEF ReaderRecs
  <1>3. /\ reader[r].stage = "locking" /\ owner = Nobody /\ owner' = r
        /\ registry' = Retain(registry) /\ reader' = [reader EXCEPT ![r] = x]
        /\ UNCHANGED <<phase, held, taken, totals, counted, made, raced>>
    BY <1>1 DEF Lock, counters, cumulative, TypeOK
  <1> HIDE DEF x
  <1>4. reader'[r] = x
    BY <1>1, <1>3 DEF TypeOK
  <1>5. TypeOK'
    BY <1>1, <1>2, <1>3 DEF TypeOK, ReaderRecs, Retain
  <1>6. \A a \in Actors : Life(a)'
    BY <1>3, LivesStay DEF Retain, Strong
  <1>7. CountsOnce(r)'
    BY <1>2, <1>3, <1>4 DEF IndInv, CountsOnce, Once
  <1>8. r \in Totalling => Misses(r)'
    BY <1>2, <1>3, <1>4 DEF IndInv, Misses
  <1>9. Holds(r)'
    BY <1>2, <1>3, <1>4 DEF Holds
  <1>10. \A q \in Readers \ {r} : reader[q].stage \in {"idle", "locking"} \/ owner' = owner
    <2> SUFFICES ASSUME NEW q \in Readers \ {r} PROVE reader[q].stage \in {"idle", "locking"}
      OBVIOUS
    <2>1. reader[q].stage \in {"listing", "holding", "dropping"} => owner = q
      BY DEF IndInv, Holds
    <2>2. Nobody \notin Readers
      BY <1>1, Parts
    <2> QED
      BY <1>1, <1>3, <2>1, <2>2 DEF ReaderRecs, TypeOK
  <1>11. \A a \in Actors : phase'[a] = phase[a]
    BY <1>3
  <1> QED
    BY <1>2, <1>3, <1>5, <1>6, <1>7, <1>8, <1>9, <1>10, <1>11, OneReader

\* An actor that cannot be upgraded is not live, and nothing is missed with it.
LEMMA UpgradeStep ==
    ASSUME IndInv, NEW r \in Readers, NEW a \in Actors, Upgrade(r, a)
    PROVE  IndInv'
  <1> DEFINE g == [reader[r] EXCEPT !.stage = "holding", !.has = {a}]
             u == [reader[r] EXCEPT !.seen = @ \cup {a}]
             x == IF Strong(a) THEN g ELSE u
  <1>1. TypeOK /\ reader[r] \in ReaderRecs
    BY Parts DEF IndInv
  <1>2. /\ g \in ReaderRecs /\ g.stage = "holding" /\ g.has = {a}
        /\ g.sum = reader[r].sum /\ g.seen = reader[r].seen /\ g.from = reader[r].from
        /\ g.number = reader[r].number
    BY <1>1 DEF ReaderRecs
  <1>3. /\ u \in ReaderRecs /\ u.stage = reader[r].stage /\ u.seen = reader[r].seen \cup {a}
        /\ u.sum = reader[r].sum /\ u.from = reader[r].from /\ u.number = reader[r].number
    BY <1>1 DEF ReaderRecs
  <1>4. /\ reader[r].stage = "listing" /\ a \notin reader[r].seen
        /\ reader' = [reader EXCEPT ![r] = x]
        /\ UNCHANGED <<phase, held, taken, totals, counted, made, registry, owner, raced>>
    <2>1. CASE Strong(a)
      BY <1>1, <2>1 DEF Upgrade, counters, cumulative, TypeOK
    <2>2. CASE ~Strong(a)
      BY <1>1, <2>2 DEF Upgrade, counters, cumulative, TypeOK
    <2> QED
      BY <2>1, <2>2
  <1>5. Holds(r) /\ CountsOnce(r) /\ (r \in Totalling => Misses(r))
    BY <1>4 DEF IndInv
  <1>6. Strong(a) => phase[a] \notin {"unborn", "dropping", "gone"}
    <2>1. ASSUME NEW q \in HoldersOf(a) PROVE phase[a] \notin {"unborn", "dropping", "gone"}
      BY <2>1 DEF HoldersOf, IndInv, Holds
    <2> QED
      BY <2>1 DEF Strong, Owned
  <1>7. ~Strong(a) => phase[a] # "live"
    BY DEF Strong, Owned
  <1> HIDE DEF g, u
  <1>8. x \in ReaderRecs
    BY <1>2, <1>3
  <1>9. reader'[r] = x
    BY <1>1, <1>4 DEF TypeOK
  <1>10. TypeOK'
    BY <1>1, <1>4, <1>8 DEF TypeOK, ReaderRecs
  <1>11. \A b \in Actors : Life(b)'
    BY <1>4, LivesStay
  <1>12. Holds(r)'
    BY <1>2, <1>3, <1>4, <1>5, <1>6, <1>9 DEF Holds
  <1>13. CountsOnce(r)'
    BY <1>2, <1>3, <1>4, <1>5, <1>9 DEF CountsOnce, Once
  <1>14. r \in Totalling => Misses(r)'
    BY <1>2, <1>3, <1>4, <1>5, <1>7, <1>9 DEF Misses
  <1>15. \A b \in Actors : phase'[b] = phase[b]
    BY <1>4
  <1> QED
    BY <1>4, <1>8, <1>10, <1>11, <1>12, <1>13, <1>14, <1>15, OneReader

\* What a snapshot makes of a reader.
LEMMA SnapshotIs ==
    ASSUME IndInv, NEW r \in Readers, NEW a \in Actors, Snapshot(r, a)
    PROVE  LET S == [reader[r].sum EXCEPT ![a] = Plus(@, held[a])]
               x == reader'[r]
           IN /\ \A b \in Actors \ {a} : S[b] = reader[r].sum[b]
              /\ \A n \in Broadcasts :
                    S[a][n] = reader[r].sum[a][n] + (IF n \in held[a] THEN 1 ELSE 0)
              /\ x \in ReaderRecs /\ x.sum = S /\ x.seen = reader[r].seen \cup {a}
              /\ x.from = reader[r].from /\ x.number = reader[r].number
              /\ x.stage \in {"listing", "dropping"}
              /\ reader' = [reader EXCEPT ![r] = x]
  <1> DEFINE read == [reader[r] EXCEPT !.seen = @ \cup {a}, !.sum[a] = Plus(@, held[a])]
             g == [read EXCEPT !.stage = "listing", !.has = {}]
             d == [read EXCEPT !.stage = "dropping"]
             x == IF Owned(a) THEN g ELSE d
             S == [reader[r].sum EXCEPT ![a] = Plus(@, held[a])]
  <1>1. TypeOK /\ reader[r] \in ReaderRecs /\ reader[r].sum[a] \in [Broadcasts -> Nat]
        /\ reader[r].sum \in [Actors -> [Broadcasts -> Nat]]
    BY Parts DEF IndInv, ReaderRecs
  <1>2. Plus(reader[r].sum[a], held[a]) \in [Broadcasts -> Nat]
    BY <1>1 DEF Plus
  <1>3. S \in [Actors -> [Broadcasts -> Nat]] /\ S[a] = Plus(reader[r].sum[a], held[a])
        /\ \A b \in Actors \ {a} : S[b] = reader[r].sum[b]
    BY <1>1, <1>2
  <1> HIDE DEF S
  <1>4. /\ read \in ReaderRecs /\ read.sum = S /\ read.seen = reader[r].seen \cup {a}
        /\ read.from = reader[r].from /\ read.number = reader[r].number
        /\ read.has = reader[r].has
    BY <1>1, <1>3 DEF ReaderRecs, S
  <1>5. /\ reader[r].stage = "holding" /\ a \in reader[r].has
        /\ reader' = [reader EXCEPT ![r] = x]
    BY <1>1 DEF Snapshot, TypeOK
  <1> HIDE DEF read
  <1>6. /\ x \in ReaderRecs /\ x.sum = S /\ x.seen = reader[r].seen \cup {a}
        /\ x.from = reader[r].from /\ x.number = reader[r].number
        /\ x.stage \in {"listing", "dropping"}
    BY <1>4 DEF ReaderRecs
  <1> HIDE DEF x
  <1>7. reader'[r] = x
    BY <1>1, <1>5 DEF TypeOK
  <1>8. \A n \in Broadcasts :
            S[a][n] = reader[r].sum[a][n] + (IF n \in held[a] THEN 1 ELSE 0)
    BY <1>1, <1>3 DEF Plus
  <1> QED
    BY <1>3, <1>5, <1>6, <1>7, <1>8 DEF S

\* What a snapshot adds is in no totals yet, so it was not counted before.
LEMMA SnapshotStep ==
    ASSUME IndInv, NEW r \in Readers, NEW a \in Actors, Snapshot(r, a)
    PROVE  IndInv'
  <1> DEFINE S == [reader[r].sum EXCEPT ![a] = Plus(@, held[a])]
             x == reader'[r]
  <1>1. TypeOK /\ reader[r] \in ReaderRecs /\ reader[r].sum[a] \in [Broadcasts -> Nat]
        /\ \A n \in Broadcasts : reader[r].sum[a][n] \in Nat
    BY Parts DEF IndInv
  <1>2. /\ \A b \in Actors \ {a} : S[b] = reader[r].sum[b]
        /\ \A n \in Broadcasts :
              S[a][n] = reader[r].sum[a][n] + (IF n \in held[a] THEN 1 ELSE 0)
    BY SnapshotIs
  <1>3. /\ x \in ReaderRecs /\ x.sum = S /\ x.seen = reader[r].seen \cup {a}
        /\ x.from = reader[r].from /\ x.number = reader[r].number
        /\ x.stage \in {"listing", "dropping"}
    BY SnapshotIs
  <1>4. /\ reader[r].stage = "holding" /\ a \in reader[r].has
        /\ reader' = [reader EXCEPT ![r] = x]
        /\ phase' = IF Owned(a) THEN phase ELSE [phase EXCEPT ![a] = "dropping"]
        /\ UNCHANGED <<held, taken, totals, counted, made, registry, owner, raced>>
    BY SnapshotIs DEF Snapshot, cumulative
  <1> HIDE DEF S, x
  <1>5. Holds(r) /\ CountsOnce(r) /\ (r \in Totalling => Misses(r)) /\ Life(a)
    BY <1>4 DEF IndInv
  <1>6. a \notin reader[r].seen /\ phase[a] \notin {"unborn", "dropping", "gone"}
        /\ owner = r
    BY <1>4, <1>5 DEF Holds
  <1>7. ~Owned(a) => phase[a] = "released" /\ phase'[a] = "dropping"
    BY <1>1, <1>4, <1>6 DEF Owned, TypeOK
  <1>8. \A b \in Actors : b # a \/ Owned(a) => phase'[b] = phase[b]
    BY <1>1, <1>4 DEF TypeOK
  <1>9. HoldersOf(a) = {r}
    <2>1. r \in HoldersOf(a)
      BY <1>4 DEF HoldersOf
    <2>2. ASSUME NEW q \in HoldersOf(a) PROVE q = r
      BY <1>6, <2>2 DEF HoldersOf, IndInv, Holds
    <2> QED
      BY <2>1, <2>2
  <1>10. reader'[r] = x
    BY DEF x
  <1>11. TypeOK'
    <2>1. phase' \in [Actors -> {"unborn", "registered", "live", "taking", "released",
                                "dropping", "gone"}]
      BY <1>1, <1>4 DEF TypeOK
    <2> QED
      BY <1>1, <1>4, <1>3, <2>1 DEF TypeOK, ReaderRecs
  <1>12. ASSUME NEW b \in Actors PROVE Life(b)'
    <2>1. Life(b)
      BY <1>12 DEF IndInv
    <2>2. CASE b = a /\ ~Owned(a)
      BY <1>4, <1>7, <2>1, <2>2 DEF Life, Owned, In, Once
    <2>3. CASE ~(b = a /\ ~Owned(a))
      <3>1. phase'[b] = phase[b]
        BY <1>8, <1>12, <2>3
      <3> QED
        BY <1>4, <2>1, <3>1 DEF Life, Owned, In, Once
    <2> QED
      BY <2>2, <2>3
  <1>13. Holds(r)'
    BY <1>4, <1>3, <1>6, <1>10 DEF Holds
  <1>14. ASSUME NEW n \in Broadcasts
         PROVE  /\ S[a][n] <= Once(n, a)
                /\ n \in held[a] => S[a][n] = 1
                /\ n \notin held[a] => S[a][n] = reader[r].sum[a][n]
    <2>1. S[a][n] = reader[r].sum[a][n] + (IF n \in held[a] THEN 1 ELSE 0)
      BY <1>2
    <2>2. reader[r].sum[a][n] \in Nat /\ reader[r].sum[a][n] <= Once(n, a)
          /\ (reader[r].sum[a][n] # 0 => totals[a][n] = 1)
      BY <1>1, <1>5, <1>6 DEF CountsOnce
    <2>3. n \in held[a] => n <= made[a] /\ totals[a][n] = 0
      BY LifeFacts
    <2> QED
      BY <2>1, <2>2, <2>3 DEF Once
  <1>15. CountsOnce(r)'
    <2> SUFFICES ASSUME NEW b \in Actors, NEW n \in Broadcasts
                 PROVE  /\ S[b][n] <= Once(n, b)
                        /\ b # a /\ b \notin reader[r].seen /\ S[b][n] # 0
                                => totals[b][n] = 1
      BY <1>4, <1>3, <1>10 DEF CountsOnce, Once
    <2>1. CASE b = a
      BY <1>14, <2>1
    <2>2. CASE b # a
      BY <1>2, <1>5, <2>2 DEF CountsOnce
    <2> QED
      BY <2>1, <2>2
  <1>16. ASSUME r \in Totalling PROVE Misses(r)'
    <2> SUFFICES ASSUME NEW b \in Actors \ raced[r]
                 PROVE  /\ \A n \in 1..reader[r].from[b] :
                              \/ S[b][n] = 1
                              \/ n \in held[b] /\ phase'[b] = "live"
                                 /\ b \notin reader[r].seen \cup {a}
                        /\ b \in reader[r].number \/ phase'[b] = "unborn"
      BY <1>4, <1>3, <1>10, <1>16 DEF Misses
    <2>1. b \in reader[r].number \/ phase'[b] = "unborn"
      BY <1>5, <1>6, <1>8, <1>16 DEF Misses
    <2>2. ASSUME NEW n \in 1..reader[r].from[b]
          PROVE  \/ S[b][n] = 1
                 \/ n \in held[b] /\ phase'[b] = "live" /\ b \notin reader[r].seen \cup {a}
      <3>1. \/ reader[r].sum[b][n] = 1
            \/ n \in held[b] /\ phase[b] = "live" /\ b \notin reader[r].seen
        BY <1>5, <1>16 DEF Misses
      <3>2. n \in Broadcasts
        BY <1>1, Parts DEF Broadcasts
      <3>3. CASE b = a
        BY <1>14, <3>1, <3>2, <3>3
      <3>4. CASE b # a
        BY <1>2, <1>8, <3>1, <3>4
      <3> QED
        BY <3>3, <3>4
    <2> QED
      BY <2>1, <2>2
  <1>17. \A b \in Actors : phase'[b] # phase[b] => phase[b] = "released" /\ HoldersOf(b) = {r}
    BY <1>7, <1>8, <1>9
  <1> QED
    BY <1>4, <1>3, <1>11, <1>12, <1>13, <1>15, <1>16, <1>17, OneReader

\* A read that returns lets go of the registry.
LEMMA FinishStep ==
    ASSUME IndInv, NEW r \in Readers, Finish(r)
    PROVE  IndInv'
  <1>1. TypeOK /\ Unread \in ReaderRecs /\ Unread.stage = "idle" /\ Unread.sum = NoCounts
        /\ \A a \in Actors : \A n \in Broadcasts : NoCounts[a][n] = 0
    BY UnreadIs DEF IndInv
  <1>2. /\ reader[r].stage = "listing" /\ owner' = Nobody
        /\ reader' = [reader EXCEPT ![r] = Unread]
        /\ \A q \in Totalling \ {r} : raced'[q] = raced[q]
        /\ raced' = [q \in Totalling |-> IF q = r THEN {} ELSE raced[q]]
        /\ UNCHANGED <<phase, held, taken, totals, counted, made, registry>>
    BY DEF Finish, counters, cumulative
  <1>3. reader'[r] = Unread
    BY <1>1, <1>2 DEF TypeOK
  <1>4. raced' \in [Totalling -> SUBSET Actors]
    BY <1>1, <1>2 DEF TypeOK
  <1>5. TypeOK'
    BY <1>1, <1>2, <1>4 DEF TypeOK, ReaderRecs
  <1>6. \A a \in Actors : Life(a)'
    BY <1>2, LivesStay
  <1>7. Holds(r)'
    BY <1>1, <1>3 DEF Holds
  <1>8. CountsOnce(r)'
    <2>1. ASSUME NEW a \in Actors, NEW n \in Broadcasts PROVE NoCounts[a][n] <= Once(n, a)
      BY <1>1 DEF Once
    <2> QED
      BY <1>1, <1>2, <1>3, <2>1 DEF CountsOnce, Once
  <1>9. \A q \in Readers \ {r} : reader[q].stage \in {"idle", "locking"} \/ owner' = owner
    <2> SUFFICES ASSUME NEW q \in Readers \ {r} PROVE reader[q].stage \in {"idle", "locking"}
      OBVIOUS
    <2>1. /\ reader[q].stage \in {"listing", "holding", "dropping"} => owner = q
          /\ reader[r].stage \in {"listing", "holding", "dropping"} => owner = r
      BY DEF IndInv, Holds
    <2> QED
      BY <1>1, <1>2, <2>1, Parts DEF ReaderRecs
  <1>10. \A a \in Actors : phase'[a] = phase[a]
    BY <1>2
  <1> QED
    BY <1>1, <1>2, <1>5, <1>6, <1>7, <1>8, <1>9, <1>10, OneReader

\* What a stopped actor left behind goes to the totals, where it was not.
LEMMA DropCountersStep ==
    ASSUME IndInv, NEW a \in Actors, DropCounters(a)
    PROVE  IndInv'
  <1>1. TypeOK /\ held[a] \in SUBSET Broadcasts
    BY LifeFacts DEF IndInv
  <1>2. /\ phase[a] = "dropping" /\ phase'[a] = "gone" /\ held'[a] = {}
        /\ \A b \in Actors \ {a} : phase'[b] = phase[b] /\ held'[b] = held[b]
        /\ totals' = Folded(a, held[a])
        /\ UNCHANGED <<taken, registry, counted, owner, made, raced>>
    BY <1>1 DEF DropCounters, TypeOK
  <1>3. /\ totals' \in [Actors -> [Broadcasts -> {0, 1}]]
        /\ \A n \in Broadcasts : totals'[a][n] = IF n \in held[a] THEN 1 ELSE totals[a][n]
        /\ \A b \in Actors \ {a} : totals'[b] = totals[b]
    BY <1>1, <1>2, FoldIs
  <1>4. ASSUME NEW r \in Readers
        PROVE  /\ reader'[r] \in ReaderRecs
               /\ reader'[r].sum = reader[r].sum /\ reader'[r].seen = reader[r].seen
               /\ reader'[r].from = reader[r].from /\ reader'[r].number = reader[r].number
               /\ \/ reader'[r] = reader[r]
                  \/ reader[r].stage = "dropping" /\ reader'[r].stage = "listing"
    <2>1. reader[r] \in ReaderRecs
      BY <1>1, Parts
    <2>2. reader'[r] = IF reader[r].stage = "dropping" /\ a \in reader[r].has
                       THEN [reader[r] EXCEPT !.stage = "listing", !.has = {}] ELSE reader[r]
      BY DEF DropCounters
    <2>3. CASE reader[r].stage = "dropping" /\ a \in reader[r].has
      BY <2>1, <2>2, <2>3 DEF ReaderRecs
    <2>4. CASE ~(reader[r].stage = "dropping" /\ a \in reader[r].has)
      BY <2>1, <2>2, <2>4
    <2> QED
      BY <2>3, <2>4
  <1>5. TypeOK'
    <2>1. reader' = [r \in Readers |-> reader'[r]]
      BY DEF DropCounters
    <2>2. reader' \in [Readers -> ReaderRecs]
      BY <1>4, <2>1
    <2>3. phase' \in [Actors -> {"unborn", "registered", "live", "taking", "released",
                                "dropping", "gone"}]
          /\ held' \in [Actors -> SUBSET Broadcasts]
      BY <1>1 DEF DropCounters, TypeOK
    <2> QED
      BY <1>1, <1>2, <1>3, <2>2, <2>3 DEF TypeOK, ReaderRecs
  <1>6. ASSUME NEW b \in Actors PROVE Life(b)'
    <2>1. Life(b)
      BY <1>6 DEF IndInv
    <2>2. CASE b = a
      BY <1>2, <1>3, <2>1, <2>2, LifeFacts DEF Life, Owned, In, Once
    <2>3. CASE b # a
      BY <1>2, <1>3, <2>1, <2>3 DEF Life, Owned, In, Once
    <2> QED
      BY <2>2, <2>3
  <1>7. ASSUME NEW r \in Readers PROVE Holds(r)'
    <2>1. Holds(r) /\ reader[r].has \subseteq Actors
      BY <1>1, Parts DEF IndInv, ReaderRecs
    <2>2. reader[r].stage = "holding" => a \notin reader[r].has
      BY <1>2, <2>1 DEF Holds
    <2> QED
      BY <1>2, <1>4, <2>1, <2>2 DEF Holds
  <1>8. ASSUME NEW r \in Readers PROVE CountsOnce(r)'
    <2> SUFFICES ASSUME NEW b \in Actors, NEW n \in Broadcasts
                 PROVE  /\ reader[r].sum[b][n] <= Once(n, b)
                        /\ b \notin reader[r].seen /\ reader[r].sum[b][n] # 0
                               => totals'[b][n] = 1
      BY <1>2, <1>4 DEF CountsOnce, Once
    <2>1. /\ reader[r].sum[b][n] <= Once(n, b)
          /\ b \notin reader[r].seen /\ reader[r].sum[b][n] # 0 => totals[b][n] = 1
      BY DEF IndInv, CountsOnce
    <2>2. totals[b][n] = 1 => totals'[b][n] = 1
      BY <1>3
    <2> QED
      BY <2>1, <2>2
  <1>9. ASSUME NEW r \in Totalling, reader'[r].stage # "idle" PROVE Misses(r)'
    <2>1. r \in Readers
      BY <1>1, Parts
    <2>2. Misses(r)
      BY <1>4, <1>9, <2>1 DEF IndInv
    <2> QED
      BY <1>2, <1>4, <2>1, <2>2 DEF Misses
  <1> QED
    BY <1>5, <1>6, <1>7, <1>8, <1>9 DEF IndInv

-----------------------------------------------------------------------------
(* The theorems. *)

\* Before anything runs there is nothing to count.
LEMMA InitIndInv ==
    ASSUME Init PROVE IndInv
  <1>1. /\ MaxMade \in Nat /\ Broadcasts \subseteq Nat
        /\ NoCounts \in [Actors -> [Broadcasts -> {0, 1}]]
        /\ \A a \in Actors : \A n \in Broadcasts : NoCounts[a][n] = 0
        /\ Unread \in ReaderRecs /\ Unread.stage = "idle" /\ Unread.sum = NoCounts
    BY UnreadIs, ProfilerAssumption DEF Broadcasts
  <1>2. TypeOK
    BY <1>1 DEF Init, TypeOK, ReaderRecs
  <1>3. ASSUME NEW a \in Actors PROVE Life(a)
    <2>1. \A n \in Broadcasts : ~(n <= 0)
      BY <1>1 DEF Broadcasts
    <2>2. /\ phase[a] = "unborn" /\ held[a] = {} /\ taken[a] = {} /\ made[a] = 0
          /\ totals = NoCounts
      BY DEF Init
    <2>3. ASSUME NEW n \in Broadcasts
          PROVE  In(n, held[a]) + In(n, taken[a]) + totals[a][n] = Once(n, a)
      <3>1. In(n, held[a]) = 0 /\ In(n, taken[a]) = 0 /\ totals[a][n] = 0 /\ Once(n, a) = 0
        BY <1>1, <2>1, <2>2 DEF In, Once
      <3> QED
        BY <3>1
    <2> QED
      BY <2>2, <2>3 DEF Life, Owned
  <1>4. ASSUME NEW r \in Readers PROVE Holds(r) /\ CountsOnce(r)
    <2>1. \A a \in Actors : \A n \in Broadcasts : 0 <= Once(n, a)
      BY DEF Once
    <2> QED
      BY <1>1, <2>1 DEF Init, Holds, CountsOnce
  <1>5. ASSUME NEW r \in Totalling PROVE reader[r].stage = "idle"
    BY <1>1, ProfilerAssumption DEF Init
  <1> QED
    BY <1>2, <1>3, <1>4, <1>5 DEF IndInv

\* Every step of an actor and of a reader keeps the invariant.
LEMMA NextIndInv ==
    ASSUME IndInv, [Next]_vars PROVE IndInv'
  <1>1. CASE UNCHANGED vars
    BY <1>1 DEF vars, counters, cumulative, IndInv, TypeOK, Life, Owned, Holds, CountsOnce,
        Misses, Once, In
  <1>2. ASSUME NEW a \in Actors,
               \/ NewCounters(a) \/ CountActor(a) \/ Record(a) \/ TakeDrain(a) \/ Stop(a)
               \/ TakeFold(a) \/ DropCounters(a)
        PROVE  IndInv'
    BY <1>2, NewCountersStep, CountActorStep, RecordStep, TakeDrainStep, StopStep,
        TakeFoldStep, DropCountersStep
  <1>3. ASSUME NEW r \in Readers, Start(r) \/ Step(r) PROVE IndInv'
    BY <1>3, StartStep, LockStep, UpgradeStep, SnapshotStep, FinishStep DEF Step
  <1> QED
    BY <1>1, <1>2, <1>3 DEF Next, Settle

\* In every reachable state each actor and each reader is as described above.
THEOREM Inductive == Spec => []IndInv
  <1>1. Init => IndInv
    BY InitIndInv
  <1>2. IndInv /\ [Next]_vars => IndInv'
    BY NextIndInv
  <1> QED
    BY <1>1, <1>2, PTL DEF Spec

\* Every variable of Profiler keeps its type, and nothing is folded in twice
\* (profiler.rs fold_counts_into_totals).
THEOREM TypeCorrect == Spec => []TypeOK
  <1>1. IndInv => TypeOK
    BY DEF IndInv
  <1> QED
    BY <1>1, Inductive, PTL

\* A broadcast is in one place, whatever takes and stops there are (take, drop).
THEOREM NothingIsLost == Spec => []EveryBroadcastIsKept
  <1>1. IndInv => EveryBroadcastIsKept
    <2> SUFFICES ASSUME IndInv, NEW a \in Actors, NEW n \in 1..made[a]
                 PROVE  In(n, held[a]) + In(n, taken[a]) + totals[a][n] = 1
      BY DEF EveryBroadcastIsKept
    <2>1. n \in Broadcasts /\ n <= made[a]
      BY LifeFacts DEF Broadcasts
    <2> QED
      BY <2>1 DEF IndInv, Life, Once
  <1> QED
    BY <1>1, Inductive, PTL

\* No read counts a broadcast twice, or one that was not made
\* (cumulative_broadcast_counts).
THEOREM NoneIsCountedTwice == Spec => []NothingCountedTwice
  <1>1. IndInv => NothingCountedTwice
    BY DEF IndInv, CountsOnce, Once, NothingCountedTwice
  <1> QED
    BY <1>1, Inductive, PTL

\* Only Finish ends a read.
LEMMA EndsByFinish ==
    ASSUME IndInv, [Next]_vars, NEW r \in Readers, reader[r].stage # "idle",
           reader'[r].stage = "idle"
    PROVE  Finish(r)
  <1>1. TypeOK /\ reader[r] \in ReaderRecs
    BY Parts DEF IndInv
  <1>2. CASE UNCHANGED vars
    BY <1>2 DEF vars
  <1>3. ASSUME NEW a \in Actors,
               NewCounters(a) \/ CountActor(a) \/ Record(a) \/ TakeDrain(a) \/ Stop(a)
               \/ TakeFold(a)
        PROVE  FALSE
    BY <1>3 DEF NewCounters, CountActor, Record, TakeDrain, Stop, TakeFold
  <1>4. ASSUME NEW a \in Actors, DropCounters(a) PROVE FALSE
    BY <1>1, <1>4 DEF DropCounters, ReaderRecs
  <1>5. ASSUME NEW q \in Readers, Start(q) PROVE FALSE
    <2>1. Unread \in ReaderRecs
      BY UnreadIs
    <2>2. [Unread EXCEPT !.stage = "locking", !.sum = totals, !.number = counted,
                         !.from = made].stage = "locking"
          /\ [Unread EXCEPT !.stage = "locking"].stage = "locking"
      BY <2>1 DEF ReaderRecs
    <2>3. CASE q = r
      BY <1>5, <2>3 DEF Start
    <2>4. CASE q # r
      BY <1>1, <1>5, <2>4 DEF Start, TypeOK
    <2> QED
      BY <2>3, <2>4
  <1>6. ASSUME NEW q \in Readers, Lock(q) PROVE FALSE
    BY <1>1, <1>6 DEF Lock, TypeOK
  <1>7. ASSUME NEW q \in Readers, NEW a \in Actors, Upgrade(q, a) PROVE FALSE
    BY <1>1, <1>7 DEF Upgrade, TypeOK
  <1>8. ASSUME NEW q \in Readers, NEW a \in Actors, Snapshot(q, a) PROVE FALSE
    <2>1. reader'[q].stage \in {"listing", "dropping"}
      BY <1>8, SnapshotIs
    <2>2. reader' = [reader EXCEPT ![q] = reader'[q]]
      BY <1>8, SnapshotIs
    <2> QED
      BY <1>1, <2>1, <2>2 DEF TypeOK
  <1>9. ASSUME NEW q \in Readers, Finish(q) PROVE Finish(r)
    BY <1>1, <1>9 DEF Finish, TypeOK
  <1> QED
    BY <1>2, <1>3, <1>4, <1>5, <1>6, <1>7, <1>8, <1>9 DEF Next, Settle, Step

\* A read lacks only what a spawn, a take or a stop of its own actor moved while
\* it went on (cumulative_broadcast_counts).
THEOREM QuietReadsAreComplete == Spec => QuietReadIsComplete
  <1>1. ASSUME IndInv, [Next]_vars
        PROVE  [\A r \in Totalling :
                  reader[r].stage # "idle" /\ reader'[r].stage = "idle" =>
                      \A a \in Actors \ raced[r] :
                          /\ \A n \in 1..reader[r].from[a] : reader[r].sum[a][n] = 1
                          /\ (\E n \in Broadcasts : reader[r].sum[a][n] > 0)
                                 => a \in reader[r].number]_vars
    <2> SUFFICES ASSUME NEW r \in Totalling, reader[r].stage # "idle",
                        reader'[r].stage = "idle", NEW a \in Actors \ raced[r]
                 PROVE  /\ \A n \in 1..reader[r].from[a] : reader[r].sum[a][n] = 1
                        /\ (\E n \in Broadcasts : reader[r].sum[a][n] > 0)
                               => a \in reader[r].number
      OBVIOUS
    <2>1. r \in Readers /\ TypeOK
      BY <1>1, Parts DEF IndInv
    <2>2. Finish(r)
      BY <1>1, <2>1, EndsByFinish
    <2>3. registry \subseteq reader[r].seen
      BY <2>2 DEF Finish
    <2>4. Misses(r) /\ CountsOnce(r) /\ Life(a)
      BY <1>1, <2>1 DEF IndInv
    <2>5. phase[a] = "live" => a \in reader[r].seen
      BY <2>3, <2>4 DEF Life, Owned
    <2>6. \A n \in 1..reader[r].from[a] : reader[r].sum[a][n] = 1
      BY <2>4, <2>5 DEF Misses
    <2>7. ASSUME NEW n \in Broadcasts, reader[r].sum[a][n] > 0 PROVE a \in reader[r].number
      <3>1. phase[a] # "unborn"
        <4> SUFFICES ASSUME phase[a] = "unborn" PROVE FALSE
          OBVIOUS
        <4>1. made[a] = 0 /\ n \in 1..MaxMade /\ MaxMade \in Nat
          BY <1>1, <2>4, LifeFacts DEF Life, Broadcasts
        <4>2. reader[r].sum[a][n] <= 0 /\ reader[r].sum[a][n] \in Nat
          BY <2>1, <2>4, <4>1, Parts DEF CountsOnce, Once
        <4> QED
          BY <2>7, <4>2
      <3> QED
        BY <2>4, <3>1 DEF Misses
    <2> QED
      BY <2>6, <2>7
  <1> QED
    BY <1>1, Inductive, PTL DEF Spec, QuietReadIsComplete
=============================================================================
