------------------------------ MODULE Profiler ------------------------------
(***************************************************************************)
(* The broadcast profiler: counters owned by each actor, a registry of weak*)
(* references to them, and totals that take over what an actor no longer   *)
(* holds.  Readers on any thread combine the three without one lock.       *)
(*                                                                         *)
(* One method and one spawn site stand for all: rows are independent.  A   *)
(* number n stands for the n-th broadcast its actor makes, so that a count *)
(* says which broadcasts it has and how often; the code has their number.  *)
(* The order of the registry is left open: no count depends on it.         *)
(***************************************************************************)
EXTENDS Integers, FiniteSets

CONSTANTS
    Actors,    \* names for actors
    Readers,   \* threads that read the counts
    Totalling, \* those that call cumulative_broadcast_counts; the others call
               \* broadcast_counts
    MaxMade    \* bound: broadcasts recorded over a behaviour

Nobody == "nobody"

ASSUME ProfilerAssumption == /\ MaxMade \in Nat
                             /\ Totalling \subseteq Readers /\ Nobody \notin Readers

VARIABLES
    phase,      \* where each actor is in its life
    held,       \* the broadcasts in each actor's BroadcastCounts
    taken,      \* those a take has drained and not folded yet
    registry,   \* REGISTRY: the actors with a weak reference in it
    totals,     \* CUMULATIVE: how often each broadcast was folded in
    counted,    \* CUMULATIVE: the actors in the number of actors
    owner,      \* the reader that holds the lock of the registry
    reader,     \* the read each reader is in
    made,       \* broadcasts each actor has recorded so far
    raced       \* the actors whose spawn, take or stop overlaps each read

counters == <<phase, held, taken>>
cumulative == <<totals, counted>>
vars == <<counters, registry, cumulative, owner, reader, made, raced>>

Broadcasts == 1..MaxMade
NoCounts == [a \in Actors |-> [n \in Broadcasts |-> 0]]
Unread == [stage |-> "idle", seen |-> {}, has |-> {}, sum |-> NoCounts,
           number |-> {}, from |-> [a \in Actors |-> 0]]

TypeOK ==
    /\ phase \in [Actors -> {"unborn", "registered", "live", "taking", "released",
                             "dropping", "gone"}]
    /\ held \in [Actors -> SUBSET Broadcasts] /\ taken \in [Actors -> SUBSET Broadcasts]
    /\ registry \subseteq Actors /\ counted \subseteq Actors
    /\ totals \in [Actors -> [Broadcasts -> {0, 1}]]
    /\ made \in [Actors -> 0..MaxMade]
    /\ owner \in Readers \cup {Nobody}
    /\ reader \in [Readers -> [stage : {"idle", "locking", "listing", "holding",
                                        "dropping"},
                               seen : SUBSET Actors, has : SUBSET Actors,
                               sum : [Actors -> [Broadcasts -> Nat]],
                               number : SUBSET Actors, from : [Actors -> 0..MaxMade]]]
    /\ raced \in [Totalling -> SUBSET Actors]

Init ==
    /\ phase = [a \in Actors |-> "unborn"]
    /\ held = [a \in Actors |-> {}] /\ taken = [a \in Actors |-> {}]
    /\ registry = {} /\ totals = NoCounts /\ counted = {} /\ owner = Nobody
    /\ reader = [r \in Readers |-> Unread]
    /\ made = [a \in Actors |-> 0] /\ raced = [r \in Totalling |-> {}]

-----------------------------------------------------------------------------
\* A strong reference exists: the actor's, or one a reader upgraded.
HoldersOf(a) == {r \in Readers : reader[r].stage = "holding" /\ a \in reader[r].has}
Owned(a) == phase[a] \in {"registered", "live", "taking"}
Strong(a) == Owned(a) \/ HoldersOf(a) # {}

\* BUG variant of Retain: it expects a reference of its own.
RetainShared(s) == {a \in s : Strong(a) /\ HoldersOf(a) # {}}
Retain(s) == {a \in s : Strong(a)}

\* The reads of the totals that are going on now overlap what a does.
Overlapped(a) ==
    [r \in Totalling |-> IF reader[r].stage # "idle" THEN raced[r] \cup {a} ELSE raced[r]]

\* Counts with the broadcasts in s added, and the totals with s folded in.
Plus(c, s) == [n \in Broadcasts |-> IF n \in s THEN c[n] + 1 ELSE c[n]]
Folded(a, s) == [totals EXCEPT ![a] = Plus(@, s)]

-----------------------------------------------------------------------------
(* The actors. *)

\* new_counters, run by Handle::new before the task is spawned, registers ...
NewCounters(a) ==
    /\ phase[a] = "unborn" /\ owner = Nobody
    /\ phase' = [phase EXCEPT ![a] = "registered"]
    /\ registry' = Retain(registry) \cup {a}
    /\ raced' = Overlapped(a)
    /\ UNCHANGED <<held, taken, cumulative, owner, reader, made>>

\* ... and then counts the actor for its site.
CountActor(a) ==
    /\ phase[a] = "registered"
    /\ phase' = [phase EXCEPT ![a] = "live"]
    /\ counted' = counted \cup {a}
    /\ UNCHANGED <<held, taken, registry, totals, owner, reader, made, raced>>

\* Actor::broadcast, MaxMade times in all.
Record(a) ==
    /\ phase[a] = "live" /\ made[a] < MaxMade
    /\ Cardinality({p \in Actors \X Broadcasts : p[2] <= made[p[1]]}) < MaxMade
    /\ made' = [made EXCEPT ![a] = @ + 1]
    /\ held' = [held EXCEPT ![a] = @ \cup {made[a] + 1}]
    /\ UNCHANGED <<phase, taken, registry, cumulative, owner, reader, raced>>

\* BUG variant of TakeDrain: the counts are copied and cleared later.
TakeCopy(a) ==
    /\ phase[a] = "live"
    /\ phase' = [phase EXCEPT ![a] = "taking"]
    /\ taken' = [taken EXCEPT ![a] = held[a]]
    /\ raced' = Overlapped(a)
    /\ UNCHANGED <<held, registry, cumulative, owner, reader, made>>

\* take, run by the actor as a job: drain under the counters' lock ...
TakeDrain(a) ==
    /\ phase[a] = "live"
    /\ phase' = [phase EXCEPT ![a] = "taking"]
    /\ taken' = [taken EXCEPT ![a] = held[a]]
    /\ held' = [held EXCEPT ![a] = {}]
    /\ raced' = Overlapped(a)
    /\ UNCHANGED <<registry, cumulative, owner, reader, made>>

\* BUG variant of TakeFold: the caller has the counts, the totals do not.
TakeForget(a) ==
    /\ phase[a] = "taking"
    /\ phase' = [phase EXCEPT ![a] = "live"]
    /\ taken' = [taken EXCEPT ![a] = {}]
    /\ UNCHANGED <<held, registry, cumulative, owner, reader, made, raced>>

\* ... and fold under that of the totals.
TakeFold(a) ==
    /\ phase[a] = "taking"
    /\ phase' = [phase EXCEPT ![a] = "live"]
    /\ totals' = Folded(a, taken[a])
    /\ taken' = [taken EXCEPT ![a] = {}]
    /\ UNCHANGED <<held, registry, counted, owner, reader, made, raced>>

\* The actor drops its reference; if a reader has one, the counters outlive it.
Stop(a) ==
    /\ phase[a] = "live"
    /\ phase' = [phase EXCEPT ![a] = IF HoldersOf(a) = {} THEN "dropping" ELSE "released"]
    /\ raced' = Overlapped(a)
    /\ UNCHANGED <<held, taken, registry, cumulative, owner, reader, made>>

\* BroadcastCounts::drop, run by whoever let go of the last reference.
DropCounters(a) ==
    /\ phase[a] = "dropping"
    /\ phase' = [phase EXCEPT ![a] = "gone"]
    /\ totals' = Folded(a, held[a])
    /\ held' = [held EXCEPT ![a] = {}]
    /\ reader' = [r \in Readers |->
            IF reader[r].stage = "dropping" /\ a \in reader[r].has
            THEN [reader[r] EXCEPT !.stage = "listing", !.has = {}] ELSE reader[r]]
    /\ UNCHANGED <<taken, registry, counted, owner, made, raced>>

-----------------------------------------------------------------------------
(* The readers. *)

\* What is under way when a read starts overlaps it too.
UnderWay == {a \in Actors : phase[a] \in {"registered", "taking", "released", "dropping"}}

\* cumulative_broadcast_counts clones the totals before it calls broadcast_counts.
Start(r) ==
    /\ reader[r].stage = "idle"
    /\ IF r \in Totalling
       THEN /\ reader' = [reader EXCEPT ![r] = [Unread EXCEPT !.stage = "locking",
                                !.sum = totals, !.number = counted, !.from = made]]
            /\ raced' = [raced EXCEPT ![r] = UnderWay]
       ELSE /\ reader' = [reader EXCEPT ![r] = [Unread EXCEPT !.stage = "locking"]]
            /\ UNCHANGED raced
    /\ UNCHANGED <<counters, registry, cumulative, owner, made>>

Lock(r) ==
    /\ reader[r].stage = "locking" /\ owner = Nobody
    /\ owner' = r
    /\ registry' = Retain(registry)
    /\ reader' = [reader EXCEPT ![r].stage = "listing"]
    /\ UNCHANGED <<counters, cumulative, made, raced>>

\* weak.upgrade(): counters on their way out are left out.
Upgrade(r, a) ==
    /\ reader[r].stage = "listing" /\ a \in registry \ reader[r].seen
    /\ reader' = IF Strong(a) THEN [reader EXCEPT ![r].stage = "holding", ![r].has = {a}]
                            ELSE [reader EXCEPT ![r].seen = @ \cup {a}]
    /\ UNCHANGED <<counters, registry, cumulative, owner, made, raced>>

\* BUG variant of Snapshot: the last reference goes without a drop.
SnapshotLeaking(r, a) ==
    /\ reader[r].stage = "holding" /\ a \in reader[r].has
    /\ reader' = [reader EXCEPT ![r].stage = "listing", ![r].has = {},
                                ![r].seen = @ \cup {a}, ![r].sum[a] = Plus(@, held[a])]
    /\ UNCHANGED <<counters, registry, cumulative, owner, made, raced>>

\* snapshot, under the counters' lock, and the reference is given up: the last
\* one to do so drops the counters.
Snapshot(r, a) ==
    /\ reader[r].stage = "holding" /\ a \in reader[r].has
    /\ LET read == [reader[r] EXCEPT !.seen = @ \cup {a}, !.sum[a] = Plus(@, held[a])]
       IN IF Owned(a)
          THEN /\ reader' = [reader EXCEPT ![r] = [read EXCEPT !.stage = "listing", !.has = {}]]
               /\ UNCHANGED phase
          ELSE /\ reader' = [reader EXCEPT ![r] = [read EXCEPT !.stage = "dropping"]]
               /\ phase' = [phase EXCEPT ![a] = "dropping"]
    /\ UNCHANGED <<held, taken, registry, cumulative, owner, made, raced>>

\* BUG variant of Finish: the lock of the registry stays taken.
FinishLocked(r) ==
    /\ reader[r].stage = "listing" /\ registry \subseteq reader[r].seen
    /\ reader' = [reader EXCEPT ![r] = Unread]
    /\ raced' = [q \in Totalling |-> IF q = r THEN {} ELSE raced[q]]
    /\ UNCHANGED <<counters, registry, cumulative, owner, made>>

\* The lock is released and the read returns.
Finish(r) ==
    /\ reader[r].stage = "listing" /\ registry \subseteq reader[r].seen
    /\ owner' = Nobody
    /\ reader' = [reader EXCEPT ![r] = Unread]
    /\ raced' = [q \in Totalling |-> IF q = r THEN {} ELSE raced[q]]
    /\ UNCHANGED <<counters, registry, cumulative, made>>

-----------------------------------------------------------------------------
Settle(a) == TakeFold(a) \/ DropCounters(a)
Step(r) == \/ Lock(r) \/ Finish(r)
           \/ \E a \in Actors : Upgrade(r, a) \/ Snapshot(r, a)

Next ==
    \/ \E a \in Actors : \/ NewCounters(a) \/ CountActor(a) \/ Record(a)
                         \/ TakeDrain(a) \/ Stop(a) \/ Settle(a)
    \/ \E r \in Readers : Start(r) \/ Step(r)

\* Threads run; a lock that is released again and again is had in the end.
Fairness == /\ \A a \in Actors : WF_vars(Settle(a))
            /\ \A r \in Readers : WF_vars(Step(r)) /\ SF_vars(Lock(r))

Spec == Init /\ [][Next]_vars /\ Fairness

-----------------------------------------------------------------------------
(* What must hold. *)

\* Every broadcast recorded is in exactly one place: the counters of its actor,
\* a take or the totals, also across a stop with a reader holding on (take,
\* BroadcastCounts::drop).
In(n, s) == IF n \in s THEN 1 ELSE 0
EveryBroadcastIsKept ==
    \A a \in Actors : \A n \in 1..made[a] :
        In(n, held[a]) + In(n, taken[a]) + totals[a][n] = 1

\* No read counts a broadcast twice or one that was not made, whatever takes and
\* stops it races (cumulative_broadcast_counts reads the totals before the live
\* counts).
NothingCountedTwice ==
    \A r \in Readers : \A a \in Actors : \A n \in Broadcasts :
        reader[r].sum[a][n] <= IF n <= made[a] THEN 1 ELSE 0

\* A cumulative read that returns has every broadcast that was made before it
\* started, and numbers every actor it has broadcasts of, but for the actors
\* whose own spawn, take or stop overlapped it.
QuietReadIsComplete ==
    [][\A r \in Totalling :
           reader[r].stage # "idle" /\ reader'[r].stage = "idle" =>
               \A a \in Actors \ raced[r] :
                   /\ \A n \in 1..reader[r].from[a] : reader[r].sum[a][n] = 1
                   /\ (\E n \in Broadcasts : reader[r].sum[a][n] > 0)
                          => a \in reader[r].number]_vars

\* Every read ends, and what an actor leaves behind reaches the totals.
ReadEnds == \A r \in Readers : reader[r].stage = "locking" ~> reader[r].stage = "idle"
CountsReachTotals ==
    \A a \in Actors : phase[a] \in {"released", "dropping"} ~> phase[a] = "gone"
=============================================================================
