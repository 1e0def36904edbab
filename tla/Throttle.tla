------------------------------ MODULE Throttle ------------------------------
(***************************************************************************)
(* A throttle: a task that follows an actor's broadcasts and forwards them *)
(* to a callback, at once (OnEvent), every period (Interval) or every      *)
(* period in which something arrived (OnEventWhen).  A value stands for    *)
(* its place among the broadcasts, 0 being the actor's first value.  One   *)
(* that was never broadcast, such as the V::default() of a cache, is given *)
(* any place.                                                              *)
(*                                                                         *)
(* Time enters only through the boundaries of the period, which is all the *)
(* interval distinguishes: owed counts those not ticked for yet.           *)
(***************************************************************************)
EXTENDS Integers, Sequences

CONSTANTS
    Frequencies,    \* the frequencies to look at
    Origins,        \* what throttles are spawned from
    CAPACITY,       \* of the broadcast channel
    MaxBroadcasts,  \* bound: broadcasts over a behaviour
    MaxOwed         \* bound: boundaries counted while the task is busy

ASSUME ThrottleAssumption ==
    /\ Frequencies \subseteq {"OnEvent", "Interval", "OnEventWhen"}
    /\ Origins \subseteq {"handle", "cache", "receiver", "value"}
    /\ MaxBroadcasts \in Nat /\ MaxOwed \in Nat \ {0} /\ CAPACITY \in Nat \ {0}

VARIABLES
    log,       \* the broadcasts: log[i] = i
    open,      \* somebody owns a broadcast sender
    freq,      \* the throttle's Frequency
    isAsync,   \* spawn_async: the callback is awaited
    attached,  \* val_rx is Some
    since,     \* where val_rx stood when it was handed over
    initial,   \* init: Option<V>
    st,        \* where the task is
    pos,       \* val_rx
    current,   \* current_val
    pending,   \* event_pending
    got,       \* drain_available: received
    owed,      \* boundaries passed since the interval last ticked
    aborted,   \* Throttle::abort was called
    sent,      \* the value last passed to the callback
    by,        \* what made the throttle send it
    wokeAt,    \* how much had been broadcast when the task last woke
    grants     \* what permitted a call since the last boundary: start and ticks

world == <<log, open>>
config == <<freq, isAsync, attached, since, initial>>
seen == <<sent, by, wokeAt, grants>>
vars == <<world, config, st, pos, current, pending, got, owed, aborted, seen>>

None == -1
Channel == INSTANCE BroadcastChannel

Ended == st \in {"finished", "cancelled"}
Ticks == freq # "OnEvent"
Spawning == st \in {"getting", "syncing"}
\* recv_value: without a receiver it is never ready.
Reading == IF attached THEN Channel!Reads(log, pos, ~open) ELSE "Empty"

TypeOK ==
    /\ log \in Seq(1..MaxBroadcasts) /\ open \in BOOLEAN
    /\ freq \in {"OnEvent", "Interval", "OnEventWhen"}
    /\ isAsync \in BOOLEAN /\ attached \in BOOLEAN
    /\ st \in {"none", "getting", "syncing", "spawned", "waiting", "draining",
               "calling", "finished", "cancelled"}
    /\ pos \in 1..MaxBroadcasts + 1 /\ since \in 1..MaxBroadcasts + 1
    /\ current \in None..MaxBroadcasts /\ sent \in None..MaxBroadcasts
    /\ initial \in None..MaxBroadcasts
    /\ pending \in BOOLEAN /\ got \in BOOLEAN /\ aborted \in BOOLEAN
    /\ owed \in 0..MaxOwed /\ grants \in 0..2
    /\ by \in {"none", "init", "value", "tick"}
    /\ wokeAt \in 0..MaxBroadcasts
    /\ (pending => freq = "OnEventWhen") /\ (owed > 0 => Ticks)

Init ==
    /\ log = <<>> /\ open = TRUE
    /\ freq \in Frequencies /\ isAsync \in BOOLEAN /\ attached = FALSE
    /\ since = 1 /\ initial = None
    /\ st = "none" /\ pos = 1 /\ current = None
    /\ pending = FALSE /\ got = FALSE /\ owed = 0 /\ aborted = FALSE
    /\ sent = None /\ by = "none" /\ wokeAt = 0 /\ grants = 0

-----------------------------------------------------------------------------
(* The actor, its handles and the clock. *)

Broadcast ==
    /\ open /\ Len(log) < MaxBroadcasts
    /\ log' = Append(log, Len(log) + 1)
    /\ UNCHANGED <<open, config, st, pos, current, pending, got, owed, aborted, seen>>

\* The last Handle and the actor task are gone.  Handle::spawn_throttle borrows
\* a handle and needs the actor; a cache and a receiver do without either.
CloseSenders ==
    /\ open /\ st # "getting"
    /\ open' = FALSE
    /\ UNCHANGED <<log, config, st, pos, current, pending, got, owed, aborted, seen>>

\* The clock reaches a boundary of the period.
Boundary ==
    /\ Ticks /\ ~Ended /\ ~Spawning /\ st \notin {"none", "spawned"}
    /\ owed' = IF owed < MaxOwed THEN owed + 1 ELSE owed
    /\ grants' = 0
    /\ UNCHANGED <<world, config, st, pos, current, pending, got, aborted, sent, by,
                   wokeAt>>

Abort ==
    /\ st # "none" /\ ~Spawning /\ ~Ended /\ ~aborted
    /\ aborted' = TRUE
    /\ UNCHANGED <<world, config, st, pos, current, pending, got, owed, seen>>

-----------------------------------------------------------------------------
(* Spawning. *)

\* A new receiver starts at the tail.
SubscribeFor(next) ==
    /\ st = "none"
    /\ st' = next /\ attached' = TRUE /\ pos' = Channel!TailOf(log)
    /\ UNCHANGED <<world, freq, isAsync, since, initial, current, pending, got, owed,
                   aborted, seen>>

\* ThrottleTask, with init v.
SpawnWith(v) ==
    /\ st' = "spawned" /\ current' = v
    /\ initial' = v /\ since' = pos'
    /\ UNCHANGED <<world, freq, isAsync, pending, got, owed, aborted, seen>>

\* Handle::spawn_throttle subscribes ...
HandleSubscribes == "handle" \in Origins /\ open /\ SubscribeFor("getting")

\* ... and then asks the actor for its value.
SpawnFromHandle ==
    /\ st = "getting"
    /\ UNCHANGED <<attached, pos>>
    /\ SpawnWith(Len(log))

\* Cache::spawn_throttle resubscribes ...
CacheResubscribes == "cache" \in Origins /\ SubscribeFor("syncing")

\* ... and then drains the cache.  One that has nothing to read may hold any
\* value: cache_from was given it, or it was cloned before the updates.
SpawnFromCache ==
    /\ st = "syncing"
    /\ UNCHANGED <<attached, pos>>
    /\ \E v \in 0..Len(log) :
          /\ v = Len(log) \/ pos > Len(log)
          /\ SpawnWith(v)

\* Throttle::spawn, with a receiver that was used or left alone for a while, and
\* any initial value or none.
SpawnFromReceiver ==
    /\ "receiver" \in Origins /\ st = "none"
    /\ attached' = TRUE
    /\ pos' \in 1..Channel!TailOf(log)
    /\ \E v \in None..Len(log) : SpawnWith(v)

\* Throttle::spawn_interval: a fixed value and no receiver.
SpawnInterval ==
    /\ "value" \in Origins /\ st = "none" /\ freq = "Interval"
    /\ UNCHANGED <<attached, pos>>
    /\ SpawnWith(0)

-----------------------------------------------------------------------------
(* The task. *)

\* call(&client, value)
Call(v, why) ==
    st' = "calling" /\ sent' = v /\ by' = why

Grant == grants' = IF grants < 2 THEN grants + 1 ELSE grants

\* Timing::new and throttle_interval, whose reset moves the first tick a
\* period out, and the initial call.
Start ==
    /\ st = "spawned" /\ ~aborted
    /\ owed' = 0
    /\ wokeAt' = Len(log)
    /\ IF current = None
       THEN st' = "waiting" /\ UNCHANGED <<sent, by, grants>>
       ELSE Call(current, "init") /\ Grant
    /\ UNCHANGED <<world, config, pos, current, pending, got, aborted>>

\* MissedTickBehavior::Skip.  BUG variant of OwedAfterTick: Burst.
OwedAfterTickBurst == owed - 1
OwedAfterTick == 0

WakeTick ==
    /\ st = "waiting" /\ Ticks /\ owed > 0
    /\ owed' = OwedAfterTick
    /\ st' = "draining" /\ got' = FALSE
    /\ wokeAt' = Len(log)
    /\ Grant
    /\ UNCHANGED <<world, config, pos, current, pending, aborted, sent, by>>

\* drain_available, one try_recv at a time.
\* BUG variant of Drains: the tick sends the value it holds.
DrainsNothing == FALSE
Drains == st = "draining" /\ Reading \in {"Ok", "Lagged"}

DrainOne ==
    /\ Drains
    /\ pos' = Channel!Advance(log, pos)
    /\ current' = IF Reading = "Ok" THEN log[pos] ELSE current
    /\ got' = (got \/ Reading = "Ok")
    /\ UNCHANGED <<world, config, st, pending, owed, aborted, seen>>

\* BUG variant of PendingAfterTick: on_tick only looks at event_pending.
PendingAfterTickKept == pending \/ (got /\ freq = "OnEventWhen")
PendingAfterTick == FALSE

\* record_value if something was drained, on_tick, and current.
DrainEnd ==
    /\ st = "draining" /\ ~Drains
    /\ pending' = PendingAfterTick
    /\ IF (freq = "Interval" \/ pending \/ got) /\ current # None
       THEN Call(current, "tick")
       ELSE st' = "waiting" /\ UNCHANGED <<sent, by>>
    /\ UNCHANGED <<world, config, pos, current, got, owed, aborted, wokeAt, grants>>

\* record_value.
\* BUG variants of Recorded: the event is not noted, or noted in every variant.
RecordedNever == pending
RecordedAlways == TRUE
Recorded == pending \/ freq = "OnEventWhen"

WakeValue ==
    /\ st = "waiting" /\ Reading = "Ok"
    /\ pos' = Channel!Advance(log, pos) /\ current' = log[pos]
    /\ pending' = Recorded
    /\ wokeAt' = Len(log)
    /\ IF freq = "OnEvent" THEN Call(log[pos], "value")
                           ELSE UNCHANGED <<st, sent, by>>
    /\ UNCHANGED <<world, config, got, owed, aborted, grants>>

WakeLagged ==
    /\ st = "waiting" /\ Reading = "Lagged"
    /\ pos' = Channel!Advance(log, pos)
    /\ UNCHANGED <<world, config, st, current, pending, got, owed, aborted, seen>>

\* BUG variant of WakeClosed: a closed channel is left to the ticks.
WakeClosedIgnored ==
    /\ st = "waiting" /\ Reading = "Closed" /\ ~Ticks
    /\ st' = "finished"
    /\ UNCHANGED <<world, config, pos, current, pending, got, owed, aborted, seen>>

\* Closed ends the task whatever is pending.
WakeClosed ==
    /\ st = "waiting" /\ Reading = "Closed"
    /\ st' = "finished"
    /\ UNCHANGED <<world, config, pos, current, pending, got, owed, aborted, seen>>

CallReturns ==
    /\ st = "calling"
    /\ st' = "waiting"
    /\ UNCHANGED <<world, config, pos, current, pending, got, owed, aborted, seen>>

\* BUG variant of Cancel: only an awaited callback gives way.
CancelAsyncOnly ==
    /\ aborted /\ isAsync /\ st \in {"spawned", "waiting", "calling"}
    /\ st' = "cancelled"
    /\ UNCHANGED <<world, config, pos, current, pending, got, owed, aborted, seen>>

\* An aborted task stops before its first poll and at an await: in next, or
\* inside an awaited callback.
Cancel ==
    /\ aborted /\ (st \in {"spawned", "waiting"} \/ (st = "calling" /\ isAsync))
    /\ st' = "cancelled"
    /\ UNCHANGED <<world, config, pos, current, pending, got, owed, aborted, seen>>

-----------------------------------------------------------------------------
Wake == WakeTick \/ WakeValue \/ WakeLagged \/ WakeClosed
Task == Start \/ Wake \/ DrainOne \/ DrainEnd \/ CallReturns

Next ==
    \/ Broadcast \/ CloseSenders \/ Boundary \/ Abort
    \/ HandleSubscribes \/ SpawnFromHandle \/ CacheResubscribes \/ SpawnFromCache
    \/ SpawnFromReceiver \/ SpawnInterval
    \/ Start \/ WakeTick \/ WakeValue \/ WakeLagged \/ WakeClosed
    \/ DrainOne \/ DrainEnd \/ CallReturns \/ Cancel

\* The executor runs the task, callbacks return, time goes on; select! takes
\* a closed channel some time, and tokio's cooperative budget makes the loop
\* yield to an abort.
Fairness ==
    /\ WF_vars(Task) /\ WF_vars(Boundary)
    /\ SF_vars(WakeClosed) /\ SF_vars(Cancel)

Spec == Init /\ [][Next]_vars /\ Fairness

-----------------------------------------------------------------------------
(* What must hold. *)

\* The two interval frequencies permit at most one call in a period, the
\* initial one included, however long calls take and whatever ticks were
\* missed meanwhile (throttle_interval).
OncePerPeriod == Ticks => grants <= 1

\* What a tick sends is at least as new as every value broadcast before the
\* task woke for it, also when the tick was overdue (ThrottleState::next).  The
\* only exception is the value the throttle was spawned with, which may be old
\* (Cache::spawn_throttle after cache_from, Throttle::spawn): a tick repeats it
\* only while nothing has been broadcast since the receiver was handed over.
TickSendsNewest ==
    st = "calling" /\ by = "tick" /\ attached =>
        sent >= wokeAt \/ (sent = initial /\ wokeAt < since)

\* After the first call a callback never gets an older value, and gets the
\* same one again only from Interval (event_pending, drain_available).
CallStarts == st # "calling" /\ st' = "calling"
SendsOnlyNewer ==
    [][CallStarts /\ by \in {"value", "tick"} =>
           sent' > sent \/ (freq = "Interval" /\ sent' = sent)]_vars

\* Every update reaches the callback, or a newer one does, unless the
\* throttle is aborted or, with an interval, the channel closes first.
Outdated(i) == attached /\ ~Spawning /\ Len(log) >= i /\ pos <= i
UpdatesArrive ==
    \A i \in 1..MaxBroadcasts :
        Outdated(i) ~> sent >= i \/ aborted \/ (Ticks /\ ~open)

\* A throttle ends when every sender is gone, an interval's ticks being due
\* all the time notwithstanding (Throttle::spawn), and when it is aborted.
ClosedEnds == ~open /\ attached /\ ~Spawning ~> Ended
AbortEnds == aborted ~> Ended

\* A callback that is running finishes, as the documentation of abort says.
RunningCallFinishes == [][st = "calling" => st' # "cancelled"]_vars

\* Values reach an OnEvent callback in the order they were broadcast, and one
\* that is part of the initial value as well is absorbed (spawn_throttle).
SendsInOrder == [][CallStarts => sent' >= sent]_vars
=============================================================================
