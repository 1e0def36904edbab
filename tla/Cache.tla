------------------------------- MODULE Cache -------------------------------
(***************************************************************************)
(* Caches that follow an actor through its broadcast channel: how they are *)
(* made (Handle::cache, cache_from, clone, clone_newest), every way of     *)
(* reading one, and Handle::wait_until, which waits through a cache of its *)
(* own.  The actor is reduced to what Actor shows of it: jobs run one at a *)
(* time in the order they were accepted.                                   *)
(*                                                                         *)
(* A cache is read by one task at a time (&mut self), but the actor sends  *)
(* between any two receives, and between subscribing and reading.          *)
(***************************************************************************)
EXTENDS Integers, SequencesExt, FiniteSets

CONSTANTS
    Caches,        \* names for caches
    Values,        \* views
    InitialValue,  \* the actor's first value
    Wanted,        \* the values the predicate of wait_until accepts
    CAPACITY,      \* of the broadcast channel
    MaxWrites      \* bound: set jobs over a behaviour

ASSUME CacheAssumption == InitialValue \in Values /\ Wanted \subseteq Values
                          /\ MaxWrites \in Nat /\ CAPACITY \in Nat \ {0}

VARIABLES
    actorVal,   \* the actor's value
    jobs,       \* jobs accepted and not yet run: sets, and gets for a cache
    sending,    \* the running set found receivers and is about to send
    log,        \* the values sent on the broadcast channel
    actorUp,    \* the actor task owns its broadcast sender
    handleUp,   \* some Handle does
    writes,     \* set jobs made so far
    cache,      \* the caches
    call,       \* the call in progress on each cache
    ret         \* how the last call on each cache ended

actorVars == <<actorVal, jobs, sending, log, actorUp, handleUp, writes>>
vars == <<actorVars, cache, call, ret>>

Channel == INSTANCE BroadcastChannel

Closed == ~actorUp /\ ~handleUp
Tail_ == Channel!TailOf(log)
Reading(k) == Channel!Reads(log, cache[k].pos, Closed)

NoCache == [st |-> "none", use |-> "cache", inner |-> InitialValue, pos |-> 1,
            first |-> FALSE, synced |-> FALSE, handed |-> 0]
Idle == [op |-> "idle", stage |-> "none", got |-> FALSE, first |-> FALSE, to |-> {}]
NoResult == [res |-> "none", val |-> InitialValue]

\* Cache::new, and what clone makes: at position p, first read outstanding.
NewCache(v, p, s) ==
    [st |-> "live", use |-> "cache", inner |-> v, pos |-> p, first |-> TRUE,
     synced |-> s, handed |-> p - 1]

\* store: the value received at its position becomes the one the cache holds.
Stored(k) ==
    LET p == Channel!Advance(log, cache[k].pos)
    IN [cache[k] EXCEPT !.inner = log[cache[k].pos], !.pos = p, !.synced = TRUE,
                        !.handed = p - 1]

\* A lagging receiver moves on to the oldest value it can still read.
Skipped(k) == [cache[k] EXCEPT !.pos = Channel!Advance(log, @)]

Receivers == {k \in Caches : cache[k].st # "none"}
Live(k) == cache[k].st = "live" /\ call[k].op = "idle"
Usable(k) == Live(k) /\ cache[k].use = "cache"

TypeOK ==
    /\ actorVal \in Values
    /\ jobs \in Seq([kind : {"set"}, val : Values] \cup [kind : {"get"}, for : Caches])
    /\ sending \in BOOLEAN /\ actorUp \in BOOLEAN /\ handleUp \in BOOLEAN
    /\ log \in Seq(Values) /\ Len(log) <= MaxWrites
    /\ writes \in 0..MaxWrites
    /\ cache \in [Caches -> [st : {"none", "subscribed", "getting", "cloning", "live"},
                             use : {"cache", "wait"}, inner : Values,
                             pos : 1..MaxWrites + 1, first : BOOLEAN,
                             synced : BOOLEAN, handed : 0..MaxWrites]]
    /\ call \in [Caches ->
            [op : {"idle", "newest", "try_recv_newest", "recv", "recv_newest",
                   "wait_until", "clone_newest"},
             stage : {"none", "waiting", "draining"},
             got : BOOLEAN, first : BOOLEAN, to : SUBSET Caches]]
    /\ ret \in [Caches -> [res : {"none", "Ok", "None", "Closed", "Lagged", "panic"},
                           val : Values]]

Init ==
    /\ actorVal = InitialValue /\ jobs = <<>> /\ sending = FALSE /\ log = <<>>
    /\ actorUp = TRUE /\ handleUp = TRUE /\ writes = 0
    /\ cache = [k \in Caches |-> NoCache]
    /\ call = [k \in Caches |-> Idle]
    /\ ret = [k \in Caches |-> NoResult]

-----------------------------------------------------------------------------
(* The actor and its handles. *)

Write(v) ==
    /\ handleUp /\ actorUp /\ writes < MaxWrites
    /\ writes' = writes + 1
    /\ jobs' = Append(jobs, [kind |-> "set", val |-> v])
    /\ UNCHANGED <<actorVal, sending, log, actorUp, handleUp, cache, call, ret>>

\* set assigns and calls the broadcast function, which first asks whether
\* anybody receives; the answer may be out of date when the value is sent.
RunSet ==
    /\ actorUp /\ ~sending /\ jobs # <<>> /\ Head(jobs).kind = "set"
    /\ actorVal' = Head(jobs).val
    /\ jobs' = Tail(jobs)
    /\ sending' = (Receivers # {})
    /\ UNCHANGED <<log, actorUp, handleUp, writes, cache, call, ret>>

\* BUG variant of SendView: it sends again and again.
SendViewAgain ==
    /\ actorUp /\ sending
    /\ sending' = (Receivers # {})
    /\ log' = IF Receivers # {} THEN Append(log, actorVal) ELSE log
    /\ UNCHANGED <<actorVal, jobs, actorUp, handleUp, writes, cache, call, ret>>

SendView ==
    /\ actorUp /\ sending
    /\ sending' = FALSE
    /\ log' = IF Receivers # {} THEN Append(log, actorVal) ELSE log
    /\ UNCHANGED <<actorVal, jobs, actorUp, handleUp, writes, cache, call, ret>>

\* The answer to get.  cache() makes a cache of it, and wait_until goes on to
\* Cache::wait_until, whose first test is of this value.
RunGet ==
    /\ actorUp /\ ~sending /\ jobs # <<>> /\ Head(jobs).kind = "get"
    /\ jobs' = Tail(jobs)
    /\ LET k == Head(jobs).for
           waits == cache[k].use = "wait"
           made == [NewCache(actorVal, cache[k].pos, TRUE)
                        EXCEPT !.use = cache[k].use, !.first = ~waits]
       IN /\ cache' = [cache EXCEPT ![k] = made]
          /\ call' = IF waits /\ actorVal \notin Wanted
                     THEN [call EXCEPT ![k] = [Idle EXCEPT !.op = "wait_until",
                                                  !.stage = "waiting", !.first = TRUE]]
                     ELSE call
          /\ ret' = [ret EXCEPT ![k] = [res |-> "Ok", val |-> actorVal]]
    /\ UNCHANGED <<actorVal, sending, log, actorUp, handleUp, writes>>

\* A panic or the runtime going away: queued jobs are dropped, and whoever
\* waits for a get panics, dropping the receiver it had.  A broadcast the
\* actor dies before is never made: sending stays.
ActorDies ==
    /\ actorUp
    /\ actorUp' = FALSE /\ jobs' = <<>>
    /\ cache' = [k \in Caches |-> IF cache[k].st = "getting" THEN NoCache
                                                              ELSE cache[k]]
    /\ ret' = [k \in Caches |-> IF cache[k].st = "getting"
                                THEN [NoResult EXCEPT !.res = "panic"] ELSE ret[k]]
    /\ UNCHANGED <<actorVal, sending, log, handleUp, writes, call>>

\* Handle::cache and Handle::wait_until borrow a handle until they are done.
Borrowed == \E k \in Caches : \/ cache[k].st \in {"subscribed", "getting"}
                              \/ cache[k].use = "wait" /\ cache[k].st # "none"

DropHandles ==
    /\ handleUp /\ ~Borrowed
    /\ handleUp' = FALSE
    /\ UNCHANGED <<actorVal, jobs, sending, log, actorUp, writes, cache, call, ret>>

ActorEnds ==
    /\ actorUp /\ ~handleUp /\ jobs = <<>> /\ ~sending
    /\ actorUp' = FALSE
    /\ UNCHANGED <<actorVal, jobs, sending, log, handleUp, writes, cache, call, ret>>

-----------------------------------------------------------------------------
(* Making caches. *)

\* Handle::cache and Handle::wait_until subscribe ...
Subscribe(k, u) ==
    /\ handleUp /\ cache[k].st = "none"
    /\ cache' = [cache EXCEPT ![k] = [NoCache EXCEPT !.st = "subscribed", !.use = u,
                                        !.pos = Tail_]]
    /\ ret' = [ret EXCEPT ![k] = NoResult]
    /\ UNCHANGED <<actorVars, call>>

\* ... and then call get; an actor that is gone makes the call panic.
Request(k) ==
    /\ cache[k].st = "subscribed"
    /\ IF actorUp
       THEN /\ cache' = [cache EXCEPT ![k].st = "getting"]
            /\ jobs' = Append(jobs, [kind |-> "get", for |-> k])
            /\ UNCHANGED ret
       ELSE /\ cache' = [cache EXCEPT ![k] = NoCache]
            /\ ret' = [ret EXCEPT ![k] = [NoResult EXCEPT !.res = "panic"]]
            /\ UNCHANGED jobs
    /\ UNCHANGED <<actorVal, sending, log, actorUp, handleUp, writes, call>>

CacheFrom(k, v) ==
    /\ handleUp /\ cache[k].st = "none"
    /\ cache' = [cache EXCEPT ![k] = NewCache(v, Tail_, FALSE)]
    /\ ret' = [ret EXCEPT ![k] = NoResult]
    /\ UNCHANGED <<actorVars, call>>

\* The clone holds what k read last and misses what k has yet to read.
Clone(k, d) ==
    /\ Usable(k) /\ cache[d].st = "none"
    /\ cache' = [cache EXCEPT ![d] =
            NewCache(cache[k].inner, Tail_, cache[k].synced /\ cache[k].pos = Tail_)]
    /\ ret' = [ret EXCEPT ![d] = NoResult]
    /\ UNCHANGED <<actorVars, call>>

\* clone_newest, and spawn_throttle on a cache: resubscribe, then drain.
CloneNewest(k, d) ==
    /\ Usable(k) /\ cache[d].st = "none"
    /\ cache' = [cache EXCEPT ![d] = [NoCache EXCEPT !.st = "cloning", !.pos = Tail_]]
    /\ call' = [call EXCEPT ![k] = [Idle EXCEPT !.op = "clone_newest",
                    !.stage = "draining", !.to = {d}]]
    /\ ret' = [ret EXCEPT ![d] = NoResult]
    /\ UNCHANGED actorVars

DropCache(k) ==
    /\ Usable(k)
    /\ cache' = [cache EXCEPT ![k] = NoCache]
    /\ ret' = [ret EXCEPT ![k] = NoResult]
    /\ UNCHANGED <<actorVars, call>>

-----------------------------------------------------------------------------
(* Reading a cache. *)

Result(k, r, v) == ret' = [ret EXCEPT ![k] = [res |-> r, val |-> v]]

\* is_first_request: the value held has not been handed out yet.
Begin(k, o, s) ==
    /\ cache' = [cache EXCEPT ![k].first = FALSE]
    /\ call' = [call EXCEPT ![k] = [Idle EXCEPT !.op = o, !.stage = s,
                                        !.first = cache[k].first]]
    /\ Result(k, "none", cache[k].inner)
    /\ UNCHANGED actorVars

HandOutFirst(k) ==
    /\ cache[k].first
    /\ cache' = [cache EXCEPT ![k].first = FALSE]
    /\ Result(k, "Ok", cache[k].inner)
    /\ UNCHANGED <<actorVars, call>>

Newest(k) == Usable(k) /\ Begin(k, "newest", "draining")
TryRecvNewest(k) == Usable(k) /\ Begin(k, "try_recv_newest", "draining")

RecvNewest(k) ==
    Usable(k) /\ Begin(k, "recv_newest", IF cache[k].first THEN "draining" ELSE "waiting")

Recv(k) ==
    /\ Usable(k)
    /\ HandOutFirst(k) \/ (~cache[k].first /\ Begin(k, "recv", "waiting"))

TryRecv(k) ==
    /\ Usable(k)
    /\ \/ HandOutFirst(k)
       \/ /\ ~cache[k].first
          /\ LET r == Reading(k)
                 read == IF r = "Ok" THEN Stored(k) ELSE Skipped(k)
             IN /\ cache' = [cache EXCEPT ![k] = read]
                /\ Result(k, IF r = "Empty" THEN "None" ELSE r, read.inner)
          /\ UNCHANGED <<actorVars, call>>

\* BUG variant of WaitUntil: waits for an update without a first test.
WaitUntilNext(k) == Usable(k) /\ Begin(k, "wait_until", "waiting")

WaitUntil(k) ==
    /\ Usable(k)
    /\ IF cache[k].first /\ cache[k].inner \in Wanted
       THEN HandOutFirst(k)
       ELSE Begin(k, "wait_until", "waiting")

\* The read in progress ends, and leaves the cache as c.
End(k, r, c) ==
    /\ cache' = [cache EXCEPT ![k] = c]
    /\ call' = [call EXCEPT ![k] = Idle]
    /\ Result(k, r, c.inner)

\* A call waiting in rx.recv().await can go on.
\* BUG variant of Ready: a closed channel is waited on like an empty one.
ReadyUnlessClosed(k) == call[k].stage = "waiting" /\ Reading(k) \in {"Ok", "Lagged"}
Ready(k) == call[k].stage = "waiting" /\ Reading(k) # "Empty"

ReceiveValue(k) ==
    /\ Ready(k) /\ Reading(k) = "Ok"
    /\ CASE call[k].op = "recv" -> End(k, "Ok", Stored(k))
         [] call[k].op = "recv_newest" ->
              /\ cache' = [cache EXCEPT ![k] = [Stored(k) EXCEPT !.handed = cache[k].handed]]
              /\ call' = [call EXCEPT ![k].stage = "draining", ![k].got = TRUE]
              /\ UNCHANGED ret
         [] call[k].op = "wait_until" ->
              IF Stored(k).inner \in Wanted
              THEN End(k, "Ok", Stored(k))
              ELSE cache' = [cache EXCEPT ![k] = Stored(k)] /\ UNCHANGED <<call, ret>>
    /\ UNCHANGED actorVars

\* Only recv reports lag, the others log it and go on.
ReceiveLag(k) ==
    /\ Ready(k) /\ Reading(k) = "Lagged"
    /\ IF call[k].op = "recv"
       THEN End(k, "Lagged", Skipped(k))
       ELSE cache' = [cache EXCEPT ![k] = Skipped(k)] /\ UNCHANGED <<call, ret>>
    /\ UNCHANGED actorVars

ReceiveClosed(k) ==
    /\ Ready(k) /\ Reading(k) = "Closed"
    /\ End(k, "Closed", cache[k])
    /\ UNCHANGED actorVars

\* The cache Handle::wait_until made is dropped when its wait is over.
DropWaitCache(k) ==
    /\ Live(k) /\ cache[k].use = "wait"
    /\ cache' = [cache EXCEPT ![k] = NoCache]
    /\ UNCHANGED <<actorVars, call, ret>>

\* A call whose future is dropped while it waits.
Cancel(k) ==
    /\ call[k].stage = "waiting"
    /\ call' = [call EXCEPT ![k] = Idle]
    /\ cache' = [cache EXCEPT ![k] = IF @.use = "wait" THEN NoCache ELSE @]
    /\ UNCHANGED <<actorVars, ret>>

\* drain_to_newest, one try_recv at a time.
Drains(k) == call[k].stage = "draining" /\ Reading(k) \in {"Ok", "Lagged"}

\* BUG variant of DrainOne: a lagging cache resubscribes.
DrainOneResubscribing(k) ==
    /\ Drains(k)
    /\ cache' = [cache EXCEPT ![k] =
            IF Reading(k) = "Ok" THEN [Stored(k) EXCEPT !.handed = cache[k].handed]
                                 ELSE [@ EXCEPT !.pos = Tail_]]
    /\ call' = [call EXCEPT ![k].got = @ \/ Reading(k) = "Ok"]
    /\ UNCHANGED <<actorVars, ret>>

DrainOne(k) ==
    /\ Drains(k)
    /\ cache' = [cache EXCEPT ![k] =
            IF Reading(k) = "Ok" THEN [Stored(k) EXCEPT !.handed = cache[k].handed]
                                 ELSE Skipped(k)]
    /\ call' = [call EXCEPT ![k].got = @ \/ Reading(k) = "Ok"]
    /\ UNCHANGED <<actorVars, ret>>

\* BUG variant of DrainFails: a closed channel fails the drain in any case.
DrainFailsAlways(k) == Reading(k) = "Closed"

\* A closed channel fails the drain unless a value was read before.
DrainFails(k) == Reading(k) = "Closed" /\ ~call[k].got

\* Only try_recv_newest passes the failure on, also for a first read.
DrainEnd(k) ==
    /\ call[k].stage = "draining" /\ Reading(k) \in {"Empty", "Closed"}
    /\ LET tries == call[k].op = "try_recv_newest"
           failed == tries /\ DrainFails(k)
           none == tries /\ ~call[k].got /\ ~call[k].first
           mine == IF failed THEN cache[k]
                   ELSE [cache[k] EXCEPT !.handed = cache[k].pos - 1]
       IN /\ cache' = [d \in Caches |->
                IF d = k THEN mine
                ELSE IF d \in call[k].to
                THEN NewCache(cache[k].inner, cache[d].pos, cache[k].synced)
                ELSE cache[d]]
          /\ call' = [call EXCEPT ![k] = Idle]
          /\ Result(k, IF failed THEN "Closed" ELSE IF none THEN "None" ELSE "Ok",
                    cache[k].inner)
    /\ UNCHANGED actorVars

\* BUG variant of WaitForExit: only the end of the channel is watched.
WaitForClosed(k) ==
    /\ cache[k].use = "wait" /\ call[k].stage = "waiting" /\ Closed
    /\ End(k, "panic", NoCache)
    /\ UNCHANGED actorVars

\* Handle::wait_until: select! takes the exit signal, perhaps before a value.
WaitForExit(k) ==
    /\ cache[k].use = "wait" /\ call[k].stage = "waiting" /\ ~actorUp
    /\ End(k, "panic", NoCache)
    /\ UNCHANGED actorVars

-----------------------------------------------------------------------------
ActorStep == RunSet \/ SendView \/ RunGet \/ ActorEnds
Progress(k) ==
    \/ Request(k)
    \/ ReceiveValue(k) \/ ReceiveLag(k) \/ ReceiveClosed(k)
    \/ DrainOne(k) \/ DrainEnd(k)
    \/ WaitForExit(k) \/ DropWaitCache(k)

Read(k) == Newest(k) \/ TryRecvNewest(k) \/ RecvNewest(k) \/ Recv(k)
           \/ TryRecv(k) \/ WaitUntil(k)

Next ==
    \/ \E v \in Values : Write(v)
    \/ ActorStep
    \/ ActorDies
    \/ DropHandles
    \/ \E k \in Caches : \/ \E u \in {"cache", "wait"} : Subscribe(k, u)
                         \/ \E v \in Values : CacheFrom(k, v)
                         \/ \E d \in Caches : Clone(k, d) \/ CloneNewest(k, d)
                         \/ DropCache(k)
                         \/ Read(k)
                         \/ Progress(k)
                         \/ Cancel(k)

\* The executor runs the actor and every read that can go on.
Fairness == WF_vars(ActorStep) /\ \A k \in Caches : WF_vars(Progress(k))

Spec == Init /\ [][Next]_vars /\ Fairness

-----------------------------------------------------------------------------
(* What must hold. *)

\* A cache that has nothing left to read holds the actor's value, whatever
\* was sent while it was made, however far it lagged, and also when its
\* values reached it through clone_newest.  (Caches made from a given value,
\* and clones of a cache with unread values, from their first update on.)
CaughtUpIsCurrent ==
    \A k \in Caches :
        cache[k].st = "live" /\ cache[k].synced /\ cache[k].pos = Tail_ /\ ~sending =>
            cache[k].inner = actorVal

\* Closed is only reported when every update was handed to the reader by an
\* earlier read: a final update is never swallowed (drain_to_newest).
ClosedAfterEverything ==
    \A k \in Caches : ret[k].res = "Closed" =>
        Closed /\ cache[k].pos = Tail_ /\ cache[k].handed = cache[k].pos - 1

\* A wait that began by testing the value its cache held never waits, with
\* nothing left to test, on an actor whose value is wanted (wait_until).
NothingWaitsOnAMatch(k) ==
    cache[k].synced /\ cache[k].pos = Tail_ /\ ~sending => actorVal \notin Wanted
FreshWaitMissesNothing ==
    \A k \in Caches : call[k].op = "wait_until" /\ call[k].first =>
        NothingWaitsOnAMatch(k)

\* The same of every wait, as the documentation of wait_until has it.
WaitMissesNothing ==
    \A k \in Caches : call[k].op = "wait_until" => NothingWaitsOnAMatch(k)

\* A wait through a handle ends when the actor does, though the handle it
\* borrows keeps the broadcast channel open (Handle::wait_until).
HandleWaitEnds ==
    \A k \in Caches : cache[k].use = "wait" /\ ~actorUp ~> cache[k].st = "none"

\* Every read of a cache ends once the channel is closed.
ClosedEndsReads ==
    \A k \in Caches : call[k].op # "idle" /\ Closed ~> call[k].op = "idle"

\* Cache::wait_until returns once the actor has stopped, as documented.
StoppedEndsWait ==
    \A k \in Caches : call[k].op = "wait_until" /\ ~actorUp ~> call[k].op = "idle"
=============================================================================
