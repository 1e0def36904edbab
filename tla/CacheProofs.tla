----------------------------- MODULE CacheProofs -----------------------------
(* What holds of Cache for any number of caches, values and writes and any  *)
(* capacity.  The actor's variables and one cache at a time are enough to   *)
(* say it: Good.                                                            *)
EXTENDS Cache, SequenceTheorems, FiniteSetTheorems, TLAPS

CacheJobs == [kind : {"set"}, val : Values] \cup [kind : {"get"}, for : Caches]
CacheRecs == [st : {"none", "subscribed", "getting", "cloning", "live"},
              use : {"cache", "wait"}, inner : Values, pos : Nat, first : BOOLEAN,
              synced : BOOLEAN, handed : Int]
Ops == {"idle", "newest", "try_recv_newest", "recv", "recv_newest", "wait_until",
        "clone_newest"}
CallRecs == [op : Ops, stage : {"none", "waiting", "draining"}, got : BOOLEAN,
             first : BOOLEAN, to : SUBSET Caches]
RetRecs == [res : {"none", "Ok", "None", "Closed", "Lagged", "panic"}, val : Values]

Shape ==
    /\ actorVal \in Values /\ jobs \in Seq(CacheJobs) /\ log \in Seq(Values)
    /\ sending \in BOOLEAN /\ actorUp \in BOOLEAN /\ handleUp \in BOOLEAN
    /\ cache \in [Caches -> CacheRecs]
    /\ call \in [Caches -> CallRecs]
    /\ ret \in [Caches -> RetRecs]

(***************************************************************************)
(* A cache x in call y whose last call ended with z.                       *)
(***************************************************************************)
\* A cache that is being made, or waits through a handle, borrows one.
Borrows(x) ==
    /\ x.use = "wait" => x.st # "none" /\ handleUp
    /\ x.st \in {"subscribed", "getting"} => handleUp

\* Only a finished cache is read, and only some reads wait or drain.
CallShape(x, y) ==
    /\ y.op # "idle" => x.st = "live"
    /\ y.stage = "waiting" => y.op \in {"recv", "recv_newest", "wait_until"}
    /\ y.stage = "draining" =>
            y.op \in {"newest", "try_recv_newest", "recv_newest", "clone_newest"}

\* The reader was given everything up to its position, unless a drain is about
\* to hand it over or there is more to read.
HandedOver(x, y) ==
    x.st = "live" => \/ x.handed = x.pos - 1
                     \/ x.pos <= Len(log)
                     \/ y.stage = "draining" /\ y.got

\* Nothing is handed over that was not sent.
Handed(x) == x.handed >= 0 /\ x.handed <= Len(log)

\* What there is to read ends with the actor's value.
Follows(x) ==
    x.st # "none" /\ x.pos <= Len(log) /\ ~sending => log[Len(log)] = actorVal

IsCurrent(x) ==
    x.st = "live" /\ x.synced /\ x.pos = Tail_ /\ ~sending => x.inner = actorVal

\* A wait that tested the value it began with has not held a wanted one since.
Tested(x, y) == y.op = "wait_until" /\ y.first => x.inner \notin Wanted

ClosedIsTrue(x, z) ==
    z.res = "Closed" => Closed /\ x.pos = Tail_ /\ x.handed = x.pos - 1

Good(x, y, z) ==
    /\ x.pos >= 1 /\ x.pos <= Len(log) + 1
    /\ Borrows(x)
    /\ CallShape(x, y)
    /\ HandedOver(x, y) /\ Handed(x)
    /\ Follows(x)
    /\ IsCurrent(x)
    /\ Tested(x, y)
    /\ ClosedIsTrue(x, z)

\* A get in the queue is the one request of a cache that waits for it.
Gets ==
    /\ \A i \in DOMAIN jobs : jobs[i].kind = "get" => cache[jobs[i].for].st = "getting"
    /\ \A i, j \in DOMAIN jobs :
            jobs[i].kind = "get" /\ jobs[j].kind = "get" /\ jobs[i].for = jobs[j].for =>
                i = j

\* A clone that a drain will make belongs to that drain alone.
Clones ==
    /\ \A k \in Caches : \A d \in call[k].to : cache[d].st = "cloning"
    /\ \A k, j \in Caches : \A d \in call[k].to : d \in call[j].to => k = j

IndInv ==
    /\ Shape
    /\ Gets
    /\ Clones
    /\ \A k \in Caches : Good(cache[k], call[k], ret[k])

-----------------------------------------------------------------------------
(* Reading the channel. *)

\* What a read finds says where the reader stands and where it goes.
LEMMA ReadingFacts ==
    ASSUME NEW k \in Caches, Shape, cache[k].pos >= 1, cache[k].pos <= Len(log) + 1
    PROVE  LET p == cache[k].pos
               q == Channel!Advance(log, p)
           IN /\ p \in Nat /\ q \in Nat /\ Len(log) \in Nat
              /\ Reading(k) \in {"Ok", "Lagged", "Closed", "Empty"}
              /\ Reading(k) = "Ok" => p <= Len(log) /\ q = p + 1
              /\ Reading(k) = "Lagged" => q >= 1 /\ q <= Len(log) /\ p <= Len(log)
              /\ Reading(k) = "Closed" => Closed /\ q = p /\ p = Len(log) + 1
              /\ Reading(k) = "Empty" => q = p /\ p = Len(log) + 1
  <1>1. cache[k] \in CacheRecs
    BY DEF Shape
  <1>2. cache[k].pos \in Nat
    BY <1>1 DEF CacheRecs
  <1>3. Len(log) \in Nat
    BY LenProperties DEF Shape
  <1>4. CAPACITY \in Nat \ {0}
    BY CacheAssumption
  <1> QED
    BY <1>2, <1>3, <1>4
    DEF Reading, Channel!Reads, Channel!Advance, Channel!Lagged, Channel!OldestOf

\* A reader's new record is one.
LEMMA ReadRecords ==
    ASSUME NEW k \in Caches, Shape, cache[k].pos >= 1, cache[k].pos <= Len(log) + 1
    PROVE  /\ Skipped(k) \in CacheRecs
           /\ Skipped(k) = [cache[k] EXCEPT !.pos = Channel!Advance(log, cache[k].pos)]
           /\ Reading(k) = "Ok" =>
                /\ Stored(k) \in CacheRecs
                /\ [Stored(k) EXCEPT !.handed = cache[k].handed] \in CacheRecs
  <1>1. cache[k] \in CacheRecs
    BY DEF Shape
  <1> DEFINE q == Channel!Advance(log, cache[k].pos)
  <1>2. q \in Nat /\ q - 1 \in Int
    BY ReadingFacts
  <1>3. Skipped(k) = [cache[k] EXCEPT !.pos = q]
    BY <1>1 DEF Skipped, CacheRecs
  <1>4. ASSUME Reading(k) = "Ok" PROVE log[cache[k].pos] \in Values
    <2>1. cache[k].pos \in 1..Len(log)
      BY ReadingFacts, <1>4
    <2> QED
      BY <2>1, ElementOfSeq DEF Shape
  <1> HIDE DEF q
  <1>5. Skipped(k) \in CacheRecs
    BY <1>1, <1>2, <1>3 DEF CacheRecs
  <1>6. Stored(k) = [cache[k] EXCEPT !.inner = log[cache[k].pos], !.pos = q,
                                     !.synced = TRUE, !.handed = q - 1]
    BY DEF Stored, q
  <1>7. Reading(k) = "Ok" => Stored(k) \in CacheRecs
    BY <1>1, <1>2, <1>4, <1>6 DEF CacheRecs
  <1>8. Reading(k) = "Ok" => [Stored(k) EXCEPT !.handed = cache[k].handed] \in CacheRecs
    BY <1>1, <1>7 DEF CacheRecs
  <1> QED
    BY <1>3, <1>5, <1>7, <1>8 DEF q

-----------------------------------------------------------------------------
(* One step of one cache. *)

\* Nothing but k changes, and what k becomes is good.
LEMMA OneCache ==
    ASSUME IndInv, NEW k \in Caches,
           NEW X \in CacheRecs, NEW Y \in CallRecs, NEW Z \in RetRecs,
           UNCHANGED <<actorVal, jobs, sending, log, actorUp, handleUp>>,
           cache' = [cache EXCEPT ![k] = X],
           call' = [call EXCEPT ![k] = Y],
           ret' = [ret EXCEPT ![k] = Z],
           cache[k].st \in {"getting", "cloning"} => X.st = cache[k].st,
           Y.to \subseteq call[k].to,
           Good(X, Y, Z)
    PROVE  IndInv'
  <1>1. /\ cache' \in [Caches -> CacheRecs]
        /\ call' \in [Caches -> CallRecs]
        /\ ret' \in [Caches -> RetRecs]
    BY DEF IndInv, Shape
  <1>2. /\ cache'[k] = X /\ call'[k] = Y /\ ret'[k] = Z
        /\ \A d \in Caches : d # k => /\ cache'[d] = cache[d]
                                      /\ call'[d] = call[d]
                                      /\ ret'[d] = ret[d]
    BY DEF IndInv, Shape
  <1>3. Shape'
    BY <1>1 DEF IndInv, Shape
  <1>4. Gets'
    <2>1. ASSUME NEW i \in DOMAIN jobs, jobs[i].kind = "get"
          PROVE  cache'[jobs[i].for].st = "getting"
      <3>1. cache[jobs[i].for].st = "getting"
        BY <2>1 DEF IndInv, Gets
      <3>2. jobs[i] \in CacheJobs
        BY ElementOfSeq, LenProperties DEF IndInv, Shape
      <3>3. jobs[i].for \in Caches
        BY <2>1, <3>2 DEF CacheJobs
      <3> QED
        BY <3>1, <3>3, <1>2
    <2> QED
      BY <2>1 DEF IndInv, Gets
  <1>5. Clones'
    <2>1. \A c \in Caches : call'[c].to \subseteq call[c].to
      BY <1>2
    <2>2. \A c \in Caches : call[c].to \subseteq Caches
      BY DEF IndInv, Shape, CallRecs
    <2>3. \A d \in Caches : cache[d].st = "cloning" => cache'[d].st = "cloning"
      BY <1>2
    <2> QED
      BY <2>1, <2>2, <2>3 DEF IndInv, Clones
  <1>6. \A c \in Caches : Good(cache'[c], call'[c], ret'[c])
    BY <1>2 DEF IndInv
  <1>7. ASSUME NEW c \in Caches PROVE Good(cache[c], call[c], ret[c])'
    BY <1>6 DEF Good, Borrows, Handed, CallShape, HandedOver, Follows, IsCurrent, Tested,
                ClosedIsTrue, Closed, Tail_, Channel!TailOf
  <1> QED
    BY <1>3, <1>4, <1>5, <1>7 DEF IndInv

\* What IndInv says of one cache.
LEMMA OfOne ==
    ASSUME IndInv, NEW k \in Caches
    PROVE  /\ Shape
           /\ cache[k] \in CacheRecs /\ call[k] \in CallRecs /\ ret[k] \in RetRecs
           /\ Good(cache[k], call[k], ret[k])
           /\ cache[k].pos >= 1 /\ cache[k].pos <= Len(log) + 1
  BY DEF IndInv, Shape, Good

\* The records the actions write are records.
LEMMA FreshRecords ==
    /\ NoCache \in CacheRecs /\ Idle \in CallRecs /\ NoResult \in RetRecs
    /\ \A v \in Values, p \in Nat, b \in BOOLEAN : NewCache(v, p, b) \in CacheRecs
  BY CacheAssumption DEF NoCache, CacheRecs, Idle, CallRecs, Ops, NoResult, RetRecs, NewCache

\* Writing back what was there changes nothing.
LEMMA Same ==
    ASSUME Shape, NEW k \in Caches
    PROVE  /\ cache = [cache EXCEPT ![k] = cache[k]]
           /\ call = [call EXCEPT ![k] = call[k]]
           /\ ret = [ret EXCEPT ![k] = ret[k]]
  BY DEF Shape

\* A cache that is forgotten, outside any call, is good.
LEMMA Forgotten ==
    ASSUME Shape, NEW y, NEW z, y.op = "idle", y.stage = "none",
           z.res = "Closed" => FALSE
    PROVE  Good(NoCache, y, z)
  <1>1. Len(log) \in Nat
    BY LenProperties DEF Shape
  <1> QED
    BY <1>1 DEF Good, Borrows, Handed, CallShape, HandedOver, Follows, IsCurrent, Tested,
                ClosedIsTrue, NoCache

\* Outside a call nothing waits.
LEMMA IdleIsNone ==
    ASSUME IndInv, NEW k \in Caches, call[k].op = "idle"
    PROVE  call[k].stage = "none"
  BY OfOne DEF Good, CallShape, CallRecs

\* A cache that is not finished is in no call.
LEMMA UnfinishedIsIdle ==
    ASSUME IndInv, NEW k \in Caches, cache[k].st # "live"
    PROVE  call[k].op = "idle" /\ call[k].stage = "none"
  BY OfOne, IdleIsNone DEF Good, CallShape

\* subscribe
LEMMA SubscribeStep ==
    ASSUME IndInv, NEW k \in Caches, NEW u \in {"cache", "wait"}, Subscribe(k, u)
    PROVE  IndInv'
  <1> DEFINE X == [NoCache EXCEPT !.st = "subscribed", !.use = u, !.pos = Tail_]
  <1>1. Len(log) \in Nat
    BY LenProperties, OfOne DEF Shape
  <1>2. X \in CacheRecs
    <2>1. Tail_ \in Nat
      BY <1>1 DEF Tail_, Channel!TailOf
    <2>2. NoCache \in CacheRecs
      BY FreshRecords
    <2> QED
      BY <2>1, <2>2 DEF CacheRecs
  <1>3. call[k].op = "idle" /\ call[k].stage = "none"
    BY UnfinishedIsIdle DEF Subscribe
  <1>4. Good(X, call[k], NoResult)
    BY <1>1, <1>3 DEF Good, Borrows, Handed, CallShape, HandedOver, Follows, IsCurrent, Tested,
        ClosedIsTrue, NoCache, NoResult, Subscribe, Tail_, Channel!TailOf
  <1>5. cache[k].st \notin {"getting", "cloning"}
    BY DEF Subscribe
  <1> HIDE DEF X
  <1> QED
    BY <1>2, <1>4, <1>5, OfOne, FreshRecords, OneCache, Same DEF Subscribe, actorVars, X

\* Cache::new, from a given value or from another cache.
LEMMA NewIsGood ==
    ASSUME IndInv, NEW k \in Caches, cache[k].st # "live",
           NEW v \in Values, NEW b \in BOOLEAN, NEW p \in Nat,
           p >= 1, p <= Len(log) + 1,
           p <= Len(log) /\ ~sending => log[Len(log)] = actorVal,
           b /\ p = Tail_ /\ ~sending => v = actorVal,
           NEW z, z.res = "Closed" => FALSE
    PROVE  Good(NewCache(v, p, b), call[k], z)
  <1>1. Len(log) \in Nat
    BY LenProperties, OfOne DEF Shape
  <1>2. call[k].op = "idle" /\ call[k].stage = "none"
    BY UnfinishedIsIdle
  <1> QED
    BY <1>1, <1>2 DEF Good, Borrows, Handed, CallShape, HandedOver, Follows, IsCurrent, Tested,
        ClosedIsTrue, NewCache

\* A cache made of a given value follows the actor from its first update on.
LEMMA CacheFromStep ==
    ASSUME IndInv, NEW k \in Caches, NEW v \in Values, CacheFrom(k, v)
    PROVE  IndInv'
  <1>1. Len(log) \in Nat /\ Tail_ \in Nat /\ Tail_ = Len(log) + 1
    BY LenProperties, OfOne DEF Shape, Tail_, Channel!TailOf
  <1> DEFINE X == NewCache(v, Tail_, FALSE)
  <1>2. X \in CacheRecs
    BY <1>1, FreshRecords
  <1>a. FALSE \in BOOLEAN /\ cache[k].st # "live" /\ NoResult.res # "Closed"
    BY DEF CacheFrom, NoResult
  <1>b. Tail_ >= 1 /\ Tail_ <= Len(log) + 1 /\ ~(Tail_ <= Len(log))
    BY <1>1
  <1>3. Good(X, call[k], NoResult)
    BY ONLY IndInv, <1>1, <1>a, <1>b, NewIsGood
  <1>4. cache[k].st \notin {"getting", "cloning"}
    BY DEF CacheFrom
  <1> HIDE DEF X
  <1> QED
    BY <1>2, <1>3, <1>4, OfOne, FreshRecords, OneCache, Same DEF CacheFrom, actorVars, X

\* A clone holds the value its original read last, and nothing to read.
LEMMA CloneStep ==
    ASSUME IndInv, NEW k \in Caches, NEW d \in Caches, Clone(k, d)
    PROVE  IndInv'
  <1>1. Len(log) \in Nat /\ Tail_ \in Nat /\ Tail_ = Len(log) + 1
    BY LenProperties, OfOne DEF Shape, Tail_, Channel!TailOf
  <1> DEFINE b == cache[k].synced /\ cache[k].pos = Tail_
             X == NewCache(cache[k].inner, Tail_, b)
  <1>2. cache[k].inner \in Values /\ b \in BOOLEAN
    BY OfOne DEF CacheRecs
  <1>3. b /\ ~sending => cache[k].inner = actorVal
    BY OfOne DEF Good, IsCurrent, Clone, Usable, Live
  <1> HIDE DEF b
  <1>4. X \in CacheRecs
    BY <1>1, <1>2, FreshRecords
  <1>5. Good(X, call[d], NoResult)
    BY <1>1, <1>2, <1>3, NewIsGood DEF Clone, NoResult
  <1>6. cache[d].st \notin {"getting", "cloning"}
    BY DEF Clone
  <1>7. cache' = [cache EXCEPT ![d] = X] /\ ret' = [ret EXCEPT ![d] = NoResult]
        /\ UNCHANGED <<actorVars, call>>
    BY DEF Clone, b
  <1> HIDE DEF X
  <1> QED
    BY <1>4, <1>5, <1>6, <1>7, OfOne, FreshRecords, OneCache, Same DEF actorVars

\* A cache that is dropped, or whose making failed.
LEMMA DropCacheStep ==
    ASSUME IndInv, NEW k \in Caches, DropCache(k)
    PROVE  IndInv'
  <1>1. call[k].op = "idle" /\ call[k].stage = "none"
    BY IdleIsNone DEF DropCache, Usable, Live
  <1>2. Good(NoCache, call[k], NoResult)
    BY <1>1, Forgotten, OfOne DEF NoResult
  <1>3. cache[k].st \notin {"getting", "cloning"}
    BY DEF DropCache, Usable, Live
  <1> QED
    BY <1>2, <1>3, OfOne, FreshRecords, OneCache, Same DEF DropCache, actorVars

\* The cache of a finished wait goes, and the handle is free again.
LEMMA DropWaitCacheStep ==
    ASSUME IndInv, NEW k \in Caches, DropWaitCache(k)
    PROVE  IndInv'
  <1>1. call[k].op = "idle" /\ call[k].stage = "none"
    BY IdleIsNone DEF DropWaitCache, Live
  <1>2. ret[k].res # "Closed"
    BY OfOne DEF DropWaitCache, Good, Borrows, Handed, ClosedIsTrue, Closed
  <1>3. Good(NoCache, call[k], ret[k])
    BY <1>1, <1>2, Forgotten, OfOne
  <1>4. cache[k].st \notin {"getting", "cloning"}
    BY DEF DropWaitCache, Live
  <1> QED
    BY <1>3, <1>4, OfOne, FreshRecords, OneCache, Same DEF DropWaitCache, actorVars

\* A wait that is dropped leaves a cache as good as it was.
LEMMA CancelStep ==
    ASSUME IndInv, NEW k \in Caches, Cancel(k)
    PROVE  IndInv'
  <1>1. cache[k].st = "live"
    BY OfOne DEF Cancel, Good, CallShape
  <1>2. CASE cache[k].use = "wait"
    <2>1. ret[k].res # "Closed"
      BY OfOne, <1>2 DEF Good, Borrows, Handed, ClosedIsTrue, Closed
    <2>2. Good(NoCache, Idle, ret[k])
      BY <2>1, Forgotten, OfOne DEF Idle
    <2>3. cache' = [cache EXCEPT ![k] = NoCache]
      BY <1>2 DEF Cancel
    <2>4. Idle.to \subseteq call[k].to
      BY DEF Idle
    <2> QED
      BY <1>1, <2>2, <2>3, <2>4, OfOne, FreshRecords, OneCache, Same DEF Cancel, actorVars
  <1>3. CASE cache[k].use # "wait"
    <2>1. Good(cache[k], Idle, ret[k])
      BY OfOne DEF Cancel, Good, Borrows, Handed, CallShape, HandedOver, Follows, IsCurrent,
            Tested, ClosedIsTrue, Idle
    <2>2. cache' = [cache EXCEPT ![k] = cache[k]]
      BY <1>3 DEF Cancel
    <2>3. Idle.to \subseteq call[k].to
      BY DEF Idle
    <2> QED
      BY <1>1, <2>1, <2>2, <2>3, OfOne, FreshRecords, OneCache, Same DEF Cancel, actorVars
  <1> QED
    BY <1>2, <1>3

\* A wait through a handle that ends with the actor takes its cache with it.
LEMMA WaitForExitStep ==
    ASSUME IndInv, NEW k \in Caches, WaitForExit(k)
    PROVE  IndInv'
  <1> DEFINE Z == [res |-> "panic", val |-> NoCache.inner]
  <1>1. Z \in RetRecs
    BY CacheAssumption DEF RetRecs, NoCache
  <1>2. Good(NoCache, Idle, Z)
    BY Forgotten, OfOne DEF Idle
  <1>3. cache[k].st = "live"
    BY OfOne DEF WaitForExit, Good, CallShape
  <1>4. Idle.to \subseteq call[k].to
    BY DEF Idle
  <1>5. /\ cache' = [cache EXCEPT ![k] = NoCache]
        /\ call' = [call EXCEPT ![k] = Idle]
        /\ ret' = [ret EXCEPT ![k] = Z]
        /\ UNCHANGED actorVars
    BY DEF WaitForExit, End, Result
  <1> HIDE DEF Z
  <1> QED
    BY <1>1, <1>2, <1>3, <1>4, <1>5, FreshRecords, OneCache DEF actorVars

-----------------------------------------------------------------------------
(* Reading a cache. *)

\* A read begins by taking the first request.
LEMMA BeginStep ==
    ASSUME IndInv, NEW k \in Caches, NEW o \in Ops \ {"idle"},
           NEW s \in {"waiting", "draining"},
           Live(k), Begin(k, o, s),
           s = "waiting" => o \in {"recv", "recv_newest", "wait_until"},
           s = "draining" => o \in {"newest", "try_recv_newest", "recv_newest"},
           o = "wait_until" => ~(cache[k].first /\ cache[k].inner \in Wanted)
    PROVE  IndInv'
  <1> DEFINE X == [cache[k] EXCEPT !.first = FALSE]
             Y == [Idle EXCEPT !.op = o, !.stage = s, !.first = cache[k].first]
             Z == [res |-> "none", val |-> cache[k].inner]
  <1>1. cache[k] \in CacheRecs /\ call[k] \in CallRecs
    BY OfOne
  <1>2. X \in CacheRecs
    BY <1>1 DEF CacheRecs
  <1>3. /\ Y \in CallRecs
        /\ Y.op = o /\ Y.stage = s /\ Y.first = cache[k].first /\ Y.to = Idle.to
    <2>1. Idle \in CallRecs
      BY FreshRecords
    <2>2. cache[k].first \in BOOLEAN
      BY <1>1 DEF CacheRecs
    <2> QED
      BY <2>1, <2>2 DEF CallRecs
  <1>4. Z \in RetRecs
    BY <1>1 DEF RetRecs, CacheRecs
  <1>5. /\ X.st = cache[k].st /\ X.use = cache[k].use /\ X.inner = cache[k].inner
        /\ X.pos = cache[k].pos /\ X.synced = cache[k].synced
        /\ X.handed = cache[k].handed
    BY <1>1 DEF CacheRecs
  <1>6. call[k].stage = "none"
    BY IdleIsNone DEF Live
  <1>7. Good(X, Y, Z)
    BY <1>3, <1>5, <1>6, OfOne DEF Live, Good, Borrows, Handed, CallShape, HandedOver, Follows, IsCurrent,
        Tested, ClosedIsTrue
  <1>8. /\ cache' = [cache EXCEPT ![k] = X]
        /\ call' = [call EXCEPT ![k] = Y]
        /\ ret' = [ret EXCEPT ![k] = Z]
        /\ UNCHANGED actorVars
    BY DEF Begin, Result
  <1>9. Y.to \subseteq call[k].to
    BY <1>3 DEF Idle
  <1> HIDE DEF X, Y, Z
  <1> QED
    BY <1>2, <1>3, <1>4, <1>5, <1>7, <1>8, <1>9, OneCache DEF actorVars

\* The first read hands out the value held and moves nothing.
LEMMA HandOutFirstStep ==
    ASSUME IndInv, NEW k \in Caches, Live(k), HandOutFirst(k)
    PROVE  IndInv'
  <1> DEFINE X == [cache[k] EXCEPT !.first = FALSE]
             Z == [res |-> "Ok", val |-> cache[k].inner]
  <1>1. cache[k] \in CacheRecs /\ call[k] \in CallRecs
    BY OfOne
  <1>2. X \in CacheRecs
    BY <1>1 DEF CacheRecs
  <1>3. Z \in RetRecs
    BY <1>1 DEF RetRecs, CacheRecs
  <1>4. /\ X.st = cache[k].st /\ X.use = cache[k].use /\ X.inner = cache[k].inner
        /\ X.pos = cache[k].pos /\ X.synced = cache[k].synced
        /\ X.handed = cache[k].handed
    BY <1>1 DEF CacheRecs
  <1>5. Good(X, call[k], Z)
    BY <1>4, OfOne DEF Good, Borrows, Handed, CallShape, HandedOver, Follows, IsCurrent,
        Tested, ClosedIsTrue
  <1>6. /\ cache' = [cache EXCEPT ![k] = X]
        /\ ret' = [ret EXCEPT ![k] = Z]
        /\ UNCHANGED <<actorVars, call>>
    BY <1>1 DEF HandOutFirst, Result
  <1> HIDE DEF X, Z
  <1> QED
    BY <1>1, <1>2, <1>3, <1>4, <1>5, <1>6, OneCache, Same, OfOne DEF actorVars

\* What a receive makes of a cache: the value stored, handed over or not ...
LEMMA StoredIs ==
    ASSUME IndInv, NEW k \in Caches, Reading(k) = "Ok", NEW X,
           X \in {Stored(k), [Stored(k) EXCEPT !.handed = cache[k].handed]}
    PROVE  /\ X \in CacheRecs
           /\ X.st = cache[k].st /\ X.use = cache[k].use
           /\ X.pos = cache[k].pos + 1 /\ X.inner = log[cache[k].pos] /\ X.synced
           /\ X = Stored(k) => X.handed = X.pos - 1
           /\ X # Stored(k) => X.handed = cache[k].handed
  <1>1. cache[k] \in CacheRecs
    BY OfOne
  <1>2. X \in CacheRecs
    BY OfOne, ReadRecords
  <1>3. Channel!Advance(log, cache[k].pos) = cache[k].pos + 1
    BY OfOne, ReadingFacts
  <1>4. Stored(k) \in CacheRecs
    BY OfOne, ReadRecords
  <1> DEFINE p == cache[k].pos
             q == Channel!Advance(log, p)
             v == log[p]
             h == q - 1
  <1>5. Stored(k) = [cache[k] EXCEPT !.inner = v, !.pos = q, !.synced = TRUE, !.handed = h]
    BY DEF Stored
  <1> HIDE DEF q, v, h
  <1>6. /\ Stored(k).st = cache[k].st /\ Stored(k).use = cache[k].use
        /\ Stored(k).pos = q /\ Stored(k).inner = v
        /\ Stored(k).synced /\ Stored(k).handed = h
    BY <1>1, <1>5 DEF CacheRecs
  <1>7. /\ X.st = Stored(k).st /\ X.use = Stored(k).use /\ X.pos = Stored(k).pos
        /\ X.inner = Stored(k).inner /\ X.synced = Stored(k).synced
    <2>1. CASE X = Stored(k)
      BY <2>1
    <2>2. CASE X = [Stored(k) EXCEPT !.handed = cache[k].handed]
      BY <1>4, <2>2 DEF CacheRecs
    <2> QED
      BY <2>1, <2>2
  <1>8. X = Stored(k) => X.handed = h
    BY <1>6
  <1>9. X # Stored(k) => X.handed = cache[k].handed
    BY <1>4 DEF CacheRecs
  <1> QED
    BY <1>2, <1>3, <1>6, <1>7, <1>8, <1>9 DEF q, v, h

\* ... or its position.
LEMMA SkippedIs ==
    ASSUME IndInv, NEW k \in Caches
    PROVE  /\ Skipped(k) \in CacheRecs
           /\ Skipped(k).st = cache[k].st /\ Skipped(k).use = cache[k].use
           /\ Skipped(k).inner = cache[k].inner /\ Skipped(k).synced = cache[k].synced
           /\ Skipped(k).handed = cache[k].handed
           /\ Skipped(k).pos = Channel!Advance(log, cache[k].pos)
  <1>1. cache[k] \in CacheRecs
    BY OfOne
  <1>2. Skipped(k) \in CacheRecs
        /\ Skipped(k) = [cache[k] EXCEPT !.pos = Channel!Advance(log, cache[k].pos)]
    BY OfOne, ReadRecords
  <1> DEFINE q == Channel!Advance(log, cache[k].pos)
  <1> HIDE DEF q
  <1>3. Skipped(k) = [cache[k] EXCEPT !.pos = q]
    BY <1>2 DEF q
  <1> QED
    BY <1>1, <1>2, <1>3 DEF CacheRecs, q

\* A value stored leaves the cache good, if it is handed over or a drain that
\* has a value goes on.
LEMMA StoredIsGood ==
    ASSUME IndInv, NEW k \in Caches, Reading(k) = "Ok", NEW X,
           X \in {Stored(k), [Stored(k) EXCEPT !.handed = cache[k].handed]},
           NEW Y, NEW Z, CallShape(X, Y), Z.res # "Closed",
           X = Stored(k) \/ (Y.stage = "draining" /\ Y.got),
           Y.op = "wait_until" /\ Y.first => X.inner \notin Wanted
    PROVE  Good(X, Y, Z)
  <1> DEFINE p == cache[k].pos
  <1>1. p \in Nat /\ Len(log) \in Nat /\ p <= Len(log) /\ p >= 1
    BY OfOne, ReadingFacts
  <1>2. Good(cache[k], call[k], ret[k])
    BY OfOne
  <1>3. /\ X.st = cache[k].st /\ X.use = cache[k].use
        /\ X.pos = p + 1 /\ X.inner = log[p] /\ X.synced
        /\ X = Stored(k) => X.handed = X.pos - 1
        /\ X # Stored(k) => X.handed = cache[k].handed
    BY StoredIs
  <1>4. X.pos >= 1 /\ X.pos <= Len(log) + 1
    BY <1>1, <1>3
  <1>5. Borrows(X) /\ Handed(X)
    BY <1>1, <1>2, <1>3 DEF Good, Borrows, Handed
  <1>6. HandedOver(X, Y)
    BY <1>3 DEF HandedOver
  <1>7. Follows(X)
    BY <1>1, <1>2, <1>3 DEF Good, Follows
  <1>8. IsCurrent(X)
    BY <1>1, <1>2, <1>3 DEF Good, Follows, IsCurrent, Tail_, Channel!TailOf
  <1>9. Tested(X, Y) /\ ClosedIsTrue(X, Z)
    BY DEF Tested, ClosedIsTrue
  <1> QED
    BY <1>4, <1>5, <1>6, <1>7, <1>8, <1>9 DEF Good

\* So does a read that found none.
LEMMA SkippedIsGood ==
    ASSUME IndInv, NEW k \in Caches, Reading(k) # "Ok", cache[k].st = "live",
           NEW Y, NEW Z, CallShape(Skipped(k), Y),
           Z.res = "Closed" => Reading(k) = "Closed",
           call[k].stage = "draining" => Reading(k) = "Lagged",
           Y.op = "wait_until" /\ Y.first => call[k].op = "wait_until" /\ call[k].first
    PROVE  Good(Skipped(k), Y, Z)
  <1> DEFINE X == Skipped(k)
             p == cache[k].pos
             q == Channel!Advance(log, p)
  <1>1. /\ p \in Nat /\ q \in Nat /\ Len(log) \in Nat /\ p >= 1
        /\ Reading(k) \in {"Ok", "Lagged", "Closed", "Empty"}
        /\ Reading(k) = "Lagged" => q >= 1 /\ q <= Len(log) /\ p <= Len(log)
        /\ Reading(k) = "Closed" => Closed /\ q = p /\ p = Len(log) + 1
        /\ Reading(k) = "Empty" => q = p /\ p = Len(log) + 1
    BY OfOne, ReadingFacts
  <1> HIDE DEF q
  <1>2. /\ X.st = cache[k].st /\ X.use = cache[k].use /\ X.inner = cache[k].inner
        /\ X.synced = cache[k].synced /\ X.handed = cache[k].handed /\ X.pos = q
    BY SkippedIs DEF q
  <1> HIDE DEF X
  <1>3. Good(cache[k], call[k], ret[k])
    BY OfOne
  <1>4. X.pos >= 1 /\ X.pos <= Len(log) + 1
    BY <1>1, <1>2
  <1>5. Borrows(X) /\ Handed(X)
    BY <1>2, <1>3 DEF Good, Borrows, Handed
  <1>6. Reading(k) # "Lagged" => cache[k].handed = p - 1 /\ q = p
    BY <1>1, <1>3 DEF Good, HandedOver
  <1>7. HandedOver(X, Y)
    BY <1>1, <1>2, <1>6 DEF HandedOver
  <1>8. Follows(X)
    BY <1>1, <1>2, <1>3 DEF Good, Follows
  <1>9. IsCurrent(X)
    BY <1>1, <1>2, <1>3 DEF Good, IsCurrent, Tail_, Channel!TailOf
  <1>10. Tested(X, Y)
    BY <1>2, <1>3 DEF Good, Tested
  <1>11. ClosedIsTrue(X, Z)
    BY <1>1, <1>2, <1>6 DEF ClosedIsTrue, Tail_, Channel!TailOf
  <1> QED
    BY <1>4, <1>5, <1>7, <1>8, <1>9, <1>10, <1>11 DEF Good, X

\* try_recv stores a value, skips what it missed, or changes nothing.
LEMMA TryRecvStep ==
    ASSUME IndInv, NEW k \in Caches, TryRecv(k)
    PROVE  IndInv'
  <1>1. Live(k)
    BY DEF TryRecv, Usable
  <1>2. CASE HandOutFirst(k)
    BY <1>1, <1>2, HandOutFirstStep
  <1> SUFFICES ASSUME ~HandOutFirst(k) PROVE IndInv'
    BY <1>2
  <1> DEFINE r == Reading(k)
             X == IF r = "Ok" THEN Stored(k) ELSE Skipped(k)
             Z == [res |-> IF r = "Empty" THEN "None" ELSE r, val |-> X.inner]
  <1>3. /\ cache' = [cache EXCEPT ![k] = X]
        /\ ret' = [ret EXCEPT ![k] = Z]
        /\ UNCHANGED <<actorVars, call>>
    BY DEF TryRecv, Result
  <1>4. r \in {"Ok", "Lagged", "Closed", "Empty"}
    BY OfOne, ReadingFacts
  <1>5. X \in CacheRecs /\ X.st = cache[k].st
    BY StoredIs, SkippedIs
  <1>6. Z \in RetRecs
    BY <1>4, <1>5 DEF RetRecs, CacheRecs
  <1>7. call[k].op = "idle" /\ call[k].stage = "none" /\ cache[k].st = "live"
    BY <1>1, IdleIsNone DEF Live
  <1>8. CallShape(X, call[k])
    BY <1>7 DEF CallShape
  <1>9. CASE r = "Ok"
    <2>1. Z.res # "Closed" /\ X = Stored(k)
      BY <1>9
    <2> HIDE DEF Z, X
    <2>2. Good(X, call[k], Z)
      BY <1>7, <1>8, <1>9, <2>1, StoredIsGood
    <2> QED
      BY <1>3, <1>5, <1>6, <2>2, OneCache, Same, OfOne DEF actorVars
  <1>10. CASE r # "Ok"
    <2>1. X = Skipped(k) /\ (Z.res = "Closed" => Reading(k) = "Closed")
      BY <1>10
    <2> HIDE DEF Z, X
    <2>2. Good(X, call[k], Z)
      BY <1>7, <1>8, <1>10, <2>1, SkippedIsGood
    <2> QED
      BY <1>3, <1>5, <1>6, <2>2, OneCache, Same, OfOne DEF actorVars
  <1> QED
    BY <1>9, <1>10

\* Every read begins by handing out what is held, or waits, or drains.
LEMMA ReadStep ==
    ASSUME IndInv, NEW k \in Caches, Read(k)
    PROVE  IndInv'
  <1>1. Live(k)
    BY DEF Read, Newest, TryRecvNewest, RecvNewest, Recv, TryRecv, WaitUntil, Usable
  <1>2. CASE Newest(k)
    BY <1>1, <1>2, BeginStep DEF Newest, Ops
  <1>3. CASE TryRecvNewest(k)
    BY <1>1, <1>3, BeginStep DEF TryRecvNewest, Ops
  <1>4. CASE RecvNewest(k)
    <2>1. CASE cache[k].first
      BY <1>1, <1>4, <2>1, BeginStep DEF RecvNewest, Ops
    <2>2. CASE ~cache[k].first
      BY <1>1, <1>4, <2>2, BeginStep DEF RecvNewest, Ops
    <2> QED
      BY <2>1, <2>2
  <1>5. CASE Recv(k)
    <2>1. CASE HandOutFirst(k)
      BY <1>1, <2>1, HandOutFirstStep
    <2>2. CASE ~HandOutFirst(k)
      BY <1>1, <1>5, <2>2, BeginStep DEF Recv, Ops
    <2> QED
      BY <2>1, <2>2
  <1>6. CASE TryRecv(k)
    BY <1>6, TryRecvStep
  <1>7. CASE WaitUntil(k)
    <2>1. CASE cache[k].first /\ cache[k].inner \in Wanted
      BY <1>1, <1>7, <2>1, HandOutFirstStep DEF WaitUntil
    <2>2. CASE ~(cache[k].first /\ cache[k].inner \in Wanted)
      BY <1>1, <1>7, <2>2, BeginStep DEF WaitUntil, Ops
    <2> QED
      BY <2>1, <2>2
  <1> QED
    BY <1>2, <1>3, <1>4, <1>5, <1>6, <1>7 DEF Read

-----------------------------------------------------------------------------
(* Going on with a read. *)

\* A read that ends is in no call any more.
LEMMA EndStep ==
    ASSUME IndInv, NEW k \in Caches, cache[k].st = "live", NEW X \in CacheRecs,
           NEW r \in {"Ok", "Closed", "Lagged"},
           End(k, r, X), UNCHANGED actorVars,
           Good(X, Idle, [res |-> r, val |-> X.inner])
    PROVE  IndInv'
  <1> DEFINE Z == [res |-> r, val |-> X.inner]
  <1>1. Z \in RetRecs
    BY DEF RetRecs, CacheRecs
  <1>2. Idle.to \subseteq call[k].to
    BY DEF Idle
  <1>3. /\ cache' = [cache EXCEPT ![k] = X]
        /\ call' = [call EXCEPT ![k] = Idle]
        /\ ret' = [ret EXCEPT ![k] = Z]
    BY DEF End, Result
  <1> HIDE DEF Z
  <1>4. Good(X, Idle, Z)
    BY DEF Z
  <1> QED
    BY <1>1, <1>2, <1>3, <1>4, FreshRecords, OneCache DEF actorVars

\* A call that is over.
LEMMA IdleShape ==
    ASSUME NEW x
    PROVE  CallShape(x, Idle) /\ Idle.op = "idle"
  BY DEF CallShape, Idle

\* A value received is the next one, and is handed over unless a drain follows.
LEMMA ReceiveValueStep ==
    ASSUME IndInv, NEW k \in Caches, ReceiveValue(k)
    PROVE  IndInv'
  <1>1. /\ call[k].stage = "waiting" /\ Reading(k) = "Ok" /\ cache[k].st = "live"
        /\ call[k].op \in {"recv", "recv_newest", "wait_until"}
        /\ UNCHANGED actorVars
    BY OfOne DEF ReceiveValue, Ready, Good, CallShape
  <1>2. call[k] \in CallRecs /\ ret[k] \in RetRecs
    BY OfOne
  <1>3. Stored(k) \in CacheRecs /\ Stored(k).st = "live"
    BY <1>1, StoredIs
  <1>4. ret[k].res # "Closed"
    <2>1. cache[k].pos <= Len(log) /\ Len(log) \in Nat
      BY <1>1, OfOne, ReadingFacts
    <2> QED
      BY <2>1, OfOne DEF Good, ClosedIsTrue, Tail_, Channel!TailOf
  <1>5. ASSUME End(k, "Ok", Stored(k)) PROVE IndInv'
    <2>1. Good(Stored(k), Idle, [res |-> "Ok", val |-> Stored(k).inner])
      BY <1>1, IdleShape, StoredIsGood
    <2> QED
      BY <1>1, <1>3, <1>5, <2>1, EndStep
  <1>6. CASE call[k].op = "recv"
    BY <1>5, <1>6 DEF ReceiveValue
  <1>7. CASE call[k].op = "recv_newest"
    <2> DEFINE X == [Stored(k) EXCEPT !.handed = cache[k].handed]
               Y == [call[k] EXCEPT !.stage = "draining", !.got = TRUE]
    <2>1. X \in CacheRecs /\ X.st = "live"
      BY <1>1, StoredIs
    <2>2. /\ Y \in CallRecs /\ Y.op = "recv_newest" /\ Y.stage = "draining" /\ Y.got
          /\ Y.to = call[k].to
      BY <1>2, <1>7 DEF CallRecs
    <2>3. CallShape(X, Y)
      BY <2>1, <2>2 DEF CallShape
    <2>4. /\ cache' = [cache EXCEPT ![k] = X]
          /\ call' = [call EXCEPT ![k] = Y]
          /\ UNCHANGED ret
      BY <1>7, OfOne DEF ReceiveValue, Shape
    <2>5. X \in {Stored(k), [Stored(k) EXCEPT !.handed = cache[k].handed]}
      OBVIOUS
    <2> HIDE DEF X, Y
    <2>6. Good(X, Y, ret[k])
      BY <1>1, <1>4, <2>2, <2>3, <2>5, StoredIsGood
    <2> QED
      BY <1>1, <1>2, <2>1, <2>2, <2>4, <2>6, OneCache, Same, OfOne DEF actorVars
  <1>8. CASE call[k].op = "wait_until"
    <2>1. CASE Stored(k).inner \in Wanted
      BY <1>5, <1>8, <2>1 DEF ReceiveValue
    <2>2. CASE Stored(k).inner \notin Wanted
      <3>1. cache' = [cache EXCEPT ![k] = Stored(k)] /\ UNCHANGED <<call, ret>>
        BY <1>8, <2>2 DEF ReceiveValue
      <3>2. CallShape(Stored(k), call[k])
        BY <1>1, <1>3, <1>8 DEF CallShape
      <3>3. Good(Stored(k), call[k], ret[k])
        BY <1>1, <1>4, <2>2, <3>2, StoredIsGood
      <3> QED
        BY <1>1, <1>2, <1>3, <3>1, <3>3, OneCache, Same, OfOne DEF actorVars
    <2> QED
      BY <2>1, <2>2
  <1> QED
    BY <1>1, <1>6, <1>7, <1>8

\* A reader that lags moves on to the oldest value left.
LEMMA ReceiveLagStep ==
    ASSUME IndInv, NEW k \in Caches, ReceiveLag(k)
    PROVE  IndInv'
  <1>1. /\ call[k].stage = "waiting" /\ Reading(k) = "Lagged" /\ cache[k].st = "live"
        /\ UNCHANGED actorVars
    BY OfOne DEF ReceiveLag, Ready, Good, CallShape
  <1>2. call[k] \in CallRecs /\ ret[k] \in RetRecs
    BY OfOne
  <1>3. Skipped(k) \in CacheRecs /\ Skipped(k).st = "live"
    BY <1>1, SkippedIs
  <1>4. CASE call[k].op = "recv"
    <2> DEFINE Z == [res |-> "Lagged", val |-> Skipped(k).inner]
    <2>1. Z.res # "Closed"
      OBVIOUS
    <2> HIDE DEF Z
    <2>2. Good(Skipped(k), Idle, Z)
      BY <1>1, <2>1, IdleShape, SkippedIsGood
    <2>3. End(k, "Lagged", Skipped(k))
      BY <1>4 DEF ReceiveLag
    <2> QED
      BY <1>1, <1>3, <2>2, <2>3, EndStep DEF Z
  <1>5. CASE call[k].op # "recv"
    <2>1. cache' = [cache EXCEPT ![k] = Skipped(k)] /\ UNCHANGED <<call, ret>>
      BY <1>5 DEF ReceiveLag
    <2>2. CallShape(Skipped(k), call[k])
      BY <1>3, OfOne DEF Good, CallShape
    <2>3. ret[k].res # "Closed"
      <3>1. cache[k].pos <= Len(log) /\ Len(log) \in Nat
        BY <1>1, OfOne, ReadingFacts
      <3> QED
        BY <3>1, OfOne DEF Good, ClosedIsTrue, Tail_, Channel!TailOf
    <2>4. Good(Skipped(k), call[k], ret[k])
      BY <1>1, <2>2, <2>3, SkippedIsGood
    <2> QED
      BY <1>1, <1>2, <1>3, <2>1, <2>4, OneCache, Same, OfOne DEF actorVars
  <1> QED
    BY <1>4, <1>5

\* A read finds the channel closed only when there is nothing left in it.
LEMMA ReceiveClosedStep ==
    ASSUME IndInv, NEW k \in Caches, ReceiveClosed(k)
    PROVE  IndInv'
  <1>1. /\ call[k].stage = "waiting" /\ Reading(k) = "Closed" /\ cache[k].st = "live"
        /\ UNCHANGED actorVars /\ End(k, "Closed", cache[k])
    BY OfOne DEF ReceiveClosed, Ready, Good, CallShape
  <1>2. cache[k].pos = Len(log) + 1 /\ Closed /\ Len(log) \in Nat
    BY <1>1, OfOne, ReadingFacts
  <1>3. Good(cache[k], Idle, [res |-> "Closed", val |-> cache[k].inner])
    BY <1>1, <1>2, OfOne DEF Good, Borrows, Handed, CallShape, HandedOver, Follows, IsCurrent,
        Tested, ClosedIsTrue, Idle, Tail_, Channel!TailOf
  <1> QED
    BY <1>1, <1>3, OfOne, EndStep

\* A drain moves on by a value, or past what was lost.
LEMMA DrainOneStep ==
    ASSUME IndInv, NEW k \in Caches, DrainOne(k)
    PROVE  IndInv'
  <1> DEFINE Y == [call[k] EXCEPT !.got = call[k].got \/ Reading(k) = "Ok"]
  <1>1. /\ call[k].stage = "draining" /\ Reading(k) \in {"Ok", "Lagged"}
        /\ cache[k].st = "live"
        /\ UNCHANGED <<actorVars, ret>>
    BY OfOne DEF DrainOne, Drains, Good, CallShape
  <1>2. call[k] \in CallRecs /\ ret[k] \in RetRecs
    BY OfOne
  <1>3. ret[k].res # "Closed"
    <2>1. cache[k].pos <= Len(log) /\ Len(log) \in Nat
      BY <1>1, OfOne, ReadingFacts
    <2> QED
      BY <2>1, OfOne DEF Good, ClosedIsTrue, Tail_, Channel!TailOf
  <1>4. /\ Y \in CallRecs /\ Y.op = call[k].op /\ Y.stage = call[k].stage
        /\ Y.first = call[k].first /\ Y.to = call[k].to
        /\ Reading(k) = "Ok" => Y.got
    BY <1>2 DEF CallRecs
  <1>5. call' = [call EXCEPT ![k] = Y]
    BY OfOne DEF DrainOne, Shape
  <1> HIDE DEF Y
  <1>6. CASE Reading(k) = "Ok"
    <2> DEFINE X == [Stored(k) EXCEPT !.handed = cache[k].handed]
    <2>1. X \in CacheRecs /\ X.st = "live"
      BY <1>1, <1>6, StoredIs
    <2>2. CallShape(X, Y)
      BY <1>4, <2>1, OfOne DEF Good, CallShape
    <2>3. X \in {Stored(k), [Stored(k) EXCEPT !.handed = cache[k].handed]}
      OBVIOUS
    <2>4. cache' = [cache EXCEPT ![k] = X]
      BY <1>6 DEF DrainOne
    <2>5. Y.op # "wait_until"
      BY <1>1, <1>4, OfOne DEF Good, CallShape
    <2> HIDE DEF X
    <2>6. Good(X, Y, ret[k])
      BY <1>1, <1>3, <1>4, <1>6, <2>2, <2>3, <2>5, StoredIsGood
    <2> QED
      BY <1>1, <1>2, <1>4, <1>5, <2>1, <2>4, <2>6, OneCache, Same, OfOne DEF actorVars
  <1>7. CASE Reading(k) = "Lagged"
    <2>1. Skipped(k) \in CacheRecs /\ Skipped(k).st = "live"
      BY <1>1, SkippedIs
    <2>2. CallShape(Skipped(k), Y)
      BY <1>4, <2>1, OfOne DEF Good, CallShape
    <2>3. cache' = [cache EXCEPT ![k] = Skipped(k)]
      BY <1>7 DEF DrainOne
    <2>4. Good(Skipped(k), Y, ret[k])
      BY <1>1, <1>3, <1>4, <1>7, <2>2, SkippedIsGood
    <2> QED
      BY <1>1, <1>2, <1>4, <1>5, <2>1, <2>3, <2>4, OneCache, Same, OfOne DEF actorVars
  <1> QED
    BY <1>1, <1>6, <1>7

\* The end of a drain also finishes the clone it was made for.
LEMMA DrainEndStep ==
    ASSUME IndInv, NEW k \in Caches, DrainEnd(k)
    PROVE  IndInv'
  <1> DEFINE tries == call[k].op = "try_recv_newest"
             failed == tries /\ DrainFails(k)
             none == tries /\ ~call[k].got /\ ~call[k].first
             mine == IF failed THEN cache[k]
                     ELSE [cache[k] EXCEPT !.handed = cache[k].pos - 1]
             Made(d) == NewCache(cache[k].inner, cache[d].pos, cache[k].synced)
             Z == [res |-> IF failed THEN "Closed" ELSE IF none THEN "None" ELSE "Ok",
                   val |-> cache[k].inner]
  <1>1. /\ call[k].stage = "draining" /\ Reading(k) \in {"Empty", "Closed"}
        /\ cache[k].st = "live"
        /\ UNCHANGED actorVars
    BY OfOne DEF DrainEnd, Good, CallShape
  <1>2. /\ cache' = [d \in Caches |-> IF d = k THEN mine
                                     ELSE IF d \in call[k].to THEN Made(d) ELSE cache[d]]
        /\ call' = [call EXCEPT ![k] = Idle]
        /\ ret' = [ret EXCEPT ![k] = Z]
    BY DEF DrainEnd, Result
  <1>3. cache[k] \in CacheRecs /\ Good(cache[k], call[k], ret[k]) /\ Shape
    BY OfOne
  <1>4. cache[k].pos \in Nat /\ cache[k].pos = Len(log) + 1 /\ Len(log) \in Nat
        /\ (Reading(k) = "Closed" => Closed)
    BY <1>1, OfOne, ReadingFacts
  <1>5. mine \in CacheRecs /\ mine.st = "live" /\ mine.use = cache[k].use
        /\ mine.inner = cache[k].inner /\ mine.pos = cache[k].pos
        /\ mine.synced = cache[k].synced
        /\ (~failed => mine.handed = cache[k].pos - 1)
        /\ (failed => mine.handed = cache[k].handed)
    BY <1>1, <1>3, <1>4 DEF CacheRecs
  <1>6. failed => Reading(k) = "Closed" /\ ~call[k].got
    BY DEF DrainFails
  <1>7. mine.handed = mine.pos - 1
    BY <1>1, <1>3, <1>4, <1>5, <1>6 DEF Good, HandedOver
  <1>8. Z \in RetRecs /\ (Z.res = "Closed" => failed)
    BY <1>3 DEF RetRecs, CacheRecs
  <1> HIDE DEF mine, failed, none, Z
  <1>9. Good(mine, Idle, Z)
    <2>1. mine.pos = Len(log) + 1 /\ mine.pos = Tail_ /\ ~(mine.pos <= Len(log))
      BY <1>4, <1>5 DEF Tail_, Channel!TailOf
    <2>2. mine.pos >= 1 /\ mine.pos <= Len(log) + 1
      BY <1>4, <2>1
    <2>3. Borrows(mine) /\ IsCurrent(mine)
      BY <1>1, <1>3, <1>5 DEF Good, Borrows, IsCurrent
    <2>4. HandedOver(mine, Idle) /\ Follows(mine) /\ Handed(mine)
      BY <1>4, <1>7, <2>1 DEF HandedOver, Follows, Handed
    <2>5. Tested(mine, Idle) /\ CallShape(mine, Idle)
      BY IdleShape DEF Tested
    <2>6. ClosedIsTrue(mine, Z)
      BY <1>4, <1>6, <1>7, <1>8, <2>1 DEF ClosedIsTrue
    <2> QED
      BY <2>2, <2>3, <2>4, <2>5, <2>6 DEF Good
  <1>10. \A d \in call[k].to : d \in Caches /\ cache[d].st = "cloning"
    BY <1>3, OfOne DEF IndInv, Clones, CallRecs
  <1>11. ASSUME NEW d \in call[k].to
         PROVE  Made(d) \in CacheRecs /\ Made(d).st = "live" /\ Good(Made(d), call[d], ret[d])
    <2>1. d \in Caches /\ cache[d].st = "cloning" /\ cache[d] \in CacheRecs
          /\ cache[d].pos \in Nat /\ Good(cache[d], call[d], ret[d])
      BY <1>10, OfOne DEF CacheRecs
    <2>2. cache[k].inner \in Values /\ cache[k].synced \in BOOLEAN
      BY <1>3 DEF CacheRecs
    <2>3. Made(d) \in CacheRecs /\ Made(d).st = "live"
      BY <2>1, <2>2, FreshRecords DEF NewCache
    <2>4. cache[k].synced /\ ~sending => cache[k].inner = actorVal
      BY <1>1, <1>3, <1>4 DEF Good, IsCurrent, Tail_, Channel!TailOf
    <2>5. call[d].op = "idle" /\ call[d].stage = "none"
      BY <2>1, UnfinishedIsIdle
    <2>6. Good(Made(d), call[d], ret[d])
      BY <2>1, <2>4, <2>5 DEF NewCache, Good, Borrows, Handed, CallShape, HandedOver, Follows,
        IsCurrent, Tested, ClosedIsTrue
    <2> QED
      BY <2>3, <2>6
  <1> HIDE DEF Made
  <1>12. cache' \in [Caches -> CacheRecs]
    BY <1>2, <1>3, <1>5, <1>11 DEF Shape
  <1>13. /\ call' \in [Caches -> CallRecs] /\ ret' \in [Caches -> RetRecs]
         /\ call'[k] = Idle /\ ret'[k] = Z /\ cache'[k] = mine
         /\ \A d \in Caches : d # k => call'[d] = call[d] /\ ret'[d] = ret[d]
    BY <1>2, <1>3, <1>8, FreshRecords DEF Shape
  <1>14. \A d \in Caches : d # k =>
            cache'[d] = IF d \in call[k].to THEN Made(d) ELSE cache[d]
    BY <1>2
  <1>15. Shape'
    BY <1>1, <1>3, <1>12, <1>13 DEF Shape, actorVars
  <1>16. Gets'
    <2>1. ASSUME NEW i \in DOMAIN jobs, jobs[i].kind = "get"
          PROVE  cache'[jobs[i].for].st = "getting"
      <3>1. cache[jobs[i].for].st = "getting"
        BY <2>1 DEF IndInv, Gets
      <3>2. jobs[i] \in CacheJobs
        BY <1>3, ElementOfSeq, LenProperties DEF Shape
      <3>3. jobs[i].for \in Caches
        BY <2>1, <3>2 DEF CacheJobs
      <3>4. jobs[i].for # k /\ jobs[i].for \notin call[k].to
        BY <1>1, <1>10, <3>1
      <3> QED
        BY <3>1, <3>3, <3>4, <1>14
    <2> QED
      BY <1>1, <2>1 DEF IndInv, Gets, actorVars
  <1>17. Clones'
    <2>1. Idle.to = {}
      BY DEF Idle
    <2>2. ASSUME NEW c \in Caches, NEW d \in call'[c].to PROVE cache'[d].st = "cloning"
      <3>1. c # k /\ d \in call[c].to
        BY <1>13, <2>1, <2>2
      <3>2. cache[d].st = "cloning" /\ d \notin call[k].to /\ d \in Caches
        BY <3>1, OfOne DEF IndInv, Clones, CallRecs
      <3> QED
        BY <1>1, <1>14, <3>2
    <2>3. \A c \in Caches : call'[c].to \subseteq call[c].to
      BY <1>13, <2>1
    <2> QED
      BY <2>2, <2>3 DEF IndInv, Clones
  <1>18. \A d \in Caches : Good(cache'[d], call'[d], ret'[d])
    <2> TAKE d \in Caches
    <2>1. CASE d = k
      BY <1>9, <1>13, <2>1
    <2>2. CASE d # k
      BY <1>11, <1>13, <1>14, <2>2, OfOne
    <2> QED
      BY <2>1, <2>2
  <1>19. ASSUME NEW d \in Caches PROVE Good(cache[d], call[d], ret[d])'
    BY <1>1, <1>18 DEF Good, Borrows, Handed, CallShape, HandedOver, Follows, IsCurrent, Tested,
        ClosedIsTrue, Closed, Tail_, Channel!TailOf, actorVars
  <1> QED
    BY <1>15, <1>16, <1>17, <1>19 DEF IndInv

\* clone_newest changes the clone it makes and the cache it drains.
LEMMA CloneNewestStep ==
    ASSUME IndInv, NEW k \in Caches, NEW d \in Caches, CloneNewest(k, d)
    PROVE  IndInv'
  <1> DEFINE X == [NoCache EXCEPT !.st = "cloning", !.pos = Tail_]
             Y == [Idle EXCEPT !.op = "clone_newest", !.stage = "draining", !.to = {d}]
  <1>1. /\ cache' = [cache EXCEPT ![d] = X]
        /\ call' = [call EXCEPT ![k] = Y]
        /\ ret' = [ret EXCEPT ![d] = NoResult]
        /\ cache[k].st = "live" /\ call[k].op = "idle" /\ cache[d].st = "none"
        /\ UNCHANGED actorVars
    BY DEF CloneNewest, Usable, Live
  <1>2. /\ Shape /\ Len(log) \in Nat
        /\ Good(cache[k], call[k], ret[k]) /\ Good(cache[d], call[d], ret[d])
    BY OfOne, LenProperties DEF Shape
  <1>3. Tail_ = Len(log) + 1 /\ Tail_ \in Nat
    BY <1>2 DEF Tail_, Channel!TailOf
  <1>4. X \in CacheRecs /\ X.st = "cloning" /\ X.use = "cache" /\ X.pos = Tail_ /\ X.handed = 0
    <2>1. NoCache \in CacheRecs /\ NoCache.use = "cache" /\ NoCache.handed = 0
      BY FreshRecords DEF NoCache
    <2> QED
      BY <1>3, <2>1 DEF CacheRecs
  <1>5. Y \in CallRecs /\ Y.op = "clone_newest" /\ Y.stage = "draining" /\ Y.to = {d}
    <2>1. Idle \in CallRecs
      BY FreshRecords
    <2> QED
      BY <2>1 DEF CallRecs, Ops
  <1> HIDE DEF X, Y
  <1>6. k # d /\ call[k].stage = "none" /\ call[d].op = "idle" /\ call[d].stage = "none"
    BY <1>1, IdleIsNone, UnfinishedIsIdle
  <1>7. /\ cache' \in [Caches -> CacheRecs]
        /\ call' \in [Caches -> CallRecs]
        /\ ret' \in [Caches -> RetRecs]
    BY <1>1, <1>2, <1>4, <1>5, FreshRecords DEF Shape
  <1>8. /\ cache'[d] = X /\ \A c \in Caches : c # d => cache'[c] = cache[c]
        /\ call'[k] = Y /\ \A c \in Caches : c # k => call'[c] = call[c]
        /\ ret'[d] = NoResult /\ \A c \in Caches : c # d => ret'[c] = ret[c]
    BY <1>1, <1>2 DEF Shape
  <1>9. Shape'
    BY <1>1, <1>2, <1>7 DEF Shape, actorVars
  <1>10. Gets'
    <2>1. ASSUME NEW i \in DOMAIN jobs, jobs[i].kind = "get"
          PROVE  cache'[jobs[i].for].st = "getting"
      <3>1. cache[jobs[i].for].st = "getting"
        BY <2>1 DEF IndInv, Gets
      <3>2. jobs[i] \in CacheJobs
        BY <1>2, ElementOfSeq, LenProperties DEF Shape
      <3>3. jobs[i].for \in Caches /\ jobs[i].for # d
        BY <1>1, <2>1, <3>1, <3>2 DEF CacheJobs
      <3> QED
        BY <3>1, <3>3, <1>8
    <2> QED
      BY <1>1, <2>1 DEF IndInv, Gets, actorVars
  <1>11. Clones'
    <2>1. \A c \in Caches : call[c].to \subseteq Caches /\ d \notin call[c].to
      BY <1>1, OfOne DEF IndInv, Clones, CallRecs
    <2>2. ASSUME NEW c \in Caches, NEW e \in call'[c].to PROVE cache'[e].st = "cloning"
      <3>1. CASE c = k
        BY <1>4, <1>5, <1>8, <2>2, <3>1
      <3>2. CASE c # k
        BY <1>8, <2>1, <2>2, <3>2 DEF IndInv, Clones
      <3> QED
        BY <3>1, <3>2
    <2>3. ASSUME NEW c \in Caches, NEW j \in Caches, NEW e \in call'[c].to, e \in call'[j].to
          PROVE  c = j
      <3>1. CASE c = k /\ j # k
        BY <1>5, <1>8, <2>1, <2>3, <3>1
      <3>2. CASE j = k /\ c # k
        BY <1>5, <1>8, <2>1, <2>3, <3>2
      <3>3. CASE j # k /\ c # k
        BY <1>8, <2>3, <3>3 DEF IndInv, Clones
      <3> QED
        BY <3>1, <3>2, <3>3
    <2> QED
      BY <2>2, <2>3 DEF Clones
  <1>12. Good(X, call[d], NoResult)
    BY <1>2, <1>3, <1>4, <1>6 DEF Good, Borrows, Handed, CallShape, HandedOver, Follows, IsCurrent,
        Tested, ClosedIsTrue, NoResult
  <1>13. Good(cache[k], Y, ret[k])
    BY <1>1, <1>2, <1>5, <1>6 DEF Good, Borrows, Handed, CallShape, HandedOver, Follows, IsCurrent,
        Tested, ClosedIsTrue
  <1>14. \A c \in Caches : Good(cache'[c], call'[c], ret'[c])
    <2> TAKE c \in Caches
    <2>1. CASE c = d
      BY <1>6, <1>8, <1>12, <2>1
    <2>2. CASE c = k
      BY <1>6, <1>8, <1>13, <2>2
    <2>3. CASE c # d /\ c # k
      BY <1>8, <2>3, OfOne
    <2> QED
      BY <2>1, <2>2, <2>3
  <1>15. ASSUME NEW c \in Caches PROVE Good(cache[c], call[c], ret[c])'
    BY <1>1, <1>14 DEF Good, Borrows, Handed, CallShape, HandedOver, Follows, IsCurrent, Tested,
        ClosedIsTrue, Closed, Tail_, Channel!TailOf, actorVars
  <1> QED
    BY <1>9, <1>10, <1>11, <1>15 DEF IndInv

-----------------------------------------------------------------------------
(* The actor, its handles and its queue. *)

\* Appending a job keeps the ones before it.
LEMMA Appended ==
    ASSUME Shape, NEW e \in CacheJobs, jobs' = Append(jobs, e)
    PROVE  /\ jobs' \in Seq(CacheJobs) /\ Len(jobs') = Len(jobs) + 1
           /\ Len(jobs) \in Nat /\ DOMAIN jobs = 1..Len(jobs) /\ DOMAIN jobs' = 1..Len(jobs')
           /\ \A i \in DOMAIN jobs : jobs'[i] = jobs[i]
           /\ jobs'[Len(jobs')] = e
  <1>1. jobs \in Seq(CacheJobs)
    BY DEF Shape
  <1> HIDE DEF CacheJobs
  <1> QED
    BY <1>1, AppendProperties, LenProperties

\* Running the first job keeps the ones behind it.
LEMMA Popped ==
    ASSUME Shape, jobs # <<>>, jobs' = Tail(jobs)
    PROVE  /\ jobs' \in Seq(CacheJobs) /\ Len(jobs') = Len(jobs) - 1 /\ Len(jobs) \in Nat
           /\ DOMAIN jobs = 1..Len(jobs) /\ DOMAIN jobs' = 1..Len(jobs')
           /\ Len(jobs) >= 1 /\ Head(jobs) = jobs[1] /\ Head(jobs) \in CacheJobs
           /\ \A i \in DOMAIN jobs' : jobs'[i] = jobs[i + 1]
  <1>1. jobs \in Seq(CacheJobs)
    BY DEF Shape
  <1> HIDE DEF CacheJobs
  <1>2. /\ Tail(jobs) \in Seq(CacheJobs) /\ Len(Tail(jobs)) = Len(jobs) - 1
        /\ Head(jobs) \in CacheJobs /\ Head(jobs) = jobs[1]
        /\ \A i \in 1..Len(Tail(jobs)) : Tail(jobs)[i] = jobs[i + 1]
    BY <1>1, HeadTailProperties
  <1>3. Len(jobs) \in Nat /\ Len(jobs) >= 1 /\ DOMAIN jobs = 1..Len(jobs)
    BY <1>1, LenProperties, EmptySeq
  <1>4. DOMAIN Tail(jobs) = 1..Len(Tail(jobs))
    BY <1>2, LenProperties
  <1> QED
    BY <1>2, <1>3, <1>4

\* A step of the actor or of a handle that keeps every cache.
LEMMA OthersStep ==
    ASSUME IndInv, UNCHANGED <<cache, call, ret>>, Shape', Gets',
           \A k \in Caches : Good(cache[k], call[k], ret[k])'
    PROVE  IndInv'
  <1>1. Clones'
    BY DEF IndInv, Clones
  <1> QED
    BY <1>1 DEF IndInv

\* A write queues a job, behind every request there is.
LEMMA WriteStep ==
    ASSUME IndInv, NEW v \in Values, Write(v)
    PROVE  IndInv'
  <1>1. [kind |-> "set", val |-> v] \in CacheJobs
    BY DEF CacheJobs
  <1> DEFINE e == [kind |-> "set", val |-> v]
  <1>2. /\ jobs' \in Seq(CacheJobs) /\ Len(jobs') = Len(jobs) + 1
        /\ Len(jobs) \in Nat /\ DOMAIN jobs = 1..Len(jobs) /\ DOMAIN jobs' = 1..Len(jobs')
        /\ \A i \in DOMAIN jobs : jobs'[i] = jobs[i]
        /\ jobs'[Len(jobs')] = e
    BY <1>1, Appended DEF Write, IndInv
  <1>3. \A i \in DOMAIN jobs' : jobs'[i].kind = "get" =>
            i \in DOMAIN jobs /\ jobs'[i] = jobs[i]
    BY <1>2
  <1>4. Shape'
    BY <1>2 DEF IndInv, Shape, Write
  <1>5. Gets'
    BY <1>3 DEF IndInv, Gets, Write
  <1>6. \A k \in Caches : Good(cache[k], call[k], ret[k])'
    BY DEF IndInv, Write, Good, Borrows, Handed, CallShape, HandedOver, Follows, IsCurrent, Tested,
        ClosedIsTrue, Closed, Tail_, Channel!TailOf
  <1> QED
    BY <1>4, <1>5, <1>6, OthersStep DEF Write

\* A value that is set is about to be sent if anybody receives.
LEMMA RunSetStep ==
    ASSUME IndInv, RunSet
    PROVE  IndInv'
  <1>1. /\ jobs' \in Seq(CacheJobs) /\ Len(jobs') = Len(jobs) - 1 /\ Len(jobs) \in Nat
        /\ DOMAIN jobs = 1..Len(jobs) /\ DOMAIN jobs' = 1..Len(jobs')
        /\ Len(jobs) >= 1 /\ Head(jobs) \in CacheJobs
        /\ \A i \in DOMAIN jobs' : jobs'[i] = jobs[i + 1]
    BY Popped DEF RunSet, IndInv
  <1>2. Head(jobs).val \in Values
    BY <1>1 DEF RunSet, CacheJobs
  <1>3. Shape'
    BY <1>1, <1>2 DEF IndInv, Shape, RunSet
  <1>4. Gets'
    <2>1. \A i \in DOMAIN jobs' : i + 1 \in DOMAIN jobs /\ i \in Int
      BY <1>1
    <2> QED
      BY <1>1, <2>1 DEF IndInv, Gets, RunSet
  <1>5. ASSUME NEW k \in Caches PROVE Good(cache[k], call[k], ret[k])'
    <2>1. cache[k].st # "none" => sending'
      BY <1>5 DEF RunSet, Receivers
    <2> QED
      BY <2>1, OfOne DEF RunSet, Good, Borrows, Handed, CallShape, HandedOver, Follows, IsCurrent,
        Tested, ClosedIsTrue, Closed, Tail_, Channel!TailOf
  <1> QED
    BY <1>3, <1>4, <1>5, OthersStep DEF RunSet

\* A value that is sent is the newest there is to read, for every cache.
LEMMA SendViewStep ==
    ASSUME IndInv, SendView
    PROVE  IndInv'
  <1>1. actorVal \in Values /\ log \in Seq(Values) /\ Len(log) \in Nat
    BY LenProperties DEF IndInv, Shape
  <1>2. CASE Receivers # {}
    <2>1. log' = Append(log, actorVal) /\ UNCHANGED <<actorVal, jobs, actorUp, handleUp,
                                                      cache, call, ret>>
      BY <1>2 DEF SendView
    <2>2. log' \in Seq(Values) /\ Len(log') = Len(log) + 1 /\ log'[Len(log')] = actorVal
      BY <1>1, <2>1, AppendProperties
    <2>3. Shape'
      BY <2>1, <2>2 DEF IndInv, Shape, SendView
    <2>4. Gets'
      BY <2>1 DEF IndInv, Gets
    <2>5. ASSUME NEW k \in Caches PROVE Good(cache[k], call[k], ret[k])'
      <3>1. cache[k].pos \in Nat /\ Good(cache[k], call[k], ret[k])
        BY <2>5, OfOne DEF CacheRecs
      <3>2. cache[k].pos <= Len(log') /\ cache[k].pos >= 1 /\ ~(cache[k].pos = Tail_')
        BY <1>1, <2>2, <3>1 DEF Good, Tail_, Channel!TailOf
      <3>3. (Borrows(cache[k]) /\ CallShape(cache[k], call[k]) /\ Tested(cache[k], call[k]))'
        BY <2>1, <3>1 DEF Good, Borrows, Handed, CallShape, Tested
      <3>4. HandedOver(cache[k], call[k])'
        BY <2>1, <3>2 DEF HandedOver
      <3>5. Follows(cache[k])'
        BY <2>1, <2>2 DEF Follows
      <3>6. IsCurrent(cache[k])'
        BY <2>1, <3>2 DEF IsCurrent
      <3>7. ClosedIsTrue(cache[k], ret[k])'
        BY <2>1, <3>1 DEF Good, ClosedIsTrue, Closed, SendView
      <3>8. (cache[k].pos <= Len(log) + 1)'
        BY <1>1, <2>1, <2>2, <3>1 DEF Good
      <3>9. Handed(cache[k])'
        BY <1>1, <2>1, <2>2, <3>1, OfOne DEF Good, Handed, CacheRecs
      <3> QED
        BY <2>1, <3>2, <3>3, <3>4, <3>5, <3>6, <3>7, <3>8, <3>9 DEF Good
    <2> QED
      BY <2>1, <2>3, <2>4, <2>5, OthersStep
  <1>3. CASE Receivers = {}
    <2>1. UNCHANGED <<actorVal, log, jobs, actorUp, handleUp, cache, call, ret>>
      BY <1>3 DEF SendView
    <2>2. Shape' /\ Gets'
      BY <2>1 DEF IndInv, Shape, Gets, SendView
    <2>3. ASSUME NEW k \in Caches PROVE Good(cache[k], call[k], ret[k])'
      <3>1. cache[k].st = "none"
        BY <1>3 DEF Receivers
      <3> QED
        BY <2>1, <3>1, OfOne DEF Good, Borrows, Handed, CallShape, HandedOver, Follows, IsCurrent,
            Tested, ClosedIsTrue, Closed, Tail_, Channel!TailOf
    <2> QED
      BY <2>1, <2>2, <2>3, OthersStep
  <1> QED
    BY <1>2, <1>3

\* The last handle goes only when no cache borrows it, and the actor after it.
LEMMA HandlesStep ==
    ASSUME IndInv, DropHandles \/ ActorEnds
    PROVE  IndInv'
  <1>1. CASE DropHandles
    <2>1. Shape' /\ Gets'
      BY <1>1 DEF IndInv, Shape, Gets, DropHandles
    <2>2. ASSUME NEW k \in Caches PROVE Good(cache[k], call[k], ret[k])'
      <3>1. cache[k].st \notin {"subscribed", "getting"}
            /\ (cache[k].use = "wait" => cache[k].st = "none")
        BY <1>1, <2>2 DEF DropHandles, Borrowed
      <3> QED
        BY <1>1, <3>1, OfOne DEF DropHandles, Good, Borrows, Handed, CallShape, HandedOver, Follows,
            IsCurrent, Tested, ClosedIsTrue, Closed, Tail_, Channel!TailOf
    <2> QED
      BY <1>1, <2>1, <2>2, OthersStep DEF DropHandles
  <1>2. CASE ActorEnds
    <2>1. Shape' /\ Gets'
      BY <1>2 DEF IndInv, Shape, Gets, ActorEnds
    <2>2. ASSUME NEW k \in Caches PROVE Good(cache[k], call[k], ret[k])'
      BY <1>2, <2>2, OfOne DEF ActorEnds, Good, Borrows, Handed, CallShape, HandedOver, Follows,
            IsCurrent, Tested, ClosedIsTrue, Closed, Tail_, Channel!TailOf
    <2> QED
      BY <1>2, <2>1, <2>2, OthersStep DEF ActorEnds
  <1> QED
    BY <1>1, <1>2

\* The jobs that go with the actor are forgotten with the caches they were for.
LEMMA ActorDiesStep ==
    ASSUME IndInv, ActorDies
    PROVE  IndInv'
  <1> DEFINE Z == [NoResult EXCEPT !.res = "panic"]
  <1>1. Z \in RetRecs /\ Z.res = "panic"
    BY FreshRecords DEF RetRecs
  <1> HIDE DEF Z
  <1>2. /\ \A k \in Caches : cache'[k] = IF cache[k].st = "getting" THEN NoCache ELSE cache[k]
        /\ \A k \in Caches : ret'[k] = IF cache[k].st = "getting" THEN Z ELSE ret[k]
        /\ jobs' = <<>> /\ ~actorUp'
        /\ UNCHANGED <<actorVal, sending, log, handleUp, call>>
    BY DEF ActorDies, Z
  <1>3. cache' \in [Caches -> CacheRecs] /\ ret' \in [Caches -> RetRecs]
    BY <1>1, <1>2, OfOne, FreshRecords DEF ActorDies, Z
  <1>4. Shape'
    BY <1>2, <1>3, EmptySeq DEF ActorDies, IndInv, Shape
  <1>5. Gets'
    BY <1>2 DEF Gets
  <1>6. Clones'
    <2>1. \A c \in Caches : call[c].to \subseteq Caches
      BY OfOne DEF CallRecs
    <2>2. \A d \in Caches : cache[d].st = "cloning" => cache'[d].st = "cloning"
      BY <1>2
    <2> QED
      BY <1>2, <2>1, <2>2 DEF IndInv, Clones
  <1>7. \A k \in Caches : Good(cache'[k], call'[k], ret'[k])
    <2> TAKE k \in Caches
    <2>1. CASE cache[k].st = "getting"
      <3>1. call[k].op = "idle" /\ call[k].stage = "none"
        BY <2>1, UnfinishedIsIdle
      <3>2. Good(NoCache, call[k], Z)
        BY <1>1, <3>1, Forgotten, OfOne
      <3> QED
        BY <1>2, <2>1, <3>2
    <2>2. CASE cache[k].st # "getting"
      BY <1>2, <2>2, OfOne
    <2> QED
      BY <2>1, <2>2
  <1>8. ASSUME NEW k \in Caches PROVE Good(cache[k], call[k], ret[k])'
    BY <1>2, <1>7 DEF Good, Borrows, Handed, CallShape, HandedOver, Follows, IsCurrent, Tested,
        ClosedIsTrue, Closed, Tail_, Channel!TailOf
  <1> QED
    BY <1>4, <1>5, <1>6, <1>8 DEF IndInv

\* get puts its job in the queue, where it is the only one for this cache.
LEMMA RequestStep ==
    ASSUME IndInv, NEW k \in Caches, Request(k)
    PROVE  IndInv'
  <1>1. cache[k].st = "subscribed" /\ call[k].op = "idle" /\ call[k].stage = "none"
    BY UnfinishedIsIdle DEF Request
  <1>2. CASE ~actorUp
    <2> DEFINE Z == [NoResult EXCEPT !.res = "panic"]
    <2>1. Z \in RetRecs /\ Z.res = "panic"
      BY FreshRecords DEF RetRecs
    <2>2. /\ cache' = [cache EXCEPT ![k] = NoCache] /\ ret' = [ret EXCEPT ![k] = Z]
          /\ UNCHANGED <<jobs, actorVal, sending, log, actorUp, handleUp, call>>
      BY <1>2 DEF Request
    <2> HIDE DEF Z
    <2>3. Good(NoCache, call[k], Z)
      BY <1>1, <2>1, Forgotten, OfOne
    <2> QED
      BY <1>1, <2>1, <2>2, <2>3, OneCache, Same, OfOne, FreshRecords
  <1>3. CASE actorUp
    <2> DEFINE X == [cache[k] EXCEPT !.st = "getting"]
               e == [kind |-> "get", for |-> k]
    <2>1. /\ X \in CacheRecs /\ X.st = "getting" /\ X.use = cache[k].use
          /\ X.inner = cache[k].inner /\ X.pos = cache[k].pos
          /\ X.synced = cache[k].synced /\ X.handed = cache[k].handed
      BY OfOne DEF CacheRecs
    <2>2. /\ cache' = [cache EXCEPT ![k] = X] /\ jobs' = Append(jobs, e)
          /\ UNCHANGED <<actorVal, sending, log, actorUp, handleUp, call, ret>>
      BY <1>3, OfOne DEF Request, Shape
    <2>3. e \in CacheJobs
      BY DEF CacheJobs
    <2>4. /\ jobs' \in Seq(CacheJobs) /\ Len(jobs') = Len(jobs) + 1
          /\ Len(jobs) \in Nat /\ DOMAIN jobs = 1..Len(jobs) /\ DOMAIN jobs' = 1..Len(jobs')
          /\ \A i \in DOMAIN jobs : jobs'[i] = jobs[i]
          /\ jobs'[Len(jobs')] = e
      BY <2>2, <2>3, Appended, OfOne
    <2> HIDE DEF X
    <2>5. /\ cache' \in [Caches -> CacheRecs] /\ cache'[k] = X
          /\ \A c \in Caches : c # k => cache'[c] = cache[c]
      BY <2>1, <2>2, OfOne DEF Shape
    <2>6. Shape'
      BY <2>2, <2>4, <2>5 DEF IndInv, Shape
    <2>7. ASSUME NEW i \in DOMAIN jobs, jobs[i].kind = "get"
          PROVE  jobs[i].for \in Caches /\ jobs[i].for # k /\ cache'[jobs[i].for].st = "getting"
      <3>1. cache[jobs[i].for].st = "getting"
        BY <2>7 DEF IndInv, Gets
      <3>2. jobs[i] \in CacheJobs
        BY OfOne, ElementOfSeq, LenProperties DEF Shape
      <3>3. jobs[i].for \in Caches
        BY <2>7, <3>2 DEF CacheJobs
      <3> QED
        BY <1>1, <2>5, <3>1, <3>3
    <2>8. Gets'
      <3>1. ASSUME NEW i \in DOMAIN jobs', jobs'[i].kind = "get"
            PROVE  cache'[jobs'[i].for].st = "getting"
        <4>1. CASE i \in DOMAIN jobs
          BY <2>4, <2>7, <3>1, <4>1
        <4>2. CASE i \notin DOMAIN jobs
          <5>1. jobs'[i].for = k
            BY <2>4, <4>2
          <5> QED
            BY <2>1, <2>5, <5>1
        <4> QED
          BY <4>1, <4>2
      <3>2. ASSUME NEW i \in DOMAIN jobs', NEW j \in DOMAIN jobs', jobs'[i].kind = "get",
                   jobs'[j].kind = "get", jobs'[i].for = jobs'[j].for
            PROVE  i = j
        <4>1. CASE i \in DOMAIN jobs /\ j \in DOMAIN jobs
          BY <2>4, <3>2, <4>1 DEF IndInv, Gets
        <4>2. CASE i \in DOMAIN jobs /\ j \notin DOMAIN jobs
          <5>1. jobs'[j].for = k
            BY <2>4, <4>2
          <5> QED
            BY <2>4, <2>7, <3>2, <4>2, <5>1
        <4>3. CASE i \notin DOMAIN jobs /\ j \in DOMAIN jobs
          <5>1. jobs'[i].for = k
            BY <2>4, <4>3
          <5> QED
            BY <2>4, <2>7, <3>2, <4>3, <5>1
        <4>4. CASE i \notin DOMAIN jobs /\ j \notin DOMAIN jobs
          BY <2>4, <4>4
        <4> QED
          BY <4>1, <4>2, <4>3, <4>4
      <3> QED
        BY <3>1, <3>2 DEF Gets
    <2>9. Clones'
      <3>1. \A c \in Caches : call[c].to \subseteq Caches
        BY OfOne DEF CallRecs
      <3>2. \A d \in Caches : cache[d].st = "cloning" => cache'[d].st = "cloning"
        BY <1>1, <2>5
      <3> QED
        BY <2>2, <3>1, <3>2 DEF IndInv, Clones
    <2>10. Good(X, call[k], ret[k])
      BY <1>1, <2>1, OfOne DEF Good, Borrows, Handed, CallShape, HandedOver, Follows, IsCurrent,
        Tested, ClosedIsTrue
    <2>11. \A c \in Caches : Good(cache'[c], call'[c], ret'[c])
      BY <2>2, <2>5, <2>10, OfOne
    <2>12. ASSUME NEW c \in Caches PROVE Good(cache[c], call[c], ret[c])'
      BY <2>2, <2>11 DEF Good, Borrows, Handed, CallShape, HandedOver, Follows, IsCurrent, Tested,
        ClosedIsTrue, Closed, Tail_, Channel!TailOf
    <2> QED
      BY <2>6, <2>8, <2>9, <2>12 DEF IndInv
  <1> QED
    BY <1>2, <1>3

\* The answer to get makes a cache of the value the actor holds right then.
LEMMA RunGetStep ==
    ASSUME IndInv, RunGet
    PROVE  IndInv'
  <1> DEFINE k == Head(jobs).for
             waits == cache[k].use = "wait"
             made == [NewCache(actorVal, cache[k].pos, TRUE)
                          EXCEPT !.use = cache[k].use, !.first = ~waits]
             waiting == [Idle EXCEPT !.op = "wait_until", !.stage = "waiting", !.first = TRUE]
             Y == IF waits /\ actorVal \notin Wanted THEN waiting ELSE call[k]
             Z == [res |-> "Ok", val |-> actorVal]
  <1>1. /\ jobs' \in Seq(CacheJobs) /\ Len(jobs') = Len(jobs) - 1 /\ Len(jobs) \in Nat
        /\ DOMAIN jobs = 1..Len(jobs) /\ DOMAIN jobs' = 1..Len(jobs')
        /\ Len(jobs) >= 1 /\ Head(jobs) = jobs[1] /\ Head(jobs) \in CacheJobs
        /\ \A i \in DOMAIN jobs' : jobs'[i] = jobs[i + 1]
    BY Popped DEF RunGet, IndInv
  <1>2. k \in Caches /\ Head(jobs).kind = "get"
    BY <1>1 DEF RunGet, CacheJobs
  <1>3. 1 \in DOMAIN jobs /\ jobs[1].kind = "get" /\ jobs[1].for = k
    BY <1>1, <1>2
  <1>4. cache[k].st = "getting"
    BY <1>3 DEF IndInv, Gets
  <1>5. /\ Shape /\ cache[k] \in CacheRecs /\ call[k] \in CallRecs /\ actorVal \in Values
        /\ Good(cache[k], call[k], ret[k])
        /\ call[k].op = "idle" /\ call[k].stage = "none"
    BY <1>2, <1>4, OfOne, UnfinishedIsIdle DEF Shape
  <1>6. /\ made \in CacheRecs /\ made.st = "live" /\ made.use = cache[k].use
        /\ made.inner = actorVal /\ made.pos = cache[k].pos /\ made.handed = made.pos - 1
    <2> DEFINE N == NewCache(actorVal, cache[k].pos, TRUE)
    <2>1. cache[k].pos \in Nat /\ cache[k].use \in {"cache", "wait"}
      BY <1>5 DEF CacheRecs
    <2>2. N \in CacheRecs
      BY <1>5, <2>1, FreshRecords
    <2>3. N.st = "live" /\ N.inner = actorVal /\ N.pos = cache[k].pos
          /\ N.handed = cache[k].pos - 1
      BY DEF NewCache
    <2> HIDE DEF N
    <2>4. made = [N EXCEPT !.use = cache[k].use, !.first = ~waits]
      BY DEF N
    <2> QED
      BY <2>1, <2>2, <2>3, <2>4 DEF CacheRecs
  <1>7. /\ waiting \in CallRecs /\ waiting.op = "wait_until" /\ waiting.stage = "waiting"
        /\ waiting.to = {}
    <2>1. Idle \in CallRecs /\ Idle.to = {}
      BY FreshRecords DEF Idle
    <2> QED
      BY <2>1 DEF CallRecs, Ops
  <1>8. Z \in RetRecs /\ Z.res # "Closed"
    BY <1>5 DEF RetRecs
  <1>9. /\ cache' = [cache EXCEPT ![k] = made] /\ ret' = [ret EXCEPT ![k] = Z]
        /\ call' = IF waits /\ actorVal \notin Wanted THEN [call EXCEPT ![k] = waiting]
                                                      ELSE call
        /\ ~sending
        /\ UNCHANGED <<actorVal, sending, log, actorUp, handleUp>>
    BY DEF RunGet
  <1> HIDE DEF k, made, waiting, Z
  <1>10. call' = [call EXCEPT ![k] = Y]
    BY <1>2, <1>5, <1>9, Same
  <1>11. Y \in CallRecs /\ Y.to \subseteq call[k].to
    BY <1>5, <1>7
  <1>12. Good(made, Y, Z)
    <2>0. Handed(made)
      <3>1. Len(log) \in Nat /\ cache[k].pos \in Nat
        BY <1>5, LenProperties DEF Shape, CacheRecs
      <3> QED
        BY <1>5, <1>6, <3>1 DEF Good, Handed
    <2>1. CASE waits /\ actorVal \notin Wanted
      <3>1. Y = waiting
        BY <2>1
      <3> QED
        BY <1>5, <1>6, <1>7, <1>8, <1>9, <2>0, <2>1, <3>1 DEF Good, Borrows, CallShape,
            HandedOver, Follows, IsCurrent, Tested, ClosedIsTrue
    <2>2. CASE ~(waits /\ actorVal \notin Wanted)
      <3>1. Y = call[k]
        BY <2>2
      <3> QED
        BY <1>4, <1>5, <1>6, <1>8, <1>9, <2>0, <3>1 DEF Good, Borrows, CallShape,
            HandedOver, Follows, IsCurrent, Tested, ClosedIsTrue
    <2> QED
      BY <2>1, <2>2
  <1> HIDE DEF Y, waits
  <1>13. /\ cache' \in [Caches -> CacheRecs] /\ call' \in [Caches -> CallRecs]
         /\ ret' \in [Caches -> RetRecs]
         /\ cache'[k] = made /\ call'[k] = Y /\ ret'[k] = Z
         /\ \A c \in Caches : c # k =>
                cache'[c] = cache[c] /\ call'[c] = call[c] /\ ret'[c] = ret[c]
    BY <1>2, <1>5, <1>6, <1>8, <1>9, <1>10, <1>11 DEF Shape
  <1>14. Shape'
    BY <1>1, <1>5, <1>9, <1>13 DEF Shape
  <1>15. Gets'
    <2>1. \A i \in DOMAIN jobs' : i + 1 \in DOMAIN jobs /\ i \in Int /\ i + 1 # 1
      BY <1>1
    <2>2. ASSUME NEW i \in DOMAIN jobs', jobs'[i].kind = "get"
          PROVE  cache'[jobs'[i].for].st = "getting"
      <3>1. i + 1 \in DOMAIN jobs /\ i + 1 # 1 /\ jobs'[i] = jobs[i + 1]
        BY <1>1, <2>1
      <3>2. cache[jobs'[i].for].st = "getting" /\ jobs'[i].for # k
        BY <1>3, <2>2, <3>1 DEF IndInv, Gets
      <3>3. jobs[i + 1] \in CacheJobs
        BY <1>5, <3>1, ElementOfSeq, LenProperties DEF Shape
      <3>4. jobs'[i].for \in Caches
        BY <2>2, <3>1, <3>3 DEF CacheJobs
      <3> QED
        BY <1>13, <3>2, <3>4
    <2>3. ASSUME NEW i \in DOMAIN jobs', NEW j \in DOMAIN jobs', jobs'[i].kind = "get",
                 jobs'[j].kind = "get", jobs'[i].for = jobs'[j].for
          PROVE  i = j
      <3>1. i + 1 = j + 1
        BY <1>1, <2>1, <2>3 DEF IndInv, Gets
      <3> QED
        BY <2>1, <3>1
    <2> QED
      BY <2>2, <2>3 DEF Gets
  <1>16. Clones'
    <2>1. \A c \in Caches : call'[c].to \subseteq call[c].to
      BY <1>11, <1>13
    <2>2. \A c \in Caches : call[c].to \subseteq Caches
      BY OfOne DEF CallRecs
    <2>3. \A d \in Caches : cache[d].st = "cloning" => cache'[d].st = "cloning"
      BY <1>4, <1>13
    <2> QED
      BY <2>1, <2>2, <2>3 DEF IndInv, Clones
  <1>17. \A c \in Caches : Good(cache'[c], call'[c], ret'[c])
    BY <1>12, <1>13, OfOne
  <1>18. ASSUME NEW c \in Caches PROVE Good(cache[c], call[c], ret[c])'
    BY <1>9, <1>17 DEF Good, Borrows, Handed, CallShape, HandedOver, Follows, IsCurrent, Tested,
        ClosedIsTrue, Closed, Tail_, Channel!TailOf
  <1> QED
    BY <1>14, <1>15, <1>16, <1>18 DEF IndInv

-----------------------------------------------------------------------------
(* The theorems. *)

\* No cache is there at first.
LEMMA InitGood ==
    ASSUME Init PROVE IndInv
  <1>1. Shape
    BY FreshRecords, EmptySeq, CacheAssumption DEF Init, Shape
  <1>2. Gets
    BY DEF Init, Gets
  <1>3. Clones
    BY DEF Init, Clones, Idle
  <1>4. ASSUME NEW k \in Caches PROVE Good(cache[k], call[k], ret[k])
    <2>1. cache[k] = NoCache /\ call[k] = Idle /\ ret[k] = NoResult
      BY DEF Init
    <2>2. Good(NoCache, Idle, NoResult)
      BY <1>1, Forgotten DEF Idle, NoResult
    <2> QED
      BY <2>1, <2>2
  <1> QED
    BY <1>1, <1>2, <1>3, <1>4 DEF IndInv

\* Every step of the actor, of a handle and of a cache keeps the invariant.
LEMMA NextGood ==
    ASSUME IndInv, [Next]_vars PROVE IndInv'
  <1>1. CASE UNCHANGED vars
    <2>1. Shape' /\ Gets'
      BY <1>1 DEF IndInv, Shape, Gets, vars, actorVars
    <2>2. ASSUME NEW k \in Caches PROVE Good(cache[k], call[k], ret[k])'
      BY <1>1, <2>2, OfOne DEF vars, actorVars, Good, Borrows, Handed, CallShape, HandedOver,
            Follows, IsCurrent, Tested, ClosedIsTrue, Closed, Tail_, Channel!TailOf
    <2> QED
      BY <1>1, <2>1, <2>2, OthersStep DEF vars
  <1>2. CASE \E v \in Values : Write(v)
    BY <1>2, WriteStep
  <1>3. CASE ActorStep
    BY <1>3, RunSetStep, SendViewStep, RunGetStep, HandlesStep DEF ActorStep
  <1>4. CASE ActorDies
    BY <1>4, ActorDiesStep
  <1>5. CASE DropHandles
    BY <1>5, HandlesStep
  <1>6. ASSUME NEW k \in Caches, \E u \in {"cache", "wait"} : Subscribe(k, u) PROVE IndInv'
    BY <1>6, SubscribeStep
  <1>7. ASSUME NEW k \in Caches, \E v \in Values : CacheFrom(k, v) PROVE IndInv'
    BY <1>7, CacheFromStep
  <1>8. ASSUME NEW k \in Caches, \E d \in Caches : Clone(k, d) \/ CloneNewest(k, d)
        PROVE  IndInv'
    BY <1>8, CloneStep, CloneNewestStep
  <1>9. ASSUME NEW k \in Caches, DropCache(k) \/ Read(k) \/ Cancel(k) PROVE IndInv'
    BY <1>9, DropCacheStep, ReadStep, CancelStep
  <1>10. ASSUME NEW k \in Caches, Progress(k) PROVE IndInv'
    BY <1>10, RequestStep, ReceiveValueStep, ReceiveLagStep, ReceiveClosedStep, DrainOneStep,
        DrainEndStep, WaitForExitStep, DropWaitCacheStep DEF Progress
  <1> QED
    BY <1>1, <1>2, <1>3, <1>4, <1>5, <1>6, <1>7, <1>8, <1>9, <1>10 DEF Next

\* In every reachable state each cache is good.
THEOREM Inductive == Spec => []IndInv
  <1>1. Init => IndInv
    BY InitGood
  <1>2. IndInv /\ [Next]_vars => IndInv'
    BY NextGood
  <1> QED
    BY <1>1, <1>2, PTL DEF Spec

\* A cache with nothing left to read holds the actor's value (handle.rs cache,
\* cache.rs store and drain_to_newest).
THEOREM CaughtUpHoldsTheValue == Spec => []CaughtUpIsCurrent
  <1>1. IndInv => CaughtUpIsCurrent
    BY DEF IndInv, Good, IsCurrent, CaughtUpIsCurrent
  <1> QED
    BY <1>1, Inductive, PTL

\* Closed is reported only when every value was handed over (drain_to_newest).
THEOREM ClosedSwallowsNothing == Spec => []ClosedAfterEverything
  <1>1. IndInv => ClosedAfterEverything
    BY DEF IndInv, Good, ClosedIsTrue, ClosedAfterEverything
  <1> QED
    BY <1>1, Inductive, PTL

\* A wait that tested its first value never sleeps on a wanted one (wait_until).
THEOREM WaitsTestEveryValue == Spec => []FreshWaitMissesNothing
  <1>1. IndInv => FreshWaitMissesNothing
    BY DEF IndInv, Good, CallShape, IsCurrent, Tested, FreshWaitMissesNothing,
        NothingWaitsOnAMatch
  <1> QED
    BY <1>1, Inductive, PTL
-----------------------------------------------------------------------------
(* What bounds the log: it never holds more than was written. *)

SetJobs(q) == {i \in DOMAIN q : q[i].kind = "set"}

\* Every write is sent at most once: it is in the queue, about to be sent, in
\* the log, or was sent to nobody.
Room ==
    /\ writes \in Nat /\ writes <= MaxWrites
    /\ Len(log) + (IF sending THEN 1 ELSE 0) + Cardinality(SetJobs(jobs)) <= writes

\* Only finitely many writes wait.
LEMMA FiniteSetJobs ==
    ASSUME Shape
    PROVE  IsFiniteSet(SetJobs(jobs)) /\ Cardinality(SetJobs(jobs)) \in Nat
  <1>1. DOMAIN jobs = 1..Len(jobs) /\ Len(jobs) \in Nat
    BY LenProperties DEF Shape
  <1>2. IsFiniteSet(1..Len(jobs))
    BY <1>1, FS_Interval
  <1>3. SetJobs(jobs) \in SUBSET (1..Len(jobs))
    BY <1>1 DEF SetJobs
  <1>4. IsFiniteSet(SetJobs(jobs))
    BY <1>2, <1>3, FS_Subset
  <1> QED
    BY <1>4, FS_CardinalityType

\* A new job is one more write, if it is one.
LEMMA CountAppended ==
    ASSUME Shape, NEW e \in CacheJobs, jobs' = Append(jobs, e)
    PROVE  Cardinality(SetJobs(jobs)') =
               Cardinality(SetJobs(jobs)) + (IF e.kind = "set" THEN 1 ELSE 0)
  <1>1. /\ Len(jobs') = Len(jobs) + 1 /\ Len(jobs) \in Nat
        /\ DOMAIN jobs = 1..Len(jobs) /\ DOMAIN jobs' = 1..Len(jobs')
        /\ \A i \in DOMAIN jobs : jobs'[i] = jobs[i]
        /\ jobs'[Len(jobs')] = e
    BY Appended
  <1>2. IsFiniteSet(SetJobs(jobs)) /\ Cardinality(SetJobs(jobs)) \in Nat
    BY FiniteSetJobs
  <1>3. Len(jobs') \notin SetJobs(jobs)
    BY <1>1 DEF SetJobs
  <1>4. CASE e.kind = "set"
    <2>1. SetJobs(jobs)' = SetJobs(jobs) \cup {Len(jobs')}
      BY <1>1, <1>4 DEF SetJobs
    <2> QED
      BY <1>2, <1>3, <1>4, <2>1, FS_AddElement
  <1>5. CASE e.kind # "set"
    <2>1. SetJobs(jobs)' = SetJobs(jobs)
      BY <1>1, <1>5 DEF SetJobs
    <2> QED
      BY <1>2, <1>5, <2>1
  <1> QED
    BY <1>4, <1>5

\* Running the first job leaves the other writes, each one place further ahead.
LEMMA CountPopped ==
    ASSUME Shape, jobs # <<>>, jobs' = Tail(jobs)
    PROVE  Cardinality(SetJobs(jobs)') =
               Cardinality(SetJobs(jobs)) - (IF Head(jobs).kind = "set" THEN 1 ELSE 0)
  <1>1. /\ Len(jobs') = Len(jobs) - 1 /\ Len(jobs) \in Nat
        /\ DOMAIN jobs = 1..Len(jobs) /\ DOMAIN jobs' = 1..Len(jobs')
        /\ Len(jobs) >= 1 /\ Head(jobs) = jobs[1]
        /\ \A i \in DOMAIN jobs' : jobs'[i] = jobs[i + 1]
    BY Popped
  <1>2. IsFiniteSet(SetJobs(jobs)) /\ Cardinality(SetJobs(jobs)) \in Nat
    BY FiniteSetJobs
  <1> DEFINE S == SetJobs(jobs) \ {1}
             T == SetJobs(jobs)'
             f == [i \in S |-> i - 1]
  <1>3. IsFiniteSet(S)
        /\ Cardinality(S) = IF 1 \in SetJobs(jobs) THEN Cardinality(SetJobs(jobs)) - 1
                                                   ELSE Cardinality(SetJobs(jobs))
    BY <1>2, FS_RemoveElement
  <1>4. \A i \in S : i \in Nat /\ i - 1 \in T
    BY <1>1 DEF SetJobs
  <1>5. \A j \in T : j \in Nat /\ j + 1 \in S
    BY <1>1 DEF SetJobs
  <1> HIDE DEF S, T
  <1>6. f \in Bijection(S, T)
    <2>1. f \in [S -> T]
      BY <1>4
    <2>2. \A a, b \in S : f[a] = f[b] => a = b
      BY <1>4
    <2>3. \A t \in T : \E s \in S : f[s] = t
      <3> TAKE t \in T
      <3>1. t + 1 \in S /\ f[t + 1] = t
        BY <1>5
      <3> QED
        BY <3>1
    <2> QED
      BY <2>1, <2>2, <2>3 DEF Bijection, Injection, Surjection, IsInjective
  <1>7. Cardinality(T) = Cardinality(S)
    BY <1>3, <1>6, FS_Bijection DEF ExistsBijection
  <1>8. 1 \in SetJobs(jobs) <=> Head(jobs).kind = "set"
    BY <1>1 DEF SetJobs
  <1> QED
    BY <1>2, <1>3, <1>7, <1>8 DEF T

\* The lengths and counts are numbers.
LEMMA RoomTypes ==
    ASSUME Shape
    PROVE  Len(log) \in Nat /\ sending \in BOOLEAN /\ Cardinality(SetJobs(jobs)) \in Nat
           /\ MaxWrites \in Nat
  BY FiniteSetJobs, LenProperties, CacheAssumption DEF Shape

\* A step that writes, queues and sends nothing.
LEMMA RoomStays ==
    ASSUME Room, UNCHANGED <<writes, sending, log, jobs>>
    PROVE  Room'
  BY DEF Room, SetJobs

\* A write takes its room, and moves through the queue and the send to the log.
LEMMA RoomKept ==
    ASSUME IndInv, Room, [Next]_vars
    PROVE  Room'
  <1>1. Shape /\ Len(log) \in Nat /\ sending \in BOOLEAN
        /\ Cardinality(SetJobs(jobs)) \in Nat /\ MaxWrites \in Nat
    BY RoomTypes DEF IndInv
  <1>2. ASSUME NEW v \in Values, Write(v) PROVE Room'
    <2> DEFINE e == [kind |-> "set", val |-> v]
    <2>1. e \in CacheJobs /\ e.kind = "set"
      BY DEF CacheJobs
    <2>2. jobs' = Append(jobs, e)
      BY <1>2 DEF Write
    <2> HIDE DEF e
    <2>3. Cardinality(SetJobs(jobs)') = Cardinality(SetJobs(jobs)) + 1
      BY <1>1, <2>1, <2>2, CountAppended
    <2>4. writes < MaxWrites /\ writes' = writes + 1 /\ UNCHANGED <<sending, log>>
      BY <1>2 DEF Write
    <2> QED
      BY <1>1, <2>3, <2>4 DEF Room
  <1>3. CASE RunSet
    <2>1. Cardinality(SetJobs(jobs)') = Cardinality(SetJobs(jobs)) - 1
      BY <1>1, <1>3, CountPopped DEF RunSet
    <2>2. ~sending /\ sending' \in BOOLEAN /\ UNCHANGED <<writes, log>>
      BY <1>3 DEF RunSet
    <2> QED
      BY <1>1, <2>1, <2>2 DEF Room
  <1>4. CASE SendView
    <2>1. sending /\ ~sending' /\ UNCHANGED <<writes, jobs>>
      BY <1>4 DEF SendView
    <2>2. Len(log') = Len(log) + 1 \/ log' = log
      BY <1>1, <1>4, AppendProperties DEF SendView, Shape
    <2>3. SetJobs(jobs)' = SetJobs(jobs)
      BY <2>1 DEF SetJobs
    <2> QED
      BY <1>1, <2>1, <2>2, <2>3 DEF Room
  <1>5. CASE RunGet
    <2>1. Cardinality(SetJobs(jobs)') = Cardinality(SetJobs(jobs))
      BY <1>1, <1>5, CountPopped DEF RunGet
    <2>2. UNCHANGED <<writes, log, sending>>
      BY <1>5 DEF RunGet
    <2> QED
      BY <1>1, <2>1, <2>2 DEF Room
  <1>6. CASE ActorDies
    <2>1. jobs' = <<>> /\ UNCHANGED <<writes, log, sending>>
      BY <1>6 DEF ActorDies
    <2>2. SetJobs(jobs)' = {}
      BY <2>1 DEF SetJobs
    <2>3. Cardinality(SetJobs(jobs)') = 0
      BY <2>2, FS_EmptySet
    <2> QED
      BY <1>1, <2>1, <2>3 DEF Room
  <1>7. ASSUME NEW k \in Caches, Request(k) PROVE Room'
    <2>1. UNCHANGED <<writes, log, sending>>
      BY <1>7 DEF Request
    <2>2. CASE actorUp
      <3> DEFINE e == [kind |-> "get", for |-> k]
      <3>1. e \in CacheJobs /\ e.kind # "set"
        BY DEF CacheJobs
      <3>2. jobs' = Append(jobs, e)
        BY <1>7, <2>2 DEF Request
      <3> HIDE DEF e
      <3>3. Cardinality(SetJobs(jobs)') = Cardinality(SetJobs(jobs))
        BY <1>1, <3>1, <3>2, CountAppended
      <3> QED
        BY <1>1, <2>1, <3>3 DEF Room
    <2>3. CASE ~actorUp
      BY <1>7, <2>1, <2>3, RoomStays DEF Request
    <2> QED
      BY <2>2, <2>3
  <1>8. ASSUME NEW k \in Caches, Progress(k) PROVE Room'
    BY <1>7, <1>8, RoomStays DEF Progress, actorVars, ReceiveValue, ReceiveLag,
        ReceiveClosed, DrainOne, DrainEnd, WaitForExit, DropWaitCache
  <1>9. ASSUME NEW k \in Caches, DropCache(k) \/ Read(k) \/ Cancel(k) PROVE Room'
    BY <1>9, RoomStays DEF actorVars, DropCache, Cancel, Read, Newest, TryRecvNewest,
        RecvNewest, Recv, TryRecv, WaitUntil, HandOutFirst, Begin
  <1>10. ASSUME NEW k \in Caches, \E u \in {"cache", "wait"} : Subscribe(k, u) PROVE Room'
    BY <1>10, RoomStays DEF actorVars, Subscribe
  <1>11. ASSUME NEW k \in Caches, \E v \in Values : CacheFrom(k, v) PROVE Room'
    BY <1>11, RoomStays DEF actorVars, CacheFrom
  <1>12. ASSUME NEW k \in Caches, \E d \in Caches : Clone(k, d) \/ CloneNewest(k, d)
         PROVE  Room'
    BY <1>12, RoomStays DEF actorVars, Clone, CloneNewest
  <1>13. CASE ActorEnds \/ DropHandles \/ UNCHANGED vars
    BY <1>13, RoomStays DEF ActorEnds, DropHandles, vars, actorVars
  <1> QED
    BY <1>2, <1>3, <1>4, <1>5, <1>6, <1>8, <1>9, <1>10, <1>11, <1>12, <1>13
    DEF Next, ActorStep

\* Every variable of Cache keeps its type, and neither the log nor a position in
\* it passes the number of writes made (handle.rs broadcast).
THEOREM TypeCorrect == Spec => []TypeOK
  <1>1. Init => Room
    <2> SUFFICES ASSUME Init PROVE Room
      OBVIOUS
    <2>1. writes = 0 /\ ~sending /\ Len(log) = 0 /\ SetJobs(jobs) = {}
      BY DEF Init, SetJobs
    <2> QED
      BY <2>1, FS_EmptySet, CacheAssumption DEF Room
  <1>2. IndInv /\ Room /\ [Next]_vars => Room'
    BY RoomKept
  <1>3. IndInv /\ Room => TypeOK
    <2> SUFFICES ASSUME IndInv, Room PROVE TypeOK
      OBVIOUS
    <2>1. Shape /\ Len(log) \in Nat /\ sending \in BOOLEAN
          /\ Cardinality(SetJobs(jobs)) \in Nat /\ MaxWrites \in Nat
      BY RoomTypes DEF IndInv
    <2>2. Len(log) <= writes /\ writes \in 0..MaxWrites /\ Len(log) <= MaxWrites
      BY <2>1 DEF Room
    <2> DEFINE R == [st : {"none", "subscribed", "getting", "cloning", "live"},
                     use : {"cache", "wait"}, inner : Values,
                     pos : 1..MaxWrites + 1, first : BOOLEAN,
                     synced : BOOLEAN, handed : 0..MaxWrites]
    <2>3. ASSUME NEW k \in Caches PROVE cache[k] \in R
      <3>1. cache[k] \in CacheRecs /\ Good(cache[k], call[k], ret[k])
        BY <2>1, <2>3 DEF IndInv, Shape
      <3>2. cache[k].pos \in Nat /\ cache[k].handed \in Int
        BY <3>1 DEF CacheRecs
      <3>3. cache[k].pos \in 1..MaxWrites + 1 /\ cache[k].handed \in 0..MaxWrites
        BY <2>1, <2>2, <3>1, <3>2 DEF Good, Handed
      <3> QED
        BY <3>1, <3>3 DEF CacheRecs
    <2> HIDE DEF R
    <2>4. cache \in [Caches -> R]
      BY <2>1, <2>3 DEF Shape
    <2> QED
      BY <2>1, <2>2, <2>4 DEF TypeOK, Shape, CacheJobs, CallRecs, Ops, RetRecs, R
  <1> QED
    BY <1>1, <1>2, <1>3, Inductive, PTL DEF Spec
=============================================================================
