--------------------------- MODULE ThrottleProofs ---------------------------
(* What holds of Throttle for any capacity, any number of broadcasts and    *)
(* any number of missed ticks.                                              *)
EXTENDS Throttle, TLAPS

USE DEF None, world, config, seen, Ticks, Ended, Spawning, Channel!TailOf

(***************************************************************************)
(* The inductive invariant.                                                *)
(***************************************************************************)
Started == ~Spawning /\ st \notin {"none", "spawned"}

\* A value is its place; nothing runs ahead of what was broadcast.
Places ==
    /\ \A i \in DOMAIN log : log[i] = i
    /\ pos <= Len(log) + 1 /\ since <= Len(log) + 1 /\ Len(log) <= MaxBroadcasts
    /\ current <= Len(log) /\ sent <= Len(log) /\ wokeAt <= Len(log)

\* The variants differ in what wakes them and what is left to send.
Variants ==
    /\ st = "draining" => Ticks
    /\ st = "none" \/ Spawning => owed = 0
    /\ ~attached => freq = "Interval" \/ st = "none"
    /\ st = "none" => ~attached
    /\ st = "none" \/ Spawning => current = None
    /\ Spawning => attached
    /\ by = "value" => freq = "OnEvent"
    /\ by = "tick" => Ticks
    /\ ~Started => sent = None /\ by = "none"

\* A period that granted a call has no tick left to grant another.
OneGrant ==
    /\ ~Started => grants = 0
    /\ Ticks => grants = 0 \/ (grants = 1 /\ owed = 0)

\* A receiver that is not at the end finds a value newer than all it has read;
\* at the end the newest there is is held, or nothing was ever received.
HoldsNewest ==
    attached /\ ~Spawning /\ current # None =>
        \/ current >= pos - 1 \/ pos <= Len(log)
        \/ pos = since /\ current = initial

\* What was sent is older than what may still be received, and what is held
\* is newer when an event says so.
SentIsPast ==
    by \in {"value", "tick"} =>
        /\ attached => sent < pos
        /\ by = "tick" => sent <= current
        /\ by = "tick" /\ freq = "OnEventWhen" /\ (pending \/ (st = "draining" /\ got)) =>
              sent < current

\* Every reachable state satisfies the shape the proofs rest on: where the
\* receiver stands, what is held and sent, and what a period still permits.
IndInv ==
    /\ TypeOK
    /\ Places
    /\ Variants
    /\ OneGrant
    /\ HoldsNewest
    /\ SentIsPast
    /\ TickSendsNewest
-----------------------------------------------------------------------------
\* Where a receiver stands after a receive, and what it read.
LEMMA Receiving ==
    ASSUME log \in Seq(1..MaxBroadcasts), pos \in 1..MaxBroadcasts + 1,
           Len(log) <= MaxBroadcasts, pos <= Len(log) + 1,
           \A i \in DOMAIN log : log[i] = i
    PROVE  /\ Reading = "Ok" =>
                 /\ attached /\ pos <= Len(log) /\ log[pos] = pos
                 /\ Channel!Advance(log, pos) = pos + 1
           /\ Reading = "Lagged" =>
                 /\ attached /\ Channel!Advance(log, pos) \in Nat
                 /\ pos < Channel!Advance(log, pos)
                 /\ Channel!Advance(log, pos) <= Len(log)
           /\ attached /\ Reading \notin {"Ok", "Lagged"} => pos = Len(log) + 1
  BY ThrottleAssumption
     DEF Reading, Channel!Reads, Channel!Advance, Channel!Lagged, Channel!OldestOf

\* It holds before the task runs, for every frequency and way to spawn.
LEMMA InitIndInv == Init => IndInv
<1> SUFFICES ASSUME Init PROVE IndInv
  OBVIOUS
<1>1. TypeOK
  <2>1. /\ log = <<>> /\ freq \in {"OnEvent", "Interval", "OnEventWhen"}
        /\ open = TRUE /\ pending = FALSE /\ got = FALSE /\ aborted = FALSE
        /\ MaxBroadcasts \in Nat /\ MaxOwed \in Nat
    BY ThrottleAssumption DEF Init
  <2>2. log \in Seq(1..MaxBroadcasts)
    BY <2>1
  <2>3. /\ st = "none" /\ by = "none" /\ isAsync \in BOOLEAN /\ attached = FALSE
        /\ pos = 1 /\ since = 1 /\ owed = 0 /\ grants = 0 /\ wokeAt = 0
        /\ current = -1 /\ sent = -1 /\ initial = -1
    BY DEF Init
  <2>4. /\ pos \in 1..MaxBroadcasts + 1 /\ since \in 1..MaxBroadcasts + 1
        /\ initial \in None..MaxBroadcasts /\ owed \in 0..MaxOwed
        /\ current \in None..MaxBroadcasts /\ sent \in None..MaxBroadcasts
        /\ grants \in 0..2 /\ wokeAt \in 0..MaxBroadcasts /\ ~(owed > 0)
    BY <2>1, <2>3
  <2> QED
    BY <2>1, <2>2, <2>3, <2>4 DEF TypeOK
<1>2. Places /\ Variants /\ OneGrant
  <2>1. Len(log) = 0 /\ DOMAIN log = {}
    BY DEF Init
  <2> QED
    BY <2>1, ThrottleAssumption DEF Init, Places, Variants, OneGrant, Started
<1>3. HoldsNewest /\ SentIsPast /\ TickSendsNewest
  BY DEF Init, HoldsNewest, SentIsPast, TickSendsNewest
<1> QED
  BY <1>1, <1>2, <1>3 DEF IndInv

\* Each step keeps the invariant.
LEMMA StepIndInv ==
    ASSUME IndInv, [Next]_vars
    PROVE  IndInv'
<1> USE DEF IndInv, TypeOK, Places, Variants, OneGrant, HoldsNewest, SentIsPast,
            TickSendsNewest, Started
<1>1. ASSUME Broadcast
      PROVE  IndInv'
  <2>1. /\ log' \in Seq(1..MaxBroadcasts) /\ Len(log') = Len(log) + 1
        /\ \A i \in DOMAIN log' : log'[i] = i
        /\ Len(log') <= MaxBroadcasts
    BY <1>1, ThrottleAssumption DEF Broadcast
  <2> QED
    BY <1>1, <2>1, ThrottleAssumption DEF Broadcast
<1>2. ASSUME CloseSenders
      PROVE  IndInv'
  <2>1. TypeOK'
    BY <1>2 DEF CloseSenders
  <2>2. Places' /\ Variants'
    BY <1>2 DEF CloseSenders
  <2>3. OneGrant'
    BY <1>2 DEF CloseSenders
  <2>4. HoldsNewest' /\ SentIsPast'
    BY <1>2 DEF CloseSenders
  <2>5. TickSendsNewest'
    BY <1>2 DEF CloseSenders
  <2> QED
    BY <2>1, <2>2, <2>3, <2>4, <2>5
<1>3. ASSUME Boundary
      PROVE  IndInv'
  <2>1. TypeOK'
    BY <1>3, ThrottleAssumption DEF Boundary
  <2>2. Places' /\ Variants'
    BY <1>3, ThrottleAssumption DEF Boundary
  <2>3. OneGrant'
    BY <1>3, ThrottleAssumption DEF Boundary
  <2>4. HoldsNewest' /\ SentIsPast'
    BY <1>3, ThrottleAssumption DEF Boundary
  <2>5. TickSendsNewest'
    BY <1>3, ThrottleAssumption DEF Boundary
  <2> QED
    BY <2>1, <2>2, <2>3, <2>4, <2>5
<1>4. ASSUME Abort
      PROVE  IndInv'
  <2>1. TypeOK'
    BY <1>4 DEF Abort
  <2>2. Places' /\ Variants'
    BY <1>4 DEF Abort
  <2>3. OneGrant'
    BY <1>4 DEF Abort
  <2>4. HoldsNewest' /\ SentIsPast'
    BY <1>4 DEF Abort
  <2>5. TickSendsNewest'
    BY <1>4 DEF Abort
  <2> QED
    BY <2>1, <2>2, <2>3, <2>4, <2>5
<1>5. ASSUME HandleSubscribes
      PROVE  IndInv'
  <2>1. TypeOK'
    BY <1>5, ThrottleAssumption DEF HandleSubscribes, SubscribeFor
  <2>2. Places' /\ Variants'
    BY <1>5, ThrottleAssumption DEF HandleSubscribes, SubscribeFor
  <2>3. OneGrant'
    BY <1>5, ThrottleAssumption DEF HandleSubscribes, SubscribeFor
  <2>4. HoldsNewest' /\ SentIsPast'
    BY <1>5, ThrottleAssumption DEF HandleSubscribes, SubscribeFor
  <2>5. TickSendsNewest'
    BY <1>5, ThrottleAssumption DEF HandleSubscribes, SubscribeFor
  <2> QED
    BY <2>1, <2>2, <2>3, <2>4, <2>5
<1>6. ASSUME CacheResubscribes
      PROVE  IndInv'
  <2>1. TypeOK'
    BY <1>6, ThrottleAssumption DEF CacheResubscribes, SubscribeFor
  <2>2. Places' /\ Variants'
    BY <1>6, ThrottleAssumption DEF CacheResubscribes, SubscribeFor
  <2>3. OneGrant'
    BY <1>6, ThrottleAssumption DEF CacheResubscribes, SubscribeFor
  <2>4. HoldsNewest' /\ SentIsPast'
    BY <1>6, ThrottleAssumption DEF CacheResubscribes, SubscribeFor
  <2>5. TickSendsNewest'
    BY <1>6, ThrottleAssumption DEF CacheResubscribes, SubscribeFor
  <2> QED
    BY <2>1, <2>2, <2>3, <2>4, <2>5
<1>7. ASSUME SpawnFromHandle
      PROVE  IndInv'
  <2>1. TypeOK'
    BY <1>7, ThrottleAssumption DEF SpawnFromHandle, SpawnWith
  <2>2. Places' /\ Variants'
    BY <1>7, ThrottleAssumption DEF SpawnFromHandle, SpawnWith
  <2>3. OneGrant'
    BY <1>7, ThrottleAssumption DEF SpawnFromHandle, SpawnWith
  <2>4. HoldsNewest' /\ SentIsPast'
    BY <1>7, ThrottleAssumption DEF SpawnFromHandle, SpawnWith
  <2>5. TickSendsNewest'
    BY <1>7, ThrottleAssumption DEF SpawnFromHandle, SpawnWith
  <2> QED
    BY <2>1, <2>2, <2>3, <2>4, <2>5
<1>8. ASSUME SpawnFromCache
      PROVE  IndInv'
  <2>1. TypeOK'
    BY <1>8, ThrottleAssumption DEF SpawnFromCache, SpawnWith
  <2>2. Places' /\ Variants'
    BY <1>8, ThrottleAssumption DEF SpawnFromCache, SpawnWith
  <2>3. OneGrant'
    BY <1>8, ThrottleAssumption DEF SpawnFromCache, SpawnWith
  <2>4. HoldsNewest' /\ SentIsPast'
    BY <1>8, ThrottleAssumption DEF SpawnFromCache, SpawnWith
  <2>5. TickSendsNewest'
    BY <1>8, ThrottleAssumption DEF SpawnFromCache, SpawnWith
  <2> QED
    BY <2>1, <2>2, <2>3, <2>4, <2>5
<1>9. ASSUME SpawnFromReceiver
      PROVE  IndInv'
  <2>1. TypeOK'
    BY <1>9, ThrottleAssumption DEF SpawnFromReceiver, SpawnWith
  <2>2. Places' /\ Variants'
    BY <1>9, ThrottleAssumption DEF SpawnFromReceiver, SpawnWith
  <2>3. OneGrant'
    BY <1>9, ThrottleAssumption DEF SpawnFromReceiver, SpawnWith
  <2>4. HoldsNewest' /\ SentIsPast'
    BY <1>9, ThrottleAssumption DEF SpawnFromReceiver, SpawnWith
  <2>5. TickSendsNewest'
    BY <1>9, ThrottleAssumption DEF SpawnFromReceiver, SpawnWith
  <2> QED
    BY <2>1, <2>2, <2>3, <2>4, <2>5
<1>10. ASSUME SpawnInterval
      PROVE  IndInv'
  <2>1. TypeOK'
    BY <1>10, ThrottleAssumption DEF SpawnInterval, SpawnWith
  <2>2. Places' /\ Variants'
    BY <1>10, ThrottleAssumption DEF SpawnInterval, SpawnWith
  <2>3. OneGrant'
    BY <1>10, ThrottleAssumption DEF SpawnInterval, SpawnWith
  <2>4. HoldsNewest' /\ SentIsPast'
    BY <1>10, ThrottleAssumption DEF SpawnInterval, SpawnWith
  <2>5. TickSendsNewest'
    BY <1>10, ThrottleAssumption DEF SpawnInterval, SpawnWith
  <2> QED
    BY <2>1, <2>2, <2>3, <2>4, <2>5
<1>11. ASSUME Start
      PROVE  IndInv'
  <2>1. TypeOK'
    BY <1>11, ThrottleAssumption DEF Start, Call, Grant
  <2>2. Places' /\ Variants'
    BY <1>11, ThrottleAssumption DEF Start, Call, Grant
  <2>3. OneGrant'
    BY <1>11, ThrottleAssumption DEF Start, Call, Grant
  <2>4. HoldsNewest' /\ SentIsPast'
    BY <1>11, ThrottleAssumption DEF Start, Call, Grant
  <2>5. TickSendsNewest'
    BY <1>11, ThrottleAssumption DEF Start, Call, Grant
  <2> QED
    BY <2>1, <2>2, <2>3, <2>4, <2>5
<1>12. ASSUME WakeTick
       PROVE  IndInv'
  <2>1. TypeOK'
    <3>1. grants' \in 0..2 /\ owed' \in 0..MaxOwed /\ ~(owed' > 0)
      BY <1>12, ThrottleAssumption DEF WakeTick, Grant, OwedAfterTick
    <3>2. /\ wokeAt' \in 0..MaxBroadcasts
          /\ got' = FALSE /\ st' = "draining"
      BY <1>12, ThrottleAssumption DEF WakeTick
    <3>3. UNCHANGED <<log, open, freq, isAsync, attached, since, initial, pos, current,
                      pending, aborted, sent, by>>
      BY <1>12 DEF WakeTick
    <3> QED
      BY <3>1, <3>2, <3>3
  <2>2. Places' /\ Variants'
    BY <1>12, ThrottleAssumption DEF WakeTick, Grant, OwedAfterTick
  <2>3. OneGrant'
    BY <1>12, ThrottleAssumption DEF WakeTick, Grant, OwedAfterTick
  <2>4. HoldsNewest' /\ SentIsPast'
    BY <1>12, ThrottleAssumption DEF WakeTick, Grant, OwedAfterTick
  <2>5. TickSendsNewest'
    BY <1>12, ThrottleAssumption DEF WakeTick, Grant, OwedAfterTick
  <2> QED
    BY <2>1, <2>2, <2>3, <2>4, <2>5
<1>13. ASSUME WakeValue
       PROVE  IndInv'
  <2>1. TypeOK'
    BY <1>13, Receiving, ThrottleAssumption DEF WakeValue, Recorded, Call
  <2>2. Places' /\ Variants'
    BY <1>13, Receiving, ThrottleAssumption DEF WakeValue, Recorded, Call
  <2>3. OneGrant'
    BY <1>13, Receiving, ThrottleAssumption DEF WakeValue, Recorded, Call
  <2>4. HoldsNewest' /\ SentIsPast'
    BY <1>13, Receiving, ThrottleAssumption DEF WakeValue, Recorded, Call
  <2>5. TickSendsNewest'
    BY <1>13, Receiving, ThrottleAssumption DEF WakeValue, Recorded, Call
  <2> QED
    BY <2>1, <2>2, <2>3, <2>4, <2>5
<1>14. ASSUME WakeLagged
       PROVE  IndInv'
  <2>1. TypeOK'
    BY <1>14, Receiving, ThrottleAssumption DEF WakeLagged
  <2>2. Places' /\ Variants'
    BY <1>14, Receiving, ThrottleAssumption DEF WakeLagged
  <2>3. OneGrant'
    BY <1>14, Receiving, ThrottleAssumption DEF WakeLagged
  <2>4. HoldsNewest' /\ SentIsPast'
    BY <1>14, Receiving, ThrottleAssumption DEF WakeLagged
  <2>5. TickSendsNewest'
    BY <1>14, Receiving, ThrottleAssumption DEF WakeLagged
  <2> QED
    BY <2>1, <2>2, <2>3, <2>4, <2>5
<1>15. ASSUME WakeClosed
       PROVE  IndInv'
  <2>1. TypeOK'
    BY <1>15 DEF WakeClosed
  <2>2. Places' /\ Variants'
    BY <1>15 DEF WakeClosed
  <2>3. OneGrant'
    BY <1>15 DEF WakeClosed
  <2>4. HoldsNewest' /\ SentIsPast'
    BY <1>15 DEF WakeClosed
  <2>5. TickSendsNewest'
    BY <1>15 DEF WakeClosed
  <2> QED
    BY <2>1, <2>2, <2>3, <2>4, <2>5
<1>16. ASSUME DrainOne
       PROVE  IndInv'
  <2>1. TypeOK'
    BY <1>16, Receiving, ThrottleAssumption DEF DrainOne, Drains
  <2>2. Places' /\ Variants'
    BY <1>16, Receiving, ThrottleAssumption DEF DrainOne, Drains
  <2>3. OneGrant'
    BY <1>16, Receiving, ThrottleAssumption DEF DrainOne, Drains
  <2>4. HoldsNewest' /\ SentIsPast'
    BY <1>16, Receiving, ThrottleAssumption DEF DrainOne, Drains
  <2>5. TickSendsNewest'
    BY <1>16, Receiving, ThrottleAssumption DEF DrainOne, Drains
  <2> QED
    BY <2>1, <2>2, <2>3, <2>4, <2>5
<1>17. ASSUME DrainEnd
       PROVE  IndInv'
  <2>1. TypeOK'
    BY <1>17, Receiving, ThrottleAssumption DEF DrainEnd, Drains, PendingAfterTick, Call
  <2>2. Places' /\ Variants'
    BY <1>17, Receiving, ThrottleAssumption DEF DrainEnd, Drains, PendingAfterTick, Call
  <2>3. OneGrant'
    BY <1>17, Receiving, ThrottleAssumption DEF DrainEnd, Drains, PendingAfterTick, Call
  <2>4. HoldsNewest' /\ SentIsPast'
    BY <1>17, Receiving, ThrottleAssumption DEF DrainEnd, Drains, PendingAfterTick, Call
  <2>5. TickSendsNewest'
    BY <1>17, Receiving, ThrottleAssumption DEF DrainEnd, Drains, PendingAfterTick, Call
  <2> QED
    BY <2>1, <2>2, <2>3, <2>4, <2>5
<1>18. ASSUME CallReturns
       PROVE  IndInv'
  <2>1. TypeOK'
    BY <1>18 DEF CallReturns
  <2>2. Places' /\ Variants'
    BY <1>18 DEF CallReturns
  <2>3. OneGrant'
    BY <1>18 DEF CallReturns
  <2>4. HoldsNewest' /\ SentIsPast'
    BY <1>18 DEF CallReturns
  <2>5. TickSendsNewest'
    BY <1>18 DEF CallReturns
  <2> QED
    BY <2>1, <2>2, <2>3, <2>4, <2>5
<1>19. ASSUME Cancel
       PROVE  IndInv'
  <2>1. TypeOK'
    BY <1>19 DEF Cancel
  <2>2. Places' /\ Variants'
    BY <1>19 DEF Cancel
  <2>3. OneGrant'
    BY <1>19 DEF Cancel
  <2>4. HoldsNewest' /\ SentIsPast'
    BY <1>19 DEF Cancel
  <2>5. TickSendsNewest'
    BY <1>19 DEF Cancel
  <2> QED
    BY <2>1, <2>2, <2>3, <2>4, <2>5
<1>20. ASSUME UNCHANGED vars
       PROVE  IndInv'
  <2>1. TypeOK'
    BY <1>20 DEF vars, Channel!TailOf
  <2>2. Places' /\ Variants'
    BY <1>20 DEF vars, Channel!TailOf
  <2>3. OneGrant'
    BY <1>20 DEF vars, Channel!TailOf
  <2>4. HoldsNewest' /\ SentIsPast'
    BY <1>20 DEF vars, Channel!TailOf
  <2>5. TickSendsNewest'
    BY <1>20 DEF vars, Channel!TailOf
  <2> QED
    BY <2>1, <2>2, <2>3, <2>4, <2>5
<1> QED
  BY <1>1, <1>2, <1>3, <1>4, <1>5, <1>6, <1>7, <1>8, <1>9, <1>10, <1>11, <1>12, <1>13, <1>14,
     <1>15, <1>16, <1>17, <1>18, <1>19, <1>20 DEF Next

\* The invariant holds in every reachable state.
THEOREM Inductive == Spec => []IndInv
<1>1. IndInv /\ [Next]_vars => IndInv'
  BY StepIndInv
<1> QED
  BY <1>1, InitIndInv, PTL DEF Spec

\* Every variable keeps its type.
THEOREM TypeCorrect == Spec => []TypeOK
<1>1. IndInv => TypeOK
  BY DEF IndInv
<1> QED
  BY <1>1, Inductive, PTL

\* With an interval there is at most one call a period, the initial one
\* included, whatever ticks were missed (throttle_interval).
THEOREM AtMostOneCallAPeriod == Spec => []OncePerPeriod
<1>1. IndInv => OncePerPeriod
  BY DEF IndInv, OneGrant, OncePerPeriod
<1> QED
  BY <1>1, Inductive, PTL

\* A tick sends a value as new as all that was broadcast before the task woke for
\* it, however far the receiver lagged (ThrottleState::next, drain_available); the
\* value the throttle was spawned with, if that is older, is sent only while nothing
\* has been broadcast since.
THEOREM TicksSendTheNewest == Spec => []TickSendsNewest
<1>1. IndInv => TickSendsNewest
  BY DEF IndInv
<1> QED
  BY <1>1, Inductive, PTL

\* After its first call a callback is never given an older value, and the
\* same one again only by Interval (event_pending, drain_available).
THEOREM NothingOldIsSent == Spec => SendsOnlyNewer
<1> DEFINE Newer == CallStarts /\ by \in {"value", "tick"} =>
                        sent' > sent \/ (freq = "Interval" /\ sent' = sent)
<1>1. ASSUME IndInv, Next
      PROVE  Newer
  <2> USE DEF CallStarts, IndInv, TypeOK, Places, Variants, SentIsPast, Started
  <2>1. CASE Start
    BY <1>1, <2>1 DEF Start
  <2>2. CASE WakeValue
    BY <1>1, <2>2, Receiving, ThrottleAssumption DEF WakeValue, Call
  <2>3. CASE DrainEnd
    BY <1>1, <2>3 DEF DrainEnd, Call
  <2>4. CASE Broadcast \/ CloseSenders \/ Boundary \/ Abort \/ DrainOne
    BY <2>4 DEF Broadcast, CloseSenders, Boundary, Abort, DrainOne
  <2>5. CASE HandleSubscribes \/ CacheResubscribes \/ SpawnFromHandle \/ SpawnFromCache
             \/ SpawnFromReceiver \/ SpawnInterval
    BY <2>5 DEF HandleSubscribes, CacheResubscribes, SpawnFromHandle, SpawnFromCache,
                SpawnFromReceiver, SpawnInterval, SubscribeFor, SpawnWith
  <2>6. CASE WakeTick \/ WakeLagged \/ WakeClosed \/ CallReturns \/ Cancel
    BY <2>6 DEF WakeTick, WakeLagged, WakeClosed, CallReturns, Cancel
  <2> QED
    BY <1>1, <2>1, <2>2, <2>3, <2>4, <2>5, <2>6 DEF Next
<1>2. UNCHANGED vars => UNCHANGED <<st, sent>>
  BY DEF vars
<1>3. IndInv /\ [Next]_vars => [Newer]_vars
  BY <1>1
<1> QED
  BY <1>3, Inductive, PTL DEF Spec, SendsOnlyNewer
=============================================================================
