------------------------- MODULE ActorSystemProofs -------------------------
(* What holds of ActorSystem for any number of actors and clients, whoever  *)
(* holds handles to whom, and of Program, which runs it.                    *)
EXTENDS ActorSystem, SequenceTheorems, TLAPS

USE DEF Requesters, Job, IsAt

\* What a job is called by tells it apart from NoJob.
LEMMA NoJobIsNoJob == NoJob \notin Jobs
  BY RequestersAssumption DEF NoJob, Jobs

\* Removing an element keeps the type of a sequence, and the other elements.
LEMMA RemoveAtKeeps ==
    ASSUME NEW S, NEW s \in Seq(S), NEW i \in DOMAIN s
    PROVE  /\ RemoveAt(s, i) \in Seq(S)
           /\ \A k \in DOMAIN s \ {i} :
                 \E l \in DOMAIN RemoveAt(s, i) : RemoveAt(s, i)[l] = s[k]
<1>1. i \in 1..Len(s) /\ Len(s) \in Nat
  OBVIOUS
<1> DEFINE t == RemoveAt(s, i)
<1>2. /\ t \in Seq(S) /\ Len(t) = Len(s) - 1
      /\ \A l \in 1..(Len(s) - 1) : t[l] = IF l < i THEN s[l] ELSE s[l + 1]
  <2> DEFINE p == SubSeq(s, 1, i - 1)
             q == SubSeq(s, i + 1, Len(s))
  <2>1. /\ p \in Seq(S) /\ Len(p) = i - 1
        /\ \A l \in 1..(i - 1) : p[l] = s[l]
    BY <1>1, SubSeqProperties
  <2>2. /\ q \in Seq(S) /\ Len(q) = Len(s) - i
        /\ \A l \in 1..(Len(s) - i) : q[l] = s[l + i]
    BY <1>1, SubSeqProperties
  <2> HIDE DEF p, q
  <2>3. /\ p \o q \in Seq(S) /\ Len(p \o q) = Len(p) + Len(q)
        /\ \A l \in 1..(Len(p) + Len(q)) :
              (p \o q)[l] = IF l <= Len(p) THEN p[l] ELSE q[l - Len(p)]
    BY <2>1, <2>2, ConcatProperties
  <2>4. t = p \o q
    BY DEF RemoveAt, p, q
  <2>5. /\ t \in Seq(S) /\ Len(t) = Len(p) + Len(q)
        /\ \A l \in 1..(Len(p) + Len(q)) :
              t[l] = IF l <= Len(p) THEN p[l] ELSE q[l - Len(p)]
    BY <2>3, <2>4
  <2> HIDE DEF t
  <2>6. Len(t) = Len(s) - 1
    BY <1>1, <2>1, <2>2, <2>5
  <2>7. ASSUME NEW l \in 1..(Len(s) - 1)
        PROVE  t[l] = IF l < i THEN s[l] ELSE s[l + 1]
    <3>1. t[l] = IF l <= Len(p) THEN p[l] ELSE q[l - Len(p)]
      <4>1. l \in 1..(Len(p) + Len(q))
        BY <1>1, <2>1, <2>2
      <4> QED
        BY <2>5, <4>1
    <3>2. CASE l < i
      <4>1. l \in 1..(i - 1) /\ l <= i - 1
        BY <1>1, <3>2
      <4> QED
        BY <2>1, <3>1, <3>2, <4>1
    <3>3. CASE l >= i
      <4>1. l - (i - 1) \in 1..(Len(s) - i) /\ (l - (i - 1)) + i = l + 1
        BY <1>1, <3>3
      <4>2. q[l - (i - 1)] = s[l + 1]
        BY <2>2, <4>1
      <4> QED
        BY <1>1, <2>1, <3>1, <3>3, <4>2
    <3> QED
      BY <1>1, <3>2, <3>3
  <2> QED
    BY <2>5, <2>6, <2>7
<1>3. ASSUME NEW k \in DOMAIN s \ {i}
      PROVE  \E l \in DOMAIN t : t[l] = s[k]
  <2>1. CASE k < i
    <3>1. k \in 1..(Len(s) - 1) /\ t[k] = s[k] /\ k \in DOMAIN t
      BY <1>1, <1>2, <1>3, <2>1
    <3> QED
      BY <3>1
  <2>2. CASE k > i
    <3>1. k - 1 \in 1..(Len(s) - 1) /\ t[k - 1] = s[k] /\ k - 1 \in DOMAIN t
      BY <1>1, <1>2, <1>3, <2>2
    <3> QED
      BY <3>1
  <2> QED
    BY <1>1, <1>3, <2>1, <2>2
<1> QED
  BY <1>2, <1>3

-----------------------------------------------------------------------------
(* The invariant: types, and the jobs of those who wait. *)

IndInv == SystemTypeOK /\ WaitsAreServed

\* The invariant holds of new actors.
LEMMA InitIndInv == SystemInit => IndInv
<1> SUFFICES ASSUME SystemInit PROVE IndInv
  OBVIOUS
<1>1. SystemTypeOK
  BY RequestersAssumption DEF SystemInit, SystemTypeOK
<1>2. WaitsAreServed
  BY RequestersAssumption DEF SystemInit, WaitsAreServed
<1> QED
  BY <1>1, <1>2 DEF IndInv

\* A job that is sent is at its receiver, and the others are where they were.
LEMMA SendStep ==
    ASSUME IndInv, NEW r \in Requesters, NEW b \in Actors, Send(r, b),
           waits[r] = Nobody, r \in Actors => serving[r] # NoJob /\ b \in graph[r],
           UNCHANGED <<graph, alive, serving>>
    PROVE  /\ WaitsAreServed'
           /\ queue' \in [Actors -> Seq(Jobs)]
           /\ waits' \in [Requesters -> Actors \cup {Nobody}]
           /\ calls' \in [Requesters -> Nat]
<1> DEFINE new == [by |-> r, n |-> calls[r] + 1]
<1> USE DEF IndInv, SystemTypeOK
<1>1. /\ queue' \in [Actors -> Seq(Jobs)]
      /\ waits' \in [Requesters -> Actors \cup {Nobody}]
      /\ calls' \in [Requesters -> Nat]
      /\ new \in Jobs
  <2>1. new \in Jobs
    BY DEF Jobs
  <2>2. \A d \in Actors : Append(queue[d], new) \in Seq(Jobs)
    BY <2>1
  <2> HIDE DEF new
  <2>3. queue' = IF b \in alive THEN [queue EXCEPT ![b] = Append(@, new)] ELSE queue
    BY DEF Send, new
  <2> QED
    BY <2>1, <2>2, <2>3 DEF Send
<1>2. ASSUME NEW d \in Actors, NEW i \in DOMAIN queue[d]
      PROVE  i \in DOMAIN queue'[d] /\ queue'[d][i] = queue[d][i]
  BY <1>1 DEF Send
<1>3. b \in alive => /\ Len(queue[b]) + 1 \in DOMAIN queue'[b]
                     /\ queue'[b][Len(queue[b]) + 1] = new
  BY <1>1 DEF Send
<1>4. ASSUME NEW s \in Requesters, waits'[s] \in alive
      PROVE  IsAt(Job(s), waits[s])'
  <2>1. CASE s = r
    BY <2>1, <1>1, <1>3, <1>4 DEF Send
  <2>2. CASE s # r
    <3>1. waits'[s] = waits[s] /\ Job(s)' = Job(s) /\ waits[s] \in Actors
      BY <2>2, <1>4 DEF Send
    <3>2. IsAt(Job(s), waits[s])
      BY <3>1, <1>4 DEF WaitsAreServed
    <3> QED
      BY <3>1, <3>2, <1>2
  <2> QED
    BY <2>1, <2>2
<1>5. ASSUME NEW a \in Actors, waits'[a] # Nobody
      PROVE  a \in alive /\ serving[a] # NoJob /\ waits'[a] \in graph[a]
  BY <1>5 DEF Send, WaitsAreServed
<1>6. \A a \in Actors \ alive : serving[a] = NoJob /\ queue'[a] = <<>>
  BY DEF Send, WaitsAreServed
<1> QED
  BY <1>1, <1>4, <1>5, <1>6 DEF WaitsAreServed

\* The end of an actor leaves the jobs of the others in place.
LEMMA DieStep ==
    ASSUME IndInv, NEW a \in alive, NEW root \in Actors \cup {Nobody}, Die(a, root)
    PROVE  IndInv'
<1> USE DEF IndInv, SystemTypeOK
<1>1. a \in Actors /\ Nobody \notin Requesters
  BY RequestersAssumption
<1>2. SystemTypeOK'
  <2>1. /\ queue' \in [Actors -> Seq(Jobs)]
        /\ serving' \in [Actors -> Jobs \cup {NoJob}]
        /\ waits' \in [Requesters -> Actors \cup {Nobody}]
        /\ cause' \in [Actors -> Actors \cup {Nobody}]
        /\ alive' \in SUBSET Actors
    BY <1>1 DEF Die
  <2> QED
    BY <2>1 DEF Die
<1>3. ASSUME NEW r \in Requesters, waits'[r] \in alive'
      PROVE  IsAt(Job(r), waits[r])'
  <2>1. r # a /\ waits'[r] = waits[r] /\ waits[r] \in alive \ {a}
    BY <1>1, <1>3 DEF Die
  <2> QED
    BY <2>1 DEF Die, WaitsAreServed
<1>4. ASSUME NEW d \in Actors, waits'[d] # Nobody
      PROVE  d \in alive' /\ serving'[d] # NoJob /\ waits'[d] \in graph'[d]
  BY <1>1, <1>4 DEF Die, WaitsAreServed
<1>5. \A d \in Actors \ alive' : serving'[d] = NoJob /\ queue'[d] = <<>>
  BY <1>1 DEF Die, WaitsAreServed
<1> QED
  BY <1>2, <1>3, <1>4, <1>5 DEF WaitsAreServed

\* Every step preserves the invariant.
LEMMA StepIndInv ==
    ASSUME IndInv, [SystemNext]_systemVars
    PROVE  IndInv'
<1> USE DEF IndInv, SystemTypeOK
<1>0. /\ \A r \in Requesters : Job(r) \in Jobs
      /\ graph \in [Requesters -> SUBSET Actors]
  BY GraphsAssumption DEF Jobs
<1>1. ASSUME NEW c \in Clients, NEW b \in Actors, Request(c, b)
      PROVE  IndInv'
  <2>1. Send(c, b) /\ UNCHANGED <<graph, alive, serving>> /\ waits[c] = Nobody
    BY <1>1 DEF Request
  <2>2. c \notin Actors
    BY RequestersAssumption
  <2>3. /\ WaitsAreServed' /\ queue' \in [Actors -> Seq(Jobs)]
        /\ waits' \in [Requesters -> Actors \cup {Nobody}]
        /\ calls' \in [Requesters -> Nat]
    BY <2>1, <2>2, SendStep
  <2> QED
    BY <1>1, <2>3 DEF Request
<1>2. ASSUME NEW a \in Actors, NEW b \in Actors, CallOut(a, b)
      PROVE  IndInv'
  <2>1. /\ Send(a, b) /\ UNCHANGED <<graph, alive, serving>> /\ waits[a] = Nobody
        /\ serving[a] # NoJob /\ b \in graph[a]
    BY <1>2 DEF CallOut
  <2>2. /\ WaitsAreServed' /\ queue' \in [Actors -> Seq(Jobs)]
        /\ waits' \in [Requesters -> Actors \cup {Nobody}]
        /\ calls' \in [Requesters -> Nat]
    BY <2>1, SendStep
  <2> QED
    BY <1>2, <2>2 DEF CallOut
<1>3. ASSUME NEW c \in Requesters, GiveUp(c)
      PROVE  IndInv'
  <2> DEFINE b == waits[c]
  <2>1. b \in Actors
    BY <1>3, RequestersAssumption DEF GiveUp
  <2>2. /\ queue' \in [Actors -> Seq(Jobs)]
        /\ \A d \in Actors : \A k \in DOMAIN queue[d] :
              queue[d][k] = Job(c)
              \/ \E l \in DOMAIN queue'[d] : queue'[d][l] = queue[d][k]
        /\ \A d \in Actors : queue[d] = <<>> => queue'[d] = <<>>
    <3>1. CASE queue' = queue
      BY <3>1
    <3>2. ASSUME NEW i \in DOMAIN queue[b], queue[b][i] = Job(c),
                 queue' = [queue EXCEPT ![b] = RemoveAt(@, i)]
          PROVE  <2>2
      <4>1. /\ RemoveAt(queue[b], i) \in Seq(Jobs)
            /\ \A k \in DOMAIN queue[b] \ {i} :
                  \E l \in DOMAIN RemoveAt(queue[b], i) :
                     RemoveAt(queue[b], i)[l] = queue[b][k]
        BY <2>1, <3>2, RemoveAtKeeps
      <4>2. queue[b] # <<>>
        BY <3>2
      <4> QED
        BY <2>1, <3>2, <4>1, <4>2
    <3> QED
      BY <1>3, <3>1, <3>2 DEF GiveUp
  <2>3. /\ waits' = [waits EXCEPT ![c] = Nobody] /\ waits[c] # Nobody
        /\ UNCHANGED <<graph, alive, serving, called, calls, cause>>
        /\ outcome' = IF c \in Clients THEN [outcome EXCEPT ![c] = "abandoned"] ELSE outcome
    BY <1>3 DEF GiveUp
  <2>4. SystemTypeOK'
    BY <2>2, <2>3
  <2>5. ASSUME NEW r \in Requesters, waits'[r] \in alive'
        PROVE  IsAt(Job(r), waits[r])'
    <3>1. r # c /\ waits'[r] = waits[r] /\ waits[r] \in alive
      BY <2>3, <2>5, RequestersAssumption
    <3>2. IsAt(Job(r), waits[r]) /\ Job(r) # Job(c) /\ Job(r)' = Job(r)
      BY <3>1, <2>3 DEF WaitsAreServed
    <3> QED
      BY <2>2, <2>3, <3>1, <3>2
  <2>6. /\ \A a \in Actors : waits'[a] # Nobody =>
              a \in alive' /\ serving'[a] # NoJob /\ waits'[a] \in graph'[a]
        /\ \A a \in Actors \ alive' : serving'[a] = NoJob /\ queue'[a] = <<>>
    BY <2>1, <2>2, <2>3 DEF WaitsAreServed
  <2> QED
    BY <2>4, <2>5, <2>6 DEF WaitsAreServed
<1>4. ASSUME NEW c \in Clients, FailsClient(c)
      PROVE  IndInv'
  <2>1. SystemTypeOK'
    BY <1>4 DEF FailsClient
  <2>2. c \notin Actors /\ Nobody \notin Actors
    BY RequestersAssumption
  <2>3. WaitsAreServed'
    BY <1>4, <2>2 DEF FailsClient, WaitsAreServed
  <2> QED
    BY <2>1, <2>3
<1>5. ASSUME NEW a \in Actors, Take(a)
      PROVE  IndInv'
  <2>1. /\ Head(queue[a]) \in Jobs /\ Tail(queue[a]) \in Seq(Jobs)
        /\ Head(queue[a]) = queue[a][1]
        /\ \A i \in DOMAIN queue[a] \ {1} :
              i - 1 \in DOMAIN Tail(queue[a]) /\ Tail(queue[a])[i - 1] = queue[a][i]
    BY <1>5 DEF Take
  <2>2. SystemTypeOK'
    BY <1>5, <2>1 DEF Take
  <2>3. ASSUME NEW r \in Requesters, waits'[r] \in alive'
        PROVE  IsAt(Job(r), waits[r])'
    <3>1. /\ waits'[r] = waits[r] /\ waits[r] \in alive /\ Job(r)' = Job(r)
          /\ IsAt(Job(r), waits[r]) /\ Job(r) # NoJob
      BY <1>0, <1>5, <2>3, NoJobIsNoJob DEF Take, WaitsAreServed
    <3>2. CASE waits[r] = a
      <4>1. PICK i \in DOMAIN queue[a] : queue[a][i] = Job(r)
        BY <1>5, <3>1, <3>2 DEF Take
      <4>2. CASE i = 1
        BY <1>5, <2>1, <3>1, <3>2, <4>1, <4>2 DEF Take
      <4>3. CASE i # 1
        <5>1. queue'[a] = Tail(queue[a])
          BY <1>5 DEF Take
        <5>2. i - 1 \in DOMAIN queue'[a] /\ queue'[a][i - 1] = Job(r)
          BY <2>1, <4>1, <4>3, <5>1
        <5> QED
          BY <3>1, <3>2, <5>2
      <4> QED
        BY <4>2, <4>3
    <3>3. CASE waits[r] # a
      BY <1>5, <3>1, <3>3 DEF Take
    <3> QED
      BY <3>2, <3>3
  <2>4. a \in alive
    BY <1>5 DEF Take, WaitsAreServed
  <2>5. \A d \in Actors : waits'[d] # Nobody =>
              d \in alive' /\ serving'[d] # NoJob /\ waits'[d] \in graph'[d]
    BY <1>5, <2>1, NoJobIsNoJob DEF Take, WaitsAreServed
  <2>6. \A d \in Actors \ alive' : serving'[d] = NoJob /\ queue'[d] = <<>>
    BY <1>5, <2>4 DEF Take, WaitsAreServed
  <2> QED
    BY <2>2, <2>3, <2>5, <2>6 DEF WaitsAreServed
<1>6. ASSUME NEW a \in Actors, Finish(a)
      PROVE  IndInv'
  <2>1. serving[a] \in Jobs /\ serving[a] # NoJob /\ waits[a] = Nobody
    BY <1>6 DEF Finish
  <2>2. SystemTypeOK'
    BY <1>6, <2>1 DEF Finish, Respond
  <2>3. ASSUME NEW r \in Requesters, waits'[r] \in alive'
        PROVE  IsAt(Job(r), waits[r])'
    <3>1. /\ waits'[r] = waits[r] /\ waits[r] \in alive /\ Job(r)' = Job(r)
          /\ IsAt(Job(r), waits[r])
          /\ ~(r = serving[a].by /\ Awaited(a))
      BY <1>6, <2>1, <2>3, RequestersAssumption
      DEF Finish, Respond, WaitsAreServed
    <3>2. serving[waits[r]] = Job(r) => waits[r] # a
      BY <3>1 DEF Awaited
    <3> QED
      BY <1>6, <3>1, <3>2 DEF Finish, Respond
  <2>4. \A d \in Actors : waits'[d] # Nobody =>
              d \in alive' /\ serving'[d] # NoJob /\ waits'[d] \in graph'[d]
    BY <1>6, <2>1 DEF Finish, Respond, WaitsAreServed
  <2>5. \A d \in Actors \ alive' : serving'[d] = NoJob /\ queue'[d] = <<>>
    BY <1>6, <2>1 DEF Finish, Respond, WaitsAreServed
  <2> QED
    BY <2>2, <2>3, <2>4, <2>5 DEF WaitsAreServed
<1>7. ASSUME NEW a \in Actors, Panic(a)
      PROVE  IndInv'
  <2>1. a \in alive /\ Die(a, a)
    BY <1>7 DEF Panic, WaitsAreServed
  <2> QED
    BY <2>1, DieStep
<1>8. ASSUME NEW a \in Actors, FailsActor(a)
      PROVE  IndInv'
  <2>1. PICK b \in Actors \ alive : waits[a] = b /\ Die(a, cause[b])
    BY <1>8 DEF FailsActor
  <2>2. a \in alive /\ cause[b] \in Actors \cup {Nobody}
    BY <2>1, RequestersAssumption DEF WaitsAreServed
  <2> QED
    BY <2>1, <2>2, DieStep
<1>9. CASE UNCHANGED systemVars
  BY <1>9 DEF systemVars, WaitsAreServed
<1> QED
  BY <1>1, <1>2, <1>3, <1>4, <1>5, <1>6, <1>7, <1>8, <1>9 DEF SystemNext

-----------------------------------------------------------------------------
(* The theorems. *)

\* Types, and whoever awaits the answer of a living actor has a job there.
THEOREM Inductive == SystemSpec => []IndInv
<1>1. IndInv /\ [SystemNext]_systemVars => IndInv'
  BY StepIndInv
<1> QED
  BY <1>1, InitIndInv, PTL DEF SystemSpec

\* The answer a requester awaits of a living actor is still coming: its job is
\* sent to that actor or taken by it.
THEOREM AnswersAreComing == SystemSpec => []WaitsAreServed
<1>1. IndInv => WaitsAreServed
  BY DEF IndInv
<1> QED
  BY <1>1, Inductive, PTL

\* Without a circle of handles, somebody can go on as long as anybody waits:
\* those who wait and are waited for would otherwise be a circle.
LEMMA NoCircleNoStandstill == IndInv => SomebodyCanMove
<1> SUFFICES ASSUME IndInv, Acyclic,
                    NEW r \in Requesters, waits[r] \in alive,
                    \A a \in Actors : ~CanStep(a)
             PROVE  FALSE
  BY DEF SomebodyCanMove
<1> DEFINE S == {a \in alive : waits[a] \in alive}
<1> USE DEF IndInv, SystemTypeOK
<1>1. ASSUME NEW s \in Requesters, waits[s] \in alive
      PROVE  waits[s] \in S
  <2>1. Job(s) # NoJob /\ waits[s] \in Actors /\ queue[waits[s]] \in Seq(Jobs)
    <3>1. Job(s) \in Jobs
      BY DEF Jobs
    <3> QED
      BY <1>1, <3>1, NoJobIsNoJob
  <2>2. serving[waits[s]] = Job(s) \/ queue[waits[s]] # <<>>
    BY <1>1, <2>1 DEF WaitsAreServed
  <2>3. serving[waits[s]] # NoJob /\ waits[waits[s]] \in alive
    BY <1>1, <2>1, <2>2 DEF CanStep
  <2> QED
    BY <1>1, <2>3
<1>2. S # {} /\ S \in SUBSET Actors
  BY <1>1
<1>3. PICK a \in S : graph[a] \cap S = {}
  BY <1>2 DEF Acyclic
<1>4. waits[a] \in S
  BY <1>1, <1>2, <1>3
<1>5. waits[a] \in graph[a]
  BY <1>2, <1>3, <1>4, RequestersAssumption DEF WaitsAreServed
<1> QED
  BY <1>3, <1>4, <1>5

\* The only way to wait for ever is a circle of handles (lib.rs:429).
THEOREM AcyclicNeverStandsStill == SystemSpec => []SomebodyCanMove
  BY Inductive, NoCircleNoStandstill, PTL

\* Actors that wait for each other go on waiting, whatever everybody else does,
\* until the method of one of them gives up its call.
THEOREM CirclesLast == SystemSpec => CyclesLast
<1>1. ASSUME IndInv, SystemNext, NEW S \in SUBSET Actors, WaitWithin(S), ~GivesUpWithin(S)
      PROVE  \A a \in S : waits'[a] = waits[a]
  <2> USE DEF IndInv, SystemTypeOK
  <2>1. /\ \A a \in S : waits[a] \in S /\ waits[a] \in alive /\ a \in alive
        /\ \A a \in S : a \in Requesters /\ a \notin Clients
        /\ Nobody \notin S /\ waits \in [Requesters -> Actors \cup {Nobody}]
    <3>1. /\ S \subseteq Actors /\ Nobody \notin Actors
          /\ \A a \in S : waits[a] \in S
          /\ \A a \in Actors : waits[a] # Nobody => a \in alive
      BY <1>1, RequestersAssumption DEF WaitWithin, WaitsAreServed
    <3>2. \A a \in S : a \in alive /\ waits[a] \in alive
      BY <3>1
    <3> QED
      BY <1>1, <3>1, <3>2, RequestersAssumption
  <2>2. ASSUME NEW c \in Clients, NEW b \in Actors, Request(c, b)
        PROVE  \A a \in S : waits'[a] = waits[a]
    <3>1. waits' = [waits EXCEPT ![c] = b]
      BY <2>2 DEF Request, Send
    <3> QED
      BY <2>1, <3>1
  <2>3. ASSUME NEW c \in Clients, FailsClient(c)
        PROVE  \A a \in S : waits'[a] = waits[a]
    BY <2>1, <2>3 DEF FailsClient
  <2>4. ASSUME NEW r \in Requesters, GiveUp(r)
        PROVE  \A a \in S : waits'[a] = waits[a]
    <3>1. /\ waits' = [waits EXCEPT ![r] = Nobody] /\ waits'[r] = Nobody
          /\ UNCHANGED <<serving, alive>>
      BY <2>1, <2>4 DEF GiveUp
    <3>2. r \notin S
      BY <1>1, <3>1 DEF GivesUpWithin
    <3> QED
      BY <2>1, <3>1, <3>2
  <2>5. ASSUME NEW d \in Actors, NEW b \in Actors, CallOut(d, b)
        PROVE  \A a \in S : waits'[a] = waits[a]
    <3>1. waits' = [waits EXCEPT ![d] = b] /\ waits[d] = Nobody
      BY <2>5 DEF CallOut, Send
    <3> QED
      BY <2>1, <3>1
  <2>6. ASSUME NEW d \in Actors, Take(d)
        PROVE  \A a \in S : waits'[a] = waits[a]
    BY <2>6 DEF Take
  <2>7. ASSUME NEW d \in Actors, Finish(d)
        PROVE  \A a \in S : waits'[a] = waits[a]
    <3>1. waits[d] = Nobody /\ d \notin S
      BY <2>1, <2>7 DEF Finish
    <3>2. Awaited(d) => waits[serving[d].by] \notin S
      BY <3>1 DEF Awaited
    <3>3. \/ waits' = waits
          \/ Awaited(d) /\ waits' = [waits EXCEPT ![serving[d].by] = Nobody]
      BY <2>7 DEF Finish, Respond
    <3> QED
      BY <2>1, <3>2, <3>3
  <2>8. ASSUME NEW d \in Actors, Panic(d)
        PROVE  \A a \in S : waits'[a] = waits[a]
    BY <2>1, <2>8 DEF Panic, Die
  <2>9. ASSUME NEW d \in Actors, FailsActor(d)
        PROVE  \A a \in S : waits'[a] = waits[a]
    BY <2>1, <2>9 DEF FailsActor, Die
  <2> QED
    BY <1>1, <2>2, <2>3, <2>4, <2>5, <2>6, <2>7, <2>8, <2>9 DEF SystemNext
<1>2. IndInv /\ [SystemNext]_systemVars => [CirclesStay]_systemVars
  <2> SUFFICES ASSUME IndInv, SystemNext, NEW S \in SUBSET Actors, WaitWithin(S),
                      ~GivesUpWithin(S)
               PROVE  WaitWithin(S)'
    BY DEF CirclesStay
  <2>1. \A a \in S : waits'[a] = waits[a]
    BY <1>1
  <2> QED
    BY <2>1 DEF WaitWithin
<1> QED
  BY <1>2, Inductive, PTL DEF SystemSpec, CyclesLast

-----------------------------------------------------------------------------
(* Panics. *)

\* Reaches holds of itself and is extended by one call.
LEMMA ReachesStep ==
    /\ \A a \in Actors : Reaches(a, a)
    /\ \A a, b, d \in Actors : b \in graph[a] /\ Reaches(b, d) => Reaches(a, d)
  BY DEF Reaches

\* What a panic's way up is proved with.
PanicInv == IndInv /\ PanicComesFromBelow

\* Deaths keep to the direction of the calls.
LEMMA StepPanicInv ==
    ASSUME PanicInv, [SystemNext]_systemVars
    PROVE  PanicComesFromBelow'
<1> USE DEF PanicInv, IndInv, SystemTypeOK
<1>1. ASSUME UNCHANGED <<graph, alive, cause>>
      PROVE  PanicComesFromBelow'
  BY <1>1 DEF PanicComesFromBelow, Reaches
<1>2. ASSUME NEW a \in alive, NEW root \in Actors, Die(a, root), Reaches(a, root),
             root = a \/ (root \notin alive /\ cause[root] = root)
      PROVE  PanicComesFromBelow'
  <2>1. /\ graph' = graph /\ alive' = alive \ {a}
        /\ cause' = [cause EXCEPT ![a] = root] /\ a \in Actors
    BY <1>2 DEF Die
  <2> SUFFICES ASSUME NEW d \in Actors \ alive'
               PROVE  /\ cause'[d] \in Actors \ alive'
                      /\ cause'[cause'[d]] = cause'[d]
                      /\ Reaches(d, cause'[d])
    BY <2>1 DEF PanicComesFromBelow, Reaches
  <2>2. CASE d = a
    BY <1>2, <2>1, <2>2
  <2>3. CASE d # a
    BY <2>1, <2>3 DEF PanicComesFromBelow
  <2> QED
    BY <2>2, <2>3
<1>3. ASSUME NEW a \in Actors, Panic(a)
      PROVE  PanicComesFromBelow'
  <2>1. a \in alive /\ Die(a, a) /\ Reaches(a, a)
    BY <1>3, ReachesStep DEF Panic, WaitsAreServed
  <2> QED
    BY <1>2, <2>1
<1>4. ASSUME NEW a \in Actors, FailsActor(a)
      PROVE  PanicComesFromBelow'
  <2>1. PICK b \in Actors \ alive : waits[a] = b /\ Die(a, cause[b])
    BY <1>4 DEF FailsActor
  <2>2. a \in alive /\ b \in graph[a]
    BY <2>1, RequestersAssumption DEF WaitsAreServed
  <2>3. /\ cause[b] \in Actors \ alive /\ cause[cause[b]] = cause[b]
        /\ Reaches(b, cause[b])
    BY <2>1 DEF PanicComesFromBelow
  <2>4. Reaches(a, cause[b])
    BY <2>1, <2>2, <2>3, ReachesStep
  <2> QED
    BY <1>2, <2>1, <2>2, <2>3, <2>4
<1>5. CASE UNCHANGED systemVars
  BY <1>1, <1>5 DEF systemVars
<1>6. ASSUME NEW c \in Clients,
             (\E b \in Actors : Request(c, b)) \/ FailsClient(c)
      PROVE  PanicComesFromBelow'
  BY <1>1, <1>6 DEF Request, FailsClient
<1>7. ASSUME NEW r \in Requesters, GiveUp(r)
      PROVE  PanicComesFromBelow'
  BY <1>1, <1>7 DEF GiveUp
<1>8. ASSUME NEW a \in Actors,
             (\E b \in Actors : CallOut(a, b)) \/ Take(a) \/ Finish(a)
      PROVE  PanicComesFromBelow'
  BY <1>1, <1>8 DEF CallOut, Take, Finish, Respond
<1> QED
  BY <1>3, <1>4, <1>5, <1>6, <1>7, <1>8 DEF SystemNext

\* An actor dies of a panic of its own or of one it may have called, through
\* however many others.
THEOREM PanicsTravelUp == SystemSpec => []PanicComesFromBelow
<1>1. SystemInit => PanicComesFromBelow
  BY DEF SystemInit, PanicComesFromBelow
<1>2. IndInv /\ PanicComesFromBelow /\ [SystemNext]_systemVars => PanicComesFromBelow'
  BY StepPanicInv DEF PanicInv
<1> QED
  BY <1>1, <1>2, Inductive, PTL DEF SystemSpec
=============================================================================
