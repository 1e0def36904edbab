---------------------------- MODULE ActorSystem ----------------------------
(***************************************************************************)
(* Actors whose methods call other actors.  A method that awaits a handle  *)
(* keeps its actor busy until the answer is there, and an actor takes the  *)
(* next job only after the current one has returned.  Nothing in the code  *)
(* looks at who waits for whom.                                            *)
(*                                                                         *)
(* Actor models one actor in detail; here its queue, its reply and its end *)
(* are one step each, which AtomicActor justifies.  A method calls each of *)
(* the actors it has a handle to at most once, in any order, may give up a *)
(* call it waits for (a timeout, a select!), and may panic between any two *)
(* calls.                                                                  *)
(***************************************************************************)
EXTENDS Integers, SequencesExt

CONSTANTS
    Actors,
    Clients,        \* tasks that call actors and are none themselves
    Nobody,
    Graphs,         \* who may hold handles to which actors
    CHANNEL_SIZE,   \* capacity of a job queue
    MaxCalls,       \* bound: calls per client
    MaxCallsOut     \* bound: calls per actor

Requesters == Actors \cup Clients

ASSUME RequestersAssumption == Actors \cap Clients = {} /\ Nobody \notin Requesters
ASSUME GraphsAssumption == Graphs \subseteq [Requesters -> SUBSET Actors]
ASSUME CapacityAssumption == CHANNEL_SIZE \in Nat \ {0}
ASSUME MaxCallsAssumption == MaxCalls \in Nat /\ MaxCallsOut \in Nat

VARIABLES
    graph,      \* the actors each requester holds a handle to
    alive,      \* actors whose task is running
    queue,      \* the jobs sent to each actor: those beyond CHANNEL_SIZE are
                \* still suspended in tx.send
    serving,    \* the job each actor is running
    called,     \* the actors the running method of each actor has called
    waits,      \* the actor each requester awaits an answer of
    calls,      \* how many calls each requester has made; numbers them
    outcome,    \* how the latest call of each client ended
    cause       \* history: for a dead actor, the one whose panic killed it

systemVars == <<graph, alive, queue, serving, called, waits, calls, outcome, cause>>

Job(r) == [by |-> r, n |-> calls[r]]
Jobs == [by : Requesters, n : Nat]
NoJob == [by |-> Nobody, n |-> 0]

SystemTypeOK ==
    /\ graph \in Graphs
    /\ alive \in SUBSET Actors
    /\ queue \in [Actors -> Seq(Jobs)]
    /\ serving \in [Actors -> Jobs \cup {NoJob}]
    /\ called \in [Actors -> SUBSET Actors]
    /\ waits \in [Requesters -> Actors \cup {Nobody}]
    /\ calls \in [Requesters -> Nat]
    /\ outcome \in [Clients -> {"none", "returned", "panic", "abandoned"}]
    /\ cause \in [Actors -> Actors \cup {Nobody}]

SystemInit ==
    /\ graph \in Graphs
    /\ alive = Actors
    /\ queue = [a \in Actors |-> <<>>]
    /\ serving = [a \in Actors |-> NoJob]
    /\ called = [a \in Actors |-> {}]
    /\ waits = [r \in Requesters |-> Nobody]
    /\ calls = [r \in Requesters |-> 0]
    /\ outcome = [c \in Clients |-> "none"]
    /\ cause = [a \in Actors |-> Nobody]

-----------------------------------------------------------------------------
(* Calls. *)

\* BUG variant of Send: a job that finds the queue full is dropped.
SendOrDrop(r, b) ==
    /\ waits' = [waits EXCEPT ![r] = b]
    /\ calls' = [calls EXCEPT ![r] = @ + 1]
    /\ queue' = IF b \in alive /\ Len(queue[b]) < CHANNEL_SIZE
                THEN [queue EXCEPT ![b] = Append(@, [by |-> r, n |-> calls[r] + 1])]
                ELSE queue

\* r sends a job to b and awaits the answer.  The queue of a dead actor is
\* closed, which r finds out in FailsClient or FailsActor.
Send(r, b) ==
    /\ waits' = [waits EXCEPT ![r] = b]
    /\ calls' = [calls EXCEPT ![r] = @ + 1]
    /\ queue' = IF b \in alive
                THEN [queue EXCEPT ![b] = Append(@, [by |-> r, n |-> calls[r] + 1])]
                ELSE queue

Request(c, b) ==
    /\ waits[c] = Nobody /\ calls[c] < MaxCalls /\ b \in graph[c]
    /\ Send(c, b)
    /\ outcome' = [outcome EXCEPT ![c] = "none"]
    /\ UNCHANGED <<graph, alive, serving, called, cause>>

\* The running method of a calls b, which may be a itself.
CallOut(a, b) ==
    /\ serving[a] # NoJob /\ waits[a] = Nobody /\ calls[a] < MaxCallsOut
    /\ b \in graph[a] \ called[a]
    /\ Send(a, b)
    /\ called' = [called EXCEPT ![a] = @ \cup {b}]
    /\ UNCHANGED <<graph, alive, serving, outcome, cause>>

\* A client or a running method drops its call: a job still in tx.send is
\* withdrawn, one in the queue stays there.
GiveUp(r) ==
    /\ waits[r] # Nobody
    /\ waits' = [waits EXCEPT ![r] = Nobody]
    /\ outcome' = IF r \in Clients THEN [outcome EXCEPT ![r] = "abandoned"] ELSE outcome
    /\ \/ /\ \A i \in DOMAIN queue[waits[r]] :
                i > CHANNEL_SIZE => queue[waits[r]][i] # Job(r)
          /\ queue' = queue
       \/ \E i \in DOMAIN queue[waits[r]] :
             /\ i > CHANNEL_SIZE /\ queue[waits[r]][i] = Job(r)
             /\ queue' = [queue EXCEPT ![waits[r]] = RemoveAt(@, i)]
    /\ UNCHANGED <<graph, alive, serving, called, calls, cause>>

-----------------------------------------------------------------------------
(* Actors. *)

\* BUG variant of Take: a job is taken while the running method awaits a call.
TakeReentrant(a) ==
    /\ (serving[a] = NoJob \/ waits[a] # Nobody) /\ queue[a] # <<>>
    /\ serving' = [serving EXCEPT ![a] = Head(queue[a])]
    /\ called' = [called EXCEPT ![a] = {}]
    /\ queue' = [queue EXCEPT ![a] = Tail(@)]
    /\ UNCHANGED <<graph, alive, waits, calls, outcome, cause>>

Take(a) ==
    /\ serving[a] = NoJob /\ queue[a] # <<>>
    /\ serving' = [serving EXCEPT ![a] = Head(queue[a])]
    /\ called' = [called EXCEPT ![a] = {}]
    /\ queue' = [queue EXCEPT ![a] = Tail(@)]
    /\ UNCHANGED <<graph, alive, waits, calls, outcome, cause>>

\* The requester of a's job still awaits it.
Awaited(a) == waits[serving[a].by] = a /\ serving[a].n = calls[serving[a].by]

\* The job is gone from a, answered if anybody awaits it.
Respond(a) ==
    LET r == serving[a].by
    IN /\ waits' = IF Awaited(a) THEN [waits EXCEPT ![r] = Nobody] ELSE waits
       /\ outcome' = IF Awaited(a) /\ r \in Clients
                     THEN [outcome EXCEPT ![r] = "returned"] ELSE outcome
       /\ serving' = [serving EXCEPT ![a] = NoJob]
       /\ UNCHANGED <<graph, alive, queue, called, calls, cause>>

\* The task of a ends: its jobs are dropped unanswered, and so is its own call.
Die(a, root) ==
    /\ alive' = alive \ {a}
    /\ queue' = [queue EXCEPT ![a] = <<>>]
    /\ serving' = [serving EXCEPT ![a] = NoJob]
    /\ waits' = [waits EXCEPT ![a] = Nobody]
    /\ cause' = [cause EXCEPT ![a] = root]
    /\ UNCHANGED <<graph, called, calls, outcome>>

\* BUG variant of Finish: an answer nobody takes is an error.
FinishUnwrapping(a) ==
    /\ serving[a] # NoJob /\ waits[a] = Nobody
    /\ IF Awaited(a) THEN Respond(a) ELSE Die(a, Nobody)

Finish(a) ==
    /\ serving[a] # NoJob /\ waits[a] = Nobody
    /\ Respond(a)

Panic(a) ==
    /\ serving[a] # NoJob /\ waits[a] = Nobody
    /\ Die(a, a)

\* report_actor_gone: the call panics, and with it the method that made it.
FailsActor(a) ==
    \E b \in Actors \ alive :
        /\ waits[a] = b
        /\ Die(a, cause[b])

\* BUG variant of FailsClient: only the end of an actor that panicked itself is
\* reported.
FailsClientOfPanicked(c) ==
    /\ waits[c] \in Actors \ alive /\ cause[waits[c]] = waits[c]
    /\ waits' = [waits EXCEPT ![c] = Nobody]
    /\ outcome' = [outcome EXCEPT ![c] = "panic"]
    /\ UNCHANGED <<graph, alive, queue, serving, called, calls, cause>>

FailsClient(c) ==
    /\ waits[c] \in Actors \ alive
    /\ waits' = [waits EXCEPT ![c] = Nobody]
    /\ outcome' = [outcome EXCEPT ![c] = "panic"]
    /\ UNCHANGED <<graph, alive, queue, serving, called, calls, cause>>

-----------------------------------------------------------------------------
SystemNext ==
    \/ \E c \in Clients : (\E b \in Actors : Request(c, b)) \/ FailsClient(c)
    \/ \E r \in Requesters : GiveUp(r)
    \/ \E a \in Actors : \/ \E b \in Actors : CallOut(a, b)
                         \/ Take(a) \/ Finish(a) \/ Panic(a) \/ FailsActor(a)

\* The runtime polls a task that can go on, a method returns or panics once the
\* calls it makes are over, and a caller of a dead actor finds out.
SystemFairness ==
    /\ \A a \in Actors : WF_systemVars(Take(a) \/ Finish(a) \/ Panic(a) \/ FailsActor(a))
    /\ \A c \in Clients : WF_systemVars(FailsClient(c))

SystemSpec == SystemInit /\ [][SystemNext]_systemVars /\ SystemFairness

-----------------------------------------------------------------------------
(* Properties. *)

\* No actor of S, a set that is not empty, calls only into S.
Acyclic ==
    \A S \in SUBSET Actors : S # {} => \E a \in S : graph[a] \cap S = {}

\* A job is at b: sent, or taken and not answered.
IsAt(j, b) == serving[b] = j \/ \E i \in DOMAIN queue[b] : queue[b][i] = j

\* The answer a requester awaits is still coming: the job it belongs to is in
\* the hands of the actor it was sent to, however calls, answers, panics and
\* abandoned calls fall.  And only a method that is running awaits anything, of
\* an actor it has a handle to.
WaitsAreServed ==
    /\ \A r \in Requesters : waits[r] \in alive => IsAt(Job(r), waits[r])
    /\ \A a \in Actors : waits[a] # Nobody =>
            /\ a \in alive /\ serving[a] # NoJob
            /\ waits[a] \in graph[a]
    /\ \A a \in Actors \ alive : serving[a] = NoJob /\ queue[a] = <<>>

\* An actor whose task has something to do, or a client that can be told.
CanStep(a) ==
    /\ a \in alive
    /\ IF serving[a] = NoJob THEN queue[a] # <<>> ELSE waits[a] \notin alive

\* lib.rs:429 warns of actors that call each other.  That is the only danger:
\* when no handles go in a circle, whoever waits, some task can go on.
SomebodyCanMove ==
    Acyclic => \A r \in Requesters :
        waits[r] \in alive => \E a \in Actors : CanStep(a)

\* A panic travels from the actor called to the one that called it and nowhere
\* else: whatever dies, dies of an actor that panicked itself and that it may
\* have called, directly or through others.
Reaches(a, b) ==
    \A S \in SUBSET Actors :
        (a \in S /\ \A d \in S : graph[d] \subseteq S) => b \in S
PanicComesFromBelow ==
    \A a \in Actors \ alive :
        LET root == cause[a]
        IN /\ root \in Actors \ alive
           /\ cause[root] = root
           /\ Reaches(a, root)

\* Actors that wait for each other never return (lib.rs:429), also when their
\* queues fill, their clients give up or other actors die.  Only a method among
\* them can end it, by giving up its call: then nobody has answered or died.
WaitWithin(S) == S # {} /\ \A a \in S : waits[a] \in S
GivesUpWithin(S) == (\E a \in S : waits'[a] = Nobody) /\ UNCHANGED <<serving, alive>>
CirclesStay ==
    \A S \in SUBSET Actors : WaitWithin(S) => WaitWithin(S)' \/ GivesUpWithin(S)
CyclesLast == [][CirclesStay]_systemVars

\* Without a circle every call ends, whether or not anything panics.
AcyclicCallsEnd ==
    Acyclic => \A c \in Clients : waits[c] # Nobody ~> waits[c] = Nobody
=============================================================================
