------------------------------- MODULE Actor -------------------------------
(***************************************************************************)
(* One actor, the tasks that call it through clones of its Handle, and the *)
(* three channels between them: the bounded job queue (tokio mpsc), the    *)
(* oneshot reply channel of each call, and the watch channel that carries  *)
(* the reason the actor stopped.                                           *)
(*                                                                         *)
(* actor.rs is the actor task (Actor, serve, run, ExitGuard); handle.rs is *)
(* the caller's side (Handle::new, __send_job, wait_for_exit,              *)
(* report_actor_gone and the built-in methods).  A step is what one task   *)
(* does between two points where another task can observe it.              *)
(***************************************************************************)
EXTENDS Integers, SequencesExt

CONSTANTS
    Callers,           \* tasks that may hold a Handle
    Values,            \* values of the wrapped type T
    Views,             \* values of the view type V
    View,              \* ToView::to_view
    InitialValue,      \* what Handle::new is given
    Unit,              \* the result of a call that returns ()
    Ops,               \* the calls the callers make
    PanickingKinds,    \* the kinds of call whose body, or to_view, may panic
    CHANNEL_SIZE,      \* capacity of the job queue
    MaxCalls,          \* bound: calls per caller
    RuntimeMayStop,    \* may the runtime drop the actor task?
    StopMayUnwind      \* may it do so on a thread that is itself panicking?

(***************************************************************************)
(* "get" stands for every read (get, with, a &self method), "set",         *)
(* "set_if_changed" and "with_mut" are the built-in writes, "method" is an *)
(* async &mut self method of an #[actify] block and "quiet_method" one     *)
(* marked #[actify::skip_broadcast].                                       *)
(***************************************************************************)
BuiltinKinds == {"get", "set", "set_if_changed", "with_mut"}
AsyncKinds == {"method", "quiet_method"}
Kinds == BuiltinKinds \cup AsyncKinds
Results == Values \cup Views \cup {Unit}

ASSUME ValuesAssumption == InitialValue \in Values
ASSUME ViewAssumption == View \in [Values -> Views]
ASSUME OpsAssumption == Ops \subseteq [kind : Kinds, val : Values]
ASSUME CapacityAssumption == CHANNEL_SIZE \in Nat \ {0}
ASSUME MaxCallsAssumption == MaxCalls \in Nat
ASSUME SwitchAssumption == RuntimeMayStop \in BOOLEAN /\ StopMayUnwind \in BOOLEAN

VARIABLES
    (* the callers *)
    handles,    \* callers that hold a Handle: the strong count of Channels
    pc,         \* where each caller is in __send_job
    calls,      \* how many calls each caller has made; numbers its jobs
    op,         \* the operation of each caller's latest call
    outcome,    \* how each caller's latest call ended
    (* the channels *)
    waiters,    \* callers suspended in tx.send, first come first served
    queue,      \* the jobs in the mpsc channel
    rxOpen,     \* the mpsc receiver has not been dropped
    reply,      \* the oneshot channel of each caller's latest call
    exit,       \* the watch channel with the exit reason
    (* the actor task *)
    phase,      \* where the task is in run, or in being dropped
    inner,      \* Actor::inner
    job,        \* the job being served
    result,     \* what the method returned, and whether it broadcasts
    unwinding,  \* std::thread::panicking() on the thread dropping the task
    (* history *)
    sent,       \* the ids of the jobs accepted into the queue, in order
    executed,   \* the jobs carried out, in order, with their results
    committed,  \* the value after the last job carried out
    broadcasts, \* every view broadcast, in order
    panicked,   \* a job of this actor panicked
    stopped     \* the runtime dropped the actor task

callerVars == <<handles, pc, calls, op, outcome>>
channelVars == <<waiters, queue, rxOpen, reply, exit>>
taskVars == <<phase, inner, job, result, unwinding>>
historyVars == <<sent, executed, committed, broadcasts, panicked, stopped>>
vars == <<callerVars, channelVars, taskVars, historyVars>>

NoReply == [state |-> "none", val |-> Unit]
OpenReply == [state |-> "open", val |-> Unit]
ClosedReply == [state |-> "closed", val |-> Unit]
Answer(r) == [state |-> "sent", val |-> r]

NoOutcome == [kind |-> "none", val |-> Unit]
Outcome(k) == [kind |-> k, val |-> Unit]

JobIds == [caller : Callers, n : 1..MaxCalls]
Jobs == [caller : Callers, n : 1..MaxCalls, op : Ops]
Entries == [caller : Callers, n : 1..MaxCalls, res : Results]
Id(j) == [caller |-> j.caller, n |-> j.n]
Entry(j, r) == [caller |-> j.caller, n |-> j.n, res |-> r]

\* Holding no job is holding one whose number no call has.
NoOp == [kind |-> "get", val |-> InitialValue]
NoJob == [caller |-> CHOOSE c \in Callers : TRUE, n |-> 0, op |-> NoOp]

ServingPhases == {"receiving", "calling", "awaiting", "returned", "responding"}
DroppingPhases == {"drop_job", "drop_guard", "drop_actor", "drop_rx"}
DiscardPhases == {"discard_rx", "discard_actor", "discard_exit_tx"}
Dying == phase \in DroppingPhases \cup DiscardPhases \cup {"gone"}

\* The actor still owns its clone of the broadcast sender.
OwnsSender == phase \notin {"drop_rx", "discard_exit_tx", "gone"}
BroadcastClosed == ~OwnsSender /\ handles = {}

TypeOK ==
    /\ handles \subseteq Callers
    /\ pc \in [Callers -> {"idle", "sending", "waiting", "reporting"}]
    /\ calls \in [Callers -> 0..MaxCalls]
    /\ op \in [Callers -> Ops \cup {NoOp}]
    /\ outcome \in [Callers ->
            [kind : {"none", "returned", "abandoned", "panic", "not_running"},
             val : Results]]
    /\ waiters \in Seq(Callers)
    /\ queue \in Seq(Jobs) /\ Len(queue) <= CHANNEL_SIZE
    /\ rxOpen \in BOOLEAN
    /\ reply \in [Callers ->
            [state : {"none", "open", "sent", "closed"}, val : Results]]
    /\ exit \in {"none", "Panicked", "Stopped", "sender_dropped"}
    /\ phase \in {"unpolled", "gone"}
                 \cup ServingPhases \cup DroppingPhases \cup DiscardPhases
    /\ inner \in Values
    /\ job \in Jobs \cup {NoJob}
    /\ result \in [val : Results, broadcast : BOOLEAN]
    /\ unwinding \in BOOLEAN
    /\ sent \in Seq(JobIds)
    /\ executed \in Seq(Entries)
    /\ committed \in Values
    /\ broadcasts \in Seq(Views)
    /\ panicked \in BOOLEAN
    /\ stopped \in BOOLEAN

(* Handle::new: the task is spawned but has not been polled yet. *)
Init ==
    /\ \E c \in Callers : handles = {c}
    /\ pc = [c \in Callers |-> "idle"]
    /\ calls = [c \in Callers |-> 0]
    /\ op = [c \in Callers |-> NoOp]
    /\ outcome = [c \in Callers |-> NoOutcome]
    /\ waiters = <<>>
    /\ queue = <<>>
    /\ rxOpen = TRUE
    /\ reply = [c \in Callers |-> NoReply]
    /\ exit = "none"
    /\ phase = "unpolled"
    /\ inner = InitialValue
    /\ job = NoJob
    /\ result = [val |-> Unit, broadcast |-> FALSE]
    /\ unwinding = FALSE
    /\ sent = <<>>
    /\ executed = <<>>
    /\ committed = InitialValue
    /\ broadcasts = <<>>
    /\ panicked = FALSE
    /\ stopped = FALSE

-----------------------------------------------------------------------------
(* The callers. *)

CloneHandle(c, d) ==
    /\ c \in handles /\ d \notin handles
    /\ handles' = handles \cup {d}
    /\ UNCHANGED <<pc, calls, op, outcome, channelVars, taskVars, historyVars>>

\* A call borrows its handle, so only an idle caller can drop its own.
DropHandle(c) ==
    /\ c \in handles /\ pc[c] = "idle"
    /\ handles' = handles \ {c}
    /\ UNCHANGED <<pc, calls, op, outcome, channelVars, taskVars, historyVars>>

\* __send_job boxes the job and suspends in tx.send(job).
StartCall(c, o) ==
    /\ c \in handles /\ pc[c] = "idle" /\ calls[c] < MaxCalls
    /\ pc' = [pc EXCEPT ![c] = "sending"]
    /\ calls' = [calls EXCEPT ![c] = @ + 1]
    /\ op' = [op EXCEPT ![c] = o]
    /\ outcome' = [outcome EXCEPT ![c] = NoOutcome]
    /\ reply' = [reply EXCEPT ![c] = NoReply]
    /\ waiters' = Append(waiters, c)
    /\ UNCHANGED <<handles, queue, rxOpen, exit, taskVars, historyVars>>

\* BUG variant of Send: an unbounded channel, no backpressure.
SendUnbounded(c) ==
    /\ pc[c] = "sending" /\ rxOpen
    /\ waiters # <<>> /\ Head(waiters) = c
    /\ waiters' = Tail(waiters)
    /\ queue' = Append(queue, [caller |-> c, n |-> calls[c], op |-> op[c]])
    /\ sent' = Append(sent, [caller |-> c, n |-> calls[c]])
    /\ pc' = [pc EXCEPT ![c] = "waiting"]
    /\ reply' = [reply EXCEPT ![c] = OpenReply]
    /\ UNCHANGED <<handles, calls, op, outcome, rxOpen, exit, taskVars,
                   executed, committed, broadcasts, panicked, stopped>>

\* The permits of the mpsc channel are handed out in order of arrival.
Send(c) ==
    LET j == [caller |-> c, n |-> calls[c], op |-> op[c]]
    IN /\ pc[c] = "sending" /\ rxOpen
       /\ waiters # <<>> /\ Head(waiters) = c
       /\ Len(queue) < CHANNEL_SIZE
       /\ waiters' = Tail(waiters)
       /\ queue' = Append(queue, j)
       /\ sent' = Append(sent, Id(j))
       /\ pc' = [pc EXCEPT ![c] = "waiting"]
       /\ reply' = [reply EXCEPT ![c] = OpenReply]
       /\ UNCHANGED <<handles, calls, op, outcome, rxOpen, exit, taskVars,
                      executed, committed, broadcasts, panicked, stopped>>

\* Leaving tx.send without having sent: a suspended sender leaves its place.
LeaveWaiters(c) ==
    IF pc[c] = "sending"
    THEN \E i \in DOMAIN waiters :
            waiters[i] = c /\ waiters' = RemoveAt(waiters, i)
    ELSE UNCHANGED waiters

SendFails(c) ==
    /\ pc[c] = "sending" /\ ~rxOpen
    /\ LeaveWaiters(c)
    /\ pc' = [pc EXCEPT ![c] = "reporting"]
    /\ UNCHANGED <<handles, calls, op, outcome, queue, rxOpen, reply, exit,
                   taskVars, historyVars>>

Return(c) ==
    /\ pc[c] = "waiting" /\ reply[c].state = "sent"
    /\ pc' = [pc EXCEPT ![c] = "idle"]
    /\ outcome' = [outcome EXCEPT ![c] =
                        [kind |-> "returned", val |-> reply[c].val]]
    /\ reply' = [reply EXCEPT ![c] = NoReply]
    /\ UNCHANGED <<handles, calls, op, waiters, queue, rxOpen, exit, taskVars,
                   historyVars>>

\* get_result.await fails: the job was dropped without an answer.
ReplyFails(c) ==
    /\ pc[c] = "waiting" /\ reply[c].state = "closed"
    /\ pc' = [pc EXCEPT ![c] = "reporting"]
    /\ reply' = [reply EXCEPT ![c] = NoReply]
    /\ UNCHANGED <<handles, calls, op, outcome, waiters, queue, rxOpen, exit,
                   taskVars, historyVars>>

\* BUG variant of ExitKnown: guess from what the watch channel holds now.
ExitAssumedKnown == TRUE
\* BUG variant of ExitReason: a sender dropped without a value means a panic.
ExitReasonPessimistic == IF exit = "Stopped" THEN "Stopped" ELSE "Panicked"

\* wait_for_exit returns: a reason was written, or its sender is gone without one.
ExitKnown == exit # "none"
ExitReason == IF exit = "Panicked" THEN "Panicked" ELSE "Stopped"

\* report_actor_gone panics in the caller, which may catch it and go on.
ReportActorGone(c) ==
    /\ pc[c] = "reporting" /\ ExitKnown
    /\ pc' = [pc EXCEPT ![c] = "idle"]
    /\ outcome' = [outcome EXCEPT ![c] =
            Outcome(IF ExitReason = "Panicked" THEN "panic" ELSE "not_running")]
    /\ UNCHANGED <<handles, calls, op, channelVars, taskVars, historyVars>>

\* The caller drops the future of its call: a timeout, a select, an abort.
Abandon(c) ==
    /\ pc[c] # "idle"
    /\ LeaveWaiters(c)
    /\ pc' = [pc EXCEPT ![c] = "idle"]
    /\ outcome' = [outcome EXCEPT ![c] = Outcome("abandoned")]
    /\ reply' = [reply EXCEPT ![c] = NoReply]
    /\ UNCHANGED <<handles, calls, op, queue, rxOpen, exit, taskVars,
                   historyVars>>

Waiting(c) == \/ Send(c) \/ SendFails(c) \/ Return(c) \/ ReplyFails(c)
              \/ ReportActorGone(c)

CallerNext(c) ==
    \/ \E d \in Callers : CloneHandle(c, d)
    \/ DropHandle(c)
    \/ \E o \in Ops : StartCall(c, o)
    \/ Waiting(c)
    \/ Abandon(c)

-----------------------------------------------------------------------------
(* The actor task serving jobs. *)

Start ==
    /\ phase = "unpolled"
    /\ phase' = "receiving"
    /\ UNCHANGED <<callerVars, channelVars, inner, job, result, unwinding,
                   historyVars>>

\* BUG variant of Receive: a job whose caller has gone is skipped.
ReceiveAwaitedOnly ==
    /\ phase = "receiving" /\ queue # <<>>
    /\ queue' = Tail(queue)
    /\ IF reply[Head(queue).caller].state = "open"
       THEN phase' = "calling" /\ job' = Head(queue)
       ELSE UNCHANGED <<phase, job>>
    /\ UNCHANGED <<callerVars, waiters, rxOpen, reply, exit, inner, result,
                   unwinding, historyVars>>

Receive ==
    /\ phase = "receiving" /\ queue # <<>>
    /\ job' = Head(queue)
    /\ queue' = Tail(queue)
    /\ phase' = "calling"
    /\ UNCHANGED <<callerVars, waiters, rxOpen, reply, exit, inner, result,
                   unwinding, historyVars>>

\* What a method leaves in inner, what it returns and whether it broadcasts.
NewValue(o, v) == IF o.kind = "get" THEN v ELSE o.val
ResultOf(o, v) == CASE o.kind = "get" -> View[v]
                    [] o.kind = "with_mut" -> v
                    [] OTHER -> Unit
Announces(o, v) == \/ o.kind \in {"set", "with_mut", "method"}
                   \/ o.kind = "set_if_changed" /\ v # o.val

\* The method runs up to its return, or to an await inside it.
Call ==
    /\ phase = "calling"
    /\ inner' = NewValue(job.op, inner)
    /\ result' = [val |-> ResultOf(job.op, inner),
                  broadcast |-> Announces(job.op, inner)]
    /\ phase' = IF job.op.kind \in AsyncKinds THEN "awaiting" ELSE "returned"
    /\ UNCHANGED <<callerVars, channelVars, job, unwinding, historyVars>>

Resume ==
    /\ phase = "awaiting"
    /\ phase' = "returned"
    /\ UNCHANGED <<callerVars, channelVars, inner, job, result, unwinding,
                   historyVars>>

\* BUG variant of Broadcast: the value broadcast is the one before the call.
BroadcastBefore ==
    /\ phase = "returned"
    /\ phase' = "responding"
    /\ broadcasts' = IF result.broadcast THEN Append(broadcasts, View[committed])
                                         ELSE broadcasts
    /\ executed' = Append(executed, Entry(job, result.val))
    /\ committed' = inner
    /\ UNCHANGED <<callerVars, channelVars, inner, job, result, unwinding,
                   sent, panicked, stopped>>

\* Actor::broadcast, where the method has one: from here on nothing of the
\* job can panic or be cancelled.
Broadcast ==
    /\ phase = "returned"
    /\ phase' = "responding"
    /\ broadcasts' = IF result.broadcast THEN Append(broadcasts, View[inner])
                                         ELSE broadcasts
    /\ executed' = Append(executed, Entry(job, result.val))
    /\ committed' = inner
    /\ UNCHANGED <<callerVars, channelVars, inner, job, result, unwinding,
                   sent, panicked, stopped>>

\* BUG variant of Awaited: any call of that caller takes the answer.
AwaitedByAnyCall(j) == reply[j.caller].state = "open"

\* Some caller still waits for the answer to job j.
Awaited(j) == calls[j.caller] = j.n /\ reply[j.caller].state = "open"

\* respond_to.send: an error, when the caller is gone, is ignored.
Respond ==
    /\ phase = "responding"
    /\ phase' = "receiving"
    /\ reply' = IF Awaited(job)
                THEN [reply EXCEPT ![job.caller] = Answer(result.val)]
                ELSE reply
    /\ job' = NoJob
    /\ UNCHANGED <<callerVars, waiters, queue, rxOpen, exit, inner, result,
                   unwinding, historyVars>>

-----------------------------------------------------------------------------
(* The actor task ending, and the order in which its state is dropped. *)

\* BUG variant of RecvNone: stop as soon as the handles are gone.
RecvNoneUndrained ==
    /\ phase = "receiving" /\ handles = {}
    /\ phase' = "drop_guard"
    /\ UNCHANGED <<callerVars, channelVars, inner, job, result, unwinding,
                   historyVars>>

\* BUG variant of RecvNone: the actor owns a sender of its own queue.
RecvNoneSelfHeld ==
    /\ phase = "receiving" /\ queue = <<>> /\ handles = {} /\ stopped
    /\ phase' = "drop_guard"
    /\ UNCHANGED <<callerVars, channelVars, inner, job, result, unwinding,
                   historyVars>>

\* Every Handle is dropped and the queue is empty: rx.recv() returns None.
RecvNone ==
    /\ phase = "receiving" /\ queue = <<>> /\ handles = {}
    /\ phase' = "drop_guard"
    /\ UNCHANGED <<callerVars, channelVars, inner, job, result, unwinding,
                   historyVars>>

\* The method, or to_view in its broadcast, panics and unwinds the task.
Panic ==
    /\ phase \in {"calling", "awaiting", "returned"}
    /\ job.op.kind \in PanickingKinds
    /\ phase' = "drop_job"
    /\ unwinding' = TRUE
    /\ panicked' = TRUE
    /\ UNCHANGED <<callerVars, channelVars, inner, job, result, sent, executed,
                   committed, broadcasts, stopped>>

\* BUG variant of RuntimeStops: an await between the broadcast and the reply.
RuntimeStopsResponding ==
    /\ RuntimeMayStop
    /\ phase \in {"receiving", "awaiting", "responding"}
    /\ phase' = IF phase = "receiving" THEN "drop_guard" ELSE "drop_job"
    /\ stopped' = TRUE
    /\ UNCHANGED <<callerVars, channelVars, inner, job, result, unwinding, sent,
                   executed, committed, broadcasts, panicked>>

\* The runtime is dropped: a task is only dropped at an await, or unpolled.
RuntimeStops ==
    /\ RuntimeMayStop
    /\ phase \in {"unpolled", "receiving", "awaiting"}
    /\ phase' = CASE phase = "unpolled" -> "discard_rx"
                  [] phase = "receiving" -> "drop_guard"
                  [] phase = "awaiting" -> "drop_job"
    /\ unwinding' \in IF StopMayUnwind THEN BOOLEAN ELSE {FALSE}
    /\ stopped' = TRUE
    /\ UNCHANGED <<callerVars, channelVars, inner, job, result, sent, executed,
                   committed, broadcasts, panicked>>

\* Dropping jobs drops their respond_to: the callers still waiting see it.
CloseReplies(js) ==
    [c \in Callers |->
        IF \E j \in js : j.caller = c /\ Awaited(j) THEN ClosedReply
                                                    ELSE reply[c]]

DropJob ==
    /\ phase = "drop_job"
    /\ phase' = "drop_guard"
    /\ reply' = CloseReplies({job})
    /\ job' = NoJob
    /\ UNCHANGED <<callerVars, waiters, queue, rxOpen, exit, inner, result,
                   unwinding, historyVars>>

\* BUG variant of DropGuard: the guard does not report.
DropGuardSilent ==
    /\ phase = "drop_guard"
    /\ phase' = "drop_actor"
    /\ UNCHANGED <<callerVars, channelVars, inner, job, result, unwinding,
                   historyVars>>

\* ExitGuard::drop.
DropGuard ==
    /\ phase = "drop_guard"
    /\ phase' = "drop_actor"
    /\ exit' = IF unwinding THEN "Panicked" ELSE "Stopped"
    /\ UNCHANGED <<callerVars, waiters, queue, rxOpen, reply, inner, job,
                   result, unwinding, historyVars>>

DropActor ==
    /\ phase \in {"drop_actor", "discard_actor"}
    /\ phase' = IF phase = "drop_actor" THEN "drop_rx" ELSE "discard_exit_tx"
    /\ UNCHANGED <<callerVars, channelVars, inner, job, result, unwinding,
                   historyVars>>

\* BUG variant of DropReceiver: the queued jobs outlive the receiver.
DropReceiverKeepsJobs ==
    /\ phase \in {"drop_rx", "discard_rx"}
    /\ phase' = IF phase = "drop_rx" THEN "gone" ELSE "discard_actor"
    /\ rxOpen' = FALSE
    /\ queue' = <<>>
    /\ UNCHANGED <<callerVars, waiters, reply, exit, inner, job, result,
                   unwinding, historyVars>>

\* The mpsc receiver closes the channel and drops what is queued.
DropReceiver ==
    /\ phase \in {"drop_rx", "discard_rx"}
    /\ phase' = IF phase = "drop_rx" THEN "gone" ELSE "discard_actor"
    /\ rxOpen' = FALSE
    /\ reply' = CloseReplies(ToSet(queue))
    /\ queue' = <<>>
    /\ UNCHANGED <<callerVars, waiters, exit, inner, job, result, unwinding,
                   historyVars>>

\* Without a first poll there is no guard, and no reason is written.
DropExitSender ==
    /\ phase = "discard_exit_tx"
    /\ phase' = "gone"
    /\ exit' = "sender_dropped"
    /\ UNCHANGED <<callerVars, waiters, queue, rxOpen, reply, inner, job,
                   result, unwinding, historyVars>>

Serve == Start \/ Receive \/ Call \/ Resume \/ Broadcast \/ Respond
End == RecvNone \/ DropJob \/ DropGuard \/ DropActor \/ DropReceiver
       \/ DropExitSender

\* Everything has ended: the one state in which no step is left.
Terminated ==
    /\ phase = "gone" /\ handles = {}
    /\ UNCHANGED vars

Next ==
    \/ \E c \in Callers : CallerNext(c)
    \/ Serve
    \/ End
    \/ Panic
    \/ RuntimeStops
    \/ Terminated

(***************************************************************************)
(* The executor polls every task that can make progress, and a method      *)
(* returns from its await.  No caller has to make, abandon or finish with  *)
(* a call: DropHandle is the program's choice, like StartCall.             *)
(***************************************************************************)
Fairness ==
    /\ WF_vars(Serve \/ End)
    /\ \A c \in Callers : WF_vars(Waiting(c))

Spec == Init /\ [][Next]_vars /\ Fairness

-----------------------------------------------------------------------------
(* What must hold. *)

\* A call returns the result of its own job, which was carried out: never
\* the late answer to a call abandoned before (__send_job, Respond).
AnswerIsOwn ==
    \A c \in Callers :
        /\ outcome[c].kind = "returned" =>
             \E i \in DOMAIN executed :
                executed[i] = [caller |-> c, n |-> calls[c], res |-> outcome[c].val]
        /\ reply[c].state = "sent" =>
             \E i \in DOMAIN executed :
                executed[i] = [caller |-> c, n |-> calls[c], res |-> reply[c].val]

\* Jobs are carried out in the order they were accepted, none twice and none
\* skipped, also when their callers have gone (run).
RunsOnceInOrder ==
    /\ Len(executed) <= Len(sent)
    /\ \A i \in DOMAIN executed : Id(executed[i]) = sent[i]
    /\ \A i, k \in DOMAIN sent : sent[i] = sent[k] => i = k

\* A call that reports the actor gone had no effect: nothing that anybody
\* observed, not a value, a result or a broadcast, comes from it.
FailedCallHasNoEffect ==
    \A c \in Callers :
        (pc[c] = "reporting" \/ outcome[c].kind \in {"panic", "not_running"}) =>
            \A i \in DOMAIN executed : Id(executed[i]) # [caller |-> c, n |-> calls[c]]

\* "no longer running" is never said of an actor one of whose methods
\* panicked, whatever the channels reported first (report_actor_gone).
StoppedReportIsTrue ==
    \A c \in Callers : outcome[c].kind = "not_running" => ~panicked

\* "A panic occurred in the Actor" is only said when one of its methods
\* panicked (ExitGuard).
PanicReportIsTrue ==
    \A c \in Callers : outcome[c].kind = "panic" => panicked

\* Dropping the receiver leaves no caller with a reply that can never come.
NoCallLeftBehind ==
    ~rxOpen => queue = <<>> /\ \A c \in Callers : reply[c].state # "open"

\* Once a caller has found the actor gone the exit reason is on its way:
\* report_actor_gone cannot wait for ever.
ReportingMeansDying ==
    \A c \in Callers :
        pc[c] = "reporting" \/ reply[c].state = "closed" => Dying

\* Unless it panics or its runtime goes, an actor stops, and its broadcast
\* channel closes, only with no handle left and every accepted job done.
StopsOnlyWhenUnused ==
    (exit = "Stopped" \/ BroadcastClosed) /\ ~panicked /\ ~stopped =>
        handles = {} /\ queue = <<>> /\ Len(executed) = Len(sent)

\* A call that is started ends, whatever the actor does: it returns, or
\* reports that the actor is gone.
CallEnds == \A c \in Callers : pc[c] # "idle" ~> pc[c] = "idle"

\* An accepted job is carried out even when its caller has gone, unless the
\* actor dies of a panic or with its runtime.
AcceptedJobRuns ==
    \A k \in 1..(Cardinality(Callers) * MaxCalls) :
        Len(sent) >= k ~> Len(executed) >= k \/ panicked \/ stopped

\* Dropping the last handle ends the actor task.
UnusedActorEnds == handles = {} ~> phase = "gone"

(***************************************************************************)
(* The inductive invariant behind NoCallLeftBehind, StoppedReportIsTrue    *)
(* and FailedCallHasNoEffect (proved in ActorProofs).                      *)
(***************************************************************************)
HoldingPhases == {"calling", "awaiting", "returned", "responding", "drop_job"}
UnservedPhases == HoldingPhases \ {"responding"}
CallId(c) == [caller |-> c, n |-> calls[c]]
Failed(c) == \/ pc[c] = "reporting" \/ reply[c].state = "closed"
             \/ outcome[c].kind \in {"panic", "not_running"}

\* A call under way has a number and an operation, and a reply channel
\* exactly while it waits for the reply.
CallerShape ==
    \A c \in Callers :
        /\ pc[c] # "idle" => calls[c] > 0 /\ op[c] \in Ops
        /\ pc[c] = "waiting" <=> reply[c].state # "none"

\* The task holds a job while it serves or drops one, and the receiver as
\* long as it has not dropped it.
TaskShape ==
    /\ phase \in HoldingPhases => job \in Jobs
    /\ rxOpen <=> phase \notin {"gone", "discard_actor", "discard_exit_tx"}
    /\ rxOpen \/ queue = <<>>

\* A reply channel stays open only while its job exists.
OpenReplyHasJob ==
    \A c \in Callers : reply[c].state = "open" =>
        \/ \E i \in DOMAIN queue : Id(queue[i]) = CallId(c)
        \/ phase \in HoldingPhases /\ Id(job) = CallId(c)

\* How the task came to die decides what the watch channel says.
DeathShape ==
    /\ panicked => unwinding /\ Dying
    /\ phase \in DiscardPhases => ~panicked
    /\ exit # "none" => Dying
    /\ exit = "Stopped" => ~unwinding
    /\ exit = "sender_dropped" => ~panicked

\* Only a dying actor fails a call.
FailedMeansDying ==
    \A c \in Callers : /\ Failed(c) => Dying
                       /\ outcome[c].kind = "not_running" => ~panicked

\* A job is in one place: not sent, queued, being served or carried out.
\* Numbers of jobs never run ahead of their caller's.
Numbered ==
    /\ \A i \in DOMAIN executed : executed[i].n <= calls[executed[i].caller]
    /\ \A i \in DOMAIN queue : queue[i].n <= calls[queue[i].caller]
    /\ phase \in HoldingPhases => job.n <= calls[job.caller]

Separate ==
    /\ \A i, k \in DOMAIN queue : Id(queue[i]) = Id(queue[k]) => i = k
    /\ \A i \in DOMAIN queue, k \in DOMAIN executed :
            Id(queue[i]) # Id(executed[k])
    /\ phase \in UnservedPhases =>
            \A k \in DOMAIN executed : Id(job) # Id(executed[k])
    /\ phase \in UnservedPhases =>
            \A i \in DOMAIN queue : Id(job) # Id(queue[i])

UnsentIsNowhere ==
    \A c \in Callers : pc[c] = "sending" =>
        /\ \A i \in DOMAIN queue : Id(queue[i]) # CallId(c)
        /\ \A i \in DOMAIN executed : Id(executed[i]) # CallId(c)
        /\ phase \in HoldingPhases => Id(job) # CallId(c)

FailedIsNotExecuted ==
    \A c \in Callers : Failed(c) =>
        \A i \in DOMAIN executed : Id(executed[i]) # CallId(c)

\* Every reachable state satisfies the shape the proofs rest on: who holds a
\* job, which replies are open, and what the exit reason may say (run, the
\* drop order of its locals, __send_job).
IndInv ==
    /\ TypeOK
    /\ CallerShape
    /\ TaskShape
    /\ OpenReplyHasJob
    /\ DeathShape
    /\ FailedMeansDying
    /\ Numbered
    /\ Separate
    /\ UnsentIsNowhere
    /\ FailedIsNotExecuted

(***************************************************************************)
(* The actor implements the atomic one.  A job takes effect at Broadcast,  *)
(* and the actor dies at the step that makes the task leave its loop.      *)
(***************************************************************************)
InFlight ==
    IF Dying THEN {}
    ELSE {[caller |-> c, n |-> calls[c], op |-> op[c]] :
                c \in {d \in Callers : pc[d] = "sending"}}
         \cup ToSet(queue)
         \cup (IF phase \in {"calling", "awaiting", "returned"} THEN {job} ELSE {})

AnswerOf(c) ==
    IF pc[c] = "waiting" /\ reply[c].state = "sent" THEN reply[c]
    ELSE IF phase = "responding" /\ job.caller = c /\ Awaited(job)
         THEN Answer(result.val)
         ELSE NoReply

Atomic == INSTANCE AtomicActor WITH
    value <- committed,
    log <- broadcasts,
    holders <- handles,
    busy <- [c \in Callers |-> pc[c] # "idle"],
    inflight <- InFlight,
    answer <- [c \in Callers |-> AnswerOf(c)],
    life <- IF Dying THEN IF unwinding THEN "Panicked" ELSE "Stopped" ELSE "up",
    Show <- LAMBDA v : View[v]

ImplementsAtomicActor == Atomic!Spec
=============================================================================
