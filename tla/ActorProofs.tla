---------------------------- MODULE ActorProofs ----------------------------
(* What holds of Actor for every value of its constants: types, answers and *)
(* what is in hand; the order of the queue; that it implements AtomicActor.  *)
EXTENDS Actor, SequenceTheorems, TLAPS

USE DEF BuiltinKinds, AsyncKinds, Kinds, Results, NoReply, OpenReply,
        ClosedReply, Answer, NoOutcome, Outcome, JobIds, Jobs, Entries

\* Removing one element keeps a sequence over the same set.
LEMMA RemoveAtType ==
    ASSUME NEW S, NEW s \in Seq(S), NEW i \in DOMAIN s
    PROVE  /\ RemoveAt(s, i) \in Seq(S)
  BY DEF RemoveAt

\* NewValue and ResultOf stay within the types of their arguments.
LEMMA OpTypes ==
    ASSUME NEW o \in Ops, NEW v \in Values
    PROVE  /\ NewValue(o, v) \in Values
           /\ ResultOf(o, v) \in Results
           /\ Announces(o, v) \in BOOLEAN
  BY OpsAssumption, ViewAssumption DEF NewValue, ResultOf, Announces

\* Closing replies keeps the reply channels well typed.
LEMMA CloseRepliesType ==
    ASSUME TypeOK, NEW js
    PROVE  CloseReplies(js) \in [Callers ->
            [state : {"none", "open", "sent", "closed"}, val : Results]]
  BY DEF TypeOK, CloseReplies

\* The first state is one the invariant describes.
LEMMA InitIndInv == Init => IndInv
<1> SUFFICES ASSUME Init PROVE IndInv
  OBVIOUS
<1>1. TypeOK
  <2>1. /\ handles \subseteq Callers /\ calls \in [Callers -> 0..MaxCalls]
        /\ op \in [Callers -> Ops \cup {NoOp}]
    BY MaxCallsAssumption DEF Init
  <2>2. /\ pc \in [Callers -> {"idle", "sending", "waiting", "reporting"}]
        /\ outcome \in [Callers ->
            [kind : {"none", "returned", "abandoned", "panic", "not_running"},
             val : Results]]
        /\ reply \in [Callers ->
            [state : {"none", "open", "sent", "closed"}, val : Results]]
    BY DEF Init
  <2>3. /\ waiters \in Seq(Callers)
        /\ queue \in Seq(Jobs) /\ Len(queue) <= CHANNEL_SIZE
        /\ sent \in Seq(JobIds) /\ broadcasts \in Seq(Views)
        /\ executed \in Seq(Entries)
    BY CapacityAssumption DEF Init
  <2> QED
    BY <2>1, <2>2, <2>3, ValuesAssumption DEF Init, TypeOK
<1>2. CallerShape /\ TaskShape /\ OpenReplyHasJob
  BY DEF Init, CallerShape, TaskShape, OpenReplyHasJob, HoldingPhases
<1>3. DeathShape /\ FailedMeansDying
  BY DEF Init, DeathShape, FailedMeansDying, Failed, Dying, DiscardPhases,
         DroppingPhases
<1>4. Numbered /\ Separate /\ UnsentIsNowhere /\ FailedIsNotExecuted
  BY DEF Init, Numbered, Separate, UnsentIsNowhere, FailedIsNotExecuted,
         HoldingPhases, UnservedPhases
<1> QED
  BY <1>1, <1>2, <1>3, <1>4 DEF IndInv

\* Every step preserves the types.
LEMMA TypeStep ==
    ASSUME TypeOK, CallerShape, TaskShape, [Next]_vars
    PROVE  TypeOK'
<1> USE DEF TypeOK
<1>1. ASSUME NEW c \in Callers, NEW d \in Callers, CloneHandle(c, d)
      PROVE  TypeOK'
  BY <1>1 DEF CloneHandle, channelVars, taskVars, historyVars
<1>2. ASSUME NEW c \in Callers, DropHandle(c)
      PROVE  TypeOK'
  BY <1>2 DEF DropHandle, channelVars, taskVars, historyVars
<1>3. ASSUME NEW c \in Callers, NEW o \in Ops, StartCall(c, o)
      PROVE  TypeOK'
  BY <1>3, MaxCallsAssumption DEF StartCall, taskVars, historyVars
<1>4. ASSUME NEW c \in Callers, Send(c)
      PROVE  TypeOK'
  <2> DEFINE j == [caller |-> c, n |-> calls[c], op |-> op[c]]
  <2>1. j \in Jobs /\ Id(j) \in JobIds
    BY <1>4, MaxCallsAssumption DEF Send, CallerShape, Id
  <2>2. /\ queue' = Append(queue, j) /\ sent' = Append(sent, Id(j))
        /\ waiters' = Tail(waiters) /\ waiters # <<>>
        /\ Len(queue) < CHANNEL_SIZE
    BY <1>4 DEF Send
  <2>3. /\ queue' \in Seq(Jobs) /\ sent' \in Seq(JobIds)
        /\ waiters' \in Seq(Callers)
    BY <2>1, <2>2
  <2>4. Len(queue') <= CHANNEL_SIZE
    BY <2>2, <2>1, CapacityAssumption
  <2>5. /\ pc' \in [Callers -> {"idle", "sending", "waiting", "reporting"}]
        /\ reply' \in [Callers ->
            [state : {"none", "open", "sent", "closed"}, val : Results]]
    BY <1>4 DEF Send
  <2>6. UNCHANGED <<handles, calls, op, outcome, rxOpen, exit, phase, inner, job,
                    result, unwinding, executed, committed, broadcasts,
                    panicked, stopped>>
    BY <1>4 DEF Send, taskVars
  <2> QED
    BY <2>3, <2>4, <2>5, <2>6
<1>5. ASSUME NEW c \in Callers, LeaveWaiters(c)
      PROVE  waiters' \in Seq(Callers)
  BY <1>5, RemoveAtType DEF LeaveWaiters
<1>6. ASSUME NEW c \in Callers, SendFails(c)
      PROVE  TypeOK'
  BY <1>5, <1>6 DEF SendFails, taskVars, historyVars
<1>7. ASSUME NEW c \in Callers, Return(c)
      PROVE  TypeOK'
  BY <1>7 DEF Return, taskVars, historyVars
<1>8. ASSUME NEW c \in Callers, ReplyFails(c)
      PROVE  TypeOK'
  BY <1>8 DEF ReplyFails, taskVars, historyVars
<1>9. ASSUME NEW c \in Callers, ReportActorGone(c)
      PROVE  TypeOK'
  BY <1>9 DEF ReportActorGone, channelVars, taskVars, historyVars
<1>10. ASSUME NEW c \in Callers, Abandon(c)
       PROVE  TypeOK'
  BY <1>5, <1>10 DEF Abandon, taskVars, historyVars
<1>11. CASE Start
  BY <1>11 DEF Start, callerVars, channelVars, historyVars, ServingPhases
<1>12. CASE Receive
  <2>1. /\ job' = Head(queue) /\ queue' = Tail(queue)
        /\ queue \in Seq(Jobs) /\ queue # <<>>
    BY <1>12 DEF Receive
  <2> HIDE DEF Jobs
  <2>2. /\ Head(queue) \in Jobs /\ Tail(queue) \in Seq(Jobs)
        /\ Len(Tail(queue)) = Len(queue) - 1 /\ Len(queue) \in Nat
    BY <2>1, HeadTailProperties
  <2>3. Len(queue') <= CHANNEL_SIZE
    BY <2>1, <2>2, CapacityAssumption
  <2> QED
    BY <1>12, <2>1, <2>2, <2>3 DEF Receive, callerVars, historyVars, ServingPhases
<1>13. CASE Call
  <2>1. job.op \in Ops
    BY <1>13 DEF Call, TaskShape, HoldingPhases
  <2>2. /\ inner' \in Values /\ result' \in [val : Results, broadcast : BOOLEAN]
    BY <1>13, <2>1, OpTypes DEF Call
  <2> QED
    BY <1>13, <2>2 DEF Call, callerVars, channelVars, historyVars, ServingPhases
<1>14. CASE Resume
  BY <1>14 DEF Resume, callerVars, channelVars, historyVars, ServingPhases
<1>15. CASE Broadcast
  <2>1. /\ Entry(job, result.val) \in Entries
        /\ View[inner] \in Views
    BY <1>15, ViewAssumption DEF Broadcast, TaskShape, HoldingPhases, Entry
  <2>2. /\ executed' \in Seq(Entries)
        /\ broadcasts' \in Seq(Views)
    BY <1>15, <2>1 DEF Broadcast
  <2> QED
    BY <1>15, <2>2 DEF Broadcast, callerVars, channelVars, ServingPhases
<1>16. CASE Respond
  BY <1>16 DEF Respond, callerVars, historyVars, ServingPhases
<1>17. CASE RecvNone
  BY <1>17 DEF RecvNone, callerVars, channelVars, historyVars, DroppingPhases
<1>18. CASE Panic
  BY <1>18 DEF Panic, callerVars, channelVars, DroppingPhases
<1>19. CASE RuntimeStops
  <2>1. phase' \in DroppingPhases \cup DiscardPhases /\ unwinding' \in BOOLEAN
    BY <1>19 DEF RuntimeStops, DroppingPhases, DiscardPhases
  <2> QED
    BY <1>19, <2>1 DEF RuntimeStops, callerVars, channelVars
<1>20. CASE DropJob
  <2>1. reply' \in [Callers ->
            [state : {"none", "open", "sent", "closed"}, val : Results]]
    BY <1>20, CloseRepliesType DEF DropJob
  <2> QED
    BY <1>20, <2>1 DEF DropJob, callerVars, historyVars, DroppingPhases
<1>21. CASE DropGuard
  BY <1>21 DEF DropGuard, callerVars, historyVars, DroppingPhases
<1>22. CASE DropActor
  BY <1>22 DEF DropActor, callerVars, channelVars, historyVars,
               DroppingPhases, DiscardPhases
<1>23. CASE DropReceiver
  <2>1. reply' \in [Callers ->
            [state : {"none", "open", "sent", "closed"}, val : Results]]
    BY <1>23, CloseRepliesType DEF DropReceiver
  <2>2. queue' \in Seq(Jobs) /\ Len(queue') <= CHANNEL_SIZE
    BY <1>23, CapacityAssumption DEF DropReceiver
  <2> QED
    BY <1>23, <2>1, <2>2 DEF DropReceiver, callerVars, historyVars,
                             DroppingPhases, DiscardPhases
<1>24. CASE DropExitSender
  BY <1>24 DEF DropExitSender, callerVars, historyVars
<1>25. CASE UNCHANGED vars
  BY <1>25 DEF vars, callerVars, channelVars, taskVars, historyVars
<1> QED
  BY <1>1, <1>2, <1>3, <1>4, <1>6, <1>7, <1>8, <1>9, <1>10, <1>11, <1>12,
     <1>13, <1>14, <1>15, <1>16, <1>17, <1>18, <1>19, <1>20, <1>21, <1>22,
     <1>23, <1>24, <1>25
  DEF Next, CallerNext, Waiting, Serve, End, Terminated

-----------------------------------------------------------------------------
\* What closing the replies of a set of jobs does to one caller's reply.
LEMMA CloseRepliesFacts ==
    ASSUME TypeOK, NEW js, NEW c \in Callers
    PROVE  /\ CloseReplies(js)[c].state = "none" <=> reply[c].state = "none"
           /\ CloseReplies(js)[c].state = "open" =>
                /\ reply[c].state = "open"
                /\ \A j \in js : ~(j.caller = c /\ j.n = calls[c])
           /\ CloseReplies(js)[c].state = "closed" =>
                \/ reply[c].state = "closed"
                \/ \E j \in js : j.caller = c /\ j.n = calls[c]
  BY DEF TypeOK, CloseReplies, Awaited

\* A step of a caller that opens no reply leaves every open one its job.
LEMMA OpenReplyKept ==
    ASSUME OpenReplyHasJob, UNCHANGED <<queue, job, phase>>,
           \A d \in Callers : reply'[d].state = "open" =>
                reply[d].state = "open" /\ calls'[d] = calls[d]
    PROVE  OpenReplyHasJob'
  BY DEF OpenReplyHasJob, CallId

\* Every step preserves the shape of calls, of the task and of the replies.
LEMMA ShapeStep ==
    ASSUME TypeOK, CallerShape, TaskShape, OpenReplyHasJob, [Next]_vars
    PROVE  CallerShape' /\ TaskShape' /\ OpenReplyHasJob'
<1> DEFINE Goal == CallerShape' /\ TaskShape' /\ OpenReplyHasJob'
<1> USE DEF CallerShape, TaskShape, OpenReplyHasJob, CallId, Id
<1>1. ASSUME NEW c \in Callers, NEW d \in Callers, CloneHandle(c, d)
      PROVE  Goal
  BY <1>1 DEF CloneHandle, channelVars, taskVars, historyVars
<1>2. ASSUME NEW c \in Callers, DropHandle(c)
      PROVE  Goal
  BY <1>2 DEF DropHandle, channelVars, taskVars, historyVars
<1>3. ASSUME NEW c \in Callers, NEW o \in Ops, StartCall(c, o)
      PROVE  Goal
  <2>1. UNCHANGED <<queue, job, phase, rxOpen>>
    BY <1>3 DEF StartCall, taskVars
  <2>2. \A d \in Callers : reply'[d].state = "open" =>
            reply[d].state = "open" /\ calls'[d] = calls[d]
    BY <1>3 DEF StartCall, TypeOK
  <2>3. CallerShape'
    BY <1>3 DEF StartCall, TypeOK
  <2> QED
    BY <2>1, <2>2, <2>3, OpenReplyKept
<1>4. ASSUME NEW c \in Callers, Send(c)
      PROVE  Goal
  <2> DEFINE j == [caller |-> c, n |-> calls[c], op |-> op[c]]
  <2>1. /\ queue' = Append(queue, j) /\ queue \in Seq(Jobs)
        /\ calls' = calls /\ job' = job /\ phase' = phase /\ op' = op
        /\ rxOpen /\ rxOpen' = rxOpen
        /\ pc' = [pc EXCEPT ![c] = "waiting"]
        /\ reply' = [reply EXCEPT ![c] = OpenReply]
        /\ pc[c] = "sending"
    BY <1>4 DEF Send, TypeOK, taskVars
  <2>2. CallerShape' /\ TaskShape'
    BY <2>1 DEF TypeOK
  <2>3. /\ queue'[Len(queue) + 1] = j
        /\ Len(queue) + 1 \in DOMAIN queue'
        /\ \A i \in DOMAIN queue : i \in DOMAIN queue' /\ queue'[i] = queue[i]
    BY <2>1
  <2>4. OpenReplyHasJob'
    <3> SUFFICES ASSUME NEW d \in Callers, reply'[d].state = "open"
                 PROVE  \/ \E i \in DOMAIN queue' : Id(queue'[i]) = CallId(d)'
                        \/ phase' \in HoldingPhases /\ Id(job') = CallId(d)'
      OBVIOUS
    <3>1. CASE d = c
      <4>1. Id(queue'[Len(queue) + 1]) = CallId(d)'
        BY <3>1, <2>1, <2>3
      <4> QED
        BY <4>1, <2>3
    <3>2. CASE d # c
      <4>1. reply[d].state = "open" /\ CallId(d)' = CallId(d)
        BY <3>2, <2>1 DEF TypeOK
      <4>2. CASE phase \in HoldingPhases /\ Id(job) = CallId(d)
        BY <4>1, <4>2, <2>1
      <4>3. CASE \E i \in DOMAIN queue : Id(queue[i]) = CallId(d)
        BY <4>1, <4>3, <2>3
      <4> QED
        BY <4>1, <4>2, <4>3
    <3> QED
      BY <3>1, <3>2
  <2> QED
    BY <2>2, <2>4
<1>5. ASSUME NEW c \in Callers, SendFails(c)
      PROVE  Goal
  <2>1. UNCHANGED <<queue, job, phase, rxOpen>>
    BY <1>5 DEF SendFails, taskVars
  <2>2. \A d \in Callers : reply'[d].state = "open" =>
            reply[d].state = "open" /\ calls'[d] = calls[d]
    BY <1>5 DEF SendFails, TypeOK
  <2>3. CallerShape'
    BY <1>5 DEF SendFails, TypeOK
  <2> QED
    BY <2>1, <2>2, <2>3, OpenReplyKept
<1>6. ASSUME NEW c \in Callers, Return(c)
      PROVE  Goal
  <2>1. UNCHANGED <<queue, job, phase, rxOpen>>
    BY <1>6 DEF Return, taskVars
  <2>2. \A d \in Callers : reply'[d].state = "open" =>
            reply[d].state = "open" /\ calls'[d] = calls[d]
    BY <1>6 DEF Return, TypeOK
  <2>3. CallerShape'
    BY <1>6 DEF Return, TypeOK
  <2> QED
    BY <2>1, <2>2, <2>3, OpenReplyKept
<1>7. ASSUME NEW c \in Callers, ReplyFails(c)
      PROVE  Goal
  <2>1. UNCHANGED <<queue, job, phase, rxOpen>>
    BY <1>7 DEF ReplyFails, taskVars
  <2>2. \A d \in Callers : reply'[d].state = "open" =>
            reply[d].state = "open" /\ calls'[d] = calls[d]
    BY <1>7 DEF ReplyFails, TypeOK
  <2>3. CallerShape'
    BY <1>7 DEF ReplyFails, TypeOK
  <2> QED
    BY <2>1, <2>2, <2>3, OpenReplyKept
<1>8. ASSUME NEW c \in Callers, ReportActorGone(c)
      PROVE  Goal
  <2>1. UNCHANGED <<queue, job, phase, rxOpen>>
    BY <1>8 DEF ReportActorGone, channelVars, taskVars
  <2>2. \A d \in Callers : reply'[d].state = "open" =>
            reply[d].state = "open" /\ calls'[d] = calls[d]
    BY <1>8 DEF ReportActorGone, channelVars, taskVars, TypeOK
  <2>3. CallerShape'
    BY <1>8 DEF ReportActorGone, channelVars, taskVars, TypeOK
  <2> QED
    BY <2>1, <2>2, <2>3, OpenReplyKept
<1>9. ASSUME NEW c \in Callers, Abandon(c)
      PROVE  Goal
  <2>1. UNCHANGED <<queue, job, phase, rxOpen>>
    BY <1>9 DEF Abandon, taskVars
  <2>2. \A d \in Callers : reply'[d].state = "open" =>
            reply[d].state = "open" /\ calls'[d] = calls[d]
    BY <1>9 DEF Abandon, TypeOK
  <2>3. CallerShape'
    BY <1>9 DEF Abandon, TypeOK
  <2> QED
    BY <2>1, <2>2, <2>3, OpenReplyKept
<1>10. CASE Start \/ Resume \/ Call \/ Broadcast
  BY <1>10 DEF Start, Resume, Call, Broadcast, callerVars, channelVars,
               historyVars, HoldingPhases
<1>11. CASE Receive
  <2>1. /\ job' = Head(queue) /\ queue' = Tail(queue) /\ phase' = "calling"
        /\ UNCHANGED <<pc, calls, op, reply, rxOpen>>
        /\ queue \in Seq(Jobs) /\ queue # <<>> /\ phase = "receiving"
    BY <1>11 DEF Receive, TypeOK, callerVars
  <2>2. CallerShape'
    BY <2>1
  <2>3. /\ Head(queue) \in Jobs /\ Head(queue) = queue[1]
        /\ \A i \in DOMAIN queue : i # 1 =>
              i - 1 \in DOMAIN queue' /\ queue'[i - 1] = queue[i]
    <3> HIDE DEF Jobs
    <3> QED
      BY <2>1, HeadTailProperties
  <2>4. TaskShape'
    BY <2>1, <2>3
  <2>5. OpenReplyHasJob'
    <3> SUFFICES ASSUME NEW d \in Callers, reply'[d].state = "open"
                 PROVE  \/ \E i \in DOMAIN queue' : Id(queue'[i]) = CallId(d)'
                        \/ phase' \in HoldingPhases /\ Id(job') = CallId(d)'
      OBVIOUS
    <3>1. PICK i \in DOMAIN queue : Id(queue[i]) = CallId(d)
      BY <2>1 DEF HoldingPhases
    <3>2. CallId(d)' = CallId(d)
      BY <2>1
    <3>3. CASE i = 1
      BY <3>1, <3>2, <3>3, <2>1, <2>3 DEF HoldingPhases
    <3>4. CASE i # 1
      BY <3>1, <3>2, <3>4, <2>3
    <3> QED
      BY <3>3, <3>4
  <2> QED
    BY <2>2, <2>4, <2>5
<1>12. CASE Respond
  <2>1. /\ phase = "responding" /\ phase' = "receiving"
        /\ UNCHANGED <<pc, calls, op, rxOpen, queue>>
        /\ job \in Jobs
    BY <1>12 DEF Respond, callerVars, HoldingPhases
  <2>2. reply' = IF Awaited(job)
                 THEN [reply EXCEPT ![job.caller] = Answer(result.val)]
                 ELSE reply
    BY <1>12 DEF Respond
  <2>3. \A d \in Callers : /\ reply'[d].state = "none" <=> reply[d].state = "none"
                           /\ reply'[d].state = "open" =>
                                reply[d].state = "open" /\ Id(job) # CallId(d)
    BY <2>1, <2>2 DEF TypeOK, Awaited
  <2> QED
    BY <2>1, <2>3 DEF HoldingPhases
<1>13. CASE RecvNone \/ Panic
  BY <1>13 DEF RecvNone, Panic, callerVars, channelVars, historyVars,
               HoldingPhases
<1>14. CASE RuntimeStops
  <2>1. /\ UNCHANGED <<callerVars, channelVars, job>>
        /\ phase \in {"unpolled", "receiving", "awaiting"}
        /\ phase' \in {"discard_rx", "drop_guard", "drop_job"}
        /\ phase' = "drop_job" <=> phase = "awaiting"
    BY <1>14 DEF RuntimeStops
  <2> QED
    BY <2>1 DEF callerVars, channelVars, HoldingPhases
<1>15. CASE DropJob
  <2>1. /\ UNCHANGED <<pc, calls, op, queue, rxOpen>>
        /\ phase = "drop_job" /\ phase' = "drop_guard"
        /\ reply' = CloseReplies({job})
    BY <1>15 DEF DropJob, callerVars
  <2>2. \A d \in Callers : /\ reply'[d].state = "none" <=> reply[d].state = "none"
                           /\ reply'[d].state = "open" =>
                                /\ reply[d].state = "open"
                                /\ ~(job.caller = d /\ job.n = calls[d])
    BY <2>1, CloseRepliesFacts
  <2> QED
    BY <2>1, <2>2 DEF HoldingPhases
<1>16. CASE DropGuard \/ DropActor \/ DropExitSender
  BY <1>16 DEF DropGuard, DropActor, DropExitSender, callerVars, channelVars,
               historyVars, HoldingPhases
<1>17. CASE DropReceiver
  <2>1. /\ UNCHANGED <<pc, calls, op, job>>
        /\ phase \in {"drop_rx", "discard_rx"}
        /\ phase' \in {"gone", "discard_actor"}
        /\ rxOpen' = FALSE /\ queue' = <<>>
        /\ reply' = CloseReplies(ToSet(queue))
    BY <1>17 DEF DropReceiver, callerVars
  <2>2. \A d \in Callers : /\ reply'[d].state = "none" <=> reply[d].state = "none"
                           /\ reply'[d].state # "open"
    <3> TAKE d \in Callers
    <3>1. CASE reply[d].state = "open"
      <4>1. PICK i \in DOMAIN queue : Id(queue[i]) = CallId(d)
        BY <2>1, <3>1 DEF HoldingPhases
      <4>2. queue[i] \in ToSet(queue)
        BY DEF ToSet
      <4>3. queue[i].caller = d /\ queue[i].n = calls[d]
        BY <4>1
      <4> QED
        BY <4>2, <4>3, <2>1, <3>1, CloseRepliesFacts
    <3>2. CASE reply[d].state # "open"
      BY <3>2, <2>1, CloseRepliesFacts
    <3> QED
      BY <3>1, <3>2
  <2> QED
    BY <2>1, <2>2 DEF HoldingPhases
<1>18. CASE UNCHANGED vars
  BY <1>18 DEF vars, callerVars, channelVars, taskVars, historyVars
<1> QED
  BY <1>1, <1>2, <1>3, <1>4, <1>5, <1>6, <1>7, <1>8, <1>9, <1>10, <1>11,
     <1>12, <1>13, <1>14, <1>15, <1>16, <1>17, <1>18
  DEF Next, CallerNext, Waiting, Serve, End, Terminated

\* Every step preserves what is known of a dying actor and of failed calls.
LEMMA DeathStep ==
    ASSUME TypeOK, CallerShape, TaskShape, DeathShape, FailedMeansDying, [Next]_vars
    PROVE  DeathShape' /\ FailedMeansDying'
<1> DEFINE Goal == DeathShape' /\ FailedMeansDying'
<1> USE DEF DeathShape, FailedMeansDying, Failed, Dying, DroppingPhases,
            DiscardPhases
<1>1. ASSUME NEW c \in Callers, NEW d \in Callers, CloneHandle(c, d)
      PROVE  Goal
  BY <1>1 DEF CloneHandle, channelVars, taskVars, historyVars
<1>2. ASSUME NEW c \in Callers, DropHandle(c)
      PROVE  Goal
  BY <1>2 DEF DropHandle, channelVars, taskVars, historyVars
<1>3. ASSUME NEW c \in Callers, NEW o \in Ops, StartCall(c, o)
      PROVE  Goal
  BY <1>3 DEF StartCall, taskVars, historyVars, TypeOK
<1>4. ASSUME NEW c \in Callers, Send(c)
      PROVE  Goal
  BY <1>4 DEF Send, taskVars, TypeOK
<1>5. ASSUME NEW c \in Callers, SendFails(c)
      PROVE  Goal
  BY <1>5 DEF SendFails, taskVars, historyVars, TypeOK, TaskShape
<1>6. ASSUME NEW c \in Callers, Return(c)
      PROVE  Goal
  BY <1>6 DEF Return, taskVars, historyVars, TypeOK
<1>7. ASSUME NEW c \in Callers, ReplyFails(c)
      PROVE  Goal
  BY <1>7 DEF ReplyFails, taskVars, historyVars, TypeOK
<1>8. ASSUME NEW c \in Callers, ReportActorGone(c)
      PROVE  Goal
  BY <1>8 DEF ReportActorGone, ExitKnown, ExitReason, channelVars, taskVars,
              historyVars, TypeOK
<1>9. ASSUME NEW c \in Callers, Abandon(c)
      PROVE  Goal
  BY <1>9 DEF Abandon, taskVars, historyVars, TypeOK
<1>10. CASE Start \/ Receive \/ Call \/ Resume
  BY <1>10 DEF Start, Receive, Call, Resume, callerVars, channelVars,
               historyVars
<1>11. CASE Broadcast
  BY <1>11 DEF Broadcast, callerVars, channelVars
<1>12. CASE Respond
  <2>1. \A d \in Callers : reply'[d].state = "closed" => reply[d].state = "closed"
    BY <1>12 DEF Respond, TypeOK
  <2> QED
    BY <1>12, <2>1 DEF Respond, callerVars, historyVars
<1>13. CASE RecvNone \/ Panic
  BY <1>13 DEF RecvNone, Panic, callerVars, channelVars, historyVars
<1>14. CASE RuntimeStops
  <2>1. /\ UNCHANGED <<pc, outcome, reply, exit, panicked>>
        /\ phase \in {"unpolled", "receiving", "awaiting"}
        /\ phase' \in {"discard_rx", "drop_guard", "drop_job"}
    BY <1>14 DEF RuntimeStops, callerVars, channelVars
  <2> QED
    BY <2>1
<1>15. CASE DropJob
  BY <1>15 DEF DropJob, callerVars, historyVars
<1>16. CASE DropGuard
  BY <1>16 DEF DropGuard, callerVars, historyVars
<1>17. CASE DropActor \/ DropExitSender
  BY <1>17 DEF DropActor, DropExitSender, callerVars, channelVars, historyVars
<1>18. CASE DropReceiver
  BY <1>18 DEF DropReceiver, callerVars, historyVars
<1>19. CASE UNCHANGED vars
  BY <1>19 DEF vars, callerVars, channelVars, taskVars, historyVars
<1> QED
  BY <1>1, <1>2, <1>3, <1>4, <1>5, <1>6, <1>7, <1>8, <1>9, <1>10, <1>11,
     <1>12, <1>13, <1>14, <1>15, <1>16, <1>17, <1>18, <1>19
  DEF Next, CallerNext, Waiting, Serve, End, Terminated

-----------------------------------------------------------------------------
(* Where the jobs are. *)

Places == Numbered /\ Separate /\ UnsentIsNowhere /\ FailedIsNotExecuted

\* A step that moves no job and changes no call's number only has to say of
\* the callers it makes senders or fails that they were so before.
LEMMA PlacesKept ==
    ASSUME Places, UNCHANGED <<queue, job, phase, executed, calls>>,
           \A d \in Callers : pc'[d] = "sending" => pc[d] = "sending",
           \A d \in Callers : Failed(d)' => Failed(d) \/ pc[d] = "sending"
    PROVE  Places'
  BY DEF Places, Numbered, Separate, UnsentIsNowhere, FailedIsNotExecuted, CallId

\* A step of the task that leaves queue and history as they are, and holds
\* afterwards at most the job it held before.
LEMMA PlacesWithJob ==
    ASSUME Places, UNCHANGED <<queue, executed, calls, pc>>,
           phase' \in HoldingPhases => job' = job /\ phase \in HoldingPhases,
           phase' \in UnservedPhases => phase \in UnservedPhases,
           \A d \in Callers : Failed(d)' => Failed(d)
    PROVE  Places'
<1>1. Numbered' /\ Separate'
  BY DEF Places, Numbered, Separate, UnservedPhases
<1>2. UnsentIsNowhere' /\ FailedIsNotExecuted'
  BY DEF Places, UnsentIsNowhere, FailedIsNotExecuted, CallId
<1> QED
  BY <1>1, <1>2 DEF Places

\* The jobs queued, carried out and held belong to callers.
LEMMA JobTypes ==
    ASSUME TypeOK, TaskShape
    PROVE  /\ \A i \in DOMAIN queue :
                queue[i].caller \in Callers /\ queue[i].n \in Nat
           /\ \A i \in DOMAIN executed :
                executed[i].caller \in Callers /\ executed[i].n \in Nat
           /\ phase \in HoldingPhases => job.caller \in Callers /\ job.n \in Nat
           /\ \A d \in Callers : calls[d] \in Nat
<1>1. \A i \in DOMAIN queue : queue[i] \in Jobs
  <2> HIDE DEF Jobs
  <2> QED
    BY DEF TypeOK
<1>2. \A i \in DOMAIN executed : executed[i] \in Entries
  <2> HIDE DEF Entries
  <2> QED
    BY DEF TypeOK
<1>3. /\ phase \in HoldingPhases => job \in Jobs
      /\ calls \in [Callers -> 0..MaxCalls]
  BY DEF TypeOK, TaskShape
<1>4. \A n \in 0..MaxCalls : n \in Nat
  BY MaxCallsAssumption
<1>5. \A j \in Jobs : j.caller \in Callers /\ j.n \in Nat
  BY MaxCallsAssumption
<1>6. \A x \in Entries : x.caller \in Callers /\ x.n \in Nat
  BY MaxCallsAssumption
<1> HIDE DEF Jobs, Entries
<1> QED
  BY <1>1, <1>2, <1>3, <1>4, <1>5, <1>6

\* Every step keeps each job in one place, and failed calls unexecuted.
LEMMA PlaceStep ==
    ASSUME TypeOK, CallerShape, TaskShape, OpenReplyHasJob, FailedMeansDying,
           Places, [Next]_vars
    PROVE  Places'
<1>1. ASSUME NEW c \in Callers, NEW d \in Callers, CloneHandle(c, d)
      PROVE  Places'
  BY <1>1, PlacesKept DEF CloneHandle, channelVars, taskVars, historyVars, Failed
<1>2. ASSUME NEW c \in Callers, DropHandle(c)
      PROVE  Places'
  BY <1>2, PlacesKept DEF DropHandle, channelVars, taskVars, historyVars, Failed
<1>3. ASSUME NEW c \in Callers, NEW o \in Ops, StartCall(c, o)
      PROVE  Places'
  <2>1. /\ UNCHANGED <<queue, job, phase, executed>>
        /\ calls' = [calls EXCEPT ![c] = @ + 1]
        /\ pc' = [pc EXCEPT ![c] = "sending"]
        /\ outcome' = [outcome EXCEPT ![c] = NoOutcome]
        /\ reply' = [reply EXCEPT ![c] = NoReply]
    BY <1>3 DEF StartCall, taskVars, historyVars
  <2>2. \A d \in Callers : calls[d] <= calls'[d] /\ calls'[d] \in Nat /\ calls[d] \in Nat
    BY <2>1, MaxCallsAssumption DEF TypeOK
  <2>3. Numbered'
    <3>1. \A i \in DOMAIN executed : executed[i].n <= calls'[executed[i].caller]
      BY <2>2, JobTypes DEF Places, Numbered
    <3>2. \A i \in DOMAIN queue : queue[i].n <= calls'[queue[i].caller]
      BY <2>2, JobTypes DEF Places, Numbered
    <3>3. phase \in HoldingPhases => job.n <= calls'[job.caller]
      BY <2>2, JobTypes DEF Places, Numbered
    <3> QED
      BY <2>1, <3>1, <3>2, <3>3 DEF Numbered
  <2>4. Separate'
    BY <2>1 DEF Places, Separate
  <2>5. UnsentIsNowhere'
    <3> SUFFICES ASSUME NEW d \in Callers, pc'[d] = "sending"
                 PROVE  /\ \A i \in DOMAIN queue : Id(queue[i]) # CallId(d)'
                        /\ \A i \in DOMAIN executed : Id(executed[i]) # CallId(d)'
                        /\ phase \in HoldingPhases => Id(job) # CallId(d)'
      BY <2>1 DEF UnsentIsNowhere
    <3>1. CASE d = c
      <4>1. calls'[d] = calls[d] + 1 /\ calls[d] \in Nat
        BY <3>1, <2>1, <2>2 DEF TypeOK
      <4> QED
        BY <3>1, <4>1, JobTypes DEF Places, Numbered, CallId, Id
    <3>2. CASE d # c
      BY <3>2, <2>1 DEF Places, UnsentIsNowhere, CallId, TypeOK
    <3> QED
      BY <3>1, <3>2
  <2>6. FailedIsNotExecuted'
    <3> SUFFICES ASSUME NEW d \in Callers, Failed(d)', NEW i \in DOMAIN executed
                 PROVE  Id(executed[i]) # CallId(d)'
      BY <2>1 DEF FailedIsNotExecuted
    <3>1. d # c
      BY <2>1 DEF Failed, TypeOK
    <3>2. Failed(d) /\ CallId(d)' = CallId(d)
      BY <3>1, <2>1 DEF Failed, CallId, TypeOK
    <3> QED
      BY <3>2 DEF Places, FailedIsNotExecuted
  <2> QED
    BY <2>3, <2>4, <2>5, <2>6 DEF Places
<1>4. ASSUME NEW c \in Callers, Send(c)
      PROVE  Places'
  <2> DEFINE j == [caller |-> c, n |-> calls[c], op |-> op[c]]
  <2>1. /\ UNCHANGED <<job, phase, executed, calls, outcome>>
        /\ queue' = Append(queue, j) /\ queue \in Seq(Jobs)
        /\ pc[c] = "sending" /\ pc' = [pc EXCEPT ![c] = "waiting"]
        /\ reply' = [reply EXCEPT ![c] = OpenReply]
        /\ Id(j) = CallId(c)
    BY <1>4 DEF Send, taskVars, TypeOK, Id, CallId
  <2>2. \A i \in DOMAIN queue' : \/ i \in DOMAIN queue /\ queue'[i] = queue[i]
                                 \/ i = Len(queue) + 1 /\ queue'[i] = j
    BY <2>1
  <2>3. Numbered'
    BY <2>1, <2>2, JobTypes DEF Places, Numbered
  <2>4. /\ \A i \in DOMAIN queue : Id(queue[i]) # Id(j)
        /\ \A i \in DOMAIN executed : Id(executed[i]) # Id(j)
        /\ phase \in HoldingPhases => Id(job) # Id(j)
    BY <2>1 DEF Places, UnsentIsNowhere
  <2>5. Separate'
    <3> HIDE DEF j
    <3>1. \A i, k \in DOMAIN queue' : Id(queue'[i]) = Id(queue'[k]) => i = k
      BY <2>2, <2>4 DEF Places, Separate
    <3> QED
      BY <3>1, <2>1, <2>2, <2>4 DEF Places, Separate, UnservedPhases
  <2>6. \A d \in Callers : /\ CallId(d)' = CallId(d)
                           /\ pc'[d] = "sending" => pc[d] = "sending" /\ d # c
                           /\ Failed(d)' => Failed(d)
    BY <2>1 DEF CallId, Failed, TypeOK
  <2>7. UnsentIsNowhere'
    <3>1. \A d \in Callers : d # c => CallId(d) # Id(j)
      BY DEF CallId, Id
    <3> HIDE DEF j
    <3> QED
      BY <3>1, <2>1, <2>2, <2>6 DEF Places, UnsentIsNowhere
  <2>8. FailedIsNotExecuted'
    BY <2>1, <2>6 DEF Places, FailedIsNotExecuted
  <2> QED
    BY <2>3, <2>5, <2>7, <2>8 DEF Places
<1>5. ASSUME NEW c \in Callers, SendFails(c)
      PROVE  Places'
  BY <1>5, PlacesKept DEF SendFails, taskVars, historyVars, Failed, TypeOK
<1>6. ASSUME NEW c \in Callers, Return(c)
      PROVE  Places'
  BY <1>6, PlacesKept DEF Return, taskVars, historyVars, Failed, TypeOK
<1>7. ASSUME NEW c \in Callers, ReplyFails(c)
      PROVE  Places'
  BY <1>7, PlacesKept DEF ReplyFails, taskVars, historyVars, Failed, TypeOK
<1>8. ASSUME NEW c \in Callers, ReportActorGone(c)
      PROVE  Places'
  BY <1>8, PlacesKept DEF ReportActorGone, channelVars, taskVars, historyVars,
                          Failed, TypeOK
<1>9. ASSUME NEW c \in Callers, Abandon(c)
      PROVE  Places'
  BY <1>9, PlacesKept DEF Abandon, taskVars, historyVars, Failed, TypeOK
<1>10. CASE Start \/ Resume \/ Call
  BY <1>10, PlacesWithJob DEF Start, Resume, Call, callerVars, channelVars,
               historyVars, HoldingPhases, UnservedPhases, Failed
<1>11. CASE Receive
  <2>1. /\ UNCHANGED <<pc, calls, outcome, reply, executed>>
        /\ job' = Head(queue) /\ queue' = Tail(queue) /\ phase' = "calling"
        /\ queue \in Seq(Jobs) /\ queue # <<>>
    BY <1>11 DEF Receive, callerVars, historyVars, TypeOK
  <2>2. /\ 1 \in DOMAIN queue /\ job' = queue[1]
        /\ \A i \in DOMAIN queue' : /\ i + 1 \in DOMAIN queue /\ i + 1 # 1
                                    /\ queue'[i] = queue[i + 1]
        /\ \A i, k \in DOMAIN queue' : i + 1 = k + 1 => i = k
    <3> HIDE DEF Jobs
    <3> QED
      BY <2>1, HeadTailProperties
  <2>3. \A d \in Callers : CallId(d)' = CallId(d) /\ (Failed(d)' <=> Failed(d))
    BY <2>1 DEF CallId, Failed
  <2>4. Numbered'
    BY <2>1, <2>2 DEF Places, Numbered
  <2>5. Separate'
    BY <2>1, <2>2 DEF Places, Separate
  <2>6. UnsentIsNowhere' /\ FailedIsNotExecuted'
    BY <2>1, <2>2, <2>3 DEF Places, UnsentIsNowhere, FailedIsNotExecuted
  <2> QED
    BY <2>4, <2>5, <2>6 DEF Places
<1>12. CASE Broadcast
  <2> DEFINE e == Entry(job, result.val)
  <2>1. /\ UNCHANGED <<pc, calls, outcome, reply, queue, job>>
        /\ phase = "returned" /\ phase' = "responding"
        /\ executed' = Append(executed, e)
        /\ executed \in Seq(Entries)
    BY <1>12 DEF Broadcast, callerVars, channelVars, TypeOK
  <2>2. /\ job \in Jobs /\ Id(e) = Id(job) /\ e.n = job.n /\ e.caller = job.caller
        /\ e \in Entries
    BY <2>1 DEF TaskShape, HoldingPhases, Entry, Id, TypeOK
  <2>3. \A i \in DOMAIN executed' :
            \/ i \in DOMAIN executed /\ executed'[i] = executed[i]
            \/ executed'[i] = e
    BY <2>1, <2>2
  <2> HIDE DEF e
  <2>4. Numbered'
    BY <2>1, <2>2, <2>3 DEF Places, Numbered, HoldingPhases
  <2>5. Separate'
    BY <2>1, <2>2, <2>3 DEF Places, Separate, UnservedPhases, HoldingPhases
  <2>6. UnsentIsNowhere'
    BY <2>1, <2>2, <2>3 DEF Places, UnsentIsNowhere, HoldingPhases, CallId
  <2>7. FailedIsNotExecuted'
    <3>1. ~Dying
      BY <2>1 DEF Dying, DroppingPhases, DiscardPhases
    <3> QED
      BY <3>1, <2>1 DEF FailedMeansDying, FailedIsNotExecuted, Failed
  <2> QED
    BY <2>4, <2>5, <2>6, <2>7 DEF Places
<1>13. CASE Respond
  <2>1. \A d \in Callers : reply'[d].state = "closed" => reply[d].state = "closed"
    BY <1>13 DEF Respond, TypeOK
  <2> QED
    BY <1>13, <2>1, PlacesWithJob DEF Respond, callerVars, historyVars,
            HoldingPhases, UnservedPhases, Failed
<1>14. CASE RecvNone \/ Panic
  BY <1>14, PlacesWithJob DEF RecvNone, Panic, callerVars, channelVars,
            historyVars, HoldingPhases, UnservedPhases, Failed
<1>15. CASE RuntimeStops
  <2>1. /\ UNCHANGED <<pc, calls, outcome, reply, queue, job, executed>>
        /\ phase \in {"unpolled", "receiving", "awaiting"}
        /\ phase' \in {"discard_rx", "drop_guard", "drop_job"}
        /\ phase' = "drop_job" <=> phase = "awaiting"
    BY <1>15 DEF RuntimeStops, callerVars, channelVars
  <2> QED
    BY <2>1, PlacesWithJob DEF HoldingPhases, UnservedPhases, Failed
<1>16. CASE DropJob
  <2>1. /\ UNCHANGED <<pc, calls, outcome, queue, executed>>
        /\ phase = "drop_job" /\ phase' = "drop_guard"
        /\ reply' = CloseReplies({job}) /\ job \in Jobs
    BY <1>16 DEF DropJob, callerVars, historyVars, TaskShape, HoldingPhases
  <2>2. \A d \in Callers : Failed(d)' => Failed(d) \/ Id(job) = CallId(d)
    BY <2>1, CloseRepliesFacts DEF Failed, Id, CallId
  <2>3. FailedIsNotExecuted'
    BY <2>1, <2>2 DEF Places, FailedIsNotExecuted, Separate, UnservedPhases,
            HoldingPhases, CallId
  <2>4. Numbered' /\ Separate' /\ UnsentIsNowhere'
    BY <2>1 DEF Places, Numbered, Separate, UnsentIsNowhere, UnservedPhases,
            HoldingPhases, CallId
  <2> QED
    BY <2>3, <2>4 DEF Places
<1>17. CASE DropGuard \/ DropActor \/ DropExitSender
  BY <1>17, PlacesWithJob DEF DropGuard, DropActor, DropExitSender, callerVars,
            channelVars, historyVars, HoldingPhases, UnservedPhases, Failed
<1>18. CASE DropReceiver
  <2>1. /\ UNCHANGED <<pc, calls, outcome, job, executed>>
        /\ phase' \in {"gone", "discard_actor"} /\ queue' = <<>>
        /\ reply' = CloseReplies(ToSet(queue)) /\ queue \in Seq(Jobs)
    BY <1>18 DEF DropReceiver, callerVars, historyVars, TypeOK
  <2>2. \A d \in Callers : Failed(d)' =>
            Failed(d) \/ \E i \in DOMAIN queue : Id(queue[i]) = CallId(d)
    <3> SUFFICES ASSUME NEW d \in Callers, Failed(d)', ~Failed(d)
                 PROVE  \E i \in DOMAIN queue : Id(queue[i]) = CallId(d)
      OBVIOUS
    <3>1. PICK k \in ToSet(queue) : k.caller = d /\ k.n = calls[d]
      BY <2>1, CloseRepliesFacts DEF Failed
    <3> QED
      BY <3>1 DEF ToSet, Id, CallId
  <2>3. FailedIsNotExecuted'
    BY <2>1, <2>2 DEF Places, FailedIsNotExecuted, Separate, CallId
  <2>4. Numbered' /\ Separate' /\ UnsentIsNowhere'
    BY <2>1 DEF Places, Numbered, Separate, UnsentIsNowhere, UnservedPhases,
            HoldingPhases, CallId
  <2> QED
    BY <2>3, <2>4 DEF Places
<1>19. CASE UNCHANGED vars
  BY <1>19, PlacesKept DEF vars, callerVars, channelVars, taskVars, historyVars,
            Failed
<1> QED
  BY <1>1, <1>2, <1>3, <1>4, <1>5, <1>6, <1>7, <1>8, <1>9, <1>10, <1>11,
     <1>12, <1>13, <1>14, <1>15, <1>16, <1>17, <1>18, <1>19
  DEF Next, CallerNext, Waiting, Serve, End, Terminated

-----------------------------------------------------------------------------
(* The theorems. *)

\* The inductive invariant holds in every reachable state.
THEOREM Inductive == Spec => []IndInv
<1>1. IndInv /\ [Next]_vars => IndInv'
  BY TypeStep, ShapeStep, DeathStep, PlaceStep DEF IndInv, Places
<1> QED
  BY <1>1, InitIndInv, PTL DEF Spec

\* Every variable keeps its type.
THEOREM TypeCorrect == Spec => []TypeOK
<1>1. IndInv => TypeOK
  BY DEF IndInv
<1> QED
  BY <1>1, Inductive, PTL

\* When the receiver has been dropped no caller waits for a reply that
\* cannot come: every reply channel was answered or closed.
THEOREM NobodyLeftBehind == Spec => []NoCallLeftBehind
<1>1. IndInv => NoCallLeftBehind
  BY DEF IndInv, TaskShape, OpenReplyHasJob, NoCallLeftBehind, HoldingPhases
<1> QED
  BY <1>1, Inductive, PTL

\* A caller only finds the actor gone while it is dying, so the exit reason
\* that report_actor_gone waits for is on its way.
THEOREM ReportsOnlyTheDying == Spec => []ReportingMeansDying
<1>1. IndInv => ReportingMeansDying
  BY DEF IndInv, FailedMeansDying, Failed, ReportingMeansDying
<1> QED
  BY <1>1, Inductive, PTL

\* No caller is told "no longer running" of an actor that panicked.
THEOREM StoppedReportsAreTrue == Spec => []StoppedReportIsTrue
<1>1. IndInv => StoppedReportIsTrue
  BY DEF IndInv, FailedMeansDying, StoppedReportIsTrue
<1> QED
  BY <1>1, Inductive, PTL

\* A call that reports the actor gone has taken no effect.
THEOREM FailedCallsHaveNoEffect == Spec => []FailedCallHasNoEffect
<1>1. IndInv => FailedCallHasNoEffect
  BY DEF IndInv, FailedIsNotExecuted, Failed, FailedCallHasNoEffect, CallId
<1> QED
  BY <1>1, Inductive, PTL

-----------------------------------------------------------------------------
(* Order: the queue is what was sent and not yet carried out. *)

InHand == IF phase \in UnservedPhases THEN 1 ELSE 0

\* While the task serves, the jobs sent are those carried out, the one in
\* hand and those queued, in this order.
Lined ==
    ~Dying =>
        /\ Len(sent) = Len(executed) + InHand + Len(queue)
        /\ InHand = 1 => Id(job) = sent[Len(executed) + 1]
        /\ \A i \in DOMAIN queue : Id(queue[i]) = sent[Len(executed) + InHand + i]

\* No id is sent before its call is made, and only once.
SentOnce ==
    /\ \A i \in DOMAIN sent : sent[i].n <= calls[sent[i].caller]
    /\ \A c \in Callers : pc[c] = "sending" =>
            \A i \in DOMAIN sent : sent[i] # CallId(c)

OrderInv == RunsOnceInOrder /\ Lined /\ SentOnce

\* The job being answered is one that was carried out with that result.
AnswerInv ==
    /\ AnswerIsOwn
    /\ phase = "responding" =>
            \E i \in DOMAIN executed : executed[i] = Entry(job, result.val)

\* A call in progress borrows a handle; an actor that ends by itself has none
\* and nothing left to do.
UnusedInv ==
    /\ \A c \in Callers : pc[c] # "idle" => c \in handles
    /\ Dying /\ ~panicked /\ ~stopped =>
            handles = {} /\ queue = <<>> /\ Len(executed) = Len(sent)

\* An id names a caller and a number.
LEMMA IdTypes == \A x \in JobIds : x.caller \in Callers /\ x.n \in Nat
<1>1. \A n \in 1..MaxCalls : n \in Nat
  BY MaxCallsAssumption
<1> QED
  BY <1>1
-----------------------------------------------------------------------------
(* Order. *)

\* A step that sends and carries out nothing keeps the order if it leaves the
\* line alone or ends the service.
LEMMA OrderKept ==
    ASSUME OrderInv, UNCHANGED <<executed, sent>>,
           Dying' \/ (~Dying /\ queue' = queue /\ InHand' = InHand
                      /\ (InHand = 1 => job' = job)),
           \A i \in DOMAIN sent : sent[i].n <= calls'[sent[i].caller],
           \A d \in Callers : pc'[d] = "sending" =>
                \A i \in DOMAIN sent : sent[i] # CallId(d)'
    PROVE  OrderInv'
<1>1. RunsOnceInOrder'
  BY DEF OrderInv, RunsOnceInOrder
<1>2. Lined'
  BY DEF OrderInv, Lined
<1>3. SentOnce'
  BY DEF OrderInv, SentOnce
<1> QED
  BY <1>1, <1>2, <1>3 DEF OrderInv

\* The same for a step that makes no call.
LEMMA OrderKeptCalls ==
    ASSUME OrderInv, UNCHANGED <<executed, sent, calls>>,
           Dying' \/ (~Dying /\ queue' = queue /\ InHand' = InHand
                      /\ (InHand = 1 => job' = job)),
           \A d \in Callers : pc'[d] = "sending" => pc[d] = "sending"
    PROVE  OrderInv'
<1>1. \A d \in Callers : CallId(d)' = CallId(d)
  BY DEF CallId
<1> QED
  BY <1>1, OrderKept DEF OrderInv, SentOnce

\* Every step keeps the order.
LEMMA OrderStep ==
    ASSUME TypeOK, TaskShape, CallerShape, OrderInv, [Next]_vars
    PROVE  OrderInv'
<1> DEFINE Same == ~Dying /\ queue' = queue /\ InHand' = InHand
                   /\ (InHand = 1 => job' = job)
<1> DEFINE Calm == \A d \in Callers : pc'[d] = "sending" => pc[d] = "sending"
<1>0. UNCHANGED <<phase, queue, job>> => Same \/ Dying'
  BY DEF InHand, Dying
<1>1. ASSUME NEW c \in Callers, NEW d \in Callers, CloneHandle(c, d)
      PROVE  OrderInv'
  BY <1>0, <1>1, OrderKeptCalls DEF CloneHandle, channelVars, taskVars, historyVars
<1>2. ASSUME NEW c \in Callers, DropHandle(c)
      PROVE  OrderInv'
  BY <1>0, <1>2, OrderKeptCalls DEF DropHandle, channelVars, taskVars, historyVars
<1>3. ASSUME NEW c \in Callers, NEW o \in Ops, StartCall(c, o)
      PROVE  OrderInv'
  <2>1. /\ UNCHANGED <<executed, sent, phase, queue, job>>
        /\ calls' = [calls EXCEPT ![c] = @ + 1] /\ pc' = [pc EXCEPT ![c] = "sending"]
    BY <1>3 DEF StartCall, taskVars, historyVars
  <2>2. \A d \in Callers : calls[d] \in Nat /\ calls'[d] \in Nat /\ calls[d] <= calls'[d]
    BY <2>1, JobTypes DEF TypeOK
  <2>3. \A i \in DOMAIN sent : sent[i].caller \in Callers /\ sent[i].n \in Nat
    <3>1. \A i \in DOMAIN sent : sent[i] \in JobIds
      <4> HIDE DEF JobIds
      <4> QED
        BY DEF TypeOK
    <3> HIDE DEF JobIds
    <3> QED
      BY <3>1, IdTypes
  <2>4. \A i \in DOMAIN sent : sent[i].n <= calls'[sent[i].caller]
    BY <2>2, <2>3 DEF OrderInv, SentOnce
  <2>5. \A d \in Callers : pc'[d] = "sending" =>
            \A i \in DOMAIN sent : sent[i] # CallId(d)'
    <3>1. SUFFICES ASSUME NEW d \in Callers, pc'[d] = "sending", NEW i \in DOMAIN sent,
                          sent[i] = CallId(d)'
                   PROVE  FALSE
      OBVIOUS
    <3>2. sent[i].caller = d /\ sent[i].n = calls'[d]
      BY <3>1 DEF CallId
    <3>3. CASE d = c
      <4>1. calls'[d] = calls[d] + 1 /\ sent[i].n <= calls[d]
        BY <2>1, <3>2, <3>3 DEF TypeOK, OrderInv, SentOnce
      <4> QED
        BY <4>1, <3>2, <2>2
    <3>4. CASE d # c
      <4>1. calls'[d] = calls[d] /\ pc[d] = "sending"
        BY <2>1, <3>1, <3>4 DEF TypeOK
      <4>2. CallId(d)' = CallId(d)
        BY <4>1 DEF CallId
      <4> QED
        BY <4>1, <4>2, <3>1 DEF OrderInv, SentOnce
    <3> QED
      BY <3>3, <3>4
  <2> QED
    BY <1>0, <2>1, <2>4, <2>5, OrderKept
<1>4. ASSUME NEW c \in Callers, Send(c)
      PROVE  OrderInv'
  <2> DEFINE j == [caller |-> c, n |-> calls[c], op |-> op[c]]
  <2>1. /\ queue' = Append(queue, j) /\ sent' = Append(sent, Id(j))
        /\ pc[c] = "sending" /\ pc' = [pc EXCEPT ![c] = "waiting"]
        /\ UNCHANGED <<calls, executed, phase, job>>
    BY <1>4 DEF Send, taskVars
  <2>2. /\ Len(queue) \in Nat /\ Len(sent) \in Nat /\ Len(executed) \in Nat
        /\ Len(queue') = Len(queue) + 1 /\ Len(sent') = Len(sent) + 1
        /\ \A i \in DOMAIN queue : queue'[i] = queue[i]
        /\ \A i \in DOMAIN sent : sent'[i] = sent[i]
        /\ queue'[Len(queue) + 1] = j /\ sent'[Len(sent) + 1] = Id(j)
        /\ DOMAIN queue' = DOMAIN queue \cup {Len(queue) + 1}
        /\ DOMAIN sent' = DOMAIN sent \cup {Len(sent) + 1}
        /\ DOMAIN sent = 1..Len(sent) /\ DOMAIN queue = 1..Len(queue)
        /\ DOMAIN executed = 1..Len(executed)
    <3> HIDE DEF j, Jobs, JobIds, Entries
    <3> QED
      BY <2>1 DEF TypeOK
  <2>3. Id(j) = CallId(c) /\ Id(j).n = calls[c] /\ Id(j).caller = c /\ calls[c] \in Nat
    BY JobTypes DEF Id, CallId
  <2>4. \A d \in Callers : CallId(d)' = CallId(d) /\ (d # c => CallId(d) # Id(j))
    BY <2>1 DEF CallId, Id
  <2>5. \A i \in DOMAIN sent : sent[i] # Id(j)
    BY <2>1, <2>3 DEF OrderInv, SentOnce
  <2> HIDE DEF j
  <2>6. RunsOnceInOrder'
    <3>1. Len(executed) <= Len(sent)
      BY DEF OrderInv, RunsOnceInOrder
    <3>2. \A i \in DOMAIN executed : Id(executed[i]) = sent'[i]
      BY <2>2, <3>1 DEF OrderInv, RunsOnceInOrder
    <3>3. \A i, k \in DOMAIN sent' : sent'[i] = sent'[k] => i = k
      BY <2>2, <2>5 DEF OrderInv, RunsOnceInOrder
    <3> QED
      BY <2>1, <2>2, <3>1, <3>2, <3>3 DEF RunsOnceInOrder
  <2>7. Lined'
    <3>1. InHand \in {0, 1} /\ InHand' = InHand /\ (Dying' <=> Dying)
      BY <2>1 DEF InHand, Dying
    <3>2. CASE ~Dying
      <4>1. /\ Len(sent) = Len(executed) + InHand + Len(queue)
            /\ InHand = 1 => Id(job) = sent[Len(executed) + 1]
            /\ \A i \in DOMAIN queue : Id(queue[i]) = sent[Len(executed) + InHand + i]
        BY <3>2 DEF OrderInv, Lined
      <4>2. InHand = 1 => Len(executed) + 1 \in DOMAIN sent
        BY <4>1, <2>2
      <4>3. \A i \in DOMAIN queue : Len(executed) + InHand + i \in DOMAIN sent
        BY <4>1, <3>1, <2>2
      <4>4. \A i \in DOMAIN queue' :
               Id(queue'[i]) = sent'[Len(executed) + InHand + i]
        BY <4>1, <4>3, <3>1, <2>2
      <4>5. Len(sent') = Len(executed) + InHand + Len(queue')
        BY <4>1, <3>1, <2>2
      <4> QED
        BY <4>1, <4>2, <4>4, <4>5, <3>1, <2>1, <2>2 DEF Lined
    <3> QED
      BY <3>1, <3>2 DEF Lined
  <2>8. SentOnce'
    <3>1. \A d \in Callers : pc'[d] = "sending" => pc[d] = "sending" /\ d # c
      BY <2>1 DEF TypeOK
    <3>2. \A i \in DOMAIN sent' : sent'[i].n <= calls[sent'[i].caller]
      BY <2>2, <2>3 DEF OrderInv, SentOnce
    <3>3. \A d \in Callers : pc'[d] = "sending" =>
            \A i \in DOMAIN sent' : sent'[i] # CallId(d)'
      BY <3>1, <2>2, <2>4 DEF OrderInv, SentOnce
    <3> QED
      BY <2>1, <3>2, <3>3 DEF SentOnce
  <2> QED
    BY <2>6, <2>7, <2>8 DEF OrderInv
<1>5. ASSUME NEW c \in Callers, SendFails(c) \/ ReplyFails(c) \/ Return(c) \/ Abandon(c)
      PROVE  OrderInv'
  <2>1. /\ UNCHANGED <<executed, sent, calls, phase, queue, job>>
        /\ Calm
    BY <1>5 DEF SendFails, ReplyFails, Return, Abandon, taskVars, historyVars, TypeOK
  <2> QED
    BY <1>0, <2>1, OrderKeptCalls
<1>6. ASSUME NEW c \in Callers, ReportActorGone(c)
      PROVE  OrderInv'
  <2>1. /\ UNCHANGED <<executed, sent, calls, phase, queue, job>>
        /\ Calm
    BY <1>6 DEF ReportActorGone, channelVars, taskVars, historyVars, TypeOK
  <2> QED
    BY <1>0, <2>1, OrderKeptCalls
<1>7. CASE Start \/ Resume \/ Call \/ Respond
  <2>1. UNCHANGED <<executed, sent, calls, queue, pc>> /\ Calm
    BY <1>7 DEF Start, Resume, Call, Respond, callerVars, channelVars, historyVars
  <2>2. Same
    BY <1>7 DEF Start, Resume, Call, Respond, callerVars, channelVars, historyVars,
                InHand, UnservedPhases, HoldingPhases, Dying, DroppingPhases,
                DiscardPhases
  <2> QED
    BY <2>1, <2>2, OrderKeptCalls
<1>8. CASE Receive
  <2>1. /\ job' = Head(queue) /\ queue' = Tail(queue) /\ queue # <<>>
        /\ phase = "receiving" /\ phase' = "calling"
        /\ UNCHANGED <<sent, executed, calls, pc>>
    BY <1>8 DEF Receive, callerVars, historyVars
  <2>2. /\ Len(queue) \in Nat \ {0} /\ Len(executed) \in Nat
        /\ Len(queue') = Len(queue) - 1
        /\ DOMAIN queue = 1..Len(queue) /\ DOMAIN queue' = 1..Len(queue')
        /\ job' = queue[1]
        /\ \A i \in 1..Len(queue') : queue'[i] = queue[i + 1]
    <3> HIDE DEF Jobs, Entries
    <3> QED
      BY <2>1, HeadTailProperties DEF TypeOK
  <2>3. InHand = 0 /\ InHand' = 1 /\ ~Dying
    BY <2>1 DEF InHand, UnservedPhases, HoldingPhases, Dying, DroppingPhases,
                DiscardPhases
  <2>4. /\ Len(sent) = Len(executed) + Len(queue)
        /\ \A i \in 1..Len(queue) : Id(queue[i]) = sent[Len(executed) + i]
    <3>1. /\ Len(sent) = Len(executed) + InHand + Len(queue)
          /\ \A i \in DOMAIN queue : Id(queue[i]) = sent[Len(executed) + InHand + i]
      BY <2>3 DEF OrderInv, Lined
    <3>2. \A i \in 1..Len(queue) : Len(executed) + InHand + i = Len(executed) + i
      BY <2>2, <2>3
    <3> QED
      BY <2>2, <2>3, <3>1, <3>2
  <2>5. Lined'
    <3>1. Len(sent) = Len(executed) + 1 + Len(queue')
      BY <2>2, <2>4
    <3>2. Id(job') = sent[Len(executed) + 1]
      BY <2>2, <2>4
    <3>3. \A i \in DOMAIN queue' : Id(queue'[i]) = sent[Len(executed) + 1 + i]
      <4> TAKE i \in DOMAIN queue'
      <4>1. i + 1 \in 1..Len(queue) /\ queue'[i] = queue[i + 1]
        BY <2>2
      <4>2. Id(queue[i + 1]) = sent[Len(executed) + (i + 1)]
        BY <4>1, <2>4
      <4>3. Len(executed) + (i + 1) = Len(executed) + 1 + i
        BY <4>1, <2>2
      <4> QED
        BY <4>1, <4>2, <4>3
    <3>4. Id(job)' = Id(job') /\ \A i \in DOMAIN queue' : Id(queue[i])' = Id(queue'[i])
      BY DEF Id
    <3> QED
      BY <2>1, <2>3, <3>1, <3>2, <3>3, <3>4 DEF Lined
  <2>6. RunsOnceInOrder'
    BY <2>1 DEF OrderInv, RunsOnceInOrder
  <2>7. SentOnce'
    BY <2>1 DEF OrderInv, SentOnce, CallId
  <2> QED
    BY <2>5, <2>6, <2>7 DEF OrderInv
<1>9. CASE Broadcast
  <2>1. /\ executed' = Append(executed, Entry(job, result.val))
        /\ phase = "returned" /\ phase' = "responding"
        /\ UNCHANGED <<sent, queue, job, calls, pc>>
    BY <1>9 DEF Broadcast, callerVars, channelVars
  <2>2. InHand = 1 /\ InHand' = 0 /\ ~Dying
    BY <2>1 DEF InHand, UnservedPhases, HoldingPhases, Dying, DroppingPhases,
                DiscardPhases
  <2>3. /\ Len(executed) \in Nat /\ Len(executed') = Len(executed) + 1
        /\ Len(queue) \in Nat /\ DOMAIN queue = 1..Len(queue)
        /\ DOMAIN executed' = DOMAIN executed \cup {Len(executed) + 1}
        /\ \A i \in DOMAIN executed : executed'[i] = executed[i]
        /\ executed'[Len(executed) + 1] = Entry(job, result.val)
    <3> HIDE DEF Jobs, Entries
    <3> QED
      BY <2>1 DEF TypeOK
  <2>4. /\ Len(sent) = Len(executed) + 1 + Len(queue)
        /\ Id(job) = sent[Len(executed) + 1]
        /\ \A i \in DOMAIN queue : Id(queue[i]) = sent[Len(executed) + 1 + i]
    BY <2>2 DEF OrderInv, Lined
  <2>5. Id(Entry(job, result.val)) = Id(job)
    BY DEF Id, Entry
  <2>6. RunsOnceInOrder'
    <3>1. Len(executed') <= Len(sent)
      BY <2>3, <2>4
    <3>2. \A i \in DOMAIN executed' : Id(executed'[i]) = sent[i]
      BY <2>3, <2>4, <2>5 DEF OrderInv, RunsOnceInOrder
    <3> QED
      BY <2>1, <3>1, <3>2 DEF OrderInv, RunsOnceInOrder
  <2>7. Lined'
    <3>1. \A i \in DOMAIN queue : Id(queue[i]) = sent[Len(executed') + 0 + i]
      BY <2>3, <2>4
    <3> QED
      BY <2>1, <2>2, <2>3, <2>4, <3>1 DEF Lined
  <2>8. SentOnce'
    BY <2>1 DEF OrderInv, SentOnce, CallId
  <2> QED
    BY <2>6, <2>7, <2>8 DEF OrderInv
<1>10. CASE RecvNone \/ DropJob \/ DropGuard \/ DropActor \/ DropReceiver \/ DropExitSender
  <2>1. UNCHANGED <<executed, sent, calls, pc>> /\ Calm
    BY <1>10 DEF RecvNone, DropJob, DropGuard, DropActor, DropReceiver,
                 DropExitSender, callerVars, historyVars
  <2>2. Dying'
    BY <1>10 DEF RecvNone, DropJob, DropGuard, DropActor, DropReceiver,
                 DropExitSender, Dying, DroppingPhases, DiscardPhases
  <2> QED
    BY <2>1, <2>2, OrderKeptCalls
<1>11. CASE Panic \/ RuntimeStops
  <2>1. UNCHANGED <<executed, sent, calls, pc>> /\ Calm
    BY <1>11 DEF Panic, RuntimeStops, callerVars
  <2>2. Dying'
    BY <1>11 DEF Panic, RuntimeStops, Dying, DroppingPhases, DiscardPhases
  <2> QED
    BY <2>1, <2>2, OrderKeptCalls
<1>12. CASE UNCHANGED vars
  BY <1>0, <1>12, OrderKeptCalls
     DEF vars, callerVars, channelVars, taskVars, historyVars
<1> QED
  BY <1>1, <1>2, <1>3, <1>4, <1>5, <1>6, <1>7, <1>8, <1>9, <1>10, <1>11, <1>12
  DEF Next, CallerNext, Waiting, Serve, End, Terminated

\* What was sent is what was carried out, what is in hand and what is queued.
THEOREM OrderHolds == Spec => []OrderInv
<1>1. Init => OrderInv
  <2>1. Init => /\ Len(sent) = 0 /\ Len(executed) = 0 /\ Len(queue) = 0
                /\ DOMAIN sent = {} /\ DOMAIN executed = {} /\ DOMAIN queue = {}
                /\ InHand = 0
    BY DEF Init, InHand, UnservedPhases, HoldingPhases
  <2> QED
    BY <2>1 DEF OrderInv, RunsOnceInOrder, Lined, SentOnce
<1>2. IndInv /\ OrderInv /\ [Next]_vars => OrderInv'
  BY OrderStep DEF IndInv
<1> QED
  BY <1>1, <1>2, Inductive, PTL DEF Spec

\* Jobs are carried out in the order they were accepted, none twice and none
\* skipped, whatever callers abandon and however the task ends (run).
THEOREM JobsRunInOrder == Spec => []RunsOnceInOrder
<1>1. OrderInv => RunsOnceInOrder
  BY DEF OrderInv
<1> QED
  BY <1>1, OrderHolds, PTL

-----------------------------------------------------------------------------
(* Answers. *)

\* What was carried out stays on record.
LEMMA ExecutedKept ==
    ASSUME TypeOK, TaskShape, [Next]_vars
    PROVE  /\ \A i \in DOMAIN executed : i \in DOMAIN executed' /\ executed'[i] = executed[i]
           /\ phase' = "responding" /\ phase # "responding" =>
                 \E i \in DOMAIN executed' : executed'[i] = Entry(job', result'.val)
<1>1. CASE Broadcast
  <2>1. /\ executed' = Append(executed, Entry(job, result.val))
        /\ UNCHANGED <<job, result>>
    BY <1>1 DEF Broadcast
  <2>2. /\ DOMAIN executed' = DOMAIN executed \cup {Len(executed) + 1}
        /\ \A i \in DOMAIN executed : executed'[i] = executed[i]
        /\ executed'[Len(executed) + 1] = Entry(job, result.val)
    <3> HIDE DEF Entries
    <3> QED
      BY <2>1 DEF TypeOK
  <2> QED
    BY <2>1, <2>2
<1>2. CASE ~Broadcast
  <2>1. /\ executed' = executed
        /\ phase' = "responding" => phase = "responding"
    BY <1>2 DEF Next, CallerNext, Waiting, Serve, End, Terminated, CloneHandle,
                DropHandle, StartCall, Send, SendFails, Return, ReplyFails,
                ReportActorGone, Abandon, Start, Receive, Call, Resume, Respond,
                RecvNone, DropJob, DropGuard, DropActor, DropReceiver,
                DropExitSender, Panic, RuntimeStops, vars, callerVars,
                channelVars, taskVars, historyVars
  <2> QED
    BY <2>1
<1> QED
  BY <1>1, <1>2

\* An answer that was right stays right while its call is the caller's latest.
LEMMA AnswerKept ==
    ASSUME AnswerInv, NEW c \in Callers, calls'[c] = calls[c],
           \A i \in DOMAIN executed : i \in DOMAIN executed' /\ executed'[i] = executed[i],
           outcome'[c] = outcome[c] \/ outcome'[c].kind # "returned"
              \/ (reply[c].state = "sent" /\ outcome'[c].val = reply[c].val),
           reply'[c] = reply[c] \/ reply'[c].state # "sent"
    PROVE  /\ outcome'[c].kind = "returned" =>
                \E i \in DOMAIN executed' :
                    executed'[i] = [caller |-> c, n |-> calls'[c], res |-> outcome'[c].val]
           /\ reply'[c].state = "sent" =>
                \E i \in DOMAIN executed' :
                    executed'[i] = [caller |-> c, n |-> calls'[c], res |-> reply'[c].val]
<1>1. /\ outcome[c].kind = "returned" =>
            \E i \in DOMAIN executed :
                executed[i] = [caller |-> c, n |-> calls[c], res |-> outcome[c].val]
      /\ reply[c].state = "sent" =>
            \E i \in DOMAIN executed :
                executed[i] = [caller |-> c, n |-> calls[c], res |-> reply[c].val]
  BY DEF AnswerInv, AnswerIsOwn
<1> QED
  BY <1>1

\* Every step keeps answers right.
LEMMA AnswerStep ==
    ASSUME TypeOK, TaskShape, AnswerInv, [Next]_vars
    PROVE  AnswerInv'
<1> DEFINE Right(c) ==
        /\ outcome'[c].kind = "returned" =>
             \E i \in DOMAIN executed' :
                executed'[i] = [caller |-> c, n |-> calls'[c], res |-> outcome'[c].val]
        /\ reply'[c].state = "sent" =>
             \E i \in DOMAIN executed' :
                executed'[i] = [caller |-> c, n |-> calls'[c], res |-> reply'[c].val]
<1> DEFINE Kept == \A i \in DOMAIN executed :
                      i \in DOMAIN executed' /\ executed'[i] = executed[i]
<1>0. Kept
  BY ExecutedKept
<1>1. phase' = "responding" =>
        \E i \in DOMAIN executed' : executed'[i] = Entry(job', result'.val)
  <2>1. CASE phase = "responding" /\ phase' = "responding"
    <3>1. UNCHANGED <<job, result>>
      BY <2>1 DEF Next, CallerNext, Waiting, Serve, End, Terminated, CloneHandle,
                DropHandle, StartCall, Send, SendFails, Return, ReplyFails,
                ReportActorGone, Abandon, Start, Receive, Call, Resume, Broadcast,
                Respond, RecvNone, DropJob, DropGuard, DropActor, DropReceiver,
                DropExitSender, Panic, RuntimeStops, vars, callerVars,
                channelVars, taskVars, historyVars
    <3> QED
      BY <1>0, <2>1, <3>1 DEF AnswerInv
  <2> QED
    BY <2>1, ExecutedKept
<1>2. ASSUME NEW c \in Callers, NEW o \in Ops, StartCall(c, o)
      PROVE  \A d \in Callers : Right(d)
  <2>1. /\ calls' = [calls EXCEPT ![c] = @ + 1]
        /\ outcome' = [outcome EXCEPT ![c] = NoOutcome]
        /\ reply' = [reply EXCEPT ![c] = NoReply]
    BY <1>2 DEF StartCall
  <2>2. Right(c)
    <3>1. outcome'[c] = NoOutcome /\ reply'[c] = NoReply
      BY <2>1 DEF TypeOK
    <3> QED
      BY <3>1
  <2>3. ASSUME NEW d \in Callers, d # c
        PROVE  Right(d)
    BY <1>0, <2>1, <2>3, AnswerKept DEF TypeOK
  <2> QED
    BY <2>2, <2>3
<1>3. ASSUME NEW c \in Callers, Return(c)
      PROVE  \A d \in Callers : Right(d)
  <2>1. /\ UNCHANGED calls /\ reply[c].state = "sent"
        /\ outcome' = [outcome EXCEPT ![c] = [kind |-> "returned", val |-> reply[c].val]]
        /\ reply' = [reply EXCEPT ![c] = NoReply]
    BY <1>3 DEF Return
  <2> SUFFICES ASSUME NEW d \in Callers PROVE Right(d)
    OBVIOUS
  <2>2. /\ outcome'[d] = outcome[d]
              \/ (reply[d].state = "sent" /\ outcome'[d].val = reply[d].val)
        /\ reply'[d] = reply[d] \/ reply'[d].state # "sent"
    <3>1. CASE d = c
      <4>1. /\ outcome'[d] = [kind |-> "returned", val |-> reply[d].val]
            /\ reply'[d] = NoReply
        BY <2>1, <3>1 DEF TypeOK
      <4> QED
        BY <2>1, <3>1, <4>1
    <3>2. CASE d # c
      BY <2>1, <3>2 DEF TypeOK
    <3> QED
      BY <3>1, <3>2
  <2> QED
    BY <1>0, <2>1, <2>2, AnswerKept
<1>4. ASSUME Respond
      PROVE  \A d \in Callers : Right(d)
  <2>1. /\ UNCHANGED <<calls, outcome, executed>> /\ phase = "responding"
        /\ reply' = IF Awaited(job)
                    THEN [reply EXCEPT ![job.caller] = Answer(result.val)] ELSE reply
    BY <1>4 DEF Respond, callerVars, historyVars
  <2>2. PICK i \in DOMAIN executed : executed[i] = Entry(job, result.val)
    BY <2>1 DEF AnswerInv
  <2> SUFFICES ASSUME NEW d \in Callers PROVE Right(d)
    OBVIOUS
  <2>3. CASE Awaited(job) /\ d = job.caller
    <3>1. reply'[d] = Answer(result.val)
      BY <2>1, <2>3 DEF TypeOK
    <3>2. executed[i] = [caller |-> d, n |-> calls[d], res |-> result.val]
      BY <2>2, <2>3 DEF Entry, Awaited
    <3>3. executed'[i] = [caller |-> d, n |-> calls'[d], res |-> reply'[d].val]
      BY <2>1, <3>1, <3>2
    <3>4. outcome'[d].kind = "returned" =>
             \E k \in DOMAIN executed' :
                executed'[k] = [caller |-> d, n |-> calls'[d], res |-> outcome'[d].val]
      BY <2>1 DEF AnswerInv, AnswerIsOwn
    <3> QED
      BY <2>1, <3>3, <3>4
  <2>4. CASE ~(Awaited(job) /\ d = job.caller)
    <3>1. reply'[d] = reply[d]
      BY <2>1, <2>4 DEF TypeOK
    <3> QED
      BY <1>0, <2>1, <3>1, AnswerKept
  <2> QED
    BY <2>3, <2>4
<1>5. ASSUME DropJob \/ DropReceiver
      PROVE  \A d \in Callers : Right(d)
  <2>1. /\ UNCHANGED <<calls, outcome>>
        /\ reply' = CloseReplies({job}) \/ reply' = CloseReplies(ToSet(queue))
    BY <1>5 DEF DropJob, DropReceiver, callerVars
  <2>2. ASSUME NEW js, NEW d \in Callers, reply' = CloseReplies(js)
        PROVE  reply'[d] = reply[d] \/ reply'[d].state # "sent"
    <3>1. reply'[d] = reply[d] \/ reply'[d] = ClosedReply
      BY <2>2 DEF CloseReplies
    <3> QED
      BY <3>1
  <2>3. \A d \in Callers : reply'[d] = reply[d] \/ reply'[d].state # "sent"
    BY <2>1, <2>2
  <2> QED
    BY <1>0, <2>1, <2>3, AnswerKept
<1>6. ASSUME NEW c \in Callers,
             Send(c) \/ ReplyFails(c) \/ ReportActorGone(c) \/ Abandon(c)
      PROVE  \A d \in Callers : Right(d)
  <2>1. /\ UNCHANGED calls
        /\ \A d \in Callers : /\ outcome'[d] = outcome[d] \/ outcome'[d].kind # "returned"
                              /\ reply'[d] = reply[d] \/ reply'[d].state # "sent"
    <3>1. CASE Send(c)
      BY <3>1 DEF Send, TypeOK
    <3>2. CASE ReplyFails(c)
      BY <3>2 DEF ReplyFails, TypeOK
    <3>3. CASE ReportActorGone(c)
      BY <3>3 DEF ReportActorGone, channelVars, TypeOK
    <3>4. CASE Abandon(c)
      BY <3>4 DEF Abandon, TypeOK
    <3> QED
      BY <1>6, <3>1, <3>2, <3>3, <3>4
  <2> SUFFICES ASSUME NEW d \in Callers PROVE Right(d)
    OBVIOUS
  <2>2. /\ calls'[d] = calls[d]
        /\ outcome'[d] = outcome[d] \/ outcome'[d].kind # "returned"
        /\ reply'[d] = reply[d] \/ reply'[d].state # "sent"
    BY <2>1
  <2> QED
    BY <1>0, <2>2, AnswerKept
<1>7. ASSUME UNCHANGED <<calls, outcome, reply>>
      PROVE  \A d \in Callers : Right(d)
  BY <1>0, <1>7, AnswerKept
<1>8. \A c \in Callers : Right(c)
  <2>1. ASSUME NEW c \in Callers, SendFails(c) \/ DropHandle(c) \/ \E d \in Callers : CloneHandle(c, d)
        PROVE  UNCHANGED <<calls, outcome, reply>>
    BY <2>1 DEF SendFails, DropHandle, CloneHandle, channelVars
  <2>2. CASE Start \/ Receive \/ Call \/ Resume \/ Broadcast
    BY <1>7, <2>2 DEF Start, Receive, Call, Resume, Broadcast, callerVars, channelVars
  <2>3. CASE RecvNone \/ DropGuard \/ DropActor \/ DropExitSender \/ Panic \/ RuntimeStops
    BY <1>7, <2>3 DEF RecvNone, DropGuard, DropActor, DropExitSender, Panic,
                      RuntimeStops, callerVars, channelVars
  <2>4. CASE UNCHANGED vars
    BY <1>7, <2>4 DEF vars, callerVars, channelVars
  <2> QED
    BY <1>2, <1>3, <1>4, <1>5, <1>6, <1>7, <2>1, <2>2, <2>3, <2>4
    DEF Next, CallerNext, Waiting, Serve, End, Terminated
<1> QED
  BY <1>1, <1>8 DEF AnswerInv, AnswerIsOwn, Entry

\* A call returns the result of its own job, which was carried out: never the
\* late answer to a call abandoned before (__send_job, Respond).
THEOREM AnswersAreOwn == Spec => []AnswerIsOwn
<1>1. ASSUME Init
      PROVE  AnswerInv
  <2>1. /\ \A c \in Callers : outcome[c] = NoOutcome /\ reply[c] = NoReply
        /\ phase = "unpolled"
    BY <1>1 DEF Init
  <2> QED
    BY <2>1 DEF AnswerInv, AnswerIsOwn
<1>2. IndInv /\ AnswerInv /\ [Next]_vars => AnswerInv'
  BY AnswerStep DEF IndInv
<1>3. AnswerInv => AnswerIsOwn
  BY DEF AnswerInv
<1> QED
  BY <1>1, <1>2, <1>3, Inductive, PTL DEF Spec

-----------------------------------------------------------------------------
(* Stopping. *)

\* Every step keeps an actor that ended by itself unused.
LEMMA UnusedStep ==
    ASSUME TypeOK, TaskShape, CallerShape, OrderInv, UnusedInv, [Next]_vars
    PROVE  UnusedInv'
<1> DEFINE Holders == \A c \in Callers : pc'[c] # "idle" => c \in handles'
<1> DEFINE Unused == handles = {} /\ queue = <<>> /\ Len(executed) = Len(sent)
<1> USE DEF UnusedInv
<1>1. ASSUME NEW c \in Callers, CallerNext(c)
      PROVE  UnusedInv'
  <2>1. c \in handles
    BY <1>1 DEF CallerNext, CloneHandle, DropHandle, StartCall, Waiting, Send,
                SendFails, Return, ReplyFails, ReportActorGone, Abandon
  <2>2. Holders
    BY <1>1, <2>1 DEF CallerNext, CloneHandle, DropHandle, StartCall, Waiting, Send,
                SendFails, Return, ReplyFails, ReportActorGone, Abandon, TypeOK
  <2>3. UNCHANGED <<phase, panicked, stopped>>
    BY <1>1 DEF CallerNext, CloneHandle, DropHandle, StartCall, Waiting, Send,
                SendFails, Return, ReplyFails, ReportActorGone, Abandon, taskVars,
                historyVars
  <2> QED
    BY <2>1, <2>2, <2>3 DEF Dying
<1>2. CASE Serve
  <2>1. UNCHANGED <<pc, handles>> /\ ~Dying'
    BY <1>2 DEF Serve, Start, Receive, Call, Resume, Broadcast, Respond, callerVars,
                Dying, DroppingPhases, DiscardPhases
  <2> QED
    BY <2>1
<1>3. CASE RecvNone
  <2>1. /\ UNCHANGED <<pc, handles, queue, executed, sent>>
        /\ handles = {} /\ queue = <<>> /\ phase = "receiving"
    BY <1>3 DEF RecvNone, callerVars, channelVars, historyVars
  <2>2. Len(executed) = Len(sent)
    <3>1. ~Dying /\ InHand = 0 /\ Len(queue) = 0
      BY <2>1 DEF Dying, DroppingPhases, DiscardPhases, InHand, UnservedPhases,
                  HoldingPhases
    <3>2. Len(executed) \in Nat
      <4> HIDE DEF Entries
      <4> QED
        BY DEF TypeOK
    <3> QED
      BY <3>1, <3>2 DEF OrderInv, Lined
  <2> QED
    BY <2>1, <2>2
<1>4. CASE DropJob \/ DropGuard \/ DropActor \/ DropReceiver \/ DropExitSender
  <2>1. /\ UNCHANGED <<pc, handles, executed, sent, panicked, stopped>>
        /\ queue' = queue \/ queue' = <<>>
        /\ Dying
    BY <1>4 DEF DropJob, DropGuard, DropActor, DropReceiver, DropExitSender,
                callerVars, channelVars, historyVars, Dying, DroppingPhases,
                DiscardPhases
  <2> QED
    BY <2>1
<1>5. CASE Panic \/ RuntimeStops
  BY <1>5 DEF Panic, RuntimeStops, callerVars
<1>6. CASE UNCHANGED vars
  BY <1>6 DEF vars, callerVars, channelVars, taskVars, historyVars, Dying
<1> QED
  BY <1>1, <1>2, <1>3, <1>4, <1>5, <1>6 DEF Next, End, Terminated

\* Unless it panics or its runtime goes, an actor stops, and its broadcast
\* channel closes, only with no handle left and every accepted job done.
THEOREM StopsWhenUnused == Spec => []StopsOnlyWhenUnused
<1>1. Init => UnusedInv
  BY DEF Init, UnusedInv, Dying, DroppingPhases, DiscardPhases
<1>2. IndInv /\ OrderInv /\ UnusedInv /\ [Next]_vars => UnusedInv'
  BY UnusedStep DEF IndInv
<1>3. IndInv /\ UnusedInv => StopsOnlyWhenUnused
  BY DEF IndInv, DeathShape, UnusedInv, StopsOnlyWhenUnused, BroadcastClosed,
         OwnsSender, Dying, DroppingPhases, DiscardPhases
<1> QED
  BY <1>1, <1>2, <1>3, OrderHolds, Inductive, PTL DEF Spec

-----------------------------------------------------------------------------
(* Actor implements AtomicActor, for every value of its constants, as long  *)
(* as the runtime is not dropped by a thread that is itself unwinding.      *)

Busy == [c \in Callers |-> pc[c] # "idle"]
Answers == [c \in Callers |-> AnswerOf(c)]
Life == IF Dying THEN IF unwinding THEN "Panicked" ELSE "Stopped" ELSE "up"
CallJob(c) == [caller |-> c, n |-> calls[c], op |-> op[c]]
Senders == {c \in Callers : pc[c] = "sending"}
TakenPhases == {"calling", "awaiting", "returned"}

\* A method acts on the value its predecessors left, and what it is about to
\* return and broadcast is what it would on that value.
Effect ==
    /\ phase \in {"unpolled", "receiving", "calling", "responding"} => inner = committed
    /\ phase \in {"awaiting", "returned"} =>
            /\ inner = NewValue(job.op, committed)
            /\ result = [val |-> ResultOf(job.op, committed),
                         broadcast |-> Announces(job.op, committed)]

\* Only a panic of the actor unwinds its task.
Blame ==
    /\ unwinding => panicked
    /\ exit = "Panicked" => unwinding

RefInv == IndInv /\ AnswerInv /\ UnusedInv /\ Effect /\ Blame

Flying(j) ==
    ~Dying /\ \/ \E c \in Senders : j = CallJob(c)
              \/ \E i \in DOMAIN queue : j = queue[i]
              \/ phase \in TakenPhases /\ j = job

\* A job in flight is being sent, queued or in hand.
LEMMA FlyingIs == \A j : j \in InFlight <=> Flying(j)
  BY DEF InFlight, Flying, Senders, CallJob, TakenPhases, ToSet

\* The same of the next state.
LEMMA FlyingIsNext == \A j : j \in InFlight' <=> Flying(j)'
  BY DEF InFlight, Flying, Senders, CallJob, TakenPhases, ToSet

\* Only a caller that waits for its reply can have an answer.
LEMMA NoAnswer ==
    ASSUME CallerShape, NEW c \in Callers, pc[c] # "waiting"
    PROVE  AnswerOf(c) = NoReply
  BY DEF CallerShape, AnswerOf, Awaited

\* The same of the next state.
LEMMA NoAnswerNext ==
    ASSUME CallerShape', NEW c \in Callers, pc'[c] # "waiting"
    PROVE  AnswerOf(c)' = NoReply
  BY DEF CallerShape, AnswerOf, Awaited

\* An answer depends on nobody else's call.
LEMMA AnswerSame ==
    ASSUME NEW c \in Callers, UNCHANGED <<phase, job, result>>,
           pc'[c] = pc[c], reply'[c] = reply[c], calls'[c] = calls[c]
    PROVE  AnswerOf(c)' = AnswerOf(c)
  BY DEF AnswerOf, Awaited

\* Outside the step that answers, neither does it depend on the task.
LEMMA AnswerSameTask ==
    ASSUME NEW c \in Callers, phase # "responding", phase' # "responding",
           pc'[c] = pc[c],
           \/ reply'[c].state # "sent" /\ reply[c].state # "sent"
           \/ reply'[c] = reply[c]
    PROVE  AnswerOf(c)' = AnswerOf(c)
  BY DEF AnswerOf, Awaited

\* Nothing an observer of the atomic actor can see has changed.
LEMMA Stutter ==
    ASSUME UNCHANGED <<committed, broadcasts, handles, calls, op, outcome>>,
           Busy' = Busy, InFlight' = InFlight, Life' = Life,
           \A c \in Callers : AnswerOf(c)' = AnswerOf(c)
    PROVE  UNCHANGED Atomic!vars
<1>1. Answers' = Answers
  BY DEF Answers
<1> QED
  BY <1>1 DEF Atomic!vars, Busy, Answers, Life

\* What a step that touches neither jobs nor the task leaves alone.
LEMMA Frame ==
    ASSUME UNCHANGED <<phase, unwinding, queue, job>>,
           \A c \in Callers : /\ pc'[c] = "sending" <=> pc[c] = "sending"
                              /\ pc[c] = "sending" => CallJob(c)' = CallJob(c)
    PROVE  InFlight' = InFlight /\ Life' = Life
<1>1. Life' = Life
  BY DEF Life, Dying
<1>2. \A j : Flying(j)' <=> Flying(j)
  BY DEF Flying, Dying, Senders
<1> QED
  BY <1>1, <1>2, FlyingIs, FlyingIsNext

\* At first no call is in flight and no answer there.
LEMMA AtomicInit == Init => Atomic!Init
<1> SUFFICES ASSUME Init PROVE Atomic!Init
  OBVIOUS
<1>1. \A c \in Callers : pc[c] = "idle" /\ reply[c] = NoReply
  BY DEF Init
<1>2. InFlight = {}
  <2>1. DOMAIN queue = {} /\ Senders = {} /\ phase \notin TakenPhases
    BY <1>1 DEF Init, Senders, TakenPhases
  <2> QED
    BY <2>1, FlyingIs DEF Flying
<1>3. \A c \in Callers : AnswerOf(c) = NoReply
  BY <1>1 DEF AnswerOf, Init
<1>4. ~Dying
  BY DEF Init, Dying, DroppingPhases, DiscardPhases
<1> QED
  BY <1>1, <1>2, <1>3, <1>4 DEF Init, Atomic!Init, Atomic!None, NoOp

-----------------------------------------------------------------------------
(* The invariants the mapping rests on. *)

\* What the running method makes of the value is what the atomic actor will.
LEMMA EffectStep ==
    ASSUME TypeOK, Effect, [Next]_vars
    PROVE  Effect'
<1> USE DEF Effect
<1>1. ASSUME NEW c \in Callers, CallerNext(c)
      PROVE  UNCHANGED <<phase, inner, committed, job, result>>
  BY <1>1 DEF CallerNext, CloneHandle, DropHandle, StartCall, Waiting, Send,
              SendFails, Return, ReplyFails, ReportActorGone, Abandon, taskVars,
              historyVars
<1>2. CASE Start \/ Receive \/ Resume
  BY <1>2 DEF Start, Receive, Resume, historyVars
<1>3. CASE Call
  BY <1>3 DEF Call, historyVars
<1>4. CASE Broadcast \/ Respond
  BY <1>4 DEF Broadcast, Respond, historyVars
<1>5. CASE End \/ Panic \/ RuntimeStops
  BY <1>5 DEF End, RecvNone, DropJob, DropGuard, DropActor, DropReceiver,
              DropExitSender, Panic, RuntimeStops
<1>6. CASE UNCHANGED vars
  BY <1>6 DEF vars, taskVars, historyVars
<1> QED
  BY <1>1, <1>2, <1>3, <1>4, <1>5, <1>6 DEF Next, Serve, Terminated

\* The task unwinds, and leaves word of a panic, only after a panic of its own.
LEMMA BlameStep ==
    ASSUME StopMayUnwind = FALSE, DeathShape, Blame, [Next]_vars
    PROVE  Blame'
<1> USE DEF Blame
<1>1. ASSUME NEW c \in Callers, CallerNext(c)
      PROVE  UNCHANGED <<unwinding, panicked, exit>>
  BY <1>1 DEF CallerNext, CloneHandle, DropHandle, StartCall, Waiting, Send,
              SendFails, Return, ReplyFails, ReportActorGone, Abandon, taskVars,
              historyVars, channelVars
<1>2. CASE Serve
  BY <1>2 DEF Serve, Start, Receive, Call, Resume, Broadcast, Respond, historyVars,
              channelVars
<1>3. CASE End
  BY <1>3 DEF End, RecvNone, DropJob, DropGuard, DropActor, DropReceiver,
              DropExitSender, historyVars, channelVars
<1>4. CASE Panic
  BY <1>4 DEF Panic
<1>5. CASE RuntimeStops
  <2>1. unwinding' = FALSE /\ UNCHANGED exit /\ exit = "none"
    BY <1>5 DEF RuntimeStops, channelVars, DeathShape, Dying, DroppingPhases,
                DiscardPhases
  <2> QED
    BY <2>1
<1>6. CASE UNCHANGED vars
  BY <1>6 DEF vars, taskVars, historyVars, channelVars
<1> QED
  BY <1>1, <1>2, <1>3, <1>4, <1>5, <1>6 DEF Next, Terminated

\* A caller is told of a panic only by the word the task left.
LEMMA PanicReportStep ==
    ASSUME TypeOK, Blame, PanicReportIsTrue, [Next]_vars
    PROVE  PanicReportIsTrue'
<1> USE DEF PanicReportIsTrue
<1>1. panicked => panicked'
  BY DEF Next, CallerNext, CloneHandle, DropHandle, StartCall, Waiting, Send, SendFails,
         Return, ReplyFails, ReportActorGone, Abandon, Serve, Start, Receive, Call, Resume,
         Broadcast, Respond, End, RecvNone, DropJob, DropGuard, DropActor, DropReceiver,
         DropExitSender, Panic, RuntimeStops, Terminated, vars, taskVars, historyVars
<1>2. ASSUME NEW c \in Callers, CallerNext(c), NEW d \in Callers,
             outcome'[d].kind = "panic", outcome[d].kind # "panic"
      PROVE  panicked
  <2>0. outcome = [x \in Callers |-> outcome[x]]
    BY DEF TypeOK
  <2>1. ReportActorGone(c)
    BY <1>2, <2>0 DEF CallerNext, CloneHandle, DropHandle, StartCall, Waiting, Send, SendFails,
         Return, ReplyFails, Abandon, callerVars, Outcome, NoOutcome
  <2>2. exit = "Panicked"
    BY <1>2, <2>0, <2>1 DEF ReportActorGone, ExitReason, Outcome
  <2> QED
    BY <2>2 DEF Blame
<1>3. ASSUME ~(\E c \in Callers : CallerNext(c))
      PROVE  UNCHANGED outcome
  BY <1>3 DEF Next, Serve, Start, Receive, Call, Resume, Broadcast, Respond, End, RecvNone,
         DropJob, DropGuard, DropActor, DropReceiver, DropExitSender, Panic, RuntimeStops,
         Terminated, vars, callerVars
<1> QED
  BY <1>1, <1>2, <1>3

-----------------------------------------------------------------------------
(* The steps. *)

\* The callers: sending, being answered, being told the actor is gone, giving up.
LEMMA CallerSimulates ==
    ASSUME RefInv, RefInv', NEW c \in Callers, CallerNext(c)
    PROVE  [Atomic!Next]_(Atomic!vars)
<1> USE DEF RefInv, IndInv
<1> DEFINE Others == \A d \in Callers : d # c =>
                        pc'[d] = pc[d] /\ reply'[d] = reply[d] /\ calls'[d] = calls[d]
<1>0. ASSUME UNCHANGED <<phase, job, result>>, Others
      PROVE  \A d \in Callers : d # c => AnswerOf(d)' = AnswerOf(d)
  BY <1>0, AnswerSame
<1>1. ASSUME NEW d \in Callers, CloneHandle(c, d)
      PROVE  Atomic!Hold(d)
  <2>1. /\ UNCHANGED <<committed, broadcasts, calls, op, outcome, pc, reply, phase,
                       unwinding, queue, job, result>>
        /\ handles' = handles \cup {d} /\ d \notin handles /\ handles # {}
    BY <1>1 DEF CloneHandle, channelVars, taskVars, historyVars
  <2>2. InFlight' = InFlight /\ Life' = Life
    BY <2>1, Frame DEF CallJob
  <2>3. \A x \in Callers : AnswerOf(x)' = AnswerOf(x)
    BY <2>1, AnswerSame
  <2> QED
    BY <2>1, <2>2, <2>3 DEF Atomic!Hold, Life
<1>2. ASSUME DropHandle(c)
      PROVE  Atomic!Release(c)
  <2>1. /\ UNCHANGED <<committed, broadcasts, calls, op, outcome, pc, reply, phase,
                       unwinding, queue, job, result>>
        /\ handles' = handles \ {c} /\ c \in handles /\ pc[c] = "idle"
    BY <1>2 DEF DropHandle, channelVars, taskVars, historyVars
  <2>2. InFlight' = InFlight /\ Life' = Life
    BY <2>1, Frame DEF CallJob
  <2>3. \A x \in Callers : AnswerOf(x)' = AnswerOf(x)
    BY <2>1, AnswerSame
  <2> QED
    BY <2>1, <2>2, <2>3 DEF Atomic!Release, Life
<1>3. ASSUME NEW o \in Ops, StartCall(c, o)
      PROVE  Atomic!Invoke(c, o)
  <2>1. /\ UNCHANGED <<committed, broadcasts, handles, phase, unwinding, queue, job,
                       result>>
        /\ c \in handles /\ pc[c] = "idle" /\ calls[c] < MaxCalls
        /\ pc' = [pc EXCEPT ![c] = "sending"]
        /\ calls' = [calls EXCEPT ![c] = @ + 1]
        /\ op' = [op EXCEPT ![c] = o]
        /\ outcome' = [outcome EXCEPT ![c] = NoOutcome]
        /\ reply' = [reply EXCEPT ![c] = NoReply]
    BY <1>3 DEF StartCall, taskVars, historyVars
  <2>2. Others /\ \A d \in Callers : d # c => CallJob(d)' = CallJob(d)
    BY <2>1 DEF TypeOK, CallJob
  <2>3. /\ AnswerOf(c) = NoReply /\ AnswerOf(c)' = NoReply
    <3>1. pc'[c] = "sending"
      BY <2>1 DEF TypeOK
    <3> QED
      BY <2>1, <3>1, NoAnswer, NoAnswerNext
  <2>4. Answers' = Answers
    BY <1>0, <2>1, <2>2, <2>3 DEF Answers
  <2>5. CallJob(c)' = [caller |-> c, n |-> calls[c] + 1, op |-> o]
    BY <2>1 DEF CallJob, TypeOK
  <2>6. Senders' = Senders \cup {c} /\ c \notin Senders
    BY <2>1 DEF Senders, TypeOK
  <2>7. \A j : Flying(j)' <=> Flying(j) \/ (~Dying /\ j = CallJob(c)')
    <3>1. Dying' <=> Dying
      BY <2>1 DEF Dying
    <3>2. \A j : (\E d \in Senders' : j = CallJob(d)') <=>
                 (\E d \in Senders : j = CallJob(d)) \/ j = CallJob(c)'
      BY <2>2, <2>6 DEF Senders
    <3> QED
      BY <2>1, <3>1, <3>2 DEF Flying
  <2>8. Life' = Life /\ (Life = "up" <=> ~Dying)
    BY <2>1 DEF Life, Dying
  <2>9. InFlight' = IF Life = "up"
                    THEN InFlight \cup {[caller |-> c, n |-> calls[c] + 1, op |-> o]}
                    ELSE InFlight
    BY <2>5, <2>7, <2>8, FlyingIs, FlyingIsNext
  <2>10. Busy' = [Busy EXCEPT ![c] = TRUE]
    BY <2>1 DEF Busy, TypeOK
  <2> QED
    BY <2>1, <2>4, <2>8, <2>9, <2>10
       DEF Atomic!Invoke, Life, Busy, Answers
<1>4. ASSUME Send(c)
      PROVE  UNCHANGED Atomic!vars
  <2> DEFINE j == CallJob(c)
  <2>1. /\ UNCHANGED <<committed, broadcasts, handles, calls, op, outcome, phase,
                       unwinding, job, result>>
        /\ pc[c] = "sending" /\ pc' = [pc EXCEPT ![c] = "waiting"]
        /\ queue' = Append(queue, j)
        /\ reply' = [reply EXCEPT ![c] = OpenReply]
    BY <1>4 DEF Send, taskVars, CallJob
  <2>2. Others
    BY <2>1 DEF TypeOK
  <2>3. AnswerOf(c)' = NoReply /\ AnswerOf(c) = NoReply
    <3>1. AnswerOf(c) = NoReply
      BY <2>1, NoAnswer
    <3>2. reply'[c] = OpenReply
      BY <2>1 DEF TypeOK
    <3>3. ~(phase = "responding" /\ job.caller = c /\ calls[c] = job.n)
      <4>1. phase = "responding" => Id(job) # CallId(c)
        BY <2>1 DEF UnsentIsNowhere, HoldingPhases
      <4> QED
        BY <4>1 DEF Id, CallId
    <3> QED
      BY <2>1, <3>1, <3>2, <3>3 DEF AnswerOf, Awaited
  <2>4. \A i \in DOMAIN queue' : queue'[i] = j \/ (i \in DOMAIN queue /\ queue'[i] = queue[i])
    <3> HIDE DEF Jobs, j
    <3>1. queue \in Seq(Jobs)
      BY DEF TypeOK
    <3> QED
      BY <2>1, <3>1
  <2>5. /\ \E i \in DOMAIN queue' : queue'[i] = j
        /\ \A i \in DOMAIN queue : i \in DOMAIN queue' /\ queue'[i] = queue[i]
    <3> HIDE DEF Jobs, j
    <3>1. queue \in Seq(Jobs)
      BY DEF TypeOK
    <3>2. Len(queue) + 1 \in DOMAIN queue' /\ queue'[Len(queue) + 1] = j
      BY <2>1, <3>1
    <3> QED
      BY <2>1, <3>1, <3>2
  <2>6. Senders' = Senders \ {c} /\ c \in Senders /\ \A d \in Callers : CallJob(d)' = CallJob(d)
    BY <2>1 DEF Senders, TypeOK, CallJob
  <2>7. \A x : Flying(x)' <=> Flying(x)
    <3>1. Dying' <=> Dying
      BY <2>1 DEF Dying
    <3>2. \A x : (\E d \in Senders' : x = CallJob(d)') \/ x = j <=>
                 (\E d \in Senders : x = CallJob(d))
      BY <2>6 DEF Senders
    <3>3. \A x : (\E i \in DOMAIN queue' : x = queue'[i]) <=>
                 (\E i \in DOMAIN queue : x = queue[i]) \/ x = j
      BY <2>4, <2>5
    <3> QED
      BY <2>1, <3>1, <3>2, <3>3 DEF Flying
  <2>8. Life' = Life /\ Busy' = Busy
    BY <2>1 DEF Life, Dying, Busy, TypeOK
  <2>9. InFlight' = InFlight
    BY <2>7, FlyingIs, FlyingIsNext
  <2> QED
    BY <1>0, <2>1, <2>2, <2>3, <2>8, <2>9, Stutter
<1>5. ASSUME SendFails(c)
      PROVE  UNCHANGED Atomic!vars
  <2>1. /\ UNCHANGED <<committed, broadcasts, handles, calls, op, outcome, phase,
                       unwinding, job, result, reply>>
        /\ pc[c] = "sending" /\ pc' = [pc EXCEPT ![c] = "reporting"] /\ ~rxOpen
    BY <1>5 DEF SendFails, taskVars, historyVars
  <2>2. Others
    BY <2>1 DEF TypeOK
  <2>3. AnswerOf(c)' = NoReply /\ AnswerOf(c) = NoReply
    <3>1. pc'[c] = "reporting"
      BY <2>1 DEF TypeOK
    <3> QED
      BY <2>1, <3>1, NoAnswer, NoAnswerNext
  <2>4. Dying /\ Dying'
    BY <2>1 DEF TaskShape, Dying, DiscardPhases
  <2>5. InFlight' = InFlight
    BY <2>4 DEF InFlight
  <2>6. Life' = Life /\ Busy' = Busy
    BY <2>1 DEF Life, Dying, Busy, TypeOK
  <2> QED
    BY <1>0, <2>1, <2>2, <2>3, <2>5, <2>6, Stutter
<1>6. ASSUME Return(c)
      PROVE  Atomic!Return(c)
  <2>1. /\ UNCHANGED <<committed, broadcasts, handles, calls, op, queue, phase,
                       unwinding, job, result>>
        /\ pc[c] = "waiting" /\ pc' = [pc EXCEPT ![c] = "idle"]
        /\ reply[c].state = "sent" /\ reply' = [reply EXCEPT ![c] = NoReply]
        /\ outcome' = [outcome EXCEPT ![c] = [kind |-> "returned", val |-> reply[c].val]]
    BY <1>6 DEF Return, taskVars, historyVars
  <2>2. Others /\ pc'[c] = "idle"
    BY <2>1 DEF TypeOK
  <2>3. AnswerOf(c)' = NoReply /\ AnswerOf(c) = reply[c]
    BY <2>1, <2>2, NoAnswerNext DEF AnswerOf
  <2>4. Answers' = [Answers EXCEPT ![c] = NoReply]
    BY <1>0, <2>1, <2>2, <2>3 DEF Answers
  <2>5. InFlight' = InFlight /\ Life' = Life
    BY <2>1, <2>2, Frame DEF CallJob
  <2>6. Busy' = [Busy EXCEPT ![c] = FALSE] /\ Busy[c]
    BY <2>1 DEF Busy, TypeOK
  <2>7. Answers[c] = reply[c]
    BY <2>3 DEF Answers
  <2> QED
    BY <2>1, <2>4, <2>5, <2>6, <2>7
       DEF Atomic!Return, Atomic!Ends, Atomic!None, Busy, Answers, Life
<1>7. ASSUME ReplyFails(c)
      PROVE  UNCHANGED Atomic!vars
  <2>1. /\ UNCHANGED <<committed, broadcasts, handles, calls, op, outcome, phase,
                       unwinding, queue, job, result>>
        /\ pc[c] = "waiting" /\ pc' = [pc EXCEPT ![c] = "reporting"]
        /\ reply[c].state = "closed" /\ reply' = [reply EXCEPT ![c] = NoReply]
    BY <1>7 DEF ReplyFails, taskVars, historyVars
  <2>2. Others /\ pc'[c] = "reporting"
    BY <2>1 DEF TypeOK
  <2>3. AnswerOf(c)' = NoReply /\ AnswerOf(c) = NoReply
    BY <2>1, <2>2, NoAnswerNext DEF AnswerOf, Awaited
  <2>4. InFlight' = InFlight /\ Life' = Life
    BY <2>1, <2>2, Frame DEF CallJob
  <2>5. Busy' = Busy
    BY <2>1 DEF Busy, TypeOK
  <2> QED
    BY <1>0, <2>1, <2>2, <2>3, <2>4, <2>5, Stutter
<1>8. ASSUME ReportActorGone(c)
      PROVE  Atomic!Fail(c)
  <2>1. /\ UNCHANGED <<committed, broadcasts, handles, calls, op, queue, phase,
                       unwinding, job, result, reply, exit>>
        /\ pc[c] = "reporting" /\ pc' = [pc EXCEPT ![c] = "idle"]
        /\ exit # "none"
        /\ outcome' = [outcome EXCEPT ![c] =
                Outcome(IF exit = "Panicked" THEN "panic" ELSE "not_running")]
    BY <1>8 DEF ReportActorGone, channelVars, taskVars, historyVars, ExitKnown,
                ExitReason
  <2>2. Others /\ pc'[c] = "idle"
    BY <2>1 DEF TypeOK
  <2>3. AnswerOf(c)' = NoReply /\ AnswerOf(c) = NoReply
    BY <2>1, <2>2, NoAnswer, NoAnswerNext
  <2>4. Answers' = [Answers EXCEPT ![c] = NoReply] /\ Answers[c] = NoReply
    BY <1>0, <2>1, <2>2, <2>3 DEF Answers
  <2>5. InFlight' = InFlight /\ Life' = Life
    BY <2>1, <2>2, Frame DEF CallJob
  <2>6. Busy' = [Busy EXCEPT ![c] = FALSE] /\ Busy[c]
    BY <2>1 DEF Busy, TypeOK
  <2>7. Life # "up" /\ (Life = "Panicked" <=> exit = "Panicked")
    <3>1. Dying
      BY <2>1 DEF DeathShape
    <3>2. exit \in {"Panicked", "Stopped", "sender_dropped"}
      BY <2>1 DEF TypeOK
    <3>3. unwinding <=> exit = "Panicked"
      BY <3>2 DEF DeathShape, Blame
    <3> QED
      BY <3>1, <3>3 DEF Life
  <2> DEFINE why == IF exit = "Panicked" THEN "panic" ELSE "not_running"
  <2>8. Atomic!Ends(c, why, Unit)
    BY <2>1, <2>4, <2>6 DEF Atomic!Ends, Atomic!None, Busy, Answers
  <2>9. why = IF Life = "Panicked" THEN "panic" ELSE "not_running"
    BY <2>7
  <2> HIDE DEF why
  <2> QED
    BY <2>1, <2>4, <2>5, <2>7, <2>8, <2>9 DEF Atomic!Fail, Answers, Life
<1>9. ASSUME Abandon(c)
      PROVE  Atomic!Abandon(c)
  <2>1. /\ UNCHANGED <<committed, broadcasts, handles, calls, op, queue, phase,
                       unwinding, job, result>>
        /\ pc[c] # "idle" /\ pc' = [pc EXCEPT ![c] = "idle"]
        /\ reply' = [reply EXCEPT ![c] = NoReply]
        /\ outcome' = [outcome EXCEPT ![c] = Outcome("abandoned")]
    BY <1>9 DEF Abandon, taskVars, historyVars
  <2>2. Others /\ pc'[c] = "idle"
    BY <2>1 DEF TypeOK
  <2>3. AnswerOf(c)' = NoReply
    BY <2>2, NoAnswerNext
  <2>4. Answers' = [Answers EXCEPT ![c] = NoReply]
    BY <1>0, <2>1, <2>2, <2>3 DEF Answers
  <2>5. Busy' = [Busy EXCEPT ![c] = FALSE] /\ Busy[c]
    BY <2>1 DEF Busy, TypeOK
  <2>6. Life' = Life
    BY <2>1 DEF Life, Dying
  <2>7. \/ InFlight' = InFlight
        \/ InFlight' = {j \in InFlight : j.caller # c \/ j.n # calls[c]}
    <3>1. CASE pc[c] # "sending"
      BY <2>1, <2>2, <3>1, Frame DEF CallJob
    <3>2. CASE pc[c] = "sending"
      <4>1. Senders' = Senders \ {c} /\ \A d \in Callers : CallJob(d)' = CallJob(d)
        BY <2>1 DEF Senders, TypeOK, CallJob
      <4>2. /\ \A i \in DOMAIN queue : queue[i].caller # c \/ queue[i].n # calls[c]
            /\ phase \in TakenPhases => job.caller # c \/ job.n # calls[c]
        BY <3>2 DEF UnsentIsNowhere, HoldingPhases, TakenPhases, Id, CallId
      <4>3. \A d \in Callers : CallJob(d).caller = d /\ CallJob(d).n = calls[d]
        BY DEF CallJob
      <4>4. Dying' <=> Dying
        BY <2>1 DEF Dying
      <4>5. \A j : Flying(j)' <=> Flying(j) /\ (j.caller # c \/ j.n # calls[c])
        BY <2>1, <4>1, <4>2, <4>3, <4>4 DEF Flying, Senders
      <4> QED
        BY <4>5, FlyingIs, FlyingIsNext
    <3> QED
      BY <3>1, <3>2
  <2>8. Atomic!Ends(c, "abandoned", Unit)
    BY <2>1, <2>4, <2>5 DEF Atomic!Ends, Atomic!None, Busy, Answers
  <2> QED
    BY <2>1, <2>6, <2>7, <2>8 DEF Atomic!Abandon, Life
<1> QED
  BY <1>1, <1>2, <1>3, <1>4, <1>5, <1>6, <1>7, <1>8, <1>9
     DEF CallerNext, Waiting, Atomic!Next

\* The task, while it serves.
LEMMA TaskSimulates ==
    ASSUME RefInv, RefInv', Serve
    PROVE  [Atomic!Next]_(Atomic!vars)
<1> USE DEF RefInv, IndInv
<1>0. UNCHANGED <<handles, pc, calls, op, outcome, unwinding>> /\ ~Dying /\ ~Dying'
  BY DEF Serve, Start, Receive, Call, Resume, Broadcast, Respond, callerVars, Dying,
         DroppingPhases, DiscardPhases
<1>1. Life' = Life /\ Busy' = Busy /\ Life = "up"
  BY <1>0 DEF Life, Busy
<1>2. Senders' = Senders /\ \A c \in Callers : CallJob(c)' = CallJob(c)
  BY <1>0 DEF Senders, CallJob
<1>3. CASE Start \/ Call \/ Resume
  <2>1. /\ UNCHANGED <<committed, broadcasts, reply, queue, job>>
        /\ phase # "responding" /\ phase' # "responding"
        /\ phase \in TakenPhases <=> phase' \in TakenPhases
    BY <1>3 DEF Start, Call, Resume, channelVars, historyVars, TakenPhases
  <2>2. InFlight' = InFlight
    <3>1. \A j : Flying(j)' <=> Flying(j)
      BY <1>0, <1>2, <2>1 DEF Flying, Senders
    <3> QED
      BY <3>1, FlyingIs, FlyingIsNext
  <2> QED
    BY <1>0, <1>1, <2>1, <2>2, AnswerSameTask, Stutter
<1>4. CASE Receive
  <2>1. /\ UNCHANGED <<committed, broadcasts, reply>> /\ queue # <<>>
        /\ job' = Head(queue) /\ queue' = Tail(queue)
        /\ phase = "receiving" /\ phase' = "calling"
    BY <1>4 DEF Receive, historyVars
  <2>2. /\ 1 \in DOMAIN queue /\ job' = queue[1]
        /\ \A i \in DOMAIN queue' : i + 1 \in DOMAIN queue /\ queue'[i] = queue[i + 1]
        /\ \A i \in DOMAIN queue : i # 1 =>
                i - 1 \in DOMAIN queue' /\ queue'[i - 1] = queue[i]
    <3> HIDE DEF Jobs
    <3>1. queue \in Seq(Jobs) /\ Len(queue) \in Nat \ {0} /\ DOMAIN queue = 1..Len(queue)
      BY <2>1 DEF TypeOK
    <3>2. /\ Len(queue') = Len(queue) - 1 /\ DOMAIN queue' = 1..(Len(queue) - 1)
          /\ \A i \in 1..(Len(queue) - 1) : queue'[i] = queue[i + 1]
      BY <2>1, <3>1, HeadTailProperties
    <3>3. \A i \in DOMAIN queue : i # 1 =>
                i - 1 \in 1..(Len(queue) - 1) /\ (i - 1) + 1 = i
      BY <3>1
    <3>4. \A i \in 1..(Len(queue) - 1) : i + 1 \in 1..Len(queue)
      BY <3>1
    <3> QED
      BY <2>1, <3>1, <3>2, <3>3, <3>4
  <2>3. \A j : (\E i \in DOMAIN queue : j = queue[i]) <=>
               (\E i \in DOMAIN queue' : j = queue'[i]) \/ j = job'
    BY <2>2
  <2>4. InFlight' = InFlight
    <3>1. \A j : Flying(j)' <=> Flying(j)
      BY <1>0, <1>2, <2>1, <2>3 DEF Flying, Senders, TakenPhases
    <3> QED
      BY <3>1, FlyingIs, FlyingIsNext
  <2> QED
    BY <1>0, <1>1, <2>1, <2>4, AnswerSameTask, Stutter
<1>5. CASE Broadcast
  <2>1. /\ phase = "returned" /\ phase' = "responding"
        /\ broadcasts' = IF result.broadcast THEN Append(broadcasts, View[inner])
                                             ELSE broadcasts
        /\ committed' = inner /\ UNCHANGED <<queue, reply, job, result>>
    BY <1>5 DEF Broadcast, channelVars
  <2>2. /\ inner = NewValue(job.op, committed)
        /\ result.val = ResultOf(job.op, committed)
        /\ result.broadcast = Announces(job.op, committed)
    BY <2>1 DEF Effect
  <2>3. /\ job \in Jobs /\ job.caller \in Callers /\ phase \in UnservedPhases
        /\ phase \in HoldingPhases
    BY <2>1, JobTypes DEF TaskShape, HoldingPhases, UnservedPhases
  <2>4. /\ \A i \in DOMAIN queue : queue[i] # job
        /\ \A c \in Senders : CallJob(c) # job
    BY <2>3 DEF Separate, UnsentIsNowhere, Senders, CallJob, CallId, Id
  <2>5. InFlight' = InFlight \ {job} /\ job \in InFlight
    <3>1. \A j : Flying(j)' <=> Flying(j) /\ j # job
      BY <1>0, <1>2, <2>1, <2>4 DEF Flying, Senders, TakenPhases
    <3>2. Flying(job)
      BY <1>0, <2>1 DEF Flying, TakenPhases
    <3> QED
      BY <3>1, <3>2, FlyingIs, FlyingIsNext
  <2>6. Awaited(job) <=> pc[job.caller] # "idle" /\ calls[job.caller] = job.n
    <3>1. ASSUME pc[job.caller] # "idle", calls[job.caller] = job.n
          PROVE  reply[job.caller].state = "open"
      <4>1. Id(job) = CallId(job.caller)
        BY <3>1 DEF Id, CallId
      <4>2. ~Failed(job.caller)
        BY <1>0, <2>3 DEF FailedMeansDying
      <4>3. pc[job.caller] = "waiting"
        BY <2>3, <3>1, <4>1, <4>2 DEF UnsentIsNowhere, Failed, TypeOK
      <4>4. reply[job.caller].state # "none" /\ reply[job.caller].state # "closed"
        BY <2>3, <4>2, <4>3 DEF CallerShape, Failed
      <4>5. reply[job.caller].state # "sent"
        <5>1. SUFFICES ASSUME reply[job.caller].state = "sent" PROVE FALSE
          OBVIOUS
        <5>2. PICK i \in DOMAIN executed :
                  executed[i] = [caller |-> job.caller, n |-> calls[job.caller],
                                 res |-> reply[job.caller].val]
          BY <2>3, <5>1 DEF AnswerInv, AnswerIsOwn
        <5>3. Id(executed[i]) = Id(job)
          BY <3>1, <5>2 DEF Id
        <5> QED
          BY <2>3, <5>3 DEF Separate
      <4>6. reply[job.caller].state \in {"none", "open", "sent", "closed"}
        BY <2>3 DEF TypeOK
      <4> QED
        BY <4>4, <4>5, <4>6
    <3>2. Awaited(job) => pc[job.caller] # "idle"
      BY <2>3 DEF Awaited, CallerShape
    <3> QED
      BY <3>1, <3>2 DEF Awaited
  <2>7. Answers' = IF Busy[job.caller] /\ calls[job.caller] = job.n
                   THEN [Answers EXCEPT ![job.caller] =
                            [state |-> "sent", val |-> ResultOf(job.op, committed)]]
                   ELSE Answers
    <3>1. \A c \in Callers : c # job.caller => AnswerOf(c)' = AnswerOf(c)
      BY <1>0, <2>1 DEF AnswerOf, Awaited
    <3>2. Awaited(job)' <=> Awaited(job)
      BY <1>0, <2>1 DEF Awaited
    <3>3. CASE Awaited(job)
      <4>1. \A c \in Callers : c = job.caller => AnswerOf(c)' = Answer(result.val)
        BY <1>0, <2>1, <3>2, <3>3 DEF AnswerOf, Awaited
      <4>2. Busy[job.caller] /\ calls[job.caller] = job.n
        BY <2>3, <2>6, <3>3 DEF Busy
      <4>3. Answers' = [Answers EXCEPT ![job.caller] = Answer(result.val)]
        BY <2>3, <3>1, <4>1 DEF Answers
      <4> QED
        BY <2>2, <4>2, <4>3
    <3>4. CASE ~Awaited(job)
      <4>1. \A c \in Callers : c = job.caller => AnswerOf(c)' = AnswerOf(c)
        BY <1>0, <2>1, <3>2, <3>4 DEF AnswerOf
      <4>2. ~(Busy[job.caller] /\ calls[job.caller] = job.n)
        BY <2>3, <2>6, <3>4 DEF Busy
      <4>3. Answers' = Answers
        BY <3>1, <4>1 DEF Answers
      <4> QED
        BY <4>2, <4>3
    <3> QED
      BY <3>3, <3>4
  <2>8. Atomic!Apply(job)
    BY <1>0, <1>1, <2>1, <2>2, <2>5, <2>7 DEF Atomic!Apply, Life, Busy, Answers
  <2> QED
    BY <2>5, <2>8 DEF Atomic!Next
<1>6. CASE Respond
  <2>1. /\ UNCHANGED <<committed, broadcasts, queue>>
        /\ phase = "responding" /\ phase' = "receiving"
        /\ reply' = IF Awaited(job)
                    THEN [reply EXCEPT ![job.caller] = Answer(result.val)] ELSE reply
    BY <1>6 DEF Respond, historyVars
  <2>2. InFlight' = InFlight
    <3>1. \A j : Flying(j)' <=> Flying(j)
      BY <1>0, <1>2, <2>1 DEF Flying, Senders, TakenPhases
    <3> QED
      BY <3>1, FlyingIs, FlyingIsNext
  <2>3. job.caller \in Callers
    BY <2>1, JobTypes DEF HoldingPhases
  <2>4. ASSUME NEW c \in Callers
        PROVE  AnswerOf(c)' = AnswerOf(c)
    <3>1. CASE Awaited(job) /\ job.caller = c
      <4>1. reply'[c] = Answer(result.val) /\ reply[c].state = "open"
        BY <2>1, <3>1 DEF TypeOK, Awaited
      <4>2. pc[c] = "waiting"
        BY <4>1 DEF CallerShape
      <4>3. AnswerOf(c) = Answer(result.val)
        BY <2>1, <3>1, <4>1 DEF AnswerOf
      <4>4. AnswerOf(c)' = reply'[c]
        BY <1>0, <4>1, <4>2 DEF AnswerOf
      <4> QED
        BY <4>1, <4>3, <4>4
    <3>2. CASE ~(Awaited(job) /\ job.caller = c)
      <4>1. reply'[c] = reply[c]
        BY <2>1, <3>2 DEF TypeOK
      <4> QED
        BY <1>0, <2>1, <3>2, <4>1 DEF AnswerOf
    <3> QED
      BY <3>1, <3>2
  <2> QED
    BY <1>0, <1>1, <2>1, <2>2, <2>4, Stutter
<1> QED
  BY <1>3, <1>4, <1>5, <1>6 DEF Serve

\* The end of the task: it dies where it leaves its loop, and the drops that
\* follow show only in what callers are told.
LEMMA EndSimulates ==
    ASSUME StopMayUnwind = FALSE, RefInv, RefInv', End \/ Panic \/ RuntimeStops
    PROVE  [Atomic!Next]_(Atomic!vars)
<1> USE DEF RefInv, IndInv
<1>0. /\ UNCHANGED <<handles, pc, calls, op, outcome, committed, broadcasts>>
      /\ phase # "responding" /\ phase' # "responding" /\ Dying'
  BY DEF End, RecvNone, DropJob, DropGuard, DropActor, DropReceiver, DropExitSender,
         Panic, RuntimeStops, callerVars, historyVars, Dying, DroppingPhases,
         DiscardPhases
<1>1. InFlight' = {} /\ Busy' = Busy
  BY <1>0 DEF InFlight, Busy
<1>2. ASSUME NEW reason \in {"Panicked", "Stopped"}, Life = "up", Life' = reason,
             UNCHANGED reply,
             \/ reason = "Panicked" /\ \E j \in InFlight : j.op.kind \in PanickingKinds
             \/ reason = "Stopped" /\ (RuntimeMayStop \/ (handles = {} /\ InFlight = {}))
      PROVE  Atomic!Next
  <2>1. \A c \in Callers : AnswerOf(c)' = AnswerOf(c)
    BY <1>0, <1>2, AnswerSameTask
  <2>2. Atomic!Die(reason)
    BY <1>0, <1>1, <1>2, <2>1 DEF Atomic!Die, Life, Busy
  <2> QED
    BY <2>2 DEF Atomic!Next
<1>3. CASE DropJob \/ DropGuard \/ DropActor \/ DropReceiver \/ DropExitSender
  <2>1. Dying /\ UNCHANGED unwinding
    BY <1>3 DEF DropJob, DropGuard, DropActor, DropReceiver, DropExitSender, Dying,
                DroppingPhases, DiscardPhases
  <2>2. InFlight' = InFlight /\ Life' = Life
    BY <1>0, <1>1, <2>1 DEF InFlight, Life
  <2>3. ASSUME NEW c \in Callers
        PROVE  \/ reply'[c] = reply[c]
               \/ reply'[c].state # "sent" /\ reply[c].state # "sent"
    <3>1. ASSUME NEW js, reply' = CloseReplies(js)
          PROVE  reply'[c] = reply[c] \/ (reply'[c] = ClosedReply /\ reply[c].state = "open")
      BY <3>1 DEF CloseReplies, Awaited
    <3>2. \/ reply' = reply \/ reply' = CloseReplies({job})
          \/ reply' = CloseReplies(ToSet(queue))
      BY <1>3 DEF DropJob, DropGuard, DropActor, DropReceiver, DropExitSender,
                  channelVars
    <3> QED
      BY <3>1, <3>2
  <2> QED
    BY <1>0, <1>1, <2>2, <2>3, AnswerSameTask, Stutter
<1>4. CASE RecvNone
  <2>1. /\ UNCHANGED <<reply, unwinding>> /\ queue = <<>> /\ handles = {}
        /\ phase = "receiving"
    BY <1>4 DEF RecvNone, channelVars
  <2>2. ~Dying /\ ~unwinding
    BY <2>1 DEF Dying, DroppingPhases, DiscardPhases, DeathShape, Blame
  <2>3. Senders = {} /\ DOMAIN queue = {}
    BY <2>1 DEF Senders, UnusedInv
  <2>4. InFlight = {}
    BY <2>1, <2>3, FlyingIs DEF Flying, TakenPhases
  <2>5. Life = "up" /\ Life' = "Stopped"
    BY <1>0, <2>1, <2>2 DEF Life
  <2> QED
    BY <1>2, <2>1, <2>4, <2>5
<1>5. CASE Panic
  <2>1. /\ UNCHANGED <<reply, job>> /\ phase \in TakenPhases
        /\ job.op.kind \in PanickingKinds /\ unwinding' = TRUE
    BY <1>5 DEF Panic, channelVars, TakenPhases
  <2>2. ~Dying
    BY <2>1 DEF Dying, DroppingPhases, DiscardPhases, TakenPhases
  <2>3. job \in InFlight
    BY <2>1, <2>2, FlyingIs DEF Flying
  <2>4. Life = "up" /\ Life' = "Panicked"
    BY <1>0, <2>1, <2>2 DEF Life
  <2> QED
    BY <1>2, <2>1, <2>3, <2>4
<1>6. CASE RuntimeStops
  <2>1. UNCHANGED reply /\ RuntimeMayStop /\ unwinding' = FALSE /\ ~Dying
    BY <1>6 DEF RuntimeStops, channelVars, Dying, DroppingPhases, DiscardPhases
  <2>2. Life = "up" /\ Life' = "Stopped"
    BY <1>0, <2>1 DEF Life
  <2> QED
    BY <1>2, <2>1, <2>2
<1> QED
  BY <1>3, <1>4, <1>5, <1>6 DEF End

\* Every call takes effect at one instant or not at all, and the actor dies at
\* one: nobody can tell the queue, the awaits and the order of the drops from
\* that (lib.rs, "Execution model").
THEOREM ImplementsAtomic ==
    ASSUME StopMayUnwind = FALSE
    PROVE  Spec => ImplementsAtomicActor
<1>1. Init => AnswerInv /\ UnusedInv /\ Effect /\ Blame
  <2> SUFFICES ASSUME Init PROVE AnswerInv /\ UnusedInv /\ Effect /\ Blame
    OBVIOUS
  <2>1. \A c \in Callers : pc[c] = "idle" /\ outcome[c] = NoOutcome /\ reply[c] = NoReply
    BY DEF Init
  <2>2. ~Dying
    BY DEF Init, Dying, DroppingPhases, DiscardPhases
  <2> QED
    BY <2>1, <2>2 DEF Init, AnswerInv, AnswerIsOwn, UnusedInv, Effect, Blame
<1>2. IndInv /\ OrderInv /\ AnswerInv /\ UnusedInv /\ Effect /\ Blame /\ [Next]_vars
        => AnswerInv' /\ UnusedInv' /\ Effect' /\ Blame'
  BY AnswerStep, UnusedStep, EffectStep, BlameStep DEF IndInv
<1>3. RefInv /\ RefInv' /\ [Next]_vars => [Atomic!Next]_(Atomic!vars)
  <2> SUFFICES ASSUME RefInv, RefInv', [Next]_vars
               PROVE  [Atomic!Next]_(Atomic!vars)
    OBVIOUS
  <2>1. CASE UNCHANGED vars
    <3>1. UNCHANGED <<committed, broadcasts, handles, calls, op, outcome, pc, phase,
                      unwinding, queue, job, result, reply>>
      BY <2>1 DEF vars, callerVars, channelVars, taskVars, historyVars
    <3>2. InFlight' = InFlight /\ Life' = Life /\ Busy' = Busy
      BY <3>1, Frame DEF CallJob, Busy
    <3> QED
      BY <3>1, <3>2, AnswerSame, Stutter
  <2> QED
    BY <2>1, CallerSimulates, TaskSimulates, EndSimulates DEF Next, Terminated
<1> QED
  BY <1>1, <1>2, <1>3, AtomicInit, OrderHolds, Inductive, PTL
     DEF Spec, RefInv, ImplementsAtomicActor, Atomic!Spec

\* "A panic occurred in the Actor" is only said after one of its methods
\* panicked (ExitGuard), unless a thread that unwinds for a reason of its own
\* drops the runtime.
THEOREM PanicReportsAreTrue ==
    ASSUME StopMayUnwind = FALSE
    PROVE  Spec => []PanicReportIsTrue
<1>1. Init => Blame /\ PanicReportIsTrue
  BY DEF Init, Blame, PanicReportIsTrue, NoOutcome
<1>2. IndInv /\ Blame /\ PanicReportIsTrue /\ [Next]_vars => Blame' /\ PanicReportIsTrue'
  BY BlameStep, PanicReportStep DEF IndInv
<1> QED
  BY <1>1, <1>2, Inductive, PTL DEF Spec
=============================================================================
