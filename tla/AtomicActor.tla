---------------------------- MODULE AtomicActor ----------------------------
(***************************************************************************)
(* What an actor promises its callers, without queue, channels or task: a  *)
(* value on which every call takes effect at one instant between its       *)
(* invocation and its return, at most once, or not at all; and an actor    *)
(* that dies at one instant, after which every call without an answer      *)
(* fails with the same reason.  (lib.rs, "Execution model" and "Actor      *)
(* lifetime and panics".)                                                  *)
(***************************************************************************)
EXTENDS Integers, Sequences

CONSTANTS Callers, Ops, MaxCalls, PanickingKinds, RuntimeMayStop, Unit,
          InitialValue,
          NewValue(_, _),    \* the value an operation leaves
          ResultOf(_, _),    \* what it returns
          Announces(_, _),   \* whether it broadcasts
          Show(_)            \* what it broadcasts of the new value

VARIABLES value, log, holders, busy, calls, op, inflight, answer, outcome, life
vars == <<value, log, holders, busy, calls, op, inflight, answer, outcome, life>>

None == [state |-> "none", val |-> Unit]

Init ==
    /\ value = InitialValue /\ log = <<>>
    /\ \E c \in Callers : holders = {c}
    /\ busy = [c \in Callers |-> FALSE]
    /\ calls = [c \in Callers |-> 0]
    /\ inflight = {}
    /\ answer = [c \in Callers |-> None]
    /\ outcome = [c \in Callers |-> [kind |-> "none", val |-> Unit]]
    /\ life = "up"
    /\ op \in [Callers -> {[kind |-> "get", val |-> InitialValue]}]

Hold(c) ==
    /\ holders # {} /\ c \notin holders
    /\ holders' = holders \cup {c}
    /\ UNCHANGED <<value, log, busy, calls, op, inflight, answer, outcome, life>>

Release(c) ==
    /\ c \in holders /\ ~busy[c]
    /\ holders' = holders \ {c}
    /\ UNCHANGED <<value, log, busy, calls, op, inflight, answer, outcome, life>>

Invoke(c, o) ==
    /\ c \in holders /\ ~busy[c] /\ calls[c] < MaxCalls
    /\ busy' = [busy EXCEPT ![c] = TRUE]
    /\ calls' = [calls EXCEPT ![c] = @ + 1]
    /\ op' = [op EXCEPT ![c] = o]
    /\ outcome' = [outcome EXCEPT ![c] = [kind |-> "none", val |-> Unit]]
    /\ inflight' = IF life = "up"
          THEN inflight \cup {[caller |-> c, n |-> calls[c] + 1, op |-> o]}
          ELSE inflight
    /\ UNCHANGED <<value, log, holders, answer, life>>

\* The call takes effect, is announced and is answered, all at once.
Apply(j) ==
    /\ life = "up" /\ j \in inflight
    /\ inflight' = inflight \ {j}
    /\ value' = NewValue(j.op, value)
    /\ log' = IF Announces(j.op, value) THEN Append(log, Show(value')) ELSE log
    /\ answer' = IF busy[j.caller] /\ calls[j.caller] = j.n
                 THEN [answer EXCEPT ![j.caller] =
                        [state |-> "sent", val |-> ResultOf(j.op, value)]]
                 ELSE answer
    /\ UNCHANGED <<holders, busy, calls, op, outcome, life>>

Ends(c, k, v) ==
    /\ busy[c]
    /\ busy' = [busy EXCEPT ![c] = FALSE]
    /\ answer' = [answer EXCEPT ![c] = None]
    /\ outcome' = [outcome EXCEPT ![c] = [kind |-> k, val |-> v]]

Return(c) ==
    /\ answer[c].state = "sent"
    /\ Ends(c, "returned", answer[c].val)
    /\ UNCHANGED <<value, log, holders, calls, op, inflight, life>>

Fail(c) ==
    /\ life # "up" /\ answer[c].state = "none"
    /\ Ends(c, IF life = "Panicked" THEN "panic" ELSE "not_running", Unit)
    /\ UNCHANGED <<value, log, holders, calls, op, inflight, life>>

\* An abandoned call may be withdrawn, or still take effect later.
Abandon(c) ==
    /\ Ends(c, "abandoned", Unit)
    /\ \/ inflight' = inflight
       \/ inflight' = {j \in inflight : j.caller # c \/ j.n # calls[c]}
    /\ UNCHANGED <<value, log, holders, calls, op, life>>

\* A panicking job takes the actor down; so does the runtime; otherwise it
\* stops only once nobody can call it and every call has taken effect.
Die(reason) ==
    /\ life = "up" /\ life' = reason
    /\ inflight' = {}
    /\ \/ reason = "Panicked" /\ \E j \in inflight : j.op.kind \in PanickingKinds
       \/ reason = "Stopped" /\ (RuntimeMayStop \/ (holders = {} /\ inflight = {}))
    /\ UNCHANGED <<value, log, holders, busy, calls, op, answer, outcome>>

Next ==
    \/ \E c \in Callers : \/ Hold(c) \/ Release(c)
                          \/ \E o \in Ops : Invoke(c, o)
                          \/ Return(c) \/ Fail(c) \/ Abandon(c)
    \/ \E j \in inflight : Apply(j)
    \/ \E reason \in {"Panicked", "Stopped"} : Die(reason)

Spec == Init /\ [][Next]_vars
=============================================================================
