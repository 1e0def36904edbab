-------------------------- MODULE BroadcastChannel --------------------------
(***************************************************************************)
(* tokio's broadcast channel as actify uses it: every value sent is kept   *)
(* in log, of which the channel retains the last CAPACITY; a receiver is   *)
(* the position of the next value it reads.                                *)
(***************************************************************************)
EXTENDS Integers, Sequences

CONSTANT CAPACITY  \* a positive number

\* Where a new or resubscribed receiver starts: after everything sent so far.
TailOf(log) == Len(log) + 1

\* The oldest value still in the channel.
OldestOf(log) == IF Len(log) < CAPACITY THEN 1 ELSE Len(log) - CAPACITY + 1

Lagged(log, pos) == pos < OldestOf(log)

\* What a receive at pos reports: a closed channel only when it is read out.
Reads(log, pos, closed) ==
    IF Lagged(log, pos) THEN "Lagged"
    ELSE IF pos <= Len(log) THEN "Ok"
    ELSE IF closed THEN "Closed"
    ELSE "Empty"

\* Where the receiver stands after it: a lagging one at the oldest value.
Advance(log, pos) ==
    IF Lagged(log, pos) THEN OldestOf(log)
    ELSE IF pos <= Len(log) THEN pos + 1
    ELSE pos
=============================================================================
