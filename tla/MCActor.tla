------------------------------ MODULE MCActor ------------------------------
(* Instances of Actor for TLC. *)
EXTENDS Actor, TLC

CONSTANTS c1, c2, v1, v2, w1, w2

TwoCallers == {c1, c2}
TwoValues == {v1, v2}
TwoViews == {w1, w2}
TwoWayView == v1 :> w1 @@ v2 :> w2

Op(k, v) == [kind |-> k, val |-> v]

\* A read, the conditional write, the write that returns the old value and may
\* panic, and a method that awaits halfway.
MixedOps == {Op("get", v1), Op("set_if_changed", v2), Op("with_mut", v1),
             Op("method", v2)}
\* The operation with every way of failing.
OneOp == {Op("method", v2)}
=============================================================================
