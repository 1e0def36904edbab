---------------------------- MODULE MethodCalls ----------------------------
(***************************************************************************)
(* What calls of the extension methods have in common: how a method takes  *)
(* its receiver and arguments, what a call names, and what it brings about.*)
(*                                                                         *)
(* Option<T>, Vec<T> and T are results alike: the sequence of the items    *)
(* that are handed over, of length 0 or 1 for an Option.                   *)
(***************************************************************************)
EXTENDS Naturals, SequencesExt

\* A method of an extension trait: its receiver, and the arguments it takes.
ByRef(args) == [self |-> "ref", takes |-> args]
ByMut(args) == [self |-> "refmut", takes |-> args]

\* The value after a call, what the call returned and the items that left the
\* value with it.
Returns(v, r) == [panics |-> FALSE, new |-> v, res |-> r, out |-> <<>>]
Writes(v) == Returns(v, <<>>)
Takes(v, s) == [panics |-> FALSE, new |-> v, res |-> s, out |-> s]
Panics(v) == [panics |-> TRUE, new |-> v, res |-> <<>>, out |-> <<>>]

\* A call that panics unless ok.
Checked(ok, v, outcome) == IF ok THEN outcome ELSE Panics(v)

\* The items of s that are in keep, in their order.
Kept(s, keep) == FoldLeft(LAMBDA t, x : IF x \in keep THEN Append(t, x) ELSE t, <<>>, s)

\* The items of s, each where place puts it.
Placed(s, place) == [k \in DOMAIN s |-> s[CHOOSE i \in DOMAIN s : place[i] = k]]

\* A function with y at k, and without k.
WithKey(t, k, y) == [l \in DOMAIN t \cup {k} |-> IF l = k THEN y ELSE t[l]]
WithoutKey(t, k) == [l \in DOMAIN t \ {k} |-> t[l]]

\* The end of a range argument of a value of length n: open is `from..`.
EndOf(call, n) == IF call.open THEN n ELSE call.j

\* The calls of the methods of a trait: indices from Idx, item lists from
\* Lists, closures from Keep (what they accept) and Edit (what they make of
\* an item).
CallsOf(Trait, Idx, Items, Lists, Keep, Edit) ==
    UNION {LET a == Trait[m].takes
               One == {<<x>> : x \in Items}
           IN [m : {m},
               i : IF a \cap {"index", "range"} # {} THEN Idx ELSE {0},
               j : IF a \cap {"index2", "range"} # {} THEN Idx ELSE {0},
               open : IF "range" \in a THEN BOOLEAN ELSE {FALSE},
               items : IF "item" \in a THEN One
                       ELSE IF "items" \in a THEN Lists ELSE {<<>>},
               keep : IF "test" \in a THEN Keep ELSE {{}},
               edit : IF "edit" \in a THEN Edit ELSE {CHOOSE f \in Edit : TRUE}] :
           m \in DOMAIN Trait}
=============================================================================
