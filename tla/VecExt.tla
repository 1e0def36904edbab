------------------------------- MODULE VecExt -------------------------------
(***************************************************************************)
(* The methods Handle<Vec<T>> has (VecHandle).  Positions count from 0, as *)
(* in the code.  A closure is what it accepts (keep) and what it makes of  *)
(* an item (edit); the comparator of sort_by compares what edit makes,     *)
(* and so is an order; std may panic on one that is not.                   *)
(***************************************************************************)
EXTENDS MethodCalls

\* The trait that #[actify] is applied to.
ActorVec ==
    [push |-> ByMut({"item"}), is_empty |-> ByRef({}), drain |-> ByMut({"range"}),
     len |-> ByRef({}), pop |-> ByMut({}), clear |-> ByMut({}),
     remove |-> ByMut({"index"}), swap_remove |-> ByMut({"index"}),
     insert |-> ByMut({"index", "item"}), truncate |-> ByMut({"index"}),
     reverse |-> ByMut({}), split_off |-> ByMut({"index"}),
     get_index |-> ByRef({"index"}), first |-> ByRef({}), last |-> ByRef({}),
     contains |-> ByRef({"item"}), extend |-> ByMut({"items"}),
     dedup |-> ByMut({}), sort |-> ByMut({}), retain |-> ByMut({"test"}),
     sort_by |-> ByMut({"edit"}), retain_mut |-> ByMut({"test", "edit"}),
     swap |-> ByMut({"index", "index2"}), resize |-> ByMut({"index", "item"})]

\* v[..i], v[i..] and v[i..j].
Upto(v, i) == SubSeq(v, 1, i)
From(v, i) == SubSeq(v, i + 1, Len(v))
Slice(v, i, j) == SubSeq(v, i + 1, j)

push(v, x) == Writes(Append(v, x))
is_empty(v) == Returns(v, v = <<>>)
len(v) == Returns(v, Len(v))
clear(v) == Writes(<<>>)
first(v) == Returns(v, Slice(v, 0, IF v = <<>> THEN 0 ELSE 1))
last(v) == Returns(v, From(v, IF v = <<>> THEN 0 ELSE Len(v) - 1))
get_index(v, i) == Returns(v, IF i < Len(v) THEN <<v[i + 1]>> ELSE <<>>)
contains(v, x) == Returns(v, Contains(v, x))
reverse(v) == Writes(Reverse(v))
truncate(v, n) == Writes(Upto(v, IF n < Len(v) THEN n ELSE Len(v)))
extend(v, s) == Writes(v \o s)
retain(v, keep) == Writes(Kept(v, keep))

pop(v) ==
    IF v = <<>> THEN Takes(v, <<>>) ELSE Takes(Front(v), <<Last(v)>>)

drain(v, i, j) ==
    Checked(i <= j /\ j <= Len(v), v,
            Takes(Upto(v, i) \o From(v, j), Slice(v, i, j)))

remove(v, i) == Checked(i < Len(v), v, Takes(RemoveAt(v, i + 1), <<v[i + 1]>>))

swap_remove(v, i) ==
    Checked(i < Len(v), v,
            Takes(Front([v EXCEPT ![i + 1] = Last(v)]), <<v[i + 1]>>))

\* BUG variant of insert: the position behind the last item is refused.
insertWithin(v, i, x) == Checked(i < Len(v), v, Writes(InsertAt(v, i + 1, x)))

insert(v, i, x) == Checked(i <= Len(v), v, Writes(InsertAt(v, i + 1, x)))

split_off(v, at) == Checked(at <= Len(v), v, Takes(Upto(v, at), From(v, at)))

swap(v, i, j) ==
    Checked(i < Len(v) /\ j < Len(v), v,
            Writes([v EXCEPT ![i + 1] = v[j + 1], ![j + 1] = v[i + 1]]))

dedup(v) ==
    Writes(FoldLeft(LAMBDA s, x : IF s # <<>> /\ Last(s) = x THEN s ELSE Append(s, x),
                    <<>>, v))

\* A stable sort: an item comes after those of a lower key and those of its own
\* key that stood before it.
sort_by(v, key) ==
    LET Before(j, i) == key[v[j]] < key[v[i]] \/ (key[v[j]] = key[v[i]] /\ j < i)
        place == [i \in DOMAIN v |-> 1 + Cardinality({j \in DOMAIN v : Before(j, i)})]
    IN Writes(Placed(v, place))
sort(v) == sort_by(v, [x \in ToSet(v) |-> x])

retain_mut(v, keep, edit) == retain([k \in DOMAIN v |-> edit[v[k]]], keep)

resize(v, n, x) ==
    Writes(Upto(v, IF n < Len(v) THEN n ELSE Len(v))
               \o [k \in 1..(IF n < Len(v) THEN 0 ELSE n - Len(v)) |-> x])

\* The call made on v.
Apply(call, v) ==
    LET m == call.m
        x == Head(call.items)
    IN CASE m = "push" -> push(v, x)
         [] m = "is_empty" -> is_empty(v)
         [] m = "drain" -> drain(v, call.i, EndOf(call, Len(v)))
         [] m = "len" -> len(v)
         [] m = "pop" -> pop(v)
         [] m = "clear" -> clear(v)
         [] m = "remove" -> remove(v, call.i)
         [] m = "swap_remove" -> swap_remove(v, call.i)
         [] m = "insert" -> insert(v, call.i, x)
         [] m = "truncate" -> truncate(v, call.i)
         [] m = "reverse" -> reverse(v)
         [] m = "split_off" -> split_off(v, call.i)
         [] m = "get_index" -> get_index(v, call.i)
         [] m = "first" -> first(v)
         [] m = "last" -> last(v)
         [] m = "contains" -> contains(v, x)
         [] m = "extend" -> extend(v, call.items)
         [] m = "dedup" -> dedup(v)
         [] m = "sort" -> sort(v)
         [] m = "retain" -> retain(v, call.keep)
         [] m = "sort_by" -> sort_by(v, call.edit)
         [] m = "retain_mut" -> retain_mut(v, call.keep, call.edit)
         [] m = "swap" -> swap(v, call.i, call.j)
         [] m = "resize" -> resize(v, call.i, x)

\* The "# Panics" sections: what a caller who knows v must not ask for.
Unsafe(call, v) ==
    LET n == Len(v)
    IN CASE call.m = "drain" -> ~(call.i <= EndOf(call, n) /\ EndOf(call, n) <= n)
         [] call.m \in {"remove", "swap_remove"} -> ~(call.i < n)
         [] call.m \in {"insert", "split_off"} -> ~(call.i <= n)
         [] call.m = "swap" -> ~(call.i < n /\ call.j < n)
         [] OTHER -> FALSE

\* The methods that add their items, that drop items, and that make new ones.
Adding == {"push", "insert", "extend"}
Dropping == {"clear", "truncate", "retain", "dedup"}
Making == {"retain_mut", "resize"}
=============================================================================
