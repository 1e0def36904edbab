---------------------------- MODULE VecDequeExt ----------------------------
(***************************************************************************)
(* The methods Handle<VecDeque<T>> has (VecDequeHandle), the ones a Vec    *)
(* has too by way of VecExt.  remove is the exception: here an index out   *)
(* of bounds is answered with None.                                        *)
(***************************************************************************)
EXTENDS MethodCalls

V == INSTANCE VecExt

\* The trait that #[actify] is applied to.
ActorVecDeque ==
    [push_back |-> ByMut({"item"}), push_front |-> ByMut({"item"}),
     pop_back |-> ByMut({}), pop_front |-> ByMut({}), len |-> ByRef({}),
     is_empty |-> ByRef({}), clear |-> ByMut({}), get_index |-> ByRef({"index"}),
     front |-> ByRef({}), back |-> ByRef({}), contains |-> ByRef({"item"}),
     drain |-> ByMut({"range"}), retain |-> ByMut({"test"}),
     insert |-> ByMut({"index", "item"}), remove |-> ByMut({"index"}),
     swap |-> ByMut({"index", "index2"}), truncate |-> ByMut({"index"}),
     extend |-> ByMut({"items"}), split_off |-> ByMut({"index"}),
     retain_mut |-> ByMut({"test", "edit"}), resize |-> ByMut({"index", "item"})]

push_back(v, x) == V!push(v, x)
push_front(v, x) == Writes(<<x>> \o v)
pop_back(v) == V!pop(v)

pop_front(v) == IF v = <<>> THEN Takes(v, <<>>) ELSE Takes(Tail(v), <<Head(v)>>)
len(v) == V!len(v)
is_empty(v) == V!is_empty(v)
clear(v) == V!clear(v)
get_index(v, i) == V!get_index(v, i)
front(v) == V!first(v)
back(v) == V!last(v)
contains(v, x) == V!contains(v, x)
drain(v, i, j) == V!drain(v, i, j)
retain(v, keep) == V!retain(v, keep)
insert(v, i, x) == V!insert(v, i, x)

remove(v, i) == IF i < Len(v) THEN V!remove(v, i) ELSE Takes(v, <<>>)
swap(v, i, j) == V!swap(v, i, j)
truncate(v, n) == V!truncate(v, n)
extend(v, s) == V!extend(v, s)
split_off(v, at) == V!split_off(v, at)
retain_mut(v, keep, edit) == V!retain_mut(v, keep, edit)
resize(v, n, x) == V!resize(v, n, x)

\* The call made on v.
Apply(call, v) ==
    LET m == call.m
        x == Head(call.items)
    IN CASE m = "push_back" -> push_back(v, x)
         [] m = "push_front" -> push_front(v, x)
         [] m = "pop_back" -> pop_back(v)
         [] m = "pop_front" -> pop_front(v)
         [] m = "len" -> len(v)
         [] m = "is_empty" -> is_empty(v)
         [] m = "clear" -> clear(v)
         [] m = "get_index" -> get_index(v, call.i)
         [] m = "front" -> front(v)
         [] m = "back" -> back(v)
         [] m = "contains" -> contains(v, x)
         [] m = "drain" -> drain(v, call.i, EndOf(call, Len(v)))
         [] m = "retain" -> retain(v, call.keep)
         [] m = "insert" -> insert(v, call.i, x)
         [] m = "remove" -> remove(v, call.i)
         [] m = "swap" -> swap(v, call.i, call.j)
         [] m = "truncate" -> truncate(v, call.i)
         [] m = "extend" -> extend(v, call.items)
         [] m = "split_off" -> split_off(v, call.i)
         [] m = "retain_mut" -> retain_mut(v, call.keep, call.edit)
         [] m = "resize" -> resize(v, call.i, x)

\* The "# Panics" sections: what a caller who knows v must not ask for.
Unsafe(call, v) == call.m # "remove" /\ V!Unsafe(call, v)

\* The methods that add their items, that drop items, and that make new ones.
Adding == {"push_back", "push_front", "insert", "extend"}
Dropping == {"clear", "truncate", "retain"}
Making == {"retain_mut", "resize"}
=============================================================================
