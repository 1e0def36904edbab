----------------------------- MODULE HashMapExt -----------------------------
(***************************************************************************)
(* The methods Handle<HashMap<K, V>> has (HashMapHandle).  A key is its    *)
(* Eq value and a tag that Eq does not look at, as in HashSetExt: a map    *)
(* takes each key to the tag of the key it stores and to the value.  The   *)
(* closure of retain and modify changes a value by edit and accepts what   *)
(* is in keep; the default of get_or_insert_with is the value of the item. *)
(* The order of a Vec made of a map is arbitrary and left open.            *)
(***************************************************************************)
EXTENDS MethodCalls

\* The trait that #[actify] is applied to.
ActorMap ==
    [get_key |-> ByRef({"item"}), insert |-> ByMut({"item"}),
     remove |-> ByMut({"item"}), clear |-> ByMut({}), is_empty |-> ByRef({}),
     keys |-> ByRef({}), values |-> ByRef({}), len |-> ByRef({}),
     contains_key |-> ByRef({"item"}), drain |-> ByMut({}),
     extend |-> ByMut({"items"}), retain |-> ByMut({"test", "edit"}),
     get_or_insert_with |-> ByMut({"item"}), remove_entry |-> ByMut({"item"}),
     modify |-> ByMut({"item", "edit"})]

None == <<>>
Has(t, x) == x.key \in DOMAIN t
Slot(x) == [tag |-> x.tag, val |-> x.val]
Entry(k, slot) == [key |-> k, tag |-> slot.tag, val |-> slot.val]
Stored(t, k) == Entry(k, t[k])
AllOf(t) == SetToSeq({Stored(t, k) : k \in DOMAIN t})

get_key(t, x) == Returns(t, IF Has(t, x) THEN <<t[x.key].val>> ELSE None)
contains_key(t, x) == Returns(t, Has(t, x))
is_empty(t) == Returns(t, DOMAIN t = {})
len(t) == Returns(t, Cardinality(DOMAIN t))
keys(t) == Returns(t, SetToSeq(DOMAIN t))
values(t) == Returns(t, [i \in DOMAIN AllOf(t) |-> AllOf(t)[i].val])
clear(t) == Writes(<<>>)

\* A call that hands over entries, and the values in them.
TakesEntries(t, es) == [Takes(t, [i \in DOMAIN es |-> es[i].val]) EXCEPT !.res = es]

drain(t) == TakesEntries(<<>>, AllOf(t))

\* The key that is there stays, its value is replaced and handed over.
insert(t, x) ==
    IF Has(t, x) THEN Takes([t EXCEPT ![x.key].val = x.val], <<t[x.key].val>>)
                 ELSE Takes(WithKey(t, x.key, Slot(x)), None)

remove(t, x) ==
    Takes(WithoutKey(t, x.key), IF Has(t, x) THEN <<t[x.key].val>> ELSE None)
remove_entry(t, x) ==
    TakesEntries(WithoutKey(t, x.key), IF Has(t, x) THEN <<Stored(t, x.key)>> ELSE None)

extend(t, items) == Writes(FoldLeft(LAMBDA u, x : insert(u, x).new, t, items))

\* The closure sees, and may change, the value of every entry.
retain(t, keep, edit) ==
    Writes([k \in {l \in DOMAIN t : edit[t[l].val] \in keep} |->
                [t[k] EXCEPT !.val = edit[@]]])

get_or_insert_with(t, x) ==
    LET u == IF Has(t, x) THEN t ELSE WithKey(t, x.key, Slot(x))
    IN Returns(u, <<u[x.key].val>>)

modify(t, x, edit) ==
    Returns(IF Has(t, x) THEN [t EXCEPT ![x.key].val = edit[@]] ELSE t, Has(t, x))

\* The call made on t.
Apply(call, t) ==
    LET m == call.m
        x == Head(call.items)
    IN CASE m = "get_key" -> get_key(t, x)
         [] m = "insert" -> insert(t, x)
         [] m = "remove" -> remove(t, x)
         [] m = "clear" -> clear(t)
         [] m = "is_empty" -> is_empty(t)
         [] m = "keys" -> keys(t)
         [] m = "values" -> values(t)
         [] m = "len" -> len(t)
         [] m = "contains_key" -> contains_key(t, x)
         [] m = "drain" -> drain(t)
         [] m = "extend" -> extend(t, call.items)
         [] m = "retain" -> retain(t, call.keep, call.edit)
         [] m = "get_or_insert_with" -> get_or_insert_with(t, x)
         [] m = "remove_entry" -> remove_entry(t, x)
         [] m = "modify" -> modify(t, x, call.edit)

\* The methods that add their items, that drop entries, and that make values.
Adding == {"insert", "extend"}
Dropping == {"extend", "clear"}
Making == {"retain", "get_or_insert_with", "modify"}
=============================================================================
