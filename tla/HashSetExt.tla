----------------------------- MODULE HashSetExt -----------------------------
(***************************************************************************)
(* The methods Handle<HashSet<K>> has (HashSetHandle).  Elements that are  *)
(* equal may still differ: an element has a key, which is what Eq and Hash *)
(* look at, and a tag, which they do not.  A set maps the keys it holds to *)
(* the tag of the element it stores for each.  The order of a Vec made of  *)
(* a set is arbitrary and left open (order); what difference, intersection *)
(* and union return is compared by key only.                               *)
(***************************************************************************)
EXTENDS MethodCalls

\* The trait that #[actify] is applied to.
ActorSet ==
    [insert |-> ByMut({"item"}), is_empty |-> ByRef({}), len |-> ByRef({}),
     clear |-> ByMut({}), contains |-> ByRef({"item"}), remove |-> ByMut({"item"}),
     to_vec |-> ByRef({}), drain |-> ByMut({}), extend |-> ByMut({"items"}),
     retain |-> ByMut({"test"}), difference |-> ByRef({"items"}),
     intersection |-> ByRef({"items"}), union |-> ByRef({"items"}),
     is_subset |-> ByRef({"items"}), is_superset |-> ByRef({"items"}),
     is_disjoint |-> ByRef({"items"}), take |-> ByMut({"item"}),
     replace |-> ByMut({"item"})]

None == <<>>
Element(k, t) == [key |-> k, tag |-> t]
Stored(s, k) == Element(k, s[k])
AllOf(s) == SetToSeq({Stored(s, k) : k \in DOMAIN s})
KeysOf(items) == {x.key : x \in ToSet(items)}

is_empty(s) == Returns(s, DOMAIN s = {})
len(s) == Returns(s, Cardinality(DOMAIN s))
clear(s) == Writes(<<>>)
contains(s, x) == Returns(s, x.key \in DOMAIN s)
to_vec(s) == Returns(s, AllOf(s))
drain(s) == Takes(<<>>, AllOf(s))

\* An equal element that is already there stays, and x is dropped.
insert(s, x) ==
    IF x.key \in DOMAIN s THEN Returns(s, FALSE) ELSE Returns(WithKey(s, x.key, x.tag), TRUE)

\* The element that was there is handed over for x.
replace(s, x) ==
    Takes(WithKey(s, x.key, x.tag),
          IF x.key \in DOMAIN s THEN <<Stored(s, x.key)>> ELSE None)

\* remove drops the element it takes out, take hands it over.
remove(s, x) == Returns(WithoutKey(s, x.key), x.key \in DOMAIN s)

take(s, x) ==
    Takes(WithoutKey(s, x.key),
          IF x.key \in DOMAIN s THEN <<Stored(s, x.key)>> ELSE None)

extend(s, items) ==
    Writes(FoldLeft(LAMBDA t, x : insert(t, x).new, s, items))
retain(s, keep) == Writes([k \in DOMAIN s \cap keep |-> s[k]])

difference(s, items) == Returns(s, DOMAIN s \ KeysOf(items))
intersection(s, items) == Returns(s, DOMAIN s \cap KeysOf(items))
union(s, items) == Returns(s, DOMAIN s \cup KeysOf(items))
is_subset(s, items) == Returns(s, DOMAIN s \subseteq KeysOf(items))
is_superset(s, items) == Returns(s, KeysOf(items) \subseteq DOMAIN s)
is_disjoint(s, items) == Returns(s, DOMAIN s \cap KeysOf(items) = {})

\* The call made on s.
Apply(call, s) ==
    LET m == call.m
        x == Head(call.items)
    IN CASE m = "insert" -> insert(s, x)
         [] m = "is_empty" -> is_empty(s)
         [] m = "len" -> len(s)
         [] m = "clear" -> clear(s)
         [] m = "contains" -> contains(s, x)
         [] m = "remove" -> remove(s, x)
         [] m = "to_vec" -> to_vec(s)
         [] m = "drain" -> drain(s)
         [] m = "extend" -> extend(s, call.items)
         [] m = "retain" -> retain(s, call.keep)
         [] m = "difference" -> difference(s, call.items)
         [] m = "intersection" -> intersection(s, call.items)
         [] m = "union" -> union(s, call.items)
         [] m = "is_subset" -> is_subset(s, call.items)
         [] m = "is_superset" -> is_superset(s, call.items)
         [] m = "is_disjoint" -> is_disjoint(s, call.items)
         [] m = "take" -> take(s, x)
         [] m = "replace" -> replace(s, x)

\* The methods that add their items, and that drop elements.
Adding == {"insert", "extend", "replace"}
Dropping == {"insert", "extend", "remove", "clear", "retain"}
=============================================================================
