----------------------------- MODULE OptionExt -----------------------------
(***************************************************************************)
(* The methods Handle<Option<T>> has (OptionHandle).  The methods that     *)
(* take &self clone the option first: unwrap_or and map consume the clone, *)
(* never what the actor holds.  None is <<>> and Some(x) is <<x>>.         *)
(***************************************************************************)
EXTENDS MethodCalls

CONSTANT Default   \* T::default()

\* The trait that #[actify] is applied to.
ActorOption ==
    [is_some |-> ByRef({}), is_none |-> ByRef({}), take |-> ByMut({}),
     replace |-> ByMut({"item"}), unwrap_or |-> ByRef({"item"}),
     unwrap_or_default |-> ByRef({}), unwrap_or_else |-> ByRef({"item"}),
     filter |-> ByRef({"test"}), map |-> ByRef({"edit"}),
     take_if |-> ByMut({"test", "edit"}), get_or_insert_with |-> ByMut({"item"})]

None == <<>>
Or(o, x) == IF o = None THEN <<x>> ELSE o

is_some(o) == Returns(o, o # None)
is_none(o) == Returns(o, o = None)
unwrap_or(o, x) == Returns(o, Or(o, x))
unwrap_or_default(o) == Returns(o, Or(o, Default))
unwrap_or_else(o, x) == Returns(o, Or(o, x))
filter(o, keep) == Returns(o, Kept(o, keep))
map(o, edit) == Returns(o, [i \in DOMAIN o |-> edit[o[i]]])

take(o) == Takes(None, o)

\* BUG variant of replace: nothing is stored where nothing was.
replaceSome(o, x) == IF o = None THEN Takes(None, o) ELSE Takes(<<x>>, o)

replace(o, x) == Takes(<<x>>, o)

get_or_insert_with(o, x) == Returns(Or(o, x), Or(o, x))

\* The predicate may change the item, also one it leaves.
take_if(o, keep, edit) ==
    LET p == [i \in DOMAIN o |-> edit[o[i]]]
    IN IF ToSet(p) \subseteq keep THEN Takes(None, p) ELSE Takes(p, None)

\* The call made on o.
Apply(call, o) ==
    LET m == call.m
        x == Head(call.items)
    IN CASE m = "is_some" -> is_some(o)
         [] m = "is_none" -> is_none(o)
         [] m = "take" -> take(o)
         [] m = "replace" -> replace(o, x)
         [] m = "unwrap_or" -> unwrap_or(o, x)
         [] m = "unwrap_or_default" -> unwrap_or_default(o)
         [] m = "unwrap_or_else" -> unwrap_or_else(o, x)
         [] m = "filter" -> filter(o, call.keep)
         [] m = "map" -> map(o, call.edit)
         [] m = "take_if" -> take_if(o, call.keep, call.edit)
         [] m = "get_or_insert_with" -> get_or_insert_with(o, x)

\* The methods that add their item, and that make new ones.
Adding == {"replace"}
Making == {"take_if", "get_or_insert_with"}
=============================================================================
