---------------------------- MODULE ActifyMacro ----------------------------
(***************************************************************************)
(* #[actify]: what the attribute macro makes of an impl block.  It either  *)
(* reports every mistake it finds, next to the block as it was, or adds a  *)
(* handle trait with one method for each method that is not skipped.       *)
(*                                                                         *)
(* A block is [args, selfTy, attrs, methods], a method is                  *)
(*   [ident, attrs, self, isAsync, isUnsafe, ret, args].                   *)
(* An attribute is its path, a sequence of names; types are classes of     *)
(* syntax (syn::Type).  An argument is [pat, ty]: its pattern is a name, a *)
(* stem and a number, or NoIdent when it takes the value apart.  Only the  *)
(* parts of the output a caller or a subscriber can tell apart are kept:   *)
(* names, attributes, which methods there are, and what each of them does. *)
(***************************************************************************)
EXTENDS Integers, SequencesExt

\* "typed" is self: T, whatever T, and "mut typed" is mut self: T.
Receivers == {"none", "self", "mut self", "&self", "&mut self", "typed", "mut typed"}
ArgTypes == {"path", "tuple", "array", "bare fn", "paren", "group",
             "reference", "pointer", "impl trait", "other"}
ReturnTypes == {"unit", "owned", "static reference", "reference", "pointer",
                "impl trait"}
NoIdent == <<>>

\* A mistake in the arguments or type of the block, or in one method; what is
\* wrong is said by a sequence of words.
Mistake(where, what) == [where |-> where, what |-> what]
Mistakes(wrong, where, what) == IF wrong THEN {Mistake(where, what)} ELSE {}

-----------------------------------------------------------------------------
(* Attributes. *)

find_marker_attribute(attrs, name) == <<name>> \in attrs \/ <<"actify", name>> \in attrs

PROPAGATED_ATTRIBUTES == {"doc", "allow", "warn", "deny", "forbid", "cfg",
                          "cfg_attr", "deprecated", "must_use"}
is_propagated_attribute(p) == Len(p) = 1 /\ p[1] \in PROPAGATED_ATTRIBUTES
filter_attributes(attrs) == {p \in attrs : is_propagated_attribute(p)}

Marked(m, name) == find_marker_attribute(m.attrs, name)

-----------------------------------------------------------------------------
(* One method (MethodInfo::from_impl_method). *)

is_mutable(m) == m.self \in {"&mut self", "mut self", "mut typed"}

\* A &mut self method broadcasts unless told not to, a &self method and a
\* method of a block that skips all broadcasts only when told to.
broadcasts(m, skipAll) ==
    IF ~skipAll /\ is_mutable(m) THEN ~Marked(m, "skip_broadcast")
                                 ELSE Marked(m, "broadcast")

\* BUG variant of superfluous_markers: a skip_broadcast is compared with the
\* receiver only, and not with the block.
superfluous_by_receiver(m, skipAll) ==
    Mistakes(Marked(m, "skip_broadcast") /\ ~is_mutable(m),
             m.ident, <<"superfluous", "skip_broadcast">>)
    \cup Mistakes(Marked(m, "broadcast") /\ ~skipAll /\ is_mutable(m),
                  m.ident, <<"superfluous", "broadcast">>)

superfluous_markers(m, skipAll) ==
    Mistakes(Marked(m, "skip_broadcast") /\ (skipAll \/ ~is_mutable(m)),
             m.ident, <<"superfluous", "skip_broadcast">>)
    \cup Mistakes(Marked(m, "broadcast") /\ ~skipAll /\ is_mutable(m),
                  m.ident, <<"superfluous", "broadcast">>)

validate_signature_modifiers(m) == Mistakes(m.isUnsafe, m.ident, <<"unsafe">>)

\* `self: &mut Self` has a type and no reference of its own.
validate_receiver(m) ==
    Mistakes(m.self = "none", m.ident, <<"static">>)
    \cup Mistakes(m.self \in {"self", "mut self", "typed", "mut typed"}, m.ident, <<"by value">>)

validate_return_type(m) ==
    Mistakes(m.ret \in {"reference", "impl trait", "pointer"}, m.ident, <<"returns", m.ret>>)

validate_arg_type(m, arg) ==
    Mistakes(arg.ty \in {"reference", "pointer", "impl trait", "other"},
             m.ident, <<"takes", arg.ty>>)

\* BUG variant of arg_mistakes: checking stops at the first argument refused.
first_arg_mistake(m) ==
    LET bad == {i \in DOMAIN m.args : validate_arg_type(m, m.args[i]) # {}}
    IN IF bad = {} THEN {}
       ELSE validate_arg_type(m, m.args[CHOOSE i \in bad : \A j \in bad : i <= j])

arg_mistakes(m) == UNION {validate_arg_type(m, m.args[i]) : i \in DOMAIN m.args}

\* transform_args: a pattern is named for its position, and the receiver, when
\* there is one, is at position 0.
arg_names(m) ==
    [i \in DOMAIN m.args |->
        IF m.args[i].pat # NoIdent THEN m.args[i].pat
        ELSE <<"_arg", IF m.self = "none" THEN i - 1 ELSE i>>]

method_mistakes(m, skipAll) ==
    superfluous_markers(m, skipAll) \cup validate_signature_modifiers(m)
    \cup validate_receiver(m) \cup validate_return_type(m) \cup arg_mistakes(m)

broadcast_attributes_on_skipped(m) ==
    Mistakes(Marked(m, "broadcast"), m.ident, <<"skipped", "broadcast">>)
    \cup Mistakes(Marked(m, "skip_broadcast"), m.ident, <<"skipped", "skip_broadcast">>)

-----------------------------------------------------------------------------
(* The block (ActifyArgs::parse, ImplInfo::from_impl_block, actify). *)

\* An argument is [arg, ok]: "skip_broadcast", "name" (with a valid identifier
\* or not), "broadcast" or any other.  The first that is not understood ends
\* the parse, and of several names the last one counts.
skip_broadcast(args) == \E i \in DOMAIN args : args[i].arg = "skip_broadcast"
custom_names(args) == SelectSeq(args, LAMBDA a : a.arg = "name")
args_mistakes(args) ==
    LET bad == {i \in DOMAIN args : args[i].arg \notin {"skip_broadcast", "name"}}
    IN IF bad = {} THEN {}
       ELSE {Mistake("args", <<args[CHOOSE i \in bad : \A j \in bad : i <= j].arg>>)}

\* These two end the expansion before any method is looked at.
block_mistakes(block) ==
    LET names == custom_names(block.args)
    IN IF block.selfTy # "path" THEN {Mistake("block", <<"type">>)}
       ELSE Mistakes(names # <<>> /\ ~Last(names).ok, "block", <<"name">>)

\* One pass over the items: `errors` is what was accumulated, `methods` the
\* methods that will be generated.
Skipped(m) == Marked(m, "skip")
parse_item(skipAll, acc, m) ==
    LET wrong == IF Skipped(m) THEN broadcast_attributes_on_skipped(m)
                               ELSE method_mistakes(m, skipAll)
    IN [errors |-> acc.errors \cup wrong,
        methods |-> IF Skipped(m) \/ wrong # {} THEN acc.methods
                                                ELSE Append(acc.methods, m)]

parse_items(block) ==
    FoldLeft(LAMBDA acc, m : parse_item(skip_broadcast(block.args), acc, m),
             [errors |-> {}, methods |-> <<>>], block.methods)

from_impl_block(block) ==
    IF block_mistakes(block) # {} THEN [errors |-> block_mistakes(block), methods |-> <<>>]
                                  ELSE parse_items(block)

\* The handle trait and its implementation (codegen): deprecated and must_use
\* belong on the trait only.
generate_method(m, skipAll) ==
    [ident |-> m.ident,
     traitAttrs |-> filter_attributes(m.attrs),
     implAttrs |-> filter_attributes(m.attrs) \ {<<"deprecated">>, <<"must_use">>},
     args |-> arg_names(m),
     lends |-> IF is_mutable(m) THEN "&mut" ELSE "&",
     awaits |-> m.isAsync,
     broadcasts |-> broadcasts(m, skipAll)]

\* What is compiled instead of the block: the block itself, in any case.
actify(block) ==
    LET info == from_impl_block(block)
        wrong == args_mistakes(block.args) \cup
                    (IF args_mistakes(block.args) # {} THEN {} ELSE info.errors)
    IN [block |-> block.methods,
        errors |-> wrong,
        attrs |-> filter_attributes(block.attrs),
        trait |-> IF wrong # {} THEN <<>>
                  ELSE [i \in DOMAIN info.methods |->
                            generate_method(info.methods[i], skip_broadcast(block.args))]]
=============================================================================
