----------------------------- MODULE TestCrate -----------------------------
(***************************************************************************)
(* The #[actify] blocks of the test crate, as the macro sees them (names,  *)
(* attributes and classes of types), and what its tests expect of them:    *)
(* the blocks of main.rs compile, those under tests/compile_fail do not.   *)
(***************************************************************************)
EXTENDS Integers, Sequences

LOCAL Macro == INSTANCE ActifyMacro

\* fn ident(self, x_1: tys[1], x_2: tys[2], ...), and changes to it.
Fn(ident, self, tys) ==
    [ident |-> ident, attrs |-> {}, self |-> self, isAsync |-> FALSE,
     isUnsafe |-> FALSE, ret |-> "owned",
     args |-> [i \in DOMAIN tys |-> [pat |-> <<"x", i>>, ty |-> tys[i]]]]
With(attrs, m) == [m EXCEPT !.attrs = attrs]
Async(m) == [m EXCEPT !.isAsync = TRUE]
Returning(ret, m) == [m EXCEPT !.ret = ret]
TakingApart(i, m) == [m EXCEPT !.args[i].pat = Macro!NoIdent]

Impl(args, methods) ==
    [args |-> args, selfTy |-> "path", attrs |-> {}, methods |-> methods]
skip_broadcast == [arg |-> "skip_broadcast", ok |-> TRUE]
name(ok) == [arg |-> "name", ok |-> ok]

-----------------------------------------------------------------------------
(* main.rs *)

TestStruct == Impl(<<>>, <<
    Fn("foo", "&mut self", <<"path", "path">>),
    Fn("bar", "&self", <<"path", "path">>),
    With({<<"actify", "skip_broadcast">>}, Async(Fn("baz", "&mut self", <<"path">>))),
    Returning("unit", Fn("mut_test", "&self", <<"path">>))>>)

SomeStruct == Impl(<<>>, <<
    Returning("unit", Fn("set_true", "&mut self", <<>>)),
    Returning("unit", Fn("set_false", "&mut self", <<>>))>>)

SomeStructGetters ==
    Impl(<<name(TRUE), skip_broadcast>>, <<Fn("get_inner", "&self", <<>>)>>)

NonDebug == Impl(<<>>, <<Returning("unit", Fn("foo", "&self", <<>>))>>)

ShadowingActor ==
    Impl(<<>>, <<Fn("store", "&mut self", <<"path", "path", "path", "path">>)>>)

ShadowedStdNames == Impl(<<>>, <<Fn("value", "&self", <<>>)>>)
Thermostat == Impl(<<>>, <<Fn("reading", "&self", <<>>)>>)

Ledger == Impl(<<>>, <<
    Fn("count", "&self", <<>>),
    With({<<"actify", "skip">>}, Returning("unit", Fn("merge", "&mut self", <<"reference">>)))>>)

InlineBounds == Impl(<<>>, <<Fn("get_value", "&self", <<>>)>>)
Wrapper == Impl(<<>>, <<Fn("first_item", "&self", <<>>)>>)
ConstActor == Impl(<<>>, <<Fn("slots", "&self", <<>>)>>)

ComplexActorTypes == Impl(<<>>, <<
    Fn("with_array", "&self", <<"array">>),
    Fn("with_tuple", "&self", <<"tuple">>),
    Fn("with_fn_ptr", "&self", <<"bare fn", "path">>),
    Fn("with_multi_generic", "&self", <<"path", "path">>),
    Fn("with_trait_object", "&self", <<"path">>),
    Async(Fn("async_generic", "&self", <<"path">>)),
    Fn("with_const_generic", "&self", <<"array">>),
    Fn("with_const_generic_and_type", "&self", <<"array">>),
    TakingApart(1, Fn("with_destructure", "&self", <<"tuple">>)),
    TakingApart(2, Fn("with_mixed_destructure", "&self", <<"path", "tuple">>))>>)

AttributeTestActor == Impl(<<>>, <<
    With({<<"doc">>}, Fn("with_doc", "&self", <<"path">>)),
    With({<<"allow">>}, Fn("with_allow", "&self", <<"path">>)),
    With({<<"allow">>, <<"deprecated">>}, Fn("with_deprecated", "&self", <<"path">>)),
    With({<<"must_use">>}, Fn("with_must_use", "&self", <<"path">>)),
    With({<<"cfg_attr">>}, Fn("with_cfg_attr", "&self", <<"path">>)),
    With({<<"cfg">>}, Fn("some_os_specific_method", "&mut self", <<>>)),
    With({<<"cfg">>}, Fn("some_os_specific_method", "&mut self", <<>>))>>)

CfgImplActor ==
    [Impl(<<>>, <<Returning("static reference", Fn("platform_value", "&self", <<>>))>>)
        EXCEPT !.attrs = {<<"cfg">>}]

SkipMultipleBroadcastsActor == Impl(<<skip_broadcast>>, <<
    Fn("skipped_method", "&mut self", <<"path">>),
    With({<<"actify", "broadcast">>}, Fn("broadcast_method", "&mut self", <<"path">>))>>)

InteriorMutabilityActor == Impl(<<>>, <<
    With({<<"actify", "broadcast">>}, Fn("increment", "&self", <<>>)),
    Fn("peek", "&self", <<>>)>>)

InstrumentedActor ==
    LET traced == {<<"tracing", "instrument">>}
    IN Impl(<<>>, <<
        With(traced, Fn("get_value", "&self", <<>>)),
        With(traced, Returning("unit", Fn("set_value", "&mut self", <<"path">>))),
        With(traced \cup {<<"doc">>}, Async(Fn("async_get", "&self", <<>>))),
        With(traced \cup {<<"allow">>},
             Returning("unit", Fn("unused_set", "&mut self", <<"path">>)))>>)

UnqualifiedInstrumentActor == Impl(<<>>, <<
    With({<<"instrument">>}, Fn("increment", "&mut self", <<>>)),
    With({<<"instrument">>}, Fn("get_count", "&self", <<>>))>>)

Parser == Impl(<<>>, <<
    Returning("unit", Async(Fn("parse", "&self", <<>>))),
    Async(Fn("is_ready", "&self", <<>>))>>)
Store == Impl(<<>>, <<Returning("unit", Async(Fn("save", "&self", <<>>)))>>)

Compiling ==
    {TestStruct, SomeStruct, SomeStructGetters, NonDebug, ShadowingActor,
     ShadowedStdNames, Thermostat, Ledger, InlineBounds, Wrapper, ConstActor,
     ComplexActorTypes, AttributeTestActor, CfgImplActor,
     SkipMultipleBroadcastsActor, InteriorMutabilityActor, InstrumentedActor,
     UnqualifiedInstrumentActor, Parser, Store}

ASSUME TheyCompile == \A block \in Compiling : Macro!actify(block).errors = {}

\* The tests of main.rs say which of their methods broadcast, that tracing
\* attributes stay behind and cfg stays on, and that a skipped method is absent.
LOCAL Broadcasting(block) ==
    LET t == Macro!actify(block).trait
    IN {t[i].ident : i \in {j \in DOMAIN t : t[j].broadcasts}}
ASSUME TheyBroadcast ==
    /\ Broadcasting(TestStruct) = {"foo"}
    /\ Broadcasting(SkipMultipleBroadcastsActor) = {"broadcast_method"}
    /\ Broadcasting(InteriorMutabilityActor) = {"increment"}
    /\ Broadcasting(SomeStructGetters) = {}
ASSUME TheyKeepAttributes ==
    /\ Len(Macro!actify(Ledger).trait) = 1
    /\ Macro!actify(CfgImplActor).attrs = {<<"cfg">>}
    /\ \A i \in 1..2 : Macro!actify(UnqualifiedInstrumentActor).trait[i].traitAttrs = {}
    /\ Macro!actify(InstrumentedActor).trait[3].implAttrs = {<<"doc">>}
    /\ Macro!actify(ComplexActorTypes).trait[10].args = <<<<"x", 1>>, <<"_arg", 2>>>>

-----------------------------------------------------------------------------
(* tests/compile_fail: the one method of each block, and what is reported.  *)

LOCAL Refused(args, m, what) ==
    Macro!actify(Impl(args, <<m>>)).errors = {Macro!Mistake(m.ident, what)}

ASSUME TheyAreRefused ==
    /\ Refused(<<>>, Fn("consume", "self", <<>>), <<"by value">>)
    /\ Refused(<<>>, Fn("with_impl_trait", "&self", <<"impl trait">>), <<"takes", "impl trait">>)
    /\ Refused(<<>>, Returning("impl trait", Fn("counter", "&self", <<>>)),
               <<"returns", "impl trait">>)
    /\ Refused(<<>>, Fn("with_ptr", "&self", <<"pointer">>), <<"takes", "pointer">>)
    /\ Refused(<<>>, Fn("foo", "&self", <<"reference">>), <<"takes", "reference">>)
    /\ Refused(<<>>, Returning("reference", Fn("name", "&self", <<>>)), <<"returns", "reference">>)
    /\ Refused(<<>>, Fn("no_receiver", "none", <<"path">>), <<"static">>)
    /\ Refused(<<>>, With({<<"actify", "broadcast">>}, Fn("already_broadcasts", "&mut self", <<>>)),
               <<"superfluous", "broadcast">>)
    /\ Refused(<<skip_broadcast>>,
               With({<<"actify", "skip_broadcast">>}, Fn("already_skipped", "&self", <<>>)),
               <<"superfluous", "skip_broadcast">>)
    /\ Refused(<<>>, With({<<"actify", "skip_broadcast">>}, Fn("never_broadcasts", "&self", <<>>)),
               <<"superfluous", "skip_broadcast">>)
    /\ Refused(<<>>, [Fn("danger", "&self", <<>>) EXCEPT !.isUnsafe = TRUE], <<"unsafe">>)
    /\ Refused(<<>>, Fn("with_slice", "&self", <<"other">>), <<"takes", "other">>)

\* multiple_errors and superfluous_broadcast_on_skip: every mistake is reported.
ASSUME TheyAreAllReported ==
    /\ Macro!actify(Impl(<<>>,
            <<Fn("first", "&self", <<"reference">>), Fn("second", "&self", <<"pointer">>),
              Fn("third", "&self", <<"impl trait">>)>>)).errors
         = {Macro!Mistake("first", <<"takes", "reference">>),
            Macro!Mistake("second", <<"takes", "pointer">>),
            Macro!Mistake("third", <<"takes", "impl trait">>)}
    /\ Macro!actify(Impl(<<>>,
            <<With({<<"actify", "skip">>, <<"actify", "broadcast">>}, Fn("one", "&self", <<>>)),
              With({<<"actify", "skip">>, <<"actify", "skip_broadcast">>},
                   Fn("two", "&mut self", <<>>))>>)).errors
         = {Macro!Mistake("one", <<"skipped", "broadcast">>),
            Macro!Mistake("two", <<"skipped", "skip_broadcast">>)}

\* unnecessary_block_broadcast, invalid_custom_name, and error_does_not_cascade:
\* the block is compiled also when something in it is refused.
ASSUME TheBlockStays ==
    LET m == Returning("unit", Fn("some_method", "&self", <<>>))
        healthy == Fn("healthy", "&self", <<>>)
        broken == Fn("broken", "&self", <<"reference">>)
    IN /\ Macro!actify(Impl(<<[arg |-> "broadcast", ok |-> TRUE]>>, <<m>>)).errors
            = {Macro!Mistake("args", <<"broadcast">>)}
       /\ Macro!actify(Impl(<<name(FALSE)>>, <<m>>)).errors
            = {Macro!Mistake("block", <<"name">>)}
       /\ Macro!actify(Impl(<<>>, <<broken, healthy>>)).block = <<broken, healthy>>
=============================================================================
