----------------------------- MODULE MCProgram -----------------------------
(* Instances of Program for TLC. *)
EXTENDS Program, ExtensionTests, TestCrate

CONSTANTS a1, a2, a3, c1, c2

ThreeActors == {a1, a2, a3}
TwoClients == {c1, c2}

-----------------------------------------------------------------------------
(* Who calls whom: the handles of the actors, then those of the clients.    *)

Calling(ofA1, ofA2, ofA3, ofC1, ofC2) ==
    [r \in ThreeActors \cup TwoClients |->
        CASE r = a1 -> ofA1 [] r = a2 -> ofA2 [] r = a3 -> ofA3
          [] r = c1 -> ofC1 [] r = c2 -> ofC2]

Alone == Calling({}, {}, {}, {a1}, {a1})
None == Calling({}, {}, {}, {}, {})
Diamond == Calling({a2, a3}, {a3}, {}, {a1}, {a1})
FanIn == Calling({a3}, {a3}, {}, {a1}, {a2})
Ring == Calling({a2}, {a3}, {a1}, {a1}, {a1})
Pair == Calling({a2}, {a1}, {}, {a1}, {a2})
OwnHandle == Calling({a1}, {}, {}, {a1}, {a1})

-----------------------------------------------------------------------------
(* Blocks. *)

TraitBlock(trait) ==
    LET names == FoldSet(LAMBDA m, s : Append(s, m), <<>>, DOMAIN trait)
    IN Impl(<<>>, [i \in DOMAIN names |->
                      Fn(names[i], IF trait[names[i]].self = "ref"
                                   THEN "&self" ELSE "&mut self", <<>>)])

\* A method with every kind of receiver, marker and signature, in a block with
\* another that is refused, one that is not, or one that is skipped.
Markers == {<<"broadcast">>, <<"actify", "skip_broadcast">>, <<"skip">>,
            <<"other", "broadcast">>}
VariedMethods ==
    {[With(attrs, Fn("varied", self, tys)) EXCEPT !.isUnsafe = unsafe, !.ret = ret] :
     attrs \in SUBSET Markers, self \in Macro!Receivers, unsafe \in BOOLEAN,
     ret \in {"owned", "reference"},
     tys \in {<<>>, <<"path", "impl trait">>, <<"reference", "pointer">>}}
Others == {Fn("other", "&self", <<>>), Fn("other", "self", <<>>),
           With({<<"actify", "skip">>}, Fn("other", "&mut self", <<>>))}
BlockArgs == {<<>>, <<skip_broadcast>>}
BadBlockArgs == {<<[arg |-> "broadcast", ok |-> TRUE]>>, <<name(TRUE), name(FALSE)>>}
VariedBlocks ==
    {Impl(args, <<o, m>>) : args \in BlockArgs, o \in Others, m \in VariedMethods}
    \cup {Impl(args, <<m>>) : args \in BadBlockArgs, m \in VariedMethods}

-----------------------------------------------------------------------------
(* Programs. *)

PlainBlock == Impl(<<>>, <<Fn("run", "&self", <<>>)>>)
CollectionPrograms ==
    {[block |-> TraitBlock(Vec!ActorVec), kind |-> "Vec", graph |-> Alone],
     [block |-> TraitBlock(VecDeque!ActorVecDeque), kind |-> "VecDeque", graph |-> Alone],
     [block |-> TraitBlock(HashMap!ActorMap), kind |-> "HashMap", graph |-> Alone],
     [block |-> TraitBlock(HashSet!ActorSet), kind |-> "HashSet", graph |-> Alone],
     [block |-> TraitBlock(Option!ActorOption), kind |-> "Option", graph |-> Alone],
     [block |-> TraitBlock(String!ActorString), kind |-> "String", graph |-> Alone]}
PlainPrograms ==
    {[block |-> PlainBlock, kind |-> "plain", graph |-> g] :
     g \in {Diamond, FanIn, Ring, Pair, OwnHandle}}
CompiledPrograms ==
    {[block |-> b, kind |-> "plain", graph |-> None] : b \in VariedBlocks \cup Compiling}

AllPrograms == CollectionPrograms \cup PlainPrograms \cup CompiledPrograms
AllGraphs == {Alone, None, Diamond, FanIn, Ring, Pair, OwnHandle}

-----------------------------------------------------------------------------
(* The collections: two items, or two keys with two tags and values, or a   *)
(* character of one byte and one of two.                                    *)

Idx == 0..3
Swapped == [x \in {1, 2} |-> 3 - x]
SetItems == [key : {1, 2}, tag : {1, 2}]
MapItems == [key : {1, 2}, tag : {1, 2}, val : {1, 2}]
Chars == {"a", "B", "eacute", " "}

FirstValues ==
    [Vec |-> <<1, 2>>, VecDeque |-> <<2, 1>>, HashSet |-> <<1>>, Option |-> <<1>>,
     HashMap |-> <<[tag |-> 1, val |-> 1]>>, String |-> <<"a", "eacute">>,
     plain |-> <<>>]

Held ==
    [Vec |-> {1, 2}, VecDeque |-> {1, 2}, Option |-> {1, 2}, String |-> Chars]

AllCalls ==
    [Vec |-> Vec!CallsOf(Vec!ActorVec, Idx, {1}, {<<1, 2>>}, {{1}}, {Swapped}),
     VecDeque |-> VecDeque!CallsOf(VecDeque!ActorVecDeque, Idx, {1}, {<<1, 2>>},
                                   {{1}}, {Swapped}),
     HashSet |-> HashSet!CallsOf(HashSet!ActorSet, Idx, SetItems,
                    {<<[key |-> 1, tag |-> 2], [key |-> 2, tag |-> 1]>>}, {{1}}, {Swapped}),
     HashMap |-> HashMap!CallsOf(HashMap!ActorMap, Idx, MapItems,
                    {<<[key |-> 1, tag |-> 2, val |-> 2],
                       [key |-> 2, tag |-> 1, val |-> 1]>>}, {{1}}, {Swapped}),
     Option |-> Option!CallsOf(Option!ActorOption, Idx, {1, 2}, {<<1>>}, {{1}}, {Swapped}),
     String |-> String!CallsOf(String!ActorString, Idx, {"a"}, {<<"eacute">>}, {{"a"}},
                               {[c \in Chars |-> c]}),
     plain |-> {}]

Bytes == [c \in Chars |-> IF c = "eacute" THEN 2 ELSE 1]
Uppers == [c \in Chars |-> IF c = "a" THEN <<"A">> ELSE <<c>>]
Lowers == [c \in Chars |-> IF c = "B" THEN <<"b">> ELSE <<c>>]
=============================================================================
