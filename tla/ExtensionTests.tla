--------------------------- MODULE ExtensionTests ---------------------------
(***************************************************************************)
(* The examples in the documentation of the extension methods, and the     *)
(* steps of their unit tests that add to them, as facts about the models   *)
(* of the methods.  TLC evaluates them with every run that extends this    *)
(* module.  Words are sequences of letters of one byte, and "eacute" is    *)
(* the one letter of two.                                                  *)
(***************************************************************************)
EXTENDS MethodCalls, TLC

LOCAL Letters == {"h", "e", "l", "o", "w", "r", "d", "a", "b", "c", "x", "i", "H",
                  ",", " ", "1", "2", "eacute"}
LOCAL vec == INSTANCE VecExt
LOCAL deque == INSTANCE VecDequeExt
LOCAL map == INSTANCE HashMapExt
LOCAL set == INSTANCE HashSetExt
LOCAL option == INSTANCE OptionExt WITH Default <- 0
LOCAL string == INSTANCE StringExt WITH
    Width <- [l \in Letters |-> IF l = "eacute" THEN 2 ELSE 1],
    Upper <- [l \in Letters |-> IF l = "h" THEN <<"H">> ELSE <<l>>],
    Lower <- [l \in Letters |-> IF l = "H" THEN <<"h">> ELSE <<l>>],
    Blank <- {" "}

LOCAL Tens == [x \in 1..4 |-> 10 * x]
LOCAL Downwards == [x \in 1..5 |-> 9 - x]

ASSUME VecTests ==
    /\ vec!push(<<1, 2>>, 100) = Writes(<<1, 2, 100>>)
    /\ vec!is_empty(<<>>) = Returns(<<>>, TRUE)
    /\ vec!drain(<<1, 2>>, 0, 2) = Takes(<<>>, <<1, 2>>)
    /\ vec!len(<<1, 2, 3>>) = Returns(<<1, 2, 3>>, 3)
    /\ vec!pop(<<1, 2, 3>>) = Takes(<<1, 2>>, <<3>>) /\ vec!pop(<<>>) = Takes(<<>>, <<>>)
    /\ vec!clear(<<1, 2, 3>>) = Writes(<<>>)
    /\ vec!remove(<<1, 2, 3>>, 1) = Takes(<<1, 3>>, <<2>>)
    /\ vec!swap_remove(<<1, 2, 3, 4>>, 1) = Takes(<<1, 4, 3>>, <<2>>)
    /\ vec!insert(<<1, 3>>, 1, 2) = Writes(<<1, 2, 3>>)
    /\ vec!truncate(<<1, 2, 3, 4, 5>>, 2) = Writes(<<1, 2>>)
    /\ vec!reverse(<<1, 2, 3>>) = Writes(<<3, 2, 1>>)
    /\ vec!split_off(<<1, 2, 3, 4, 5>>, 3) = Takes(<<1, 2, 3>>, <<4, 5>>)
    /\ vec!get_index(<<10, 20, 30>>, 1).res = <<20>>
    /\ vec!get_index(<<10, 20, 30>>, 5).res = <<>>
    /\ vec!first(<<10, 20, 30>>).res = <<10>> /\ vec!first(<<>>).res = <<>>
    /\ vec!last(<<10, 20, 30>>).res = <<30>> /\ vec!last(<<>>).res = <<>>
    /\ vec!contains(<<1, 2, 3>>, 2).res /\ ~vec!contains(<<1, 2, 3>>, 5).res
    /\ vec!extend(<<1, 2>>, <<3, 4>>) = Writes(<<1, 2, 3, 4>>)
    /\ vec!dedup(<<1, 1, 2, 3, 3>>) = Writes(<<1, 2, 3>>)
    /\ vec!sort(<<3, 1, 2, 2>>) = Writes(<<1, 2, 2, 3>>)
    /\ vec!retain(<<1, 2, 3, 4, 5>>, {3, 4, 5}) = Writes(<<3, 4, 5>>)
    /\ vec!sort_by(<<3, 1, 2>>, Downwards) = Writes(<<3, 2, 1>>)
    /\ vec!retain_mut(<<1, 2, 3, 4>>, {30, 40}, Tens) = Writes(<<30, 40>>)
    /\ vec!swap(<<1, 2, 3>>, 0, 2) = Writes(<<3, 2, 1>>)
    /\ vec!resize(<<1, 2>>, 4, 9) = Writes(<<1, 2, 9, 9>>)
    /\ vec!resize(<<1, 2, 9, 9>>, 1, 0) = Writes(<<1>>)

ASSUME VecDequeTests ==
    /\ deque!push_back(<<1>>, 2) = Writes(<<1, 2>>)
    /\ deque!push_front(<<1>>, 2) = Writes(<<2, 1>>)
    /\ deque!pop_back(<<1, 2, 3>>) = Takes(<<1, 2>>, <<3>>)
    /\ deque!pop_front(<<1, 2, 3>>) = Takes(<<2, 3>>, <<1>>)
    /\ deque!pop_front(<<>>) = Takes(<<>>, <<>>)
    /\ deque!len(<<1, 2, 3>>).res = 3 /\ deque!is_empty(<<>>).res
    /\ deque!clear(<<1, 2, 3>>) = Writes(<<>>)
    /\ deque!get_index(<<10, 20, 30>>, 1).res = <<20>>
    /\ deque!get_index(<<10, 20, 30>>, 5).res = <<>>
    /\ deque!front(<<10, 20, 30>>).res = <<10>> /\ deque!back(<<10, 20, 30>>).res = <<30>>
    /\ deque!contains(<<1, 2, 3>>, 2).res /\ ~deque!contains(<<1, 2, 3>>, 5).res
    /\ deque!drain(<<1, 2, 3, 4>>, 1, 3) = Takes(<<1, 4>>, <<2, 3>>)
    /\ deque!retain(<<1, 2, 3, 4, 5>>, {3, 4, 5}) = Writes(<<3, 4, 5>>)
    /\ deque!insert(<<1, 3>>, 1, 2) = Writes(<<1, 2, 3>>)
    /\ deque!remove(<<1, 2, 3>>, 1) = Takes(<<1, 3>>, <<2>>)
    /\ deque!remove(<<1, 3>>, 9) = Takes(<<1, 3>>, <<>>)
    /\ deque!swap(<<1, 2, 3>>, 0, 2) = Writes(<<3, 2, 1>>)
    /\ deque!truncate(<<1, 2, 3>>, 1) = Writes(<<1>>)
    /\ deque!extend(<<1, 2>>, <<3, 4>>) = Writes(<<1, 2, 3, 4>>)
    /\ deque!split_off(<<1, 2, 3>>, 1) = Takes(<<1>>, <<2, 3>>)
    /\ deque!retain_mut(<<1, 2, 3, 4>>, {30, 40}, Tens) = Writes(<<30, 40>>)
    /\ deque!resize(<<1, 2>>, 4, 9) = Writes(<<1, 2, 9, 9>>)

\* Equal elements with different labels: test_take_and_replace_act_on_the_stored
\* _element, and test_remove_entry_returns_the_stored_key for maps.
LOCAL stored == [key |-> 1, tag |-> "stored"]
LOCAL lookup == [key |-> 1, tag |-> "lookup"]
LOCAL Holding(t) == 1 :> t
LOCAL Keys(S) == [k \in S |-> "t"]
LOCAL Tagged(s) == [i \in DOMAIN s |-> [key |-> s[i], tag |-> "t"]]

ASSUME HashSetTests ==
    /\ set!insert(<<>>, stored) = Returns(Holding("stored"), TRUE)
    /\ set!insert(Holding("stored"), lookup) = Returns(Holding("stored"), FALSE)
    /\ set!is_empty(<<>>).res /\ set!len(Keys({1, 2})).res = 2
    /\ set!clear(Keys({1})) = Writes(<<>>)
    /\ set!contains(Holding("stored"), lookup).res
    /\ set!remove(Holding("stored"), lookup) = Returns(<<>>, TRUE)
    /\ set!remove(<<>>, lookup) = Returns(<<>>, FALSE)
    /\ set!to_vec(Holding("stored")).res = <<stored>>
    /\ set!drain(Holding("stored")) = Takes(<<>>, <<stored>>)
    /\ set!extend(<<>>, Tagged(<<1, 2, 3>>)).new = Keys(1..3)
    /\ set!retain(Keys(1..4), {3, 4}).new = Keys({3, 4})
    /\ set!difference(Keys(1..3), Tagged(<<2, 3, 4>>)).res = {1}
    /\ set!intersection(Keys(1..3), Tagged(<<2, 3, 4>>)).res = {2, 3}
    /\ set!union(Keys({1, 2}), Tagged(<<2, 3>>)).res = {1, 2, 3}
    /\ set!is_subset(Keys({1, 2}), Tagged(<<1, 2, 3>>)).res
    /\ ~set!is_subset(Keys({1, 2}), Tagged(<<1, 3>>)).res
    /\ set!is_superset(Keys(1..3), Tagged(<<1, 2>>)).res
    /\ ~set!is_superset(Keys(1..3), Tagged(<<1, 4>>)).res
    /\ set!is_disjoint(Keys(1..3), Tagged(<<4, 5>>)).res
    /\ ~set!is_disjoint(Keys(1..3), Tagged(<<3, 4>>)).res
    /\ set!replace(Holding("stored"), lookup) = Takes(Holding("lookup"), <<stored>>)
    /\ set!take(Holding("lookup"), stored) = Takes(<<>>, <<lookup>>)
    /\ set!take(<<>>, lookup).res = <<>>

LOCAL Pair(k, v) == [key |-> k, tag |-> "t", val |-> v]
LOCAL OneTwo == map!extend(<<>>, <<Pair("a", 1), Pair("b", 2)>>).new

ASSUME HashMapTests ==
    /\ map!insert(<<>>, Pair("a", 10)).res = <<>>
    /\ map!insert(OneTwo, Pair("a", 20)).res = <<1>>
    /\ map!get_key(OneTwo, Pair("b", 0)).res = <<2>> /\ map!get_key(OneTwo, Pair("c", 0)).res = <<>>
    /\ map!remove(OneTwo, Pair("a", 0)).res = <<1>> /\ map!remove(OneTwo, Pair("c", 0)).res = <<>>
    /\ map!clear(OneTwo).new = <<>> /\ map!is_empty(<<>>).res /\ map!len(OneTwo).res = 2
    /\ map!keys(OneTwo).res \in {<<"a", "b">>, <<"b", "a">>}
    /\ map!values(OneTwo).res \in {<<1, 2>>, <<2, 1>>}
    /\ map!contains_key(OneTwo, Pair("a", 0)).res /\ ~map!contains_key(OneTwo, Pair("c", 0)).res
    /\ map!drain(OneTwo).new = <<>> /\ Len(map!drain(OneTwo).res) = 2
    /\ map!get_key(map!extend(OneTwo, <<Pair("b", 20), Pair("c", 3)>>).new, Pair("b", 0)).res = <<20>>
    /\ map!keys(map!retain(OneTwo, {2}, [v \in {1, 2} |-> v]).new).res = <<"b">>
    /\ map!get_or_insert_with(OneTwo, Pair("a", 99)).res = <<1>>
    /\ map!get_or_insert_with(OneTwo, Pair("c", 3)).res = <<3>>
    /\ map!remove_entry(1 :> [tag |-> "stored", val |-> 7], Pair(1, 0)).res
          = <<[key |-> 1, tag |-> "stored", val |-> 7]>>
    /\ map!modify(OneTwo, Pair("a", 0), [v \in {1, 2} |-> v + 10]).new["a"].val = 11
    /\ ~map!modify(OneTwo, Pair("z", 0), [v \in {1, 2} |-> v + 10]).res

ASSUME OptionTests ==
    /\ option!is_some(<<1>>).res /\ option!is_none(<<>>).res
    /\ option!take(<<42>>) = Takes(<<>>, <<42>>) /\ option!take(<<>>) = Takes(<<>>, <<>>)
    /\ option!replace(<<1>>, 2) = Takes(<<2>>, <<1>>)
    /\ option!unwrap_or(<<10>>, 0) = Returns(<<10>>, <<10>>)
    /\ option!unwrap_or(<<>>, 9) = Returns(<<>>, <<9>>)
    /\ option!unwrap_or_default(<<>>) = Returns(<<>>, <<0>>)
    /\ option!unwrap_or_else(<<>>, 42) = Returns(<<>>, <<42>>)
    /\ option!filter(<<4>>, {4, 5}) = Returns(<<4>>, <<4>>)
    /\ option!filter(<<4>>, {6}) = Returns(<<4>>, <<>>)
    /\ option!map(<<3>>, Tens) = Returns(<<3>>, <<30>>)
    /\ option!take_if(<<2>>, {9}, [x \in {2} |-> x]) = Takes(<<2>>, <<>>)
    /\ option!take_if(<<2>>, {2}, [x \in {2} |-> x]) = Takes(<<>>, <<2>>)
    /\ option!take_if(<<>>, {2}, [x \in {2} |-> x]) = Takes(<<>>, <<>>)
    /\ option!get_or_insert_with(<<>>, 2) = Returns(<<2>>, <<2>>)
    /\ option!get_or_insert_with(<<2>>, 9) = Returns(<<2>>, <<2>>)

LOCAL hello == <<"h", "e", "l", "l", "o">>
LOCAL world == <<"w", "o", "r", "l", "d">>
LOCAL hello_world == hello \o <<" ">> \o world
LOCAL abc == <<"a", "b", "c">>

ASSUME StringTests ==
    /\ string!len(hello).res = 5 /\ string!len(<<"h", "eacute">>).res = 3
    /\ string!is_empty(<<>>).res /\ string!clear(hello) = Writes(<<>>)
    /\ string!truncate(hello_world, 5) = Writes(hello)
    /\ string!truncate(hello, 9) = Writes(hello)
    /\ string!truncate(<<"eacute">>, 1).panics
    /\ string!to_uppercase(<<"h">>).res = <<"H">> /\ string!to_lowercase(<<"H">>).res = <<"h">>
    /\ string!push_str(hello, <<" ">> \o world) = Writes(hello_world)
    /\ string!push(<<"h">>, "i") = Writes(<<"h", "i">>)
    /\ string!contains(hello_world, <<"l", "o", " ", "w", "o">>).res
    /\ ~string!contains(hello_world, <<"x">>).res
    /\ string!replace(hello_world, world, abc).res = hello \o <<" ">> \o abc
    /\ string!trim(<<" ", " ">> \o hello_world \o <<" ">>).res = hello_world
    /\ string!starts_with(hello_world, hello).res /\ string!ends_with(hello_world, world).res
    /\ string!split(<<"a", ",", "b", ",", "c">>, <<",">>).res = <<<<"a">>, <<"b">>, <<"c">>>>
    /\ string!split(<<" ", " ", "a", " ">>, <<" ">>).res = <<<<>>, <<>>, <<"a">>, <<>>>>
    /\ string!pop(<<"h", "i">>) = Takes(<<"h">>, <<"i">>) /\ string!pop(<<>>) = Takes(<<>>, <<>>)
    /\ string!remove(abc, 1) = Takes(<<"a", "c">>, <<"b">>)
    /\ string!insert(<<"a", "c">>, 1, "b") = Writes(abc)
    /\ string!insert_str(<<"a", "d">>, 1, <<"b", "c">>) = Writes(abc \o <<"d">>)
    /\ string!retain(<<"a", "1", "b", "2">>, {"a", "b"}) = Writes(<<"a", "b">>)
    /\ string!drain(hello_world, 0, 6) = Takes(world, hello \o <<" ">>)
    /\ string!split_off(hello_world, 5) = Takes(hello, <<" ">> \o world)
    /\ string!replace_range(hello_world, 0, 5, abc) = Writes(abc \o <<" ">> \o world)
=============================================================================
