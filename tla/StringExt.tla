----------------------------- MODULE StringExt -----------------------------
(***************************************************************************)
(* The methods Handle<String> has (StringHandle).  A string is a sequence  *)
(* of characters, and each takes Width[c] bytes.  Lengths and positions    *)
(* are in bytes: a position inside a character is not a boundary, and the  *)
(* methods that cut there panic.  An empty pattern is left out.            *)
(***************************************************************************)
EXTENDS MethodCalls

CONSTANTS
    Width,          \* bytes a character takes in UTF-8
    Upper, Lower,   \* what a character becomes: a sequence of characters
    Blank           \* the characters trim removes

\* The trait that #[actify] is applied to.
ActorString ==
    [len |-> ByRef({}), is_empty |-> ByRef({}), clear |-> ByMut({}),
     truncate |-> ByMut({"index"}), to_uppercase |-> ByRef({}),
     to_lowercase |-> ByRef({}), push_str |-> ByMut({"items"}),
     push |-> ByMut({"item"}), contains |-> ByRef({"items"}),
     replace |-> ByRef({"items"}), trim |-> ByRef({}),
     starts_with |-> ByRef({"items"}), ends_with |-> ByRef({"items"}),
     split |-> ByRef({"items"}), pop |-> ByMut({}), remove |-> ByMut({"index"}),
     insert |-> ByMut({"index", "item"}), insert_str |-> ByMut({"index", "items"}),
     retain |-> ByMut({"test"}), drain |-> ByMut({"range"}),
     split_off |-> ByMut({"index"}), replace_range |-> ByMut({"range", "items"})]

\* The byte at which the characters after the first n begin; the boundaries
\* are these bytes, and Chars(s, i) characters lie before boundary i.
Byte(s, n) == FoldLeft(LAMBDA b, c : b + Width[c], 0, SubSeq(s, 1, n))
Size(s) == Byte(s, Len(s))

Boundary(s, i) == \E n \in 0..Len(s) : Byte(s, n) = i
Chars(s, i) == CHOOSE n \in 0..Len(s) :
                  Byte(s, n) <= i /\ (n = Len(s) \/ Byte(s, n + 1) > i)
Upto(s, i) == SubSeq(s, 1, Chars(s, i))
From(s, i) == SubSeq(s, Chars(s, i) + 1, Len(s))
Slice(s, i, j) == SubSeq(s, Chars(s, i) + 1, Chars(s, j))
Range_(s, i, j) == i <= j /\ Boundary(s, i) /\ Boundary(s, j)

len(s) == Returns(s, Size(s))
is_empty(s) == Returns(s, s = <<>>)
clear(s) == Writes(<<>>)
to_uppercase(s) == Returns(s, FlattenSeq([n \in DOMAIN s |-> Upper[s[n]]]))
to_lowercase(s) == Returns(s, FlattenSeq([n \in DOMAIN s |-> Lower[s[n]]]))
push_str(s, t) == Writes(s \o t)
push(s, c) == Writes(Append(s, c))
starts_with(s, p) == Returns(s, IsPrefix(p, s))
ends_with(s, p) == Returns(s, IsSuffix(p, s))
pop(s) == IF s = <<>> THEN Takes(s, <<>>) ELSE Takes(Front(s), <<Last(s)>>)
retain(s, keep) == Writes(Kept(s, keep))

\* A length beyond the end is no error; any other has to be a boundary.
truncate(s, n) ==
    IF n > Size(s) THEN Writes(s) ELSE Checked(Boundary(s, n), s, Writes(Upto(s, n)))

remove(s, i) ==
    Checked(Boundary(s, i) /\ i < Size(s), s,
            Takes(RemoveAt(s, Chars(s, i) + 1), <<s[Chars(s, i) + 1]>>))
insert_str(s, i, t) == Checked(Boundary(s, i), s, Writes(Upto(s, i) \o t \o From(s, i)))
insert(s, i, c) == insert_str(s, i, <<c>>)
split_off(s, at) == Checked(Boundary(s, at), s, Takes(Upto(s, at), From(s, at)))
drain(s, i, j) ==
    Checked(Range_(s, i, j), s, Takes(Upto(s, i) \o From(s, j), Slice(s, i, j)))
replace_range(s, i, j, t) ==
    Checked(Range_(s, i, j), s, Writes(Upto(s, i) \o t \o From(s, j)))

\* Where p matches in s, and the pieces between the matches that are found
\* from left to right.
Matches(s, p) == {n \in DOMAIN s : IsPrefix(p, SubSeq(s, n, Len(s)))}
Pieces(s, p) ==
    LET rest[n \in 1..Len(s) + 1] ==
            LET found == {k \in Matches(s, p) : k >= n}
                k == CHOOSE f \in found : \A g \in found : f <= g
            IN IF found = {} THEN <<SubSeq(s, n, Len(s))>>
               ELSE <<SubSeq(s, n, k - 1)>> \o rest[k + Len(p)]
    IN rest[1]

contains(s, p) == Returns(s, Matches(s, p) # {})
split(s, p) == Returns(s, Pieces(s, p))
replace(s, p, t) ==
    LET pieces == Pieces(s, p)
    IN Returns(s, FoldLeft(LAMBDA r, q : r \o t \o q, Head(pieces), Tail(pieces)))
trim(s) ==
    LET ink == {n \in DOMAIN s : s[n] \notin Blank}
    IN Returns(s, IF ink = {} THEN <<>>
                  ELSE SubSeq(s, CHOOSE n \in ink : \A k \in ink : n <= k,
                                 CHOOSE n \in ink : \A k \in ink : k <= n))

\* The call made on s (replace is given its pattern reversed to replace it by).
Apply(call, s) ==
    LET m == call.m
        t == call.items
        to == EndOf(call, Size(s))
    IN CASE m = "len" -> len(s)
         [] m = "is_empty" -> is_empty(s)
         [] m = "clear" -> clear(s)
         [] m = "truncate" -> truncate(s, call.i)
         [] m = "to_uppercase" -> to_uppercase(s)
         [] m = "to_lowercase" -> to_lowercase(s)
         [] m = "push_str" -> push_str(s, t)
         [] m = "push" -> push(s, Head(t))
         [] m = "contains" -> contains(s, t)
         [] m = "replace" -> replace(s, t, Reverse(t))
         [] m = "trim" -> trim(s)
         [] m = "starts_with" -> starts_with(s, t)
         [] m = "ends_with" -> ends_with(s, t)
         [] m = "split" -> split(s, t)
         [] m = "pop" -> pop(s)
         [] m = "remove" -> remove(s, call.i)
         [] m = "insert" -> insert(s, call.i, Head(t))
         [] m = "insert_str" -> insert_str(s, call.i, t)
         [] m = "retain" -> retain(s, call.keep)
         [] m = "drain" -> drain(s, call.i, to)
         [] m = "split_off" -> split_off(s, call.i)
         [] m = "replace_range" -> replace_range(s, call.i, to, t)

\* The "# Panics" sections: what a caller who knows s must not ask for.
Unsafe(call, s) ==
    LET splits(i) == \A n \in 0..Len(s) : Byte(s, n) # i
        to == EndOf(call, Size(s))
    IN CASE call.m \in {"insert", "insert_str", "split_off"} -> splits(call.i)
         [] call.m = "truncate" -> ~(call.i > Size(s)) /\ splits(call.i)
         [] call.m = "remove" -> ~(call.i < Size(s)) \/ splits(call.i)
         [] call.m \in {"drain", "replace_range"} ->
                ~(call.i <= to) \/ splits(call.i) \/ splits(to)
         [] OTHER -> FALSE

\* The methods that add characters, that drop some, and that replace some.
Adding == {"push", "push_str", "insert", "insert_str"}
Dropping == {"clear", "truncate", "retain"}
Making == {"replace_range"}
=============================================================================
