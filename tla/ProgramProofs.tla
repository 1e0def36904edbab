--------------------------- MODULE ProgramProofs ---------------------------
(* What holds of every program: it is a system of actors, so what is proved *)
(* of those carries over.                                                   *)
EXTENDS CollectionProofs, ActorSystemProofs

\* Every step of a program is a step of its actors or leaves them alone.
LEMMA StepOfSystem ==
    ASSUME [Next]_vars
    PROVE  [SystemNext]_systemVars
<1>1. ASSUME Compile
      PROVE  UNCHANGED systemVars
  BY <1>1 DEF Compile
<1>2. ASSUME Pass \/ Fail
      PROVE  SystemNext
  BY <1>2 DEF Pass, Fail, SystemNext
<1>3. ASSUME NEW a \in Actors, TakeJob(a)
      PROVE  SystemNext
  BY <1>3 DEF TakeJob, SystemNext
<1>4. ASSUME NEW a \in Actors, Run(a)
      PROVE  Finish(a) \/ Panic(a)
  BY <1>4 DEF Run, RunPlain, RunGet, RunMethod
<1>5. ASSUME UNCHANGED vars
      PROVE  UNCHANGED systemVars
  BY <1>5 DEF vars
<1> QED
  BY <1>1, <1>2, <1>3, <1>4, <1>5 DEF Next, SystemNext

\* A program implements the system of its actors.
THEOREM ImplementsSystem == Spec => SystemSpec
<1>1. Init => SystemInit
  BY DEF Init
<1>2. [Next]_vars => [SystemNext]_systemVars
  BY StepOfSystem
<1> QED
  BY <1>1, <1>2, PTL DEF Spec, SystemSpec

\* So whoever waits in a program waits for an answer that is on its way; unless
\* actors wait in a circle somebody can go on; and one who is told of a panic
\* is told of one behind a handle it could reach.
COROLLARY ProgramsKeepTheirPromises ==
    Spec => [](WaitsAreServed /\ SomebodyCanMove /\ PanicComesFromBelow)
  BY ImplementsSystem, AnswersAreComing, AcyclicNeverStandsStill, PanicsTravelUp, PTL

-----------------------------------------------------------------------------
(* The expansion of a block. *)

\* What is wrong with the i-th method of a block.
Wrong(block, i) ==
    LET m == block.methods[i]
    IN IF Macro!Skipped(m) THEN Macro!broadcast_attributes_on_skipped(m)
       ELSE Macro!method_mistakes(m, Macro!skip_broadcast(block.args))

\* What the pass over the methods has accumulated after 0, 1, ... of them.
Parsing(g, block) ==
    LET n == Len(block.methods)
    IN /\ g[0] = [errors |-> {}, methods |-> <<>>] /\ g[n] = Macro!parse_items(block)
       /\ \A k \in 1..n :
             /\ g[k - 1].methods \in Seq({block.methods[i] : i \in 1..n})
             /\ g[k] = Macro!parse_item(Macro!skip_broadcast(block.args), g[k - 1],
                                        block.methods[k])

\* parse_items takes one method after the other.
LEMMA ParsingExists ==
    ASSUME NEW block, IsBlock(block)
    PROVE  \E g : Parsing(g, block)
<1> DEFINE v == block.methods
           n == Len(v)
           V == [errors : SUBSET UNION {Wrong(block, i) : i \in 1..n},
                 methods : Seq({v[i] : i \in 1..n})]
           base == [errors |-> {}, methods |-> <<>>]
           Step(acc, x) == Macro!parse_item(Macro!skip_broadcast(block.args), acc, x)
           F == [p \in V \X (1..n) |-> Step(p[1], v[p[2]])]
           Eqn(f) == f = [s \in SUBSET DOMAIN v |->
                             IF s = {} THEN base
                             ELSE LET x == Max(s) IN Step(f[s \ {x}], v[x])]
<1>1. n \in Nat /\ DOMAIN v = 1..n
  BY DEF IsBlock, IsList
<1>2. base \in V
  BY EmptySeq
<1>3. F \in [V \X (1..n) -> V]
  <2> SUFFICES ASSUME NEW acc \in V, NEW i \in 1..n
               PROVE  Step(acc, v[i]) \in V
    OBVIOUS
  <2>1. acc.errors \cup Wrong(block, i) \in SUBSET UNION {Wrong(block, j) : j \in 1..n}
    OBVIOUS
  <2>2. Append(acc.methods, v[i]) \in Seq({v[j] : j \in 1..n})
    BY AppendProperties
  <2>3. Step(acc, v[i]).errors = acc.errors \cup Wrong(block, i)
    BY DEF Macro!parse_item, Wrong
  <2>4. Step(acc, v[i]).methods \in {acc.methods, Append(acc.methods, v[i])}
    BY DEF Macro!parse_item
  <2>5. Step(acc, v[i]) = [errors |-> Step(acc, v[i]).errors, methods |-> Step(acc, v[i]).methods]
    BY DEF Macro!parse_item
  <2> HIDE DEF Step
  <2> QED
    BY <2>1, <2>2, <2>3, <2>4, <2>5
<1>4. PICK h : IsFold(h, n, V, base, F)
  <2> HIDE DEF F, n, V, base
  <2> QED
    BY <1>1, <1>2, <1>3, FoldExists
<1>5. Eqn(h)
  <2>1. \A s \in SUBSET (1..n) : s # {} => Max(s) \in 1..n /\ s \ {Max(s)} \in SUBSET (1..n)
    BY <1>1, MaxProperty
  <2> HIDE DEF base, V, n, v, Step
  <2> QED
    BY <1>1, <1>4, <2>1 DEF IsFold
<1>6. ASSUME NEW f, Eqn(f)
      PROVE  Solves(f, n, V, base, F)
  <2>1. f[{}] = base
    BY <1>6
  <2>2. ASSUME NEW k \in 1..n, f[1..k - 1] \in V
        PROVE  f[1..k] = F[<<f[1..k - 1], k>>]
    <3>1. 1..k \in SUBSET DOMAIN v /\ 1..k # {}
      <4> HIDE DEF n
      <4> QED
        BY <1>1
    <3>2. Max(1..k) = k /\ (1..k) \ {k} = 1..(k - 1)
      BY MaxOfPrefix, k \in Nat, k # 0
    <3> HIDE DEF base, V, n, v, Step
    <3> QED
      BY <1>6, <2>2, <3>1, <3>2
  <2> QED
    BY <2>1, <2>2 DEF Solves
<1>7. Macro!parse_items(block) = (CHOOSE f : Eqn(f))[DOMAIN v]
  BY DEF Macro!parse_items, Macro!FoldLeft, Macro!MapThenFoldSet, Macro!Max, Max
<1> HIDE DEF Eqn, F, n, V, base
<1>8. PICK iter : Eqn(iter) /\ Macro!parse_items(block) = iter[DOMAIN v]
  BY <1>5, <1>7
<1>9. Solves(iter, n, V, base, F)
  BY <1>6, <1>8
<1>10. HasRun(iter, n, V, base, F)
  BY <1>1, <1>2, <1>3, <1>9, FoldSteps
<1>11. PICK g : IsRun(g, n, V, base, F) /\ g[n] = Macro!parse_items(block)
  BY <1>1, <1>8, <1>10 DEF HasRun
<1>12. ASSUME NEW k \in 1..n
       PROVE  g[k - 1].methods \in Seq({v[i] : i \in 1..n}) /\ g[k] = Step(g[k - 1], v[k])
  <2>1. k - 1 \in 0..n
    BY <1>1
  <2>2. g[k - 1] \in V /\ g[k] = F[<<g[k - 1], k>>]
    BY <1>11, <2>1 DEF IsRun
  <2>3. g[k] = Step(g[k - 1], v[k])
    BY <2>2 DEF F
  <2> QED
    BY <2>2, <2>3 DEF V
<1> QED
  BY <1>11, <1>12 DEF Parsing, IsRun, n, base

\* The methods among the first n that are not skipped.
Unskipped(block, n) == {i \in 1..n : ~Macro!Skipped(block.methods[i])}

\* The number of these grows by one with each.
LEMMA UnskippedGrows ==
    ASSUME NEW block, NEW k \in Nat
    PROVE  /\ IsFiniteSet(Unskipped(block, k)) /\ Cardinality(Unskipped(block, k)) \in Nat
           /\ Macro!Skipped(block.methods[k + 1]) =>
                 Unskipped(block, k + 1) = Unskipped(block, k)
           /\ ~Macro!Skipped(block.methods[k + 1]) =>
                 /\ Unskipped(block, k + 1) = Unskipped(block, k) \cup {k + 1}
                 /\ Cardinality(Unskipped(block, k + 1)) = Cardinality(Unskipped(block, k)) + 1
<1> DEFINE U(n) == Unskipped(block, n)
<1>1. IsFiniteSet(1..k) /\ U(k) \in SUBSET (1..k)
  BY FS_Interval, 1 \in Int, k \in Int DEF Unskipped
<1>2. IsFiniteSet(U(k)) /\ Cardinality(U(k)) \in Nat
  <2> HIDE DEF U
  <2> QED
    BY <1>1, FS_Subset, FS_CardinalityType
<1>3. 1..k + 1 = (1..k) \cup {k + 1} /\ k + 1 \notin 1..k
  OBVIOUS
<1>4. Macro!Skipped(block.methods[k + 1]) => U(k + 1) = U(k)
  BY <1>3 DEF Unskipped
<1>5. ~Macro!Skipped(block.methods[k + 1]) =>
          U(k + 1) = U(k) \cup {k + 1} /\ k + 1 \notin U(k)
  BY <1>3 DEF Unskipped
<1> HIDE DEF U
<1>6. ~Macro!Skipped(block.methods[k + 1]) => Cardinality(U(k + 1)) = Cardinality(U(k)) + 1
  BY <1>2, <1>5, FS_AddElement
<1> QED
  BY <1>2, <1>4, <1>5, <1>6 DEF U

\* One pass finds what is wrong with every method.
LEMMA ErrorsAreAll ==
    ASSUME NEW block, IsBlock(block)
    PROVE  Macro!parse_items(block).errors
             = UNION {Wrong(block, i) : i \in 1..Len(block.methods)}
<1> DEFINE n == Len(block.methods)
           All(k) == UNION {Wrong(block, i) : i \in 1..k}
<1> SUFFICES Macro!parse_items(block).errors = All(n)
  OBVIOUS
<1>1. PICK g : Parsing(g, block)
  BY ParsingExists
<1>2. n \in Nat
  BY DEF IsBlock, IsList
<1> DEFINE S == {k \in Nat : k <= n => g[k].errors = All(k)}
<1>3. 0 \in S
  <2>1. 1..0 = {}
    OBVIOUS
  <2>2. g[0].errors = {} /\ All(0) = {}
    BY <1>1, <2>1 DEF Parsing
  <2> QED
    BY <2>2
<1>4. ASSUME NEW k \in Nat, k \in S
      PROVE  k + 1 \in S
  <2> SUFFICES ASSUME k + 1 <= n
               PROVE  g[k + 1].errors = All(k + 1)
    OBVIOUS
  <2>1. k + 1 \in 1..n /\ (k + 1) - 1 = k /\ k <= n
    BY <1>2
  <2>2. g[k + 1] = Macro!parse_item(Macro!skip_broadcast(block.args), g[k],
                                    block.methods[k + 1])
    BY <1>1, <2>1 DEF Parsing
  <2>3. g[k + 1].errors = g[k].errors \cup Wrong(block, k + 1)
    BY <2>2 DEF Macro!parse_item, Wrong
  <2>4. All(k + 1) = All(k) \cup Wrong(block, k + 1)
    <3>1. 1..k + 1 = (1..k) \cup {k + 1}
      OBVIOUS
    <3> QED
      BY <3>1
  <2>5. g[k].errors = All(k)
    BY <1>4, <2>1
  <2> QED
    BY <2>3, <2>4, <2>5
<1>5. Nat \subseteq S
  <2> HIDE DEF S
  <2> QED
    BY <1>3, <1>4, Induction
<1>6. g[n].errors = All(n)
  <2> HIDE DEF All, n
  <2>1. n \in S
    BY <1>2, <1>5
  <2>2. n <= n
    BY <1>2
  <2> QED
    BY <2>1, <2>2
<1>7. g[n] = Macro!parse_items(block)
  BY <1>1 DEF Parsing
<1>8. Macro!parse_items(block).errors = All(n)
  <2> HIDE DEF All, n
  <2> QED
    BY <1>6, <1>7
<1> QED
  BY <1>8

\* Where nothing is wrong, every method that is not skipped is kept, in order.
LEMMA MethodsAreKept ==
    ASSUME NEW block, IsBlock(block), Macro!parse_items(block).errors = {}
    PROVE  LET n == Len(block.methods)
               methods == Macro!parse_items(block).methods
           IN /\ Len(methods) = Cardinality(Unskipped(block, n))
              /\ DOMAIN methods = 1..Len(methods)
              /\ \A i \in Unskipped(block, n) :
                    /\ Cardinality(Unskipped(block, i)) \in DOMAIN methods
                    /\ methods[Cardinality(Unskipped(block, i))] = block.methods[i]
<1> DEFINE n == Len(block.methods)
           M == {block.methods[i] : i \in 1..n}
           C(k) == Cardinality(Unskipped(block, k))
           Kept_(k, s) == /\ s \in Seq(M) /\ Len(s) = C(k)
                          /\ \A i \in Unskipped(block, k) :
                                C(i) \in 1..C(k) /\ s[C(i)] = block.methods[i]
<1>1. PICK g : Parsing(g, block)
  BY ParsingExists
<1>2. n \in Nat
  BY DEF IsBlock, IsList
<1>3. \A i \in 1..n : Wrong(block, i) = {}
  <2> DEFINE W(i) == Wrong(block, i)
  <2>1. UNION {W(i) : i \in 1..n} = {}
    BY ErrorsAreAll
  <2> HIDE DEF W, n
  <2>2. ASSUME NEW i \in 1..n
        PROVE  W(i) = {}
    BY <2>1
  <2> QED
    BY <2>2 DEF W
<1> DEFINE S == {k \in Nat : k <= n => Kept_(k, g[k].methods)}
<1>4. 0 \in S
  <2>1. Unskipped(block, 0) = {}
    BY DEF Unskipped
  <2>2. C(0) = 0
    BY <2>1, FS_EmptySet
  <2>3. g[0].methods = <<>>
    BY <1>1 DEF Parsing
  <2> QED
    BY <2>1, <2>2, <2>3, EmptySeq
<1>5. ASSUME NEW k \in Nat, k \in S
      PROVE  k + 1 \in S
  <2> SUFFICES ASSUME k + 1 <= n
               PROVE  Kept_(k + 1, g[k + 1].methods)
    OBVIOUS
  <2> DEFINE m == block.methods[k + 1]
  <2>1. k + 1 \in 1..n /\ (k + 1) - 1 = k /\ k <= n
    BY <1>2
  <2>2. g[k + 1] = Macro!parse_item(Macro!skip_broadcast(block.args), g[k], m)
    BY <1>1, <2>1 DEF Parsing
  <2>3. g[k + 1].methods = IF Macro!Skipped(m) THEN g[k].methods ELSE Append(g[k].methods, m)
    BY <1>3, <2>1, <2>2 DEF Macro!parse_item, Wrong
  <2>4. PICK s \in Seq(M) : s = g[k].methods /\ Kept_(k, s)
    BY <1>5, <2>1
  <2>5. m \in M
    BY <2>1
  <2>6. C(k) \in Nat
    BY UnskippedGrows
  <2>7. CASE Macro!Skipped(m)
    <3>1. Unskipped(block, k + 1) = Unskipped(block, k)
      BY <2>7, UnskippedGrows
    <3> QED
      BY <2>3, <2>4, <2>7, <3>1
  <2>8. CASE ~Macro!Skipped(m)
    <3>1. Unskipped(block, k + 1) = Unskipped(block, k) \cup {k + 1} /\ C(k + 1) = C(k) + 1
      BY <2>8, UnskippedGrows
    <3>2. /\ Append(s, m) \in Seq(M) /\ Len(Append(s, m)) = C(k) + 1
          /\ Append(s, m)[C(k) + 1] = m
          /\ \A j \in 1..C(k) : Append(s, m)[j] = s[j]
      BY <2>4, <2>5, AppendProperties
    <3>3. ASSUME NEW i \in Unskipped(block, k + 1)
          PROVE  C(i) \in 1..C(k + 1) /\ Append(s, m)[C(i)] = block.methods[i]
      <4>1. CASE i = k + 1
        BY <2>6, <3>1, <3>2, <4>1
      <4>2. CASE i \in Unskipped(block, k)
        BY <2>4, <2>6, <3>1, <3>2, <4>2
      <4> QED
        BY <3>1, <4>1, <4>2
    <3> QED
      BY <2>3, <2>4, <2>8, <3>1, <3>2, <3>3
  <2> QED
    BY <2>7, <2>8
<1>6. Nat \subseteq S
  <2> HIDE DEF S
  <2> QED
    BY <1>4, <1>5, Induction
<1>7. Kept_(n, Macro!parse_items(block).methods)
  <2>1. g[n] = Macro!parse_items(block)
    BY <1>1 DEF Parsing
  <2> HIDE DEF Kept_, n
  <2>2. n \in S
    BY <1>2, <1>6
  <2>3. n <= n
    BY <1>2
  <2> QED
    BY <2>1, <2>2, <2>3
<1> QED
  BY <1>7, LenProperties

\* A block of one method is refused for what is wrong with that method.
LEMMA OneMethod ==
    ASSUME NEW block, IsBlock(block), NEW m, block.methods = <<m>>
    PROVE  Macro!parse_items(block).errors = Wrong(block, 1)
<1> DEFINE W(i) == Wrong(block, i)
<1>1. Len(block.methods) = 1
  OBVIOUS
<1>2. Macro!parse_items(block).errors = UNION {W(i) : i \in 1..Len(block.methods)}
  BY ErrorsAreAll
<1> HIDE DEF W
<1>3. 1..Len(block.methods) = {1}
  BY <1>1
<1>4. UNION {W(i) : i \in {1}} = W(1)
  OBVIOUS
<1> QED
  BY <1>2, <1>3, <1>4 DEF W

\* What is wrong with a method that takes one of the arguments only is wrong
\* with the method.
LEMMA OneArg ==
    ASSUME NEW m, NEW skipAll, NEW k \in DOMAIN m.args,
           {"ident", "attrs", "self", "isUnsafe", "ret", "args"} \subseteq DOMAIN m
    PROVE  LET o == [m EXCEPT !.args = <<@[k]>>]
           IN /\ Macro!Skipped(o) = Macro!Skipped(m)
              /\ Macro!broadcast_attributes_on_skipped(o)
                    = Macro!broadcast_attributes_on_skipped(m)
              /\ Macro!method_mistakes(o, skipAll) \subseteq Macro!method_mistakes(m, skipAll)
<1> DEFINE o == [m EXCEPT !.args = <<@[k]>>]
<1>1. /\ o.ident = m.ident /\ o.attrs = m.attrs /\ o.self = m.self
      /\ o.isUnsafe = m.isUnsafe /\ o.ret = m.ret /\ o.args = <<m.args[k]>>
  OBVIOUS
<1> HIDE DEF o
<1>2. \A name : Macro!Marked(o, name) = Macro!Marked(m, name)
  BY <1>1 DEF Macro!Marked
<1>3. Macro!is_mutable(o) = Macro!is_mutable(m)
  BY <1>1 DEF Macro!is_mutable
<1>4. Macro!arg_mistakes(o) \subseteq Macro!arg_mistakes(m)
  <2>1. \A arg : Macro!validate_arg_type(o, arg) = Macro!validate_arg_type(m, arg)
    BY <1>1 DEF Macro!validate_arg_type
  <2>2. DOMAIN o.args = {1} /\ o.args[1] = m.args[k]
    BY <1>1
  <2> QED
    BY <2>1, <2>2 DEF Macro!arg_mistakes
<1>5. /\ Macro!superfluous_markers(o, skipAll) = Macro!superfluous_markers(m, skipAll)
      /\ Macro!validate_signature_modifiers(o) = Macro!validate_signature_modifiers(m)
      /\ Macro!validate_receiver(o) = Macro!validate_receiver(m)
      /\ Macro!validate_return_type(o) = Macro!validate_return_type(m)
  BY <1>1, <1>2, <1>3 DEF Macro!superfluous_markers, Macro!validate_signature_modifiers,
    Macro!validate_receiver, Macro!validate_return_type
<1> QED
  BY <1>1, <1>2, <1>4, <1>5 DEF Macro!Skipped, Macro!broadcast_attributes_on_skipped,
    Macro!method_mistakes, o

\* A block with nothing wrong in its arguments and type is refused for what is
\* wrong with its methods.
LEMMA ErrorsOfBlock ==
    ASSUME NEW block, Macro!args_mistakes(block.args) = {}, Macro!block_mistakes(block) = {}
    PROVE  Macro!actify(block).errors = Macro!parse_items(block).errors
  BY DEF Macro!actify, Macro!from_impl_block

\* A method by itself is refused for what is wrong with it in the block.
LEMMA AloneRefused ==
    ASSUME NEW block, IsBlock(block), NEW i \in DOMAIN block.methods,
           Macro!args_mistakes(block.args) = {}, Macro!block_mistakes(block) = {}
    PROVE  Macro!actify(OnlyMethod(block, i)).errors = Wrong(block, i)
<1> DEFINE o == OnlyMethod(block, i)
<1>1. o.args = block.args /\ o.selfTy = block.selfTy /\ o.methods = <<block.methods[i]>>
  BY DEF OnlyMethod, IsBlock
<1>2. IsBlock(o)
  <2>1. DOMAIN o = DOMAIN block
    BY DEF OnlyMethod
  <2> HIDE DEF o
  <2> QED
    BY <1>1, <2>1 DEF IsBlock, IsList
<1> HIDE DEF o
<1>3. Macro!args_mistakes(o.args) = {} /\ Macro!block_mistakes(o) = {}
  BY <1>1 DEF Macro!block_mistakes
<1>4. Macro!actify(o).errors = Wrong(o, 1)
  BY <1>1, <1>2, <1>3, ErrorsOfBlock, OneMethod
<1>5. Wrong(o, 1) = Wrong(block, i)
  BY <1>1 DEF Wrong
<1> QED
  BY <1>4, <1>5 DEF o

\* A method that is refused by itself is refused among others.
LEMMA MethodsRefused ==
    ASSUME NEW block, IsBlock(block), NEW i \in DOMAIN block.methods,
           Macro!args_mistakes(block.args) = {}, Macro!block_mistakes(block) = {}
    PROVE  Macro!actify(OnlyMethod(block, i)).errors \subseteq Macro!actify(block).errors
<1> DEFINE W(j) == Wrong(block, j)
<1>1. Macro!actify(OnlyMethod(block, i)).errors = W(i)
  BY AloneRefused
<1>2. Macro!actify(block).errors = UNION {W(j) : j \in 1..Len(block.methods)}
  BY ErrorsOfBlock, ErrorsAreAll
<1>3. i \in 1..Len(block.methods)
  BY DEF IsBlock, IsList
<1> HIDE DEF W
<1> QED
  BY <1>1, <1>2, <1>3

\* So is an argument.
LEMMA ArgsRefused ==
    ASSUME NEW block, IsBlock(block), NEW i \in DOMAIN block.methods,
           NEW k \in DOMAIN block.methods[i].args,
           Macro!args_mistakes(block.args) = {}, Macro!block_mistakes(block) = {}
    PROVE  Macro!actify(OnlyArg(block, i, k)).errors \subseteq Macro!actify(block).errors
<1> DEFINE m == block.methods[i]
           om == [m EXCEPT !.args = <<@[k]>>]
           o == OnlyArg(block, i, k)
           W(j) == Wrong(block, j)
<1>1. o.args = block.args /\ o.selfTy = block.selfTy /\ o.methods = <<om>>
  BY DEF OnlyArg, OnlyMethod, IsBlock
<1>2. IsBlock(o)
  <2>1. DOMAIN o = DOMAIN block /\ DOMAIN om = DOMAIN m
    BY DEF OnlyArg, OnlyMethod
  <2>2. {"ident", "attrs", "self", "isUnsafe", "ret", "args"} \subseteq DOMAIN m
    BY DEF IsBlock
  <2> HIDE DEF o, om, m
  <2> QED
    BY <1>1, <2>1, <2>2 DEF IsBlock, IsList
<1> HIDE DEF o
<1>3. Macro!args_mistakes(o.args) = {} /\ Macro!block_mistakes(o) = {}
  BY <1>1 DEF Macro!block_mistakes
<1>4. Macro!actify(o).errors = Wrong(o, 1)
  BY <1>1, <1>2, <1>3, ErrorsOfBlock, OneMethod
<1>5. Wrong(o, 1) \subseteq W(i)
  <2>1. {"ident", "attrs", "self", "isUnsafe", "ret", "args"} \subseteq DOMAIN m
    BY DEF IsBlock
  <2>2. o.methods[1] = om
    BY <1>1
  <2>3. /\ Macro!Skipped(om) = Macro!Skipped(m)
        /\ Macro!broadcast_attributes_on_skipped(om) = Macro!broadcast_attributes_on_skipped(m)
        /\ Macro!method_mistakes(om, Macro!skip_broadcast(block.args))
              \subseteq Macro!method_mistakes(m, Macro!skip_broadcast(block.args))
    BY <2>1, OneArg
  <2> HIDE DEF om
  <2> QED
    BY <1>1, <2>2, <2>3 DEF Wrong
<1>6. Macro!actify(block).errors = UNION {W(j) : j \in 1..Len(block.methods)}
  BY ErrorsOfBlock, ErrorsAreAll
<1>7. i \in 1..Len(block.methods)
  BY DEF IsBlock, IsList
<1> HIDE DEF W
<1> QED
  BY <1>4, <1>5, <1>6, <1>7 DEF o

\* A block with no mistakes: nothing is wrong with any part of it, and its
\* trait has what the pass over its methods kept.
LEMMA Accepted ==
    ASSUME NEW block, IsBlock(block), Macro!actify(block).errors = {}
    PROVE  LET methods == Macro!parse_items(block).methods
               trait == Macro!actify(block).trait
           IN /\ Macro!parse_items(block).errors = {}
              /\ trait = [i \in DOMAIN methods |->
                             Macro!generate_method(methods[i], Macro!skip_broadcast(block.args))]
<1>1. Macro!args_mistakes(block.args) = {} /\ Macro!from_impl_block(block).errors = {}
  BY DEF Macro!actify
<1>2. Macro!block_mistakes(block) = {}
  BY <1>1 DEF Macro!from_impl_block
<1>3. Macro!from_impl_block(block) = Macro!parse_items(block)
  BY <1>2 DEF Macro!from_impl_block
<1> QED
  BY <1>1, <1>3 DEF Macro!actify

\* What the expansion is of.
Expanded ==
    /\ program \in Programs
    /\ phase # "compiling" =>
          /\ expansion = Macro!actify(program.block)
          /\ phase = "running" <=> expansion.errors = {}

\* It is made once.
LEMMA ExpandedStep ==
    ASSUME Expanded, [Next]_vars
    PROVE  Expanded'
<1>1. CASE Compile
  BY <1>1 DEF Compile, Expanded
<1>2. CASE UNCHANGED <<program, phase, expansion>>
  BY <1>2 DEF Expanded
<1>3. Compile \/ UNCHANGED <<program, phase, expansion>>
  BY DEF Next, vars, Pass, Fail, TakeJob, Run, RunPlain, RunGet, RunMethod
<1> QED
  BY <1>1, <1>2, <1>3

\* Every mistake is reported, and no method is lost.
LEMMA Completeness ==
    ASSUME Expanded
    PROVE  ExpansionIsComplete
<1> DEFINE block == program.block
<1>1. IsBlock(block)
  BY ProgramsAssumption DEF Expanded
<1> SUFFICES ASSUME phase # "compiling"
             PROVE  ExpansionIsComplete
  BY DEF ExpansionIsComplete
<1>2. expansion = Macro!actify(block)
  BY DEF Expanded
<1>3. CASE phase = "running"
  <2> DEFINE n == Len(block.methods)
             methods == Macro!parse_items(block).methods
             skipAll == Macro!skip_broadcast(block.args)
  <2>1. Macro!actify(block).errors = {}
    BY <1>2, <1>3 DEF Expanded
  <2>2. /\ Macro!parse_items(block).errors = {}
        /\ expansion.trait = [i \in DOMAIN methods |-> Macro!generate_method(methods[i], skipAll)]
    BY <1>1, <1>2, <2>1, Accepted
  <2>3. /\ Len(methods) = Cardinality(Unskipped(block, n))
        /\ DOMAIN methods = 1..Len(methods)
        /\ \A i \in Unskipped(block, n) :
              /\ Cardinality(Unskipped(block, i)) \in DOMAIN methods
              /\ methods[Cardinality(Unskipped(block, i))] = block.methods[i]
    BY <1>1, <2>2, MethodsAreKept
  <2>4. Cardinality(Unskipped(block, n)) \in Nat
    BY <1>1, UnskippedGrows DEF IsBlock, IsList
  <2>5. Len(expansion.trait) = Cardinality(Unskipped(block, n))
    <3> HIDE DEF methods, skipAll, n
    <3> QED
      BY <2>2, <2>3, <2>4
  <2>6. ASSUME NEW i \in Unskipped(block, n)
        PROVE  expansion.trait[Cardinality(Unskipped(block, i))].ident = block.methods[i].ident
    <3>1. \A m : Macro!generate_method(m, skipAll).ident = m.ident
      BY DEF Macro!generate_method
    <3> HIDE DEF methods, skipAll, n
    <3> QED
      BY <2>2, <2>3, <2>6, <3>1
  <2> QED
    BY <1>3, <2>5, <2>6 DEF ExpansionIsComplete, Unskipped
<1>4. CASE phase # "running"
  <2> SUFFICES ASSUME Macro!args_mistakes(block.args) = {}, Macro!block_mistakes(block) = {},
                      NEW i \in DOMAIN block.methods
               PROVE  /\ Macro!actify(OnlyMethod(block, i)).errors \subseteq expansion.errors
                      /\ \A k \in DOMAIN block.methods[i].args :
                            Macro!actify(OnlyArg(block, i, k)).errors \subseteq expansion.errors
    BY <1>4 DEF ExpansionIsComplete
  <2>1. Macro!actify(OnlyMethod(block, i)).errors \subseteq expansion.errors
    BY <1>1, <1>2, MethodsRefused
  <2>2. ASSUME NEW k \in DOMAIN block.methods[i].args
        PROVE  Macro!actify(OnlyArg(block, i, k)).errors \subseteq expansion.errors
    BY <1>1, <1>2, ArgsRefused
  <2> QED
    BY <2>1, <2>2
<1> QED
  BY <1>3, <1>4

\* One compile reports every mistake, and a block without any gets a handle
\* method for each method that is not skipped (parse.rs:63).
THEOREM ExpansionsAreComplete == Spec => []ExpansionIsComplete
<1>1. Init => Expanded
  BY DEF Init, Expanded
<1>2. Expanded /\ [Next]_vars => Expanded'
  BY ExpandedStep
<1>3. Expanded => ExpansionIsComplete
  BY Completeness
<1> QED
  BY <1>1, <1>2, <1>3, PTL DEF Spec

\* A method that is not skipped is told of a marker that decides nothing, and of
\* nothing else in these words.
LEMMA MarkersReported ==
    ASSUME NEW m, NEW skipAll \in BOOLEAN, NEW name \in {"broadcast", "skip_broadcast"},
           NEW why \in {"superfluous", "skipped"}
    PROVE  Macro!Mistake(m.ident, <<why, name>>) \in Macro!method_mistakes(m, skipAll)
              <=> /\ why = "superfluous" /\ Macro!Marked(m, name)
                  /\ IF name = "broadcast" THEN ~skipAll /\ Macro!is_mutable(m)
                                           ELSE skipAll \/ ~Macro!is_mutable(m)
<1> DEFINE e == Macro!Mistake(m.ident, <<why, name>>)
<1>1. e.what = <<why, name>> /\ e.what[1] = why
  BY DEF Macro!Mistake
<1>2. e \notin Macro!validate_signature_modifiers(m)
  BY <1>1 DEF Macro!validate_signature_modifiers, Macro!Mistakes, Macro!Mistake
<1>3. e \notin Macro!validate_receiver(m)
  BY <1>1 DEF Macro!validate_receiver, Macro!Mistakes, Macro!Mistake
<1>4. e \notin Macro!validate_return_type(m)
  BY <1>1 DEF Macro!validate_return_type, Macro!Mistakes, Macro!Mistake
<1>5. e \notin Macro!arg_mistakes(m)
  <2>1. \A arg : e \notin Macro!validate_arg_type(m, arg)
    BY <1>1 DEF Macro!validate_arg_type, Macro!Mistakes, Macro!Mistake
  <2> HIDE DEF e
  <2> QED
    BY <2>1 DEF Macro!arg_mistakes
<1>6. e \in Macro!superfluous_markers(m, skipAll)
         <=> /\ why = "superfluous" /\ Macro!Marked(m, name)
             /\ IF name = "broadcast" THEN ~skipAll /\ Macro!is_mutable(m)
                                      ELSE skipAll \/ ~Macro!is_mutable(m)
  <2>1. \A x \in Macro!superfluous_markers(m, skipAll) :
            \/ /\ x = Macro!Mistake(m.ident, <<"superfluous", "broadcast">>)
               /\ Macro!Marked(m, "broadcast") /\ ~skipAll /\ Macro!is_mutable(m)
            \/ /\ x = Macro!Mistake(m.ident, <<"superfluous", "skip_broadcast">>)
               /\ Macro!Marked(m, "skip_broadcast") /\ (skipAll \/ ~Macro!is_mutable(m))
    BY DEF Macro!superfluous_markers, Macro!Mistakes
  <2>2. \A n \in {"broadcast", "skip_broadcast"} :
            e = Macro!Mistake(m.ident, <<"superfluous", n>>) => why = "superfluous" /\ name = n
    BY <1>1 DEF Macro!Mistake
  <2>3. ASSUME e \in Macro!superfluous_markers(m, skipAll)
        PROVE  /\ why = "superfluous" /\ Macro!Marked(m, name)
               /\ IF name = "broadcast" THEN ~skipAll /\ Macro!is_mutable(m)
                                        ELSE skipAll \/ ~Macro!is_mutable(m)
    <3> HIDE DEF e
    <3> QED
      BY <2>1, <2>2, <2>3
  <2>4. ASSUME why = "superfluous", Macro!Marked(m, name),
               IF name = "broadcast" THEN ~skipAll /\ Macro!is_mutable(m)
                                     ELSE skipAll \/ ~Macro!is_mutable(m)
        PROVE  e \in Macro!superfluous_markers(m, skipAll)
    BY <2>4 DEF Macro!superfluous_markers, Macro!Mistakes
  <2> QED
    BY <2>3, <2>4
<1> QED
  BY <1>2, <1>3, <1>4, <1>5, <1>6 DEF Macro!method_mistakes

\* What a method without the marker is.
LEMMA WithoutMarker ==
    ASSUME NEW m, {"attrs", "self"} \subseteq DOMAIN m,
           NEW name \in {"broadcast", "skip_broadcast"}
    PROVE  LET o == Without(m, name)
           IN /\ ~Macro!Marked(o, name) /\ Macro!is_mutable(o) = Macro!is_mutable(m)
              /\ \A n \in {"broadcast", "skip_broadcast"} \ {name} :
                    Macro!Marked(o, n) = Macro!Marked(m, n)
<1> DEFINE o == Without(m, name)
<1>1. o.self = m.self /\ o.attrs = m.attrs \ {<<name>>, <<"actify", name>>}
  BY DEF Without
<1> HIDE DEF o
<1>2. ~Macro!Marked(o, name) /\ Macro!is_mutable(o) = Macro!is_mutable(m)
  BY <1>1 DEF Macro!Marked, Macro!find_marker_attribute, Macro!is_mutable
<1>3. ASSUME NEW n \in {"broadcast", "skip_broadcast"} \ {name}
      PROVE  Macro!Marked(o, n) = Macro!Marked(m, n)
  <2>1. <<n>> \notin {<<name>>, <<"actify", name>>}
        /\ <<"actify", n>> \notin {<<name>>, <<"actify", name>>}
    OBVIOUS
  <2> QED
    BY <1>1, <2>1 DEF Macro!Marked, Macro!find_marker_attribute
<1> QED
  BY <1>2, <1>3 DEF o

\* A marker decides or is reported.
LEMMA MarkersCount ==
    ASSUME program \in Programs
    PROVE  MarkersDecide
<1> DEFINE block == program.block
           skipAll == Macro!skip_broadcast(block.args)
<1>1. IsBlock(block)
  BY ProgramsAssumption
<1> SUFFICES ASSUME Macro!args_mistakes(block.args) = {}, Macro!block_mistakes(block) = {},
                    NEW i \in DOMAIN block.methods,
                    NEW name \in {"broadcast", "skip_broadcast"},
                    Macro!Marked(block.methods[i], name)
             PROVE  LET m == block.methods[i]
                    IN (/\ ~Macro!Skipped(m)
                        /\ Macro!broadcasts(m, skipAll)
                              # Macro!broadcasts(Without(m, name), skipAll))
                       <=> {Macro!Mistake(m.ident, <<why, name>>) :
                               why \in {"superfluous", "skipped"}}
                             \cap Macro!actify(OnlyMethod(block, i)).errors = {}
  BY DEF MarkersDecide
<1> DEFINE m == block.methods[i]
           o == Without(m, name)
           errors == Macro!actify(OnlyMethod(block, i)).errors
           Told(why) == Macro!Mistake(m.ident, <<why, name>>) \in errors
<1>2. errors = Wrong(block, i)
  BY <1>1, AloneRefused
<1>3. {"attrs", "self"} \subseteq DOMAIN m
  BY <1>1 DEF IsBlock
<1>4. CASE Macro!Skipped(m)
  <2>1. Told("skipped")
    BY <1>2, <1>4 DEF Wrong, Macro!broadcast_attributes_on_skipped, Macro!Mistakes
  <2> QED
    BY <1>4, <2>1
<1>5. CASE ~Macro!Skipped(m)
  <2>1. skipAll \in BOOLEAN
    BY DEF Macro!skip_broadcast
  <2>2. errors = Macro!method_mistakes(m, skipAll)
    BY <1>2, <1>5 DEF Wrong
  <2>3. /\ ~Told("skipped")
        /\ Told("superfluous") <=> IF name = "broadcast" THEN ~skipAll /\ Macro!is_mutable(m)
                                   ELSE skipAll \/ ~Macro!is_mutable(m)
    <3> HIDE DEF skipAll, m, errors
    <3> QED
      BY <2>1, <2>2, MarkersReported DEF m
  <2>4. /\ ~Macro!Marked(o, name) /\ Macro!is_mutable(o) = Macro!is_mutable(m)
        /\ \A n \in {"broadcast", "skip_broadcast"} \ {name} :
              Macro!Marked(o, n) = Macro!Marked(m, n)
    BY <1>3, WithoutMarker
  <2>5. Macro!broadcasts(m, skipAll) # Macro!broadcasts(o, skipAll)
           <=> ~(IF name = "broadcast" THEN ~skipAll /\ Macro!is_mutable(m)
                 ELSE skipAll \/ ~Macro!is_mutable(m))
    <3> HIDE DEF skipAll, o
    <3> QED
      BY <2>1, <2>4 DEF Macro!broadcasts
  <2> QED
    BY <1>5, <2>3, <2>5
<1> QED
  BY <1>4, <1>5

\* No marker is overridden in silence, and none that decides is called
\* superfluous (parse.rs:102, 167-200).
THEOREM MarkersAreDecisive == Spec => []MarkersDecide
<1>1. Init => program \in Programs
  BY DEF Init
<1>2. program \in Programs /\ [Next]_vars => (program \in Programs)'
  BY DEF Next, vars, Compile, Pass, Fail, TakeJob, Run, RunPlain, RunGet, RunMethod
<1>3. program \in Programs => MarkersDecide
  BY MarkersCount
<1> QED
  BY <1>1, <1>2, <1>3, PTL DEF Spec

-----------------------------------------------------------------------------
(* Collections. *)

\* The methods of a collection call nobody.
CallsNobody == program.kind \in Collections => \A a \in Actors : waits[a] = Nobody

\* Clients come and go, and no step of a collection makes it wait.
LEMMA CallsNobodyStep ==
    ASSUME IndInv, CallsNobody, [Next]_vars
    PROVE  CallsNobody'
<1> SUFFICES ASSUME program.kind \in Collections, UNCHANGED program,
                    \A b \in Actors : waits[b] = Nobody, NEW a \in Actors
             PROVE  waits'[a] = Nobody
  BY DEF CallsNobody, Next, vars, Compile, Pass, Fail, TakeJob, Run, RunPlain, RunGet, RunMethod
<1>1. waits \in [Requesters -> Actors \cup {Nobody}] /\ a \in Requesters
  BY DEF IndInv, SystemTypeOK, Requesters
<1>2. \A c \in Clients : c \notin Actors
  BY RequestersAssumption
<1>3. program.kind # "plain"
  BY DEF Collections
<1>4. CASE Compile \/ UNCHANGED vars
  BY <1>4 DEF Compile, vars, systemVars
<1>5. CASE Pass
  BY <1>1, <1>2, <1>3, <1>5 DEF Pass, Request, GiveUp, Send
<1>6. CASE Fail
  BY <1>1, <1>2, <1>6 DEF Fail, FailsActor, FailsClient, Die
<1>7. ASSUME NEW b \in Actors, TakeJob(b) \/ Run(b)
      PROVE  waits'[a] = Nobody
  <2>1. Take(b) \/ Finish(b) \/ Panic(b)
    BY <1>7 DEF TakeJob, Run, RunPlain, RunGet, RunMethod
  <2> QED
    BY <1>1, <2>1 DEF Take, Finish, Respond, Panic, Die
<1> QED
  BY <1>4, <1>5, <1>6, <1>7 DEF Next

\* The actor of a collection dies of a call that was right for what its client
\* had seen only if the value has changed since (vec.rs, "# Panics").
LEMMA DeathStep ==
    ASSUME IndInv, CallsNobody, [Next]_vars, NEW a \in alive \ alive',
           program.kind \in Collections,
           seen[serving[a].by] # Unseen
    PROVE  seen[serving[a].by] # value[a]
<1>1. alive \subseteq Actors /\ a \in Actors
  BY DEF IndInv, SystemTypeOK
<1>2. program.kind # "plain"
  BY DEF Collections
<1>3. \A b \in Actors : waits[b] = Nobody /\ Nobody \notin Actors
  BY RequestersAssumption DEF CallsNobody, Requesters
<1>4. Panic(a)
  <2>1. CASE Compile \/ UNCHANGED vars
    BY <2>1 DEF Compile, vars, systemVars
  <2>2. CASE Pass
    BY <1>2, <2>2 DEF Pass, Request, GiveUp
  <2>3. CASE Fail
    BY <1>3, <2>3 DEF Fail, FailsActor, FailsClient
  <2>4. ASSUME NEW b \in Actors, TakeJob(b) \/ Run(b)
        PROVE  Panic(a)
    <3>1. Take(b) \/ Finish(b) \/ Panic(b)
      BY <2>4 DEF TakeJob, Run, RunPlain, RunGet, RunMethod
    <3> QED
      BY <3>1 DEF Take, Finish, Respond, Panic, Die
  <2> QED
    BY <2>1, <2>2, <2>3, <2>4 DEF Next
<1>5. PICK call \in Chosen(serving[a].by) : Apply(call, value[a]).panics
  <2>1. PICK b \in Actors : Run(b)
    <3>1. alive' # alive
      BY <1>1
    <3>2. ~Compile /\ ~UNCHANGED vars
      BY <3>1 DEF Compile, vars, systemVars
    <3>3. ~Pass
      BY <1>2, <3>1 DEF Pass, Request, GiveUp
    <3>4. ~Fail
      BY <1>3, <3>1 DEF Fail, FailsActor, FailsClient
    <3>5. \A b \in Actors : ~TakeJob(b)
      BY <3>1 DEF TakeJob, Take
    <3> QED
      BY <3>2, <3>3, <3>4, <3>5 DEF Next
  <2>2. RunMethod(b)
    <3>1. ~RunPlain(b)
      BY <1>2 DEF RunPlain
    <3>2. ~RunGet(b)
      BY DEF RunGet, Finish, Respond
    <3> QED
      BY <2>1, <3>1, <3>2 DEF Run
  <2>3. PICK call \in Chosen(serving[b].by) :
            IF Apply(call, value[b]).panics THEN Panic(b) ELSE Finish(b)
    BY <2>2 DEF RunMethod
  <2>4. Apply(call, value[b]).panics /\ Panic(b)
    BY <2>3 DEF Finish, Respond
  <2>5. a = b
    BY <2>4 DEF Panic, Die
  <2> QED
    BY <2>3, <2>4, <2>5
<1>6. Unsafe(call, value[a])
  <2>1. program.kind \in Kinds /\ call \in ProgramCalls[program.kind]
    BY <1>5 DEF Chosen, Kinds
  <2>2. call.m \in DOMAIN TraitOf[program.kind]
    BY <2>1, ValuesAssumption DEF IsCall
  <2> QED
    BY <1>5, <2>2, PanicsAreDocumented
<1> QED
  BY <1>5, <1>6 DEF Chosen

\* Two clients that look first are the only way a collection's actor dies of
\* its methods: "# Panics" names every one of them.
THEOREM LookingFirstIsSafe == Spec => CheckedCallIsSafe
<1> DEFINE Safe == \A a \in alive \ alive' :
                      program.kind \in Collections =>
                          LET c == serving[a].by
                          IN seen[c] = Unseen \/ seen[c] # value[a]
<1>1. Init => CallsNobody
  BY DEF Init, SystemInit, CallsNobody, Requesters
<1>2. IndInv /\ CallsNobody /\ [Next]_vars => CallsNobody'
  BY CallsNobodyStep
<1>3. IndInv /\ CallsNobody /\ [Next]_vars => [Safe]_vars
  BY DeathStep
<1> QED
  BY <1>1, <1>2, <1>3, ImplementsSystem, Inductive, PTL DEF Spec, CheckedCallIsSafe

\* So no method that takes &self changes a collection.
LEMMA ReadsLeaveAlone ==
    ASSUME NEW v, program.kind \in Collections, NEW call,
           call.m \in DOMAIN TraitOf[program.kind], TraitOf[program.kind][call.m].self = "ref"
    PROVE  Apply(call, v).new = v
<1>1. CASE program.kind = "Vec"
  BY <1>1, VecReads DEF TraitOf, Apply
<1>2. CASE program.kind = "VecDeque"
  BY <1>2, VecDequeReads DEF TraitOf, Apply
<1>3. CASE program.kind = "HashMap"
  BY <1>3, MapReads DEF TraitOf, Apply
<1>4. CASE program.kind = "HashSet"
  BY <1>4, SetReads DEF TraitOf, Apply
<1>5. CASE program.kind = "Option"
  BY <1>5, OptionReads DEF TraitOf, Apply
<1>6. CASE program.kind = "String"
  BY <1>6, StringReads DEF TraitOf, Apply
<1> QED
  BY <1>1, <1>2, <1>3, <1>4, <1>5, <1>6 DEF Collections

\* In a program that was expanded, a method that takes &mut self broadcasts.
LEMMA WritersAnnounce ==
    ASSUME Expanded, phase = "running", program.kind \in Collections,
           NEW m \in DOMAIN TraitOf[program.kind], TraitOf[program.kind][m].self # "ref"
    PROVE  Announces(m)
<1> DEFINE block == program.block
           n == Len(block.methods)
           methods == Macro!parse_items(block).methods
           skipAll == Macro!skip_broadcast(block.args)
<1>1. IsBlock(block) /\ IsBlockOf(TraitOf[program.kind], block)
  BY ProgramsAssumption DEF Expanded
<1>2. Macro!actify(block).errors = {} /\ expansion = Macro!actify(block)
  BY DEF Expanded
<1>3. /\ Macro!parse_items(block).errors = {}
      /\ expansion.trait = [i \in DOMAIN methods |-> Macro!generate_method(methods[i], skipAll)]
  BY <1>1, <1>2, Accepted
<1>4. ~skipAll
  BY <1>1 DEF IsBlockOf
<1>5. PICK i \in DOMAIN block.methods :
          /\ block.methods[i].ident = m /\ block.methods[i].self = "&mut self"
          /\ ~Macro!Marked(block.methods[i], "skip")
          /\ ~Macro!Marked(block.methods[i], "skip_broadcast")
  BY <1>1 DEF IsBlockOf
<1>6. i \in Unskipped(block, n)
  BY <1>1, <1>5 DEF Unskipped, Macro!Skipped, IsBlock, IsList
<1>7. PICK k \in DOMAIN methods : methods[k] = block.methods[i]
  BY <1>1, <1>3, <1>6, MethodsAreKept
<1>8. expansion.trait[k] = Macro!generate_method(block.methods[i], skipAll)
      /\ k \in DOMAIN expansion.trait
  <2> HIDE DEF methods, skipAll
  <2> QED
    BY <1>3, <1>7
<1>9. LET g == Macro!generate_method(block.methods[i], skipAll)
      IN g.ident = m /\ g.broadcasts
  BY <1>4, <1>5 DEF Macro!generate_method, Macro!broadcasts, Macro!is_mutable
<1> QED
  BY <1>8, <1>9 DEF Announces

\* What was broadcast last of each actor is what it holds.
Mirrored == shown = value /\ value = [a \in Actors |-> value[a]]

\* A call either changes nothing or is broadcast.
LEMMA MirroredStep ==
    ASSUME Expanded, Mirrored, [Next]_vars
    PROVE  Mirrored'
<1>1. CASE UNCHANGED <<value, shown>>
  BY <1>1 DEF Mirrored
<1>2. ASSUME NEW a \in Actors, RunMethod(a), ~UNCHANGED dataVars
      PROVE  Mirrored'
  <2>1. PICK call \in ProgramCalls[program.kind] : LET o == Apply(call, value[a])
                       IN /\ value' = [value EXCEPT ![a] = o.new]
                          /\ shown' = Shown(a, call, o)
    BY <1>2 DEF RunMethod, Chosen
  <2>2. phase = "running" /\ program.kind \in Collections
    BY <1>2 DEF RunMethod
  <2>3. IsCall(program.kind, call)
    BY <2>2, ValuesAssumption DEF Kinds
  <2>4. call.m \in DOMAIN TraitOf[program.kind]
    BY <2>3 DEF IsCall
  <2> DEFINE new == Apply(call, value[a]).new
  <2>5. CASE Announces(call.m)
    <3>1. shown' = [shown EXCEPT ![a] = new]
      BY <2>1, <2>5 DEF Shown
    <3> HIDE DEF new
    <3> QED
      BY <2>1, <3>1 DEF Mirrored, new
  <2>6. CASE ~Announces(call.m)
    <3>1. new = value[a]
      BY <2>2, <2>4, <2>6, WritersAnnounce, ReadsLeaveAlone
    <3>2. shown' = shown
      BY <2>1, <2>6 DEF Shown
    <3> HIDE DEF new
    <3> QED
      BY <2>1, <3>1, <3>2 DEF Mirrored, new
  <2> QED
    BY <2>5, <2>6
<1>3. UNCHANGED <<value, shown>> \/ \E a \in Actors : RunMethod(a) /\ ~UNCHANGED dataVars
  BY DEF Next, vars, dataVars, Compile, Pass, Fail, TakeJob, Run, RunPlain, RunGet
<1> QED
  BY <1>1, <1>2, <1>3

\* No method of a collection changes it without a broadcast of what it became.
THEOREM MirrorsAreCurrent == Spec => []MirrorIsCurrent
<1>1. Init => Expanded /\ Mirrored
  BY DEF Init, Expanded, Mirrored
<1>2. Expanded /\ Mirrored /\ [Next]_vars => (Expanded /\ Mirrored)'
  BY ExpandedStep, MirroredStep
<1>3. Mirrored => MirrorIsCurrent
  BY DEF Mirrored, MirrorIsCurrent
<1> QED
  BY <1>1, <1>2, <1>3, PTL DEF Spec

\* A ledger holds what its actor holds.
Balanced ==
    /\ program \in Programs
    /\ value = [a \in Actors |-> value[a]] /\ ledger = [a \in Actors |-> ledger[a]]
    /\ \A a \in Actors :
          /\ program.kind \in Collections => IsValue(program.kind, value[a])
          /\ BagOf(Items(value[a])) = ledger[a]

\* No step but a call changes the value or the ledger, and a call balances.
LEMMA BalancedStep ==
    ASSUME Balanced, [Next]_vars
    PROVE  Balanced'
<1>1. UNCHANGED program
  BY DEF Next, vars, Compile, Pass, Fail, TakeJob, Run, RunPlain, RunGet, RunMethod
<1>2. CASE UNCHANGED <<value, ledger>>
  <2>1. \A a \in Actors : value'[a] = value[a] /\ ledger'[a] = ledger[a]
    BY <1>2
  <2>2. ASSUME NEW a \in Actors
        PROVE  (BagOf(Items(value[a])) = ledger[a])'
    <3>1. Items(value[a])' = Items(value'[a])
      BY <1>1 DEF Items
    <3>2. BagOf(Items(value'[a])) = ledger'[a]
      BY <2>1 DEF Balanced
    <3> QED
      BY <3>1, <3>2 DEF BagOf
  <2> QED
    BY <1>1, <1>2, <2>2 DEF Balanced
<1>3. ASSUME NEW a \in Actors, RunMethod(a), ~UNCHANGED dataVars
      PROVE  Balanced'
  <2>1. PICK call \in ProgramCalls[program.kind] :
            /\ ~Apply(call, value[a]).panics
            /\ value' = [value EXCEPT ![a] = Apply(call, value[a]).new]
            /\ ledger' = [ledger EXCEPT ![a] = Rest(call, Apply(call, value[a]), ledger[a])]
    BY <1>3 DEF RunMethod, Chosen
  <2>2. program.kind \in Collections
    BY <1>3 DEF RunMethod
  <2>3. IsCall(program.kind, call)
    BY <2>2, ValuesAssumption DEF Kinds
  <2>4. PICK o : o = Apply(call, value[a])
    OBVIOUS
  <2>5. IsValue(program.kind, value[a]) /\ BagOf(Items(value[a])) = ledger[a]
    BY <2>2 DEF Balanced
  <2>6. Balances(call, o, value[a])
    BY <2>1, <2>2, <2>3, <2>4, <2>5, CallBalances
  <2>7. IsValue(program.kind, o.new) /\ Rest(call, o, ledger[a]) = BagOf(Items(o.new))
    BY <2>5, <2>6 DEF Balances
  <2>8. /\ value' = [b \in Actors |-> IF b = a THEN o.new ELSE value[b]]
        /\ ledger' = [b \in Actors |-> IF b = a THEN Rest(call, o, ledger[a]) ELSE ledger[b]]
    BY <2>1, <2>4 DEF Balanced
  <2>9. ASSUME NEW b \in Actors
        PROVE  IsValue(program.kind, value'[b]) /\ BagOf(Items(value'[b])) = ledger'[b]
    BY <2>2, <2>7, <2>8 DEF Balanced
  <2>10. ASSUME NEW b \in Actors
         PROVE  (BagOf(Items(value[b])) = ledger[b])'
    <3>1. Items(value[b])' = Items(value'[b])
      BY <1>1 DEF Items
    <3> QED
      BY <2>9, <3>1 DEF BagOf
  <2>11. \A b \in Actors : IsValue(program.kind, value[b])'
    BY <1>1, <2>9
  <2>12. (/\ program \in Programs /\ value = [b \in Actors |-> value[b]]
          /\ ledger = [b \in Actors |-> ledger[b]])'
    BY <1>1, <2>8 DEF Balanced
  <2> QED
    BY <2>10, <2>11, <2>12 DEF Balanced
<1>4. UNCHANGED <<value, ledger>> \/ \E a \in Actors : RunMethod(a) /\ ~UNCHANGED dataVars
  BY DEF Next, vars, dataVars, Compile, Pass, Fail, TakeJob, Run, RunPlain, RunGet
<1> QED
  BY <1>2, <1>3, <1>4

\* What clients give a collection is in it until it is handed back or dropped on
\* purpose, whose calls ever came in between.
THEOREM LedgersBalance == Spec => []LedgerBalances
<1>1. Init => Balanced
  BY ValuesAssumption, ProgramsAssumption DEF Init, Balanced, Kinds
<1>2. Balanced /\ [Next]_vars => Balanced'
  BY BalancedStep
<1>3. IndInv /\ Balanced => LedgerBalances
  BY DEF IndInv, SystemTypeOK, Balanced, LedgerBalances
<1> QED
  BY <1>1, <1>2, <1>3, ImplementsSystem, Inductive, PTL DEF Spec
=============================================================================
