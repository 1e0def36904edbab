------------------------------ MODULE Program ------------------------------
(***************************************************************************)
(* A program that uses actify: an impl block with #[actify] is expanded,   *)
(* and if nothing in it is refused, actors of that type run and clients    *)
(* call them (ActorSystem).                                                *)
(*                                                                         *)
(* The actors of a program are all of one kind: a standard collection with *)
(* the methods of its extension trait, or "plain": methods that do nothing *)
(* but call other actors, return or panic.  A client of a collection does  *)
(* what callers of such methods do: it looks at the value (get, with its   *)
(* odd calls) and then makes a call that is right for the value it has     *)
(* seen (its even calls); a client that gave up looking makes any call.    *)
(***************************************************************************)
EXTENDS ActorSystem

CONSTANTS
    Programs,                     \* records [block, kind, graph]
    Elements,                     \* what a sequence or Option may hold, by kind
    Start,                        \* the first value, by kind
    ProgramCalls,                 \* the calls clients make, by kind
    Default, Width, Upper, Lower, Blank    \* of OptionExt and StringExt

Macro == INSTANCE ActifyMacro
Vec == INSTANCE VecExt
VecDeque == INSTANCE VecDequeExt
HashMap == INSTANCE HashMapExt
HashSet == INSTANCE HashSetExt
Option == INSTANCE OptionExt
String == INSTANCE StringExt

Collections == {"Vec", "VecDeque", "HashMap", "HashSet", "Option", "String"}
Kinds == Collections \cup {"plain"}

\* The methods that clients of a collection call.
TraitOf ==
    [Vec |-> Vec!ActorVec, VecDeque |-> VecDeque!ActorVecDeque,
     HashMap |-> HashMap!ActorMap, HashSet |-> HashSet!ActorSet,
     Option |-> Option!ActorOption, String |-> String!ActorString]

\* A block is a list of methods, and the block a trait was written in has each of
\* its methods, with its receiver and unmarked.
IsList(s) == Len(s) \in Nat /\ s = [i \in 1..Len(s) |-> s[i]]
IsBlock(block) ==
    /\ {"args", "selfTy", "attrs", "methods"} \subseteq DOMAIN block /\ IsList(block.methods)
    /\ \A i \in DOMAIN block.methods :
          {"ident", "attrs", "self", "isUnsafe", "ret", "args"} \subseteq DOMAIN block.methods[i]
IsBlockOf(trait, block) ==
    /\ ~Macro!skip_broadcast(block.args)
    /\ \A m \in DOMAIN trait : \E i \in DOMAIN block.methods :
          LET it == block.methods[i]
          IN /\ it.ident = m
             /\ it.self = IF trait[m].self = "ref" THEN "&self" ELSE "&mut self"
             /\ \A marker \in {"skip", "broadcast", "skip_broadcast"} :
                    ~Macro!Marked(it, marker)

\* A value of a collection, and a call of one of its methods.
IsValue(kind, v) ==
    CASE kind = "HashMap" -> /\ IsFiniteSet(DOMAIN v)
                             /\ v = [k \in DOMAIN v |-> HashMap!Slot(v[k])]
      [] kind = "HashSet" -> IsFiniteSet(DOMAIN v) /\ v = [k \in DOMAIN v |-> v[k]]
      [] kind = "plain" -> v = <<>>
      [] OTHER -> v \in Seq(Elements[kind])
IsItem(kind, x) ==
    CASE kind = "HashMap" -> x = HashMap!Entry(x.key, HashMap!Slot(x))
      [] kind = "HashSet" -> x = HashSet!Element(x.key, x.tag)
      [] OTHER -> x \in Elements[kind]
IsCall(kind, call) ==
    /\ call.m \in DOMAIN TraitOf[kind]
    /\ call.i \in Nat /\ call.j \in Nat
    /\ IsList(call.items) /\ \A i \in DOMAIN call.items : IsItem(kind, call.items[i])
    /\ LET takes == TraitOf[kind][call.m].takes
       IN /\ "item" \in takes => Len(call.items) = 1
          /\ "edit" \in takes /\ kind \notin {"HashMap", "HashSet"} =>
                \A x \in Elements[kind] : call.edit[x] \in Elements[kind]

ASSUME ProgramsAssumption ==
    \A p \in Programs :
        /\ p.kind \in Kinds /\ p.graph \in Graphs /\ IsBlock(p.block)
        /\ p.kind \in Collections => IsBlockOf(TraitOf[p.kind], p.block)
ASSUME ElementsAssumption ==
    /\ Elements["Vec"] \subseteq Int /\ Elements["VecDeque"] \subseteq Int
    /\ \A c \in Elements["String"] : Width[c] \in Nat
ASSUME ValuesAssumption ==
    \A kind \in Kinds :
        /\ IsValue(kind, Start[kind])
        /\ kind \in Collections => \A call \in ProgramCalls[kind] : IsCall(kind, call)

VARIABLES
    program,    \* the program under study
    phase,      \* "compiling", "running" or "refused"
    expansion,  \* what the macro made of the block
    value,      \* what each actor holds
    shown,      \* what each actor last broadcast
    seen,       \* what each client saw when it last looked
    ledger      \* history: the items given to each actor and not handed back

dataVars == <<value, shown, seen, ledger>>
vars == <<systemVars, program, phase, expansion, dataVars>>

Unseen == Nobody

-----------------------------------------------------------------------------
(* Collections. *)

Apply(call, v) ==
    CASE program.kind = "Vec" -> Vec!Apply(call, v)
      [] program.kind = "VecDeque" -> VecDeque!Apply(call, v)
      [] program.kind = "HashMap" -> HashMap!Apply(call, v)
      [] program.kind = "HashSet" -> HashSet!Apply(call, v)
      [] program.kind = "Option" -> Option!Apply(call, v)
      [] program.kind = "String" -> String!Apply(call, v)

\* What the documentation warns of; no other kind has a method that panics.
Unsafe(call, v) ==
    CASE program.kind = "Vec" -> Vec!Unsafe(call, v)
      [] program.kind = "VecDeque" -> VecDeque!Unsafe(call, v)
      [] program.kind = "String" -> String!Unsafe(call, v)
      [] OTHER -> FALSE

\* The items a value owns.
Items(v) ==
    CASE program.kind = "HashMap" -> [i \in DOMAIN HashMap!AllOf(v) |-> HashMap!AllOf(v)[i].val]
      [] program.kind = "HashSet" -> HashSet!AllOf(v)
      [] OTHER -> v
BagOf(items) == [x \in ToSet(items) |-> Cardinality({i \in DOMAIN items : items[i] = x})]

Adding ==
    CASE program.kind = "Vec" -> Vec!Adding
      [] program.kind = "VecDeque" -> VecDeque!Adding
      [] program.kind = "HashMap" -> HashMap!Adding
      [] program.kind = "HashSet" -> HashSet!Adding
      [] program.kind = "Option" -> Option!Adding
      [] program.kind = "String" -> String!Adding
Dropping ==
    CASE program.kind = "Vec" -> Vec!Dropping
      [] program.kind = "VecDeque" -> VecDeque!Dropping
      [] program.kind = "HashMap" -> HashMap!Dropping
      [] program.kind = "HashSet" -> HashSet!Dropping
      [] program.kind = "String" -> String!Dropping
      [] OTHER -> {}
Making ==
    CASE program.kind = "Vec" -> Vec!Making
      [] program.kind = "VecDeque" -> VecDeque!Making
      [] program.kind = "HashMap" -> HashMap!Making
      [] program.kind = "Option" -> Option!Making
      [] program.kind = "String" -> String!Making
      [] OTHER -> {}

\* The items in a call's arguments that go into the value.
Given(call) ==
    IF call.m \notin Adding THEN EmptyBag
    ELSE BagOf(IF program.kind = "HashMap"
               THEN [i \in DOMAIN call.items |-> call.items[i].val] ELSE call.items)

\* What should be left after a call: everything that was there or given and was
\* not handed over; a method that drops items says itself which.
Rest(call, o, before) ==
    LET all == (before (+) Given(call)) (-) BagOf(o.out)
        new == BagOf(Items(o.new))
    IN IF call.m \in Making THEN new
       ELSE IF call.m \in Dropping THEN all (-) (all (-) new) ELSE all

-----------------------------------------------------------------------------
Init ==
    /\ program \in Programs
    /\ SystemInit /\ graph = program.graph
    /\ phase = "compiling"
    /\ expansion = [errors |-> {}, trait |-> <<>>]
    /\ value = [a \in Actors |-> Start[program.kind]]
    /\ shown = value
    /\ seen = [c \in Clients |-> Unseen]
    /\ ledger = [a \in Actors |-> BagOf(Items(Start[program.kind]))]

Compile ==
    /\ phase = "compiling"
    /\ expansion' = Macro!actify(program.block)
    /\ phase' = IF expansion'.errors = {} THEN "running" ELSE "refused"
    /\ UNCHANGED <<systemVars, program, dataVars>>

\* What happens to calls.  The methods of a collection call nobody, also when
\* it holds handles.
Pass ==
    /\ phase = "running"
    /\ \/ \E c \in Clients, b \in Actors : Request(c, b)
       \/ \E r \in Requesters : GiveUp(r)
       \/ program.kind = "plain" /\ \E a, b \in Actors : CallOut(a, b)
    /\ UNCHANGED <<program, phase, expansion, dataVars>>

TakeJob(a) ==
    /\ phase = "running" /\ Take(a)
    /\ UNCHANGED <<program, phase, expansion, dataVars>>

Fail ==
    /\ phase = "running"
    /\ \/ \E a \in Actors : FailsActor(a)
       \/ \E c \in Clients : FailsClient(c)
    /\ UNCHANGED <<program, phase, expansion, dataVars>>

\* The job of a plain actor ends.
RunPlain(a) ==
    /\ phase = "running" /\ program.kind = "plain"
    /\ Finish(a) \/ Panic(a)
    /\ UNCHANGED <<program, phase, expansion, dataVars>>

Looks(job) == job.n % 2 = 1

\* Handle::get.
RunGet(a) ==
    /\ phase = "running" /\ program.kind \in Collections /\ Looks(serving[a])
    /\ Finish(a)
    /\ seen' = IF Awaited(a) THEN [seen EXCEPT ![serving[a].by] = value[a]] ELSE seen
    /\ UNCHANGED <<program, phase, expansion, value, shown, ledger>>

\* A call that is right for what the client has seen.
Chosen(c) == {call \in ProgramCalls[program.kind] :
                  seen[c] = Unseen \/ ~Unsafe(call, seen[c])}

\* The generated method broadcasts.
Announces(m) == \E i \in DOMAIN expansion.trait :
                    expansion.trait[i].ident = m /\ expansion.trait[i].broadcasts

\* BUG variant of Shown: the broadcast comes before the method.
ShownBefore(a, call, o) == IF Announces(call.m) THEN [shown EXCEPT ![a] = value[a]] ELSE shown

\* What is broadcast after the call had outcome o.
Shown(a, call, o) == IF Announces(call.m) THEN [shown EXCEPT ![a] = o.new] ELSE shown

\* A method of the extension trait, and what the generated code adds to it.
RunMethod(a) ==
    /\ phase = "running" /\ program.kind \in Collections
    /\ serving[a] # NoJob /\ ~Looks(serving[a])
    /\ \E call \in Chosen(serving[a].by) : \E o \in {Apply(call, value[a])} :
          IF o.panics THEN Panic(a) /\ UNCHANGED dataVars
          ELSE /\ Finish(a)
               /\ value' = [value EXCEPT ![a] = o.new]
               /\ shown' = Shown(a, call, o)
               /\ ledger' = [ledger EXCEPT ![a] = Rest(call, o, @)]
               /\ UNCHANGED seen
    /\ UNCHANGED <<program, phase, expansion>>

Run(a) == RunPlain(a) \/ RunGet(a) \/ RunMethod(a)

Next == Compile \/ Pass \/ Fail \/ \E a \in Actors : TakeJob(a) \/ Run(a)

Spec == Init /\ [][Next]_vars /\ SystemFairness

-----------------------------------------------------------------------------
(* Properties. *)

\* The block reduced to its i-th method, and that to its k-th argument.
OnlyMethod(block, i) == [block EXCEPT !.methods = <<@[i]>>]
OnlyArg(block, i, k) ==
    [OnlyMethod(block, i) EXCEPT !.methods[1].args = <<@[k]>>]

\* One compile reports every mistake (parse.rs:63): a method, and an argument
\* of it, that is refused by itself is also refused among others, so mending
\* what was reported is enough; and a block without mistakes gets a handle
\* method for each method not skipped, in the order of the block.
ExpansionIsComplete ==
    phase # "compiling" =>
        LET block == program.block
            ofBlock == Macro!args_mistakes(block.args) \cup Macro!block_mistakes(block)
        IN IF phase = "running"
           THEN LET trait == expansion.trait
                    kept(n) == {i \in 1..n : ~Macro!Skipped(block.methods[i])}
                IN /\ Len(trait) = Cardinality(kept(Len(block.methods)))
                   /\ \A i \in kept(Len(block.methods)) :
                         trait[Cardinality(kept(i))].ident = block.methods[i].ident
           ELSE ofBlock = {} =>
                \A i \in DOMAIN block.methods :
                    /\ Macro!actify(OnlyMethod(block, i)).errors \subseteq expansion.errors
                    /\ \A k \in DOMAIN block.methods[i].args :
                          Macro!actify(OnlyArg(block, i, k)).errors \subseteq expansion.errors

\* A marker decides whether a method broadcasts, or it is reported: none is
\* overridden in silence by the receiver, by the argument of the block, by the
\* other marker or by #[skip], and none that decides something is called
\* superfluous (parse.rs:102, 167-200).
Without(m, name) == [m EXCEPT !.attrs = @ \ {<<name>>, <<"actify", name>>}]
MarkersDecide ==
    LET block == program.block
        skipAll == Macro!skip_broadcast(block.args)
        Decides(m, name) ==
            /\ ~Macro!Skipped(m)
            /\ Macro!broadcasts(m, skipAll) # Macro!broadcasts(Without(m, name), skipAll)
    IN phase # "compiling" /\ Macro!args_mistakes(block.args) = {}
         /\ Macro!block_mistakes(block) = {} =>
           \A i \in DOMAIN block.methods : \A name \in {"broadcast", "skip_broadcast"} :
               LET m == block.methods[i]
               IN Macro!Marked(m, name) =>
                    (Decides(m, name) <=>
                        {Macro!Mistake(m.ident, <<why, name>>) : why \in {"superfluous", "skipped"}}
                            \cap Macro!actify(OnlyMethod(block, i)).errors = {})

\* A subscriber to a collection is never behind it: no method of an extension
\* trait changes the value without broadcasting it, whichever way it takes its
\* receiver.
MirrorIsCurrent == \A a \in alive : shown[a] = value[a]

\* Between them the clients lose and double nothing: what a collection holds is
\* what was given to it and not handed back, whoever gave it, took it, replaced
\* it or emptied it in between.
LedgerBalances == \A a \in alive : BagOf(Items(value[a])) = ledger[a]

\* Looking first and calling then takes two calls, and another client's may run
\* between them.  A call that is right for the value seen takes the actor down
\* only in that case: the "# Panics" sections name every way to panic.
CheckedCallIsSafe ==
    [][\A a \in alive \ alive' :
          program.kind \in Collections =>
              LET c == serving[a].by
              IN seen[c] = Unseen \/ seen[c] # value[a]]_vars
=============================================================================
