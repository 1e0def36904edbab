# actify in TLA+

A model of [actify](../src/README.md), a Rust library that runs a value inside a
tokio task (an *actor*) and gives callers a clonable *handle* to it. Calls travel
as jobs through a bounded queue, results come back on a one-shot channel each,
and every change is broadcast to caches, throttles and plain receivers.

Contents: [inventory](#inventory), [modules](#modules), [runs](#runs),
[proofs](#proofs), [disagreements found](#disagreements-with-the-documentation),
[plan](#plan), [what is not modelled](#what-is-not-modelled).

## Inventory

Source paths are relative to `src/actify/src` unless they say otherwise.

| Part | State it keeps | Operations | What makes it correct |
|---|---|---|---|
| Actor task (`actor.rs`) | the value `inner`, the job receiver, the exit sender, an `ExitGuard` | `run`: receive a job, call it, answer; broadcast from inside `&mut self` methods; stop when no sender is left; be unwound by a panic or dropped with its runtime | jobs run once, one at a time, in the order accepted; queued jobs outlive their callers; whatever ends the task, everyone waiting for it is told, and told why |
| Handle (`handles/handle.rs`) | shared `Channels`: job sender, broadcast sender, exit receiver | `new`, `clone`, every call through `__send_job`, `wait_for_exit`, `report_actor_gone`, `wait_until`, constructors of caches and throttles | a call returns its own result or panics with the true reason; it never hangs; an abandoned call does no harm |
| Broadcast (`make_broadcast_fn`, tokio's channel) | the last CHANNEL_SIZE views, one position per receiver | send if anybody receives; receive, lag, close | after everything was read a receiver has seen the latest view |
| Cache (`cache.rs`) | the last value read, a receiver, `first_request` | `cache`, `cache_from`, `clone`, `clone_newest`; `newest`, `recv`, `recv_newest`, `try_recv`, `try_recv_newest`, the blocking forms, `wait_until` | nothing is lost between subscribing and reading; lag loses only old values; the end of the actor is reported after its last update and not before |
| Throttle (`throttle.rs`) | a receiver, the current value, `Timing` (an interval, `event_pending`) | spawn (sync or async callback; from a handle, a cache, a receiver or a fixed value), the loop, `abort` | at most one send a period, of the newest value, without losing the last one; it ends with its channel |
| Profiler (`profiler.rs`) | per actor counters, a registry of weak references, cumulative totals | `record`, `take`, drop, `broadcast_counts`, `cumulative_broadcast_counts` | every broadcast is counted once, whatever a read races |
| ReadHandle (`handles/read_handle.rs`) | a Handle | forwards the reading calls | no way to write |
| Macro (`src/actify-macros/src`) | none (runs at compile time) | parse the arguments and the impl block, refuse what cannot be a job, generate trait and handle methods | a method broadcasts exactly when its receiver and the attributes say so; one compile reports every mistake; no method gets lost |
| Extensions (`extensions/`) | the collection an actor holds | the methods of six traits (`Vec`, `VecDeque`, `HashMap`, `HashSet`, `Option`, `String`), through the macro | each does what std does, hands over what it takes out, broadcasts what it changes, and panics only where its documentation says |
| Actors calling actors (`lib.rs`, "Deadlocks") | handles kept in actors | a method awaits another actor's handle | without a circle of handles every call ends; a panic travels to the callers and to nobody else |
| Test crate (`src/actify-test`) | none | blocks for the macro, refused blocks, tests of the runtime | what it expects is what the macro does |

How they interact: a call is a `Job` sent by value (queue, then a reply channel
owned by the job, so that dropping the job *is* the error report). The exit
reason goes through a `watch` channel written by `ExitGuard::drop`. The broadcast
sender is owned by the actor task *and* by every handle, so the broadcast channel
closes only when both are gone. Caches and throttles hold receivers only and keep
nothing alive. Profiler counters are owned by the actor and read through weak
references. The macro decides which methods exist and which broadcast, the
extension traits are written with it, and a method of an actor may await a handle
of another actor, or of its own, which keeps its queue waiting meanwhile.

Hard behaviour, which the properties are aimed at: callers giving up at any
await while their job is queued or running; panics and runtime shutdown at any
await; the order in which locals of `run` are dropped, which decides what a
caller learns first; the gap between subscribing and reading in every
constructor; lag and close meeting in one drain; an overdue tick racing queued
values; counts moving between two locks while they are read, and a reader that
turns out to hold the last reference; actors that wait for each other, with queues
that fill and clients that give up; a client that looks at a collection and acts
on what it saw after another client's call; several mistakes in one impl block.
`PROJECT.json` lists each at its line.

## Modules

| Module | Models | Checked by |
|---|---|---|
| `Actor` | the actor task, any number of callers, and the three channels between them | `MCActor` |
| `AtomicActor` | what an actor promises: each call takes effect in one step, or not at all | as the refinement `ImplementsAtomicActor` |
| `BroadcastChannel` | operators for tokio's broadcast channel: where a receiver starts, what it reads, how it lags | through `Cache` and `Throttle` |
| `Cache` | caches and waits over a reduced actor | `MCCache` |
| `Throttle` | the throttle task, its interval and its spawning | `MCThrottle` |
| `Profiler` | counters, registry, totals and their readers | `MCProfiler` |
| `ActorSystem` | actors whose methods call other actors, and clients | through `Program` |
| `ActifyMacro` | `#[actify]` as a function from an impl block to what is compiled | through `Program`, and `TestCrate` |
| `MethodCalls` | what extension methods have in common: receivers, arguments, outcomes | through the next row |
| `VecExt`, `VecDequeExt`, `HashMapExt`, `HashSetExt`, `OptionExt`, `StringExt` | every method of each extension trait, as a function of the value | through `Program`, and `ExtensionTests` |
| `Program` | a block that is expanded and then runs: `ActifyMacro`, `ActorSystem` and the collections composed | `MCProgram` |
| `ExtensionTests` | the documentation examples and unit tests of the methods, as assumptions | evaluated with `MCProgram` |
| `TestCrate` | the blocks of the test crate and what its tests expect of them, as assumptions | evaluated with `MCProgram` |
| `ActorProofs`, `ActorSystemProofs`, `ProgramProofs`, `CacheProofs`, `ThrottleProofs`, `ProfilerProofs` | the theorems about each component | the proof system |
| `SequenceProofs` | lemmas: induction, what a fold does, how often an item occurs in a sequence or a finite function | the proof system |
| `CollectionProofs` | what each method of each extension trait does to the items of its collection | the proof system |

Operators whose comment begins "BUG variant of" are deliberately wrong forms of
the definition they name. No specification uses them; substituted for it they
show that a property notices.

### Actor

A caller is at `idle`, `sending` (suspended in `tx.send` on a full queue),
`waiting` (for its reply) or `reporting` (in `report_actor_gone`). `StartCall`
creates the reply channel and reaches the send; `Send` admits the first waiter
when there is room, as tokio's fair semaphore does; `SendFails`, `ReplyFails`,
`Return`, `ReportActorGone` are the ends of `__send_job`; `Abandon` drops the
future at either await and leaves the job where it is. `Send` is one step: a send
and the closing of the channel do not overlap.

The task runs through `Start`, `Receive`, `Call`, `Resume` (an async method's
await), `Broadcast` and `Respond`; a method changes `inner` in two halves with
the await in between. `Panic` and `RuntimeStops` leave the loop from wherever
they may, and the drops that follow are steps of their own in the order Rust
performs them: the job in hand, the guard (which writes the exit reason from
`std::thread::panicking()`), the actor (which frees the broadcast sender), the
receiver (which closes the queue and drops the jobs in it). A task dropped before
its first poll has no guard; its captures go in another order and the exit sender
is dropped without a value.

`sent`, `executed`, `committed`, `broadcasts`, `panicked`, `stopped` are history
variables. `committed` is the value after the last job that was carried out
entirely: a half-done method never reaches it.

### AtomicActor

Value, log of views, holders, calls in flight, answers and life. A call in flight
is applied in one step that changes the value, extends the log and produces the
answer together, or is lost when the actor dies. The mapping in `Actor`
linearises each job at `Broadcast` and the death of the actor at the step that
leaves the loop. The property `ImplementsAtomicActor` says that nobody can tell
the queue, the awaits and the drop order from that.

### Cache

A reduced actor (jobs in order; `RunSet` assigns and asks for receivers,
`SendView` sends) with any number of caches. `Subscribe` and `Request` are the
two halves of `Handle::cache`, with the actor free to run in between;
`Handle::wait_until` is the same with `use = "wait"`, and its first test is folded
into the step that answers its `get`. Reads begin (`first_request` is consumed),
wait (`stage = "waiting"`) and drain one `try_recv` at a time. `newest`,
`clone_newest` and the throttle constructors drop the error of the drain;
`try_recv_newest` passes it on. Blocking reads are the same actions.

Three fields exist only for the properties: `synced` (the value came from the
actor and not from `cache_from`), `handed` (how far the reader has been given
values) and the call's `first` (it consumed the first read).

### Throttle

The value passed around is its position in the sequence of broadcasts, so that
"newer" can be said. Time is the sequence of period boundaries: `owed` counts the
boundaries not ticked for, and `MissedTickBehavior::Skip` is what sets it to zero
at a tick. A tick that came due during a call is therefore handed back as soon as the
call ends and counts for the boundary it was due at, where the documentation of
`Frequency` (`throttle.rs:16-19`) puts that call at the next boundary; the model does
what the code does. (tokio treats a tick up to 5 ms late as punctual; the model is of
periods longer than that.) `wake` is the choice between `WakeTick`, `WakeValue`,
`WakeLagged` and `WakeClosed`, taken at random as `select!` does. A tick drains
(`DrainOne`), then `DrainEnd` is `record_value`, `on_tick` and `current`. `grants`
counts what permits a send since the last boundary: the initial call and the
ticks.

A throttle is spawned in four ways (`Origins`). `Handle::spawn_throttle` subscribes
(`HandleSubscribes`) and then asks for the value (`SpawnFromHandle`);
`Cache::spawn_throttle` resubscribes (`CacheResubscribes`), drains, and sends what the
cache then holds (`SpawnFromCache`), which is any value if there was nothing to drain,
since a cache may come from `cache_from`; `Throttle::spawn` takes a receiver at any
place and any initial value or none (`SpawnFromReceiver`); `spawn_interval` takes a
value and no receiver. A value that was never broadcast is given the place of any
other. `initial` and `since` keep, for the properties, the value a throttle was spawned with
and where its receiver stood. They are needed to say truly what a tick sends: the
newest value broadcast before the task woke, or else the initial value, however old,
as long as nothing has been broadcast since the receiver was handed over
(`TickSendsNewest`).

### Profiler

One method and one spawn site, since rows do not interact. A broadcast is known by
its number at its actor, so that a count says *which* broadcasts it holds and how
often; the code keeps only how many. Every mutex of a map is held for one step;
the registry's is held over the whole listing and is modelled (`owner`).

A spawn is `NewCounters` (register) and then `CountActor` (the number of actors
of the site), with readers in between. `TakeDrain` and `TakeFold` are the two
locks of `take`. A reader in `Totalling` is in `cumulative_broadcast_counts`:
`Start` clones the totals, then it lists like every other reader, `Lock`,
`Upgrade` and `Snapshot` per actor, `Finish`. `Stop` drops the actor's strong
reference; if a reader has upgraded one, the counters live until that reader lets
go, and then the *reader* runs `DropCounters`, with the registry's lock held.
`from` and `raced` record what a read may be held to. The registry is a set: the
order of its entries changes no count.

### ActorSystem

One actor of `Actor` here is a queue, a job in hand and a life; that a call may be
taken for atomic is what `AtomicActor` is for. `CallOut` is a method awaiting a
handle; until the answer is there the actor takes no job. Jobs beyond
CHANNEL_SIZE stand for senders suspended in `tx.send`, and `GiveUp` withdraws such
a job but leaves one that was accepted. `Panic` and `FailsActor` (the callee is
gone, so the call panics and takes the caller with it) end an actor; `cause`
remembers whose panic it was. A method calls each of its handles at most once
per job, and may give up a call like any other caller (a timeout, a `select!`). That
is the only way out of a circle: `CyclesLast` says that no answer and no death ever
ends one.

### ActifyMacro

An impl block is its arguments, type, attributes and methods; a method is its
name, attributes, receiver, return and argument types, each a class of the syntax
that `parse.rs` tells apart. `actify` is the expansion: the mistakes, or the handle
trait with, for each method, its name, the attributes that are carried over, the
names of its arguments, how it borrows the actor, whether it awaits and whether it
broadcasts. Mistakes are accumulated over one pass, in which a skipped method is
looked at only for markers that make no sense on it; but a mistake in the arguments of the
attribute, in its `name` or in the type of the block ends the pass before any
method is looked at (`parse.rs:42-57` comes before the loop of which line 63 says
that "one pass reports all problems"). `ExpansionIsComplete` says this exactly.

### The extension modules

Each operator is the method of that name: the new value, the result, the items
that leave the value with the result, or a panic. `Actor...` at the head of each
module is the trait as the macro sees it. Keys and elements have a part that `Eq`
looks at and a tag it does not, since `insert` and `replace` differ only in which
of two equal elements stays. Strings are characters that take one byte or more:
positions are bytes, and a cut inside a character panics. `Unsafe` is the
"# Panics" section of each method, and not what `Apply` does: that the two agree
is a property (`CheckedCallIsSafe`) and a lemma for each trait. `WithKey` and
`WithoutKey` (`MethodCalls`) are what the two maps do at a key; they are functions
by their domain and not `@@`, of which the proof system knows nothing. One remark: a `truncate` beyond
the end does not panic although such a length is no char boundary
(`string.rs:112-114`); `Unsafe` reads the section that way.

### Program

`Compile` expands the block; a refused one never runs. A program's actors are of
one kind: a collection, or "plain", whose methods call other actors. `RunGet` and
`RunMethod` end a job by what the method does to the value and broadcast when the
expansion says so, so a broadcast lost by the macro shows as a stale mirror
(`MirrorIsCurrent`). The blocks of the collections carry no markers; what markers do
when they, the receiver and the argument of the block override each other is
`MarkersDecide`: taking one away changes whether the method broadcasts, or it was
reported. Clients alternate between looking (`get`) and a call that is
right for what they saw. `ledger` is history: what was given and not handed back.
`ReadHandle` needs no module: it keeps a Handle and forwards the calls that read.

Three assumptions say what the constants are. `ProgramsAssumption`: a block is a
list of methods, and the block of a collection has every method of its trait,
with its receiver and unmarked (as `extensions/` has them). `ValuesAssumption`: the
first values and the calls are such as rustc would accept: a method of the trait,
an item where it takes one, edits that stay within the type. `ElementsAssumption`:
`Vec` and `VecDeque` hold things that can be sorted (integers), and a character takes
some number of bytes. First values, arguments and the number
of elements are arbitrary.

## Runs

| Run | Question | Bounds |
|---|---|---|
| `actor_faults` | the inductive invariant, the safety properties, and the refinement, under panics, abandoned calls and runtime shutdown | 2 callers, 2 calls each, queue of 1, 2 values, 4 operations |
| `actor_live` | does every call end, every accepted job run, an unused actor stop | the same, 1 operation |
| `actor_unwind` | is "a panic occurred" only said after one (violated) | 1 call each, runtime dropped by a panicking thread |
| `cache_reads` | what caches hold, when they report Closed, what a wait may miss | 2 caches, 2 writes, channel of 1 |
| `cache_live` | do waits and reads end with the actor | 1 cache, 2 writes |
| `cache_held` | does every wait test the value held (violated) | 1 cache |
| `cache_stopped` | does `Cache::wait_until` end with the actor (violated) | 1 cache |
| `throttle_all` | rate, freshness, order, delivery and termination, all frequencies, spawned in all four ways | 4 broadcasts, channel of 2 |
| `throttle_abort` | does a running callback finish (violated) | OnEvent |
| `throttle_order` | do values arrive in order (violated) | OnEvent |
| `profiler` | is every broadcast counted once, and is an undisturbed read complete, the number of actors included | 2 actors, 2 readers of which one totals, 2 broadcasts |
| `program` | do calls between actors end, does the macro report and generate everything, do collections lose, double, hide or trip over anything | 3 actors, 2 clients, 2 calls each, of actors too, queue of 1; five call graphs, the six collections, some 9200 blocks |

Why the bounds are enough. In `Actor` the hard states need one job being served,
one in the queue and one caller suspended or giving up: two callers that abandon
and call again reach all three with a queue of one, and a second call of the same
caller is what a late answer could be confused with. In `Cache` a channel of one
lags at the second unread value, so two writes produce every combination of
queued, lagged and closed; two caches are enough for clones to differ from their
origin. In `Throttle` four broadcasts on a channel of two let the task lag, drain
and still find something new; two owed boundaries are a missed one and a due one.
In `Profiler` two readers contend for the registry, and one of them can hold the
counters of an actor that stops; two broadcasts can be in two places. In
`Program` the graphs are a diamond, two callers of one actor, a circle of three, one
of two and a handle to oneself: with two clients and a queue of one, calls queue
behind a waiting actor, senders are suspended and give up, clients and methods
alike. For a collection, the
first value and what two clients can do to it reach the empty one, the last
position and one past it; indices run to 3 and one letter takes two bytes. The
blocks combine every receiver with every subset of the markers, lawful and
refused signatures, and a second method that is fine, refused or skipped; to these
come all blocks of the test crate that compile.

Symmetry is used for the two caches of `cache_reads` only, where no liveness is
checked. `CHECK_DEADLOCK FALSE` appears where writes, calls or broadcasts are
bounded and everything may come to rest, and in `program` also because a circle of
actors really stops, which is what `SomebodyCanMove` and `CyclesLast` are about.
`Actor` has an explicit `Terminated` step instead and is checked for deadlock.

### Fairness

* `Actor`: weak fairness of the task (tokio polls a ready task) and of each caller
  in a call. Callers need not call, abandon or drop handles. A method is assumed
  to return from its await.
* `Cache`: weak fairness of the actor and of each read that can go on. Nobody has
  to write or to drop a handle.
* `Throttle`: weak fairness of the task (callbacks return) and of the clock.
  Strong fairness of `WakeClosed`, because `select!` chooses at random and so
  takes a ready branch some time, and of `Cancel`, because tokio's cooperative
  budget makes a loop that is always ready yield, which is where an abort acts.
* `Profiler`: weak fairness of the threads, strong fairness of taking the
  registry's lock: a lock released again and again is had in the end.
* `Program` (`SystemFairness`): weak fairness of each actor, whose methods return
  or panic once the calls they make are over, and of a client that can be told
  that an actor is gone. Nobody needs to call or to give up.

## Proofs

Everything is proved for all constants: any sets of callers, caches, values and
operations, any capacity, any number of calls, the faults on or off. The
assumptions are the named ASSUMEs of the modules (the initial value is a value,
capacities are positive, the sets are disjoint, the switches are Boolean), which
TLC evaluates; two theorems have a hypothesis of their own, named below.

### Actor

`ActorProofs`: `Inductive` (`IndInv`, with the types), `NobodyLeftBehind` (once the
receiver is dropped no reply channel is open), `StoppedReportsAreTrue` ("no longer
running" is never said of an actor one of whose methods panicked),
`FailedCallsHaveNoEffect` (a call that reports the actor gone was not carried out),
`ReportsOnlyTheDying` (only a dying actor makes a caller wait for the reason).

None of these is inductive. `NoCallLeftBehind` needs to know where the job of every
open reply is (`OpenReplyHasJob`), which needs to know that the job in hand is a
real one and that the receiver outlives the queue (`TaskShape`). The truth of the
report needs the order of the drops: the exit reason may be written only while
dying and cannot be `Stopped` while unwinding (`DeathShape`), and whoever failed
did so when the actor was dying already (`FailedMeansDying`). That a failed call
had no effect needs every job to be in one place: being sent, queued, in hand or
carried out (`Numbered`, `Separate`, `UnsentIsNowhere`); then the step that closes a
reply takes a job out of a place from which it can no longer be carried out
(`FailedIsNotExecuted`). `IndInv` is the conjunction, checked by `actor_faults` and
proved in four lemmas (`TypeStep`, `ShapeStep`, `DeathStep`, `PlaceStep`).

The order of the queue: `JobsRunInOrder`, `AnswersAreOwn`, `StopsWhenUnused`. The
strengthening is `Lined`: while the task serves, what was sent is what was carried
out, then the job in hand, then the queue. A result about to be answered was
carried out (`AnswerInv`), and an actor that ends by itself has an empty queue
(`UnusedInv`).

The refinement: `ImplementsAtomic`, for every value of the constants, by step
simulation. `Effect` says that the value a method acts on is the
one its predecessors left, so that the result it is about to return is the one the
atomic object would give; `Blame` says that only a panic of the actor unwinds its
task. Each step maps to a step of `AtomicActor` or to a stutter (`CallerSimulates`,
`TaskSimulates`, `EndSimulates`). `PanicReportsAreTrue` rests on `Blame` too. Both
assume `StopMayUnwind = FALSE`: without it `Blame` fails, as `actor_unwind` shows,
and so does what the atomic actor says of a death.

### Actors calling actors

`ActorSystemProofs`: `AnswersAreComing` (`WaitsAreServed`), `AcyclicNeverStandsStill`
(`SomebodyCanMove`), `CirclesLast` (`CyclesLast`), `PanicsTravelUp`
(`PanicComesFromBelow`), for any graph of handles and any number of actors and
clients. `WaitsAreServed` with the types is inductive. For `SomebodyCanMove`, take
the live actors that await a live one: if nobody can step, whoever is awaited is
one of them, so each of them calls into the set, which an acyclic graph does not
allow. A circle stays because an actor that waits neither answers nor panics, and
whoever waits in it waits for one that does (`CyclesLast`). The way of a panic follows from `Reaches` being extended by one call.

### Programs

`ProgramProofs`: `ImplementsSystem` (every step of a program is one of its actors or
leaves them alone), so the above holds of every program
(`ProgramsKeepTheirPromises`); `LookingFirstIsSafe` (`CheckedCallIsSafe`), for every
value and position: each trait's `Apply` panics where its `Unsafe` says so and
nowhere else (`PanicsAreDocumented`, from `VecPanics` and its like), and the methods
of a collection call nobody (its invariant), so no panic comes from elsewhere.

`ExpansionsAreComplete` (`ExpansionIsComplete`), for every impl block. The pass over
the methods is a fold. `ErrorsAreAll` says that the mistakes it collects are those
of each method taken alone (`Wrong`), and `MethodsAreKept` that what it keeps are the
methods not skipped, in order; `OneMethod` and `OneArg` that a method, and an
argument, in a block by itself has the mistakes it had among others. The invariant
(`Expanded`) is that the expansion is the one of this block.

`MarkersAreDecisive` (`MarkersDecide`), for every impl block: a method by itself is
refused for what is wrong with it among others (`AloneRefused`), among which the words for a
superfluous marker stand exactly when it decides nothing (`MarkersReported`).

`MirrorsAreCurrent` (`MirrorIsCurrent`), for every value and argument: a method that
takes `&self` leaves the collection as it is (`ReadsLeaveAlone`, from `VecReads` and
its like), and one that takes `&mut self` broadcasts in a block that compiled
(`WritersAnnounce`, which takes `MethodsAreKept`: no method is lost on the way from
the block to the trait). So `shown = value` is kept by every call (`Mirrored`).

`LedgersBalance` (`LedgerBalances`), for every value and argument, whatever the
clients do in between. The invariant `Balanced` adds that each actor holds a value of
its kind, since a method is right about a list, a set with one element for each key,
and so on, only if it is given one. Its step is `CallBalances` of `CollectionProofs`:
a call that does not panic leaves a value, and the items in it are those that were
there or given, without those handed over (`Conserved`), or fewer where the method
says that it drops some (`Dropped`). Both are said of `Count`, how often an item
occurs, which adds up under concatenation and does not see the order; each trait has
a theorem of its own (`VecBalances`, `VecDequeBalances`, `OptionBalances`,
`StringBalances`, `SetBalances`, `MapBalances`), from one lemma for each of the ways
in which methods change a collection: cut out, put in, exchange, pick some, permute,
write at a key. `BagsBalance` turns counts into the bags of the ledger. A `VecDeque`
is a `Vec` with two ends, so its methods of the same name go by the lemmas of `Vec`
(`Shared`). `SortIsStable`: the sort of the model, which counts for each item those
that go before it, is a permutation in order that keeps items of one key in their order. That a drain by byte range takes whole characters rests on `CharsFit`: the
tally of bytes grows, so a boundary is at one character only.

`SequenceProofs` has the induction this takes. The library's induction theorems have
an operator as a parameter, which the provers cannot instantiate; but that a set of
numbers which is not empty has a least element (`Least`, from `WFMin` of
`WellFoundedInduction`) has none, and says as much if the induction is said of a set:
a set with 0 and the successor of each member has every number (`Induction`), one
with `<<>>` and the extension of each member has every sequence (`InductionAppend`).
A fold of the library is a `CHOOSE` of a recursive function: `FoldExists` shows that
there is one and `FoldSteps` gives its values one item at a time.

### Cache

`CacheProofs`: `TypeCorrect`, `CaughtUpHoldsTheValue`, `ClosedSwallowsNothing`,
`WaitsTestEveryValue`. The invariant is said of the actor and one cache at a time
(`Good`): what there is to read ends with the actor's value (`Follows`), the reader
was given everything up to its position unless a drain is about to hand it over
(`HandedOver`), a wait has not held a wanted value since it tested one (`Tested`).
Caches meet only where one is made: a `get` in the queue belongs to the one cache
that waits for it (`Gets`), and a clone in the making to the one drain that makes it
(`Clones`). That the log stays within `MaxWrites` counts jobs, so it needs a
cardinality argument of its own (`Room`).

### Throttle

`ThrottleProofs`: `TypeCorrect`, `AtMostOneCallAPeriod`, `TicksSendTheNewest`,
`NothingOldIsSent`. The rate is inductive once it is said that a period which
granted a call has no tick left to grant another (`OneGrant`). Freshness needs
that a receiver not at the end finds something newer than it holds and one at the
end holds the newest, or has had nothing to read since it was handed over and holds
the initial value (`HoldsNewest`), and that what was sent is older than what may
still be received (`SentIsPast`).

### Profiler

`ProfilerProofs`: `TypeCorrect`, `NothingIsLost`, `NoneIsCountedTwice`,
`QuietReadsAreComplete`. `Life` says where an actor's broadcasts are at each point
of its life; `Holds` that a listing reader has the lock and that the counters it
holds are not dropped under it. That nothing is counted twice depends on the order
of the two reads: what a reader has of an actor it has not come to yet was in the
totals, and so is in nobody's counters (`CountsOnce`). What it lacks of an actor
nothing happened to is still in that actor's counters, ahead of it (`Misses`).

### Model-checked only

Liveness under fairness (`CallEnds`, `AcceptedJobRuns`, `UnusedActorEnds`,
`HandleWaitEnds`, `ClosedEndsReads`, `UpdatesArrive`, `ClosedEnds`, `AbortEnds`,
`ReadEnds`, `CountsReachTotals`, `AcyclicCallsEnd`), which is beyond the proof
system, as is ENABLED. Every invariant and every action property that a passing run
checks is also a theorem; `CyclesLast` is proved only, no run repeats it. The examples in `ExtensionTests` and `TestCrate` are
evaluated and not proved.

## Disagreements with the documentation

1. `actor_unwind`: `ExitGuard` cannot tell a panic of the actor from a runtime
   dropped by a thread that unwinds for another reason (`actor.rs:132` against
   the comment at 121-123).
2. `cache_held`: `Cache::wait_until` tests the held value only if it is the first
   read (`cache.rs:614` against 578-580).
3. `cache_stopped`: `Cache::wait_until` does not return while a handle to a dead
   actor lives (`cache.rs:628` against 588-589). `Throttle::spawn`'s "The task
   stops when the actor does" has the same limit.
4. `throttle_abort`: an awaited callback is cut short by `abort`
   (`throttle.rs:605` against 602-603).
5. `throttle_order`: an `OnEvent` throttle replays older values after the newer
   initial one (`handle.rs:330` against `cache.rs:651-653`). A cache from
   `Handle::cache` is made the same way and also reads the older ones again.

## Plan

1. *(done)* `Actor`, `AtomicActor` and the refinement; `ActorProofs`.
2. *(done)* `BroadcastChannel`, `Cache`, `CacheProofs`.
3. *(done)* `Throttle`, `Profiler`, `ThrottleProofs`, `ProfilerProofs`.
4. *(done)* `ActorSystem`, `ActorSystemProofs`.
5. *(done)* `ActifyMacro`, the extension modules, `Program`, `ProgramProofs`, with
   the test crate and the documentation examples as assumptions; `SequenceProofs`
   and `CollectionProofs`.
6. `Profiler`: the ids, and the order of the registry.

Abstract specifications worth stating beyond `AtomicActor`: a cache as a variable
that follows the actor's value; a throttle as a subsequence of the broadcasts.

## What is not modelled

* The generated text of the macro, generics and `where` clauses, and the wording of
  its errors. A pattern argument is named `_arg` and its position; a user's own
  argument of that name gives two arguments one name (`parse.rs:425-427`), which
  rustc refuses, so no program runs with it.
* In the collections: closures of the user that panic; comparators that are no
  order, on which std's sort may panic; the order of a Vec made of
  a set or a map, which std leaves open; an empty pattern of `String::split` and
  its like. The lines that `PROJECT.json` gives for a method of a trait include its
  documentation examples, which `ExtensionTests` evaluates.
* `ToView`, a conversion supplied by the user: views are values in `Cache`, `Throttle`
  and `Program`, and an arbitrary function in `Actor`.
* Tracing; memory ordering (the code shares state through channels and mutexes
  only); poisoned mutexes, which every user of one skips.
* A cancelled `Handle::cache`, whose `get` stays in the queue and has no effect; the
  rounding of a channel's capacity to a power of two.
* The order in which two actors spawned at once are numbered and registered
  (`actor.rs:56`): no count and no caller depends on it.
