# signalparty: TLA+ models, checks and proofs

`signalparty` is a Go module with five implementations of *signals*: writeable
cells, cells computed from other cells, and side effects that run when what
they depend on changes. This directory holds TLA+ models of it, TLC runs that
check them on small instances, and TLAPS proofs for every instance.

`PROJECT.json` is the index: the components, the runs with the properties they
check, a mutation of the model for every property of a passing run, the lines of
the source behind every definition, the hazards of the code, the disagreements
found between code and documentation, and the theorems.

To run a check: `tlc -workers 2 -config dd_core.cfg MCDumbdumb.tla` (the `dd_*.cfg`
files go with `MCDumbdumb`, `rk_*.cfg` with `MCRocket`, `rx_*.cfg` with
`MCReactively`, `al_*.cfg` with `MCAlien`, `foo_*.cfg` with `MCFoo`); to run the
proofs: `tlapm DumbdumbProofs.tla`, and the same for `DumbdumbGraphProofs`,
`RocketProofs`, `RocketFreshProofs`, `ReactivelyProofs`, `ReactivelyFreshProofs`,
`FooProofs` and `GraphRecursion`, which they share.

## 1. Inventory

All packages answer the same questions. *Freshness*: what a read returns is what
the functions give for the present signals. *Completeness*: every effect sees
every change. *Glitch freedom*: no callback sees a mix of old and new values.
*Economy*: a callback whose arguments did not change is not called. *Detachment*:
what was stopped stays stopped. *Containment*: a callback that panics harms only
what depends on it. For the two packages that README.md:15 calls thread safe,
also *exclusion* and *progress*.

| Component | State | Operations | What is hard | Model |
|---|---|---|---|---|
| `dumbdumb/signals.go` | one slice `rs.cells`, `rs.anyDirty`, `rs.mu`; per cell a value, `clean/dirty/computing`, cached arguments | `Signal`, `Value`, `SetValue`, `Computed1..8`, `Effect1..8` and `stop`, `Remove`, `Reset` | list order against dependency order; memoisation; panics half-way; `Signal` takes no mutex; swap-with-last removal | `Dumbdumb` |
| `rocket/signals.go` | `rs.mu`, `rs.inEffect`; per cell value, version, subscribers, `isDirty`, `versionSum` | `Signal`, `Value`, `SetValue`, `Computed1..8`, `Effect1..8` and `stop` | the mutex is skipped while any effect runs; effects run during marking; nested effects; version sums | `Rocket` |
| `reactively/reactively.go` | `rctx.current`, `currentGets`, `currentGetIndex`, `effectQueue`; per cell value, `clean/check/dirty`, sources, observers, cleanups | `Signal`, `Memo`, `Effect`, `Read`, `Write`, `WriteFn`, `OnCleanup`, `Stablize` | dynamic dependencies recorded while callbacks run; nested updates; effects nobody queues | `Reactively` |
| `alien/*.go` | doubly linked dependency graph with flags, `activeSub`, `activeScope`, batch depth, queue of effects | `Signal`, `Computed`, `Effect`, `EffectScope`, `Value`, `SetValue`, batches, pause/resume of tracking | iterative graph walks that skip by flags; nested effects; scopes; batches | `Alien` |
| `foo/signals.go` | per cell a lock, value, version, subscribers; sum of dependency versions | `Signal`, `Value`, `SetValue`, `Computed1..8`, `Effect1..8` and `stop` | one lock per cell and callbacks under it; `removeSub`; unlocked reads of dependencies | `Foo` |
| `cmd/codegen` | none | prints the generated files of `dumbdumb` and `rocket` | nothing stateful | not modelled |
| `cmd/benchmark*` | none | time the packages | nothing stateful | not modelled |

The packages do not call each other. Inside a package the parts interact by
direct calls: a program calls an operation, the operation walks the graph of
cells, and the graph calls back into functions the program supplied. In
`dumbdumb` and `rocket` several goroutines may call operations of one system.

`PROJECT.json` lists the hazards of each package at the lines where they bite, with
the properties that would notice. Beside the packages stands `ReactiveGraph`, what
the program would like any of them to be (section 4).

## 2. Plan

1. **Dumbdumb** (done): the whole package as a small-step machine under the
   mutex, its runs, the proofs of type correctness, of the consistency of
   `evalAll`, of the list of cells, of the calls it saves and of what a panic spares.
2. **ReactiveGraph** (done): what the packages promise, without lists, flags or
   caches. `DumbdumbGraph` maps `Dumbdumb` to it; that every step of the one is a step
   or a stutter of the other TLC checks in `core`, and `DumbdumbGraphProofs` proves.
3. **Rocket** (done): the locking protocol (`mu`, `inEffect`, nested effects,
   panics) with several goroutines and the marking and version graph on the same
   state, its runs, the proofs of types and of the mutex, and for one
   goroutine those of its calls and of freshness.
4. **Reactively** (done): three-colour invalidation with dynamic dependencies, its
   runs, the proofs of types, of the links, and that reads are fresh and functions run
   once and not for nothing.
5. **Alien** (modelled and model-checked): the link graph and its walks, nested
   effects, scopes, batches. Its lists are walked by recursive operators, which TLAPS
   cannot be given (section 9).
6. **Foo** (done): locks per cell, effects that pull in the middle of a write,
   `removeSub` as it is, its runs and the proofs of the types, of the locks and of
   freshness.

Left for later: functions of `Reactively` that call `WriteFn` and create cells while they
run, and its `OnCleanup` outside of functions; scopes inside functions, and tracking paused
by the program, in `Alien`; stop functions called from callbacks in `Foo`; and runs of
`Rocket` with `Restructures`, once it is clear which properties such programs keep.

## 3. The model of dumbdumb

`Dumbdumb.tla` is the package. `MCDumbdumb.tla` gives it gates for getters and
sets of wirings, and the `dd_*.cfg` files give the instances.

**Cells.** `Signals`, `Computeds` and `Effects` are the cells the program may
allocate; `made` are those it has, `held` those a constructor has returned. A
derived cell has a list of dependencies `deps[c]` (`cell0`, `cell1`, ...), the
cached arguments `cached[c]`, a `state[c]`, and a computed also a getter `fn[c]`
and a value `val[c]`. The Go code for 1 to 8 arguments is printed from one
template (`cmd/codegen/templates/dumbdumb.qtpl`) and differs only in the number of
arguments, so one definition stands for all eight. `map` names the statements a
definition translates in one of the copies: helpers mostly in the copy for one or two
arguments, where they are easiest to read, the actions in copies for more; the lines of
the other copies correspond. The constant `Wirings` says which argument lists are used.

**The list.** `slots` is the backing array of `rs.cells`, `len` the length in the
slice header. Removal and `Reset` only shorten `len`, so what lies beyond is still
there, as in Go, and an append overwrites it.

**The operation in progress.** All operations but `Signal` hold `rs.mu` from the
first line to the last, so at most one is in progress: `mu` is its goroutine, `op`
its name and arguments, `pc` its place, `next`/`upto` the second loop of `evalAll`,
and `stack` the activation records of the recursive `eval()` calls: the cell, the
argument being evaluated, and `allMatch` (`same`).

| Action | Code |
|---|---|
| `SignalRead`, `SignalWrite` | `Signal()`: allocate and read the header of the slice; write it back |
| `Value`, `SetValue`, `Computed`, `Effect`, `Remove`, `Reset` | the operation up to its first loop or call |
| `RemoveOne`, `RemoveCut`, `RemoveOverrun` | `remove()`: one cell; the final cut; the cut below zero, which panics |
| `Mark` | the first loop of `evalAll()` |
| `SweepSkip`, `SweepEval`, `SweepEnd` | an iteration of the second loop that returns at once, one that evaluates, the end |
| `EvalArg`, `EvalDep` | `cellJ.eval()` returns and the result is compared and cached; `cellJ.eval()` recurses |
| `EvalKeep`, `EvalGet`, `EvalRun` | all arguments matched; the getter is called and stored; the callback of an effect is called |
| `BuildEnd` | the end of `ComputedN`: first call of the getter, append to the list |
| `CallbackPanic`, `CircularPanic` | unwinding out of `eval()` with the deferred `Unlock` |
| `Return` | the deferred `Unlock` of a normal return |

**Programs.** A program calls any operation at any time from any goroutine, on
cells it holds. A constructor takes cells already constructed, hence graphs are
acyclic. `SignalOverlaps` says whether programs let `Signal()` overlap other
calls; the code does nothing to prevent it. `Faulty` are the cells whose callback
may panic, at any call. `MaxRemove` bounds the cells given to one `Remove`.

**History.** `enrolled` is the set of cells registered and not removed or reset
since, and `seen[c]` the arguments of the last call of the callback of `c` that
returned. No guard reads them.

**Simplifications.** Callbacks are pure functions of their arguments and do not
call back into the system: with the mutex held such a call waits for itself,
which a model adds nothing to. The locked appends are one step: the only unlocked
writer is `SignalWrite`, which is a step of its own. The loop of `Mark` is one
step: it reads only its own copy of the header, and what `Signal` appends has a
`setDirty` that does nothing. The header is read and written whole (Go promises
less: a torn header), and the array is not reallocated when it outgrows 4096
cells, which would let the two goroutines of a race keep different arrays. The field
`state` of a signal is written and never read, and left out. Errors returned by
effects are dropped by the code and left out.

## 4. The properties and the runs of dumbdumb

`Meaning[c]` is what node `c`, which has been made, would hold if every getter were
called now in dependency order. `Within(cs)` is the largest part of `cs` in which nothing
depends on a cell outside. A cell is `Live` when it and every derived cell it depends on is
enrolled: what `Remove` and `Reset` detached is no longer refreshed, by design. `Listed` says
the same of what is in fact in `rs.cells`, and `Untainted` are the cells that neither
have a callback that may panic nor depend on one.

| Run | Instance | Properties | What it shows |
|---|---|---|---|
| `core` | 1 goroutine, 1 signal, 2 computeds, 1 effect; wirings of one node or two computeds; removals of one cell | `Promise`, `Settled`, `NoFalseCycle`, `Consistent`, `NoWastedCall`, `RegistryExact`, `StoppedStaysStopped` | chains and diamonds in every order of construction, removal and reset implement the abstract graph, and the list is what is registered |
| `faulty` | 1 signal, 2 computeds, one may panic, wirings also of a signal with a computed, `Remove` of up to two cells, `FairSpec` | `TypeOK`, `PanicContained`, `LockReleased` | a panic harms only what depends on it; whoever locks unlocks, also past the slice bound that panics |

**The abstract graph.** `ReactiveGraph.tla` knows the values of the signals
(`inputs`), what the computeds are functions of (`formulas`), what the effects depend
on (`watches`) and the arguments of their last call (`told`), whether an operation is
in progress (`busy`) and the answer of a read (`answer`). A write changes an input and
nothing else. Before the operation ends, each effect whose arguments are no longer the
told ones is called, with the values that solve the equations of the graph: so never
with one new and one old value, not twice, and not without a change. A read answers
with what solves the equations, after the effects have been told. Cells can be
detached, together with all that depends on them.

`DumbdumbGraph.tla` gives the refinement mapping: the values of the signals
(`Inputs`) are `inputs`; the `Live` computeds and effects, with their wirings, are
`formulas` and `watches` (`Formulas`, `Watches`); `told` is what the effects have last been
called with, or zeros before the first call (`LastTold`); `busy` is whether the mutex is
held; `answer` is the value `Value()` is about to return, when its sweep has ended
(`Answering`). The
call of a callback of an effect is `Tell`; registering at the end of a constructor is
`NewComputed`; removal and reset are `Detach`; the marks, the sweep, the recursion of
`eval()`, the comparisons and the caches are stutters. `Promise` says that every behaviour
of the package is one of the graph. It implies that reads are fresh, that effects miss
nothing, and that no callback of an effect sees a glitch, which `ReadFresh` (kept for
the rows of section 5) would state one by one.

The other packages do not implement this graph, and are not meant to be compared with
it here: `rocket` and `foo` call an effect in the middle of the marking, once per path
and with mixtures (sections 7 and 10), `reactively` never calls one again (section 8),
and in `alien` dependencies are found by running functions, which this graph has no
formulas for.

The bounds. Values are bits and the getter is NAND, which is enough for arguments
that change with and without a change of the result, and for the cached zero
value to be confused with a real one. With one signal and two computeds the
wirings of `core` contain the chain, the fork and the diamonds closed by an effect: over two
computeds of the signal, and over two of which one depends on the other. Since removal
permutes the list, each is met with the dependent before and after its dependency. The
diamond closed by a computed (over a signal and a computed of it) is in the wirings of
`faulty`; `core` with these too passed (1.8 million states, too long for a regular run).
A third computed adds longer chains; what is true of them in general is the
subject of the proofs. More goroutines only matter where something happens
without the mutex, which is `Signal`. `MaxRemove` is 1 where the list must stay
exact, 2 where the run is about removing several. No run bounds the length of a
behaviour: cells are allocated once, and nothing else grows.

`RegistryExact` is a claim about programs that keep `Signal()` apart from other
operations and remove one cell at a time; section 5 shows that the code keeps it for no others.
`NoFalseCycle` is checked where nothing panics, for the same reason. `Promise` takes a new
effect as told zeros, as the code does.

Symmetry is used in `core`, over cells of one kind, which
the model treats alike; not in `faulty`, which checks liveness. No run disables the deadlock check: an
idle system can always be called.

**Fairness.** `FairSpec` asks that a goroutine inside an operation keeps running:
weak fairness of `Step`, and of the second half of `Signal`. That is what the Go
scheduler gives a goroutine that is not blocked; nothing is assumed about whether a
program calls again, or in which order goroutines get the mutex.

## 5. Findings in dumbdumb

The proofs and the runs above keep clear of what follows; TLC shows each in a
moment, and no regular run repeats it.

* `RegistryExact` and `ReadFresh`, with 2 goroutines, 2 signals, 1 computed and
  `SignalOverlaps`. `Signal()` appends without the mutex (signals.go:107) although
  README.md:15 calls the package thread safe: the header written back forgets the
  computed that another goroutine registered meanwhile, and its `Value()` is stale from
  then on.
* `RegistryExact`, with 2 signals, 2 computeds and `MaxRemove` 2. `remove()`
  (signals.go:56) fills every hole with the same last cell: after `Remove(a, b)` the
  list is not what is left.

The next three take the constants of `dd_faulty.cfg` with `MaxRemove` 1, except as said.

* `ReadFresh`. `eval()` caches an argument before it calls the getter
  (signals.go:174): after a getter panicked, the old value passes for the new one, in
  spite of tests named for consistency after errors (signals_test.go:371, 384).
* `NoFalseCycle`. A panic leaves cells in state `computing`,
  and a constructor evaluates its arguments without marking them:
  `panic("circular dependency")` (signals.go:137) in a graph that has no cycle.
* `EffectRunsOnCreation`, with one effect, no computed, `Singles` for
  `Wirings` and no `Faulty` cell. An effect over
  zero-valued cells does not run when it is created (signals.go:233); the tests
  assert that creation runs it (signals_test.go:42-43).

## 6. What is proved of dumbdumb

`DumbdumbProofs.tla`, for any goroutines, cells, values, wirings and getters that
satisfy `KindsAssumption` (the kinds of cells are disjoint) and `DataAssumption`
(getters map values to values; wirings are non-empty lists of nodes).

* `TypeCorrect`: `Spec => []TypeOK`, with panics, overlapping `Signal()` calls and
  removals of several cells included. `TypeOK` alone is not inductive: that
  `cached[c]` stays as long as `deps[c]` and that getters are applied to what they
  accept needs `WellFormed`, that every cell in the list, on the stack or being
  appended has been allocated with its wiring.
* Without overlapping `Signal()` calls, but with panics and any number of cells per `Remove`:
  * `ConsistentAlways`: `Spec => []Consistent`;
  * `ArgsFinalAlways`: `Spec => ArgsFinal`, an action property of the proofs
    module: every callback, the first call in a constructor included, gets the current
    values of its dependencies, all of which are final for the step.
* Under `Disciplined`, which excludes panics too (section 5 shows what happens otherwise):
  * `NoFalseCycleAlways`: `Spec => []NoFalseCycle`;
  * `SettledAlways`: `Spec => []Settled`.

The argument is one inductive invariant, `SInv == TypeOK /\ Consistent /\ Ordered`.
`Consistent` says how far the sweep has come: a clean registered cell agrees with
dependencies that are clean too (`CleanAgree`, `Agrees`), each frame of the stack
has read final values and waits for the cell of the frame above (`Frames`), only
cells on the stack are computing (`Computing`), the value of a computed belongs to
its cache unless a change has been noticed but not applied (`Memoised`), and the
sweep leaves only clean cells behind it (`Swept`). A panic leaves its
callers in state computing, some with arguments cached for a getter that was never called:
`Computing` and `Memoised` speak of `Untainted` cells, which have no such callee. It does not say that `eval()`
never comes back to a cell on its own stack: for this `Ordered` says that there is a
rank of the cells that decreases along dependencies and up the stack. Constructors
only accept cells that exist, so a new cell gets a rank above all others
(`OrderedAllocate`); then no cell is on the stack twice (`StackDistinct`) and none
is met in state computing (`NoCircular`). TLC checks `Consistent` in `core`;
`Ordered` quantifies over functions to `Nat`, out of its reach, and is checked
through `NoFalseCycle`.

`DumbdumbGraphProofs.tla` has three parts. The second is about the list, with panics,
under `OneByOne` (no overlapping `Signal()`, one cell per `Remove`; section 5 shows what happens otherwise):

* `RegistryExactAlways`: `Spec => []RegistryExact`;
* `StoppedStaysStoppedAlways`: `Spec => StoppedStaysStopped`.

Its inductive invariant `LInv` adds to the types what the list is in every place of the
code (`ListExact`): outside `remove()` the first `len` slots hold each enrolled cell
once and nothing else (`Listing`); in `remove()`, before its round, they may also hold the
cell to drop, and after it they do so without the last `dropped` slots (`ListRemoveOne`:
the last cell has moved into the hole, and the hole may be the last). A listing with no
repetition is a bijection, hence `len = Cardinality(enrolled)`. What is being appended
or constructed is not in the list yet (`PendingApart`, `BuiltApart`), and since no list
shrinks while `eval()` runs, every effect on its stack is still enrolled (`EffectsListed`).

The first part, under `Disciplined`, is about the calls:

* `NoWastedCallAlways`: `Spec => NoWastedCall`.

Freshness alone would allow every callback to be called at every access, since every
access marks every cell. `WInv` adds to `SInv` what the caches know (`Told`): the cached
arguments of a cell are those of its last call (`LastTold`), unless its frame has noticed a
difference, and then the difference is in an argument that was read already, which the
rest of the frame does not undo. That a cell has one frame at most (`StackDistinct`) is
needed again, and so is that a call in a constructor has no earlier one (`Uncalled`).

The third part is about what the program sees:

* `PromiseKept`: under `Orderly`, which is `Disciplined` and `OneByOne`,
  `Spec => Promise`: the package implements the abstract graph;
* `ReadFreshAlways`: under `Orderly`, `Spec => []ReadFresh`;
* `PanicContainedAlways`: without overlapping `Signal()` calls, with any panics and
  removals, `Spec => []PanicContained`.

`GInv` adds to `WInv` and `LInv` that outside of `evalAll()` every registered effect is
clean (`EffectsClean`), so that a graph that is not busy has told its effects, and that a
read is of a cell the program holds (`Asked`). The bulk is about the mapping: what each
step does to `Live`, defined as a union of sets, and hence to what the abstract graph knows
(`Kept`). Then there is a lemma for each action, of the form `GInv /\ A => a step of the graph or
no change of what it shows`: `Mark`, the sweep and `eval()` change nothing of it
(`Same`), the call of an effect is a `Tell` because its arguments are final (`Frames`) and
differ from the last ones (`Told`), the end of a sweep is an `Answer` because what is
clean behind it agrees with its dependencies, all the way down.

That values which agree with their dependencies *are* `Value` of the abstract graph, or
`Meaning`, both recursive functions, is an induction along the graph. `GraphRecursion.tla`
makes it without the operator parameters that the prover cannot instantiate: the
library's `WFMin` says of a *set* that it has a minimal element, so a set that holds each cell
whose dependencies it holds, holds all (`Descent`), the same of the numbers (`Count`), and
equations along a graph whose ranks are bounded have a solution (`Solution`), which
`Descent` makes the only one. This is what `Ordered` is for once more.

Only model-checked: `LockReleased`, liveness under fairness.

## 7. Rocket

`Rocket.tla` is the package, `MCRocket.tla` the instances' constants.

**State.** `mu` and `inEffect` are the fields of the system. A node has a value
`val`, a version `ver` and a list of subscribers `subs`; a computed also `isDirty`,
a computed or an effect its dependencies `deps` and `versionSum` (`vsum`). As in
dumbdumb the eight arities are one definition. Every goroutine has a `stack` of the
calls it is in: an operation waits at `lock`, acts at `body`, leaves at `end`;
`markDirty()` loops at `mark`; `value()` collects values and the sum of versions at
`pull`, an effect under construction at `first`; at `call` the callback of an effect
runs, and may call operations; at `nil` the code is about to follow a nil pointer.

**The loop of `markDirty()`.** Go's `range` evaluates `s.subs` once, so a frame at `mark` carries
the slice it began with (`over`), and goes by its length. A constructor appends, which may or may not
move the list to a larger array; a stop function cuts an entry out and shifts the rest of the
array in place. As long as the list is what it was the next entry is known; once it is not,
`Reached` leaves it open which of the cells that have subscribed to this one the slot
holds by now. Only a callback that restructures the graph, or another goroutine in the
graph at the same time, gets there.

| Action | Code |
|---|---|
| `Signal` | `Signal()`, which touches nothing shared |
| `CallValue`, `CallSetValue`, `CallComputed`, `CallEffect`, `CallStop` | the call up to `mu.Lock()`; the first two read `inEffect` here and may skip the lock (`Gate`) |
| `CallComputedValue`, `NilPanic` | `Value()` of a computed, whose `rs` no constructor sets |
| `Acquire`, `Return` | `Lock()`, and the deferred `Unlock()` of a call that locked |
| `ReadBody`, `WriteSame`, `WriteQuiet`, `WriteMark` | `Value()`; `SetValue()` of the same value, without subscribers, and with |
| `ComputedBody`, `EffectBody` | subscribing a new computed or effect |
| `StopSub`, `StopEnd` | one `depJ.removeSub(s)` of a stop function; its end |
| `MarkComputed`, `MarkEffect`, `MarkEnd` | one turn of the loop of `markDirty()`: recurse into a computed, evaluate an effect at once, leave |
| `PullArg`, `PullDep` | `depJ.value()` answers at once; it recurses into a dirty computed, and `PullArg` then takes the answer (when two goroutines race, the model looks at the mark once more, the code does not) |
| `PullSkip`, `PullGet`, `PullRun`, `FirstRun` | the sum is the stored one; the getter is called; the callback of an effect is called by a mark, by the constructor |
| `CallReturn` | the callback returns and `inEffect` is cleared |
| `GetPanic`, `CallPanic` | a callback panics: everything is unwound, the lock released, `inEffect` left as it is |

**Programs.** Any goroutine calls any operation on cells it holds; callbacks of
effects may call `Value()` and `SetValue()`, at most `MaxNested` callbacks deep.
`Nests` says whether they write signals that effects depend on, directly or through
computeds (`Above`), `Restructures` whether they also create cells and stop effects,
`ReadsComputeds` whether anyone calls `Value()` on a computed, `Faulty` which callbacks may panic.
Getters are pure and call nothing. Constructors and stop functions take the mutex whatever
`inEffect` says, so a callback that calls one waits for itself whenever its goroutine has the
mutex. It does not have it once a
panic of an effect has left `inEffect` set: then writes take no mutex, a `stop()` in a callback
goes through, and the loop of `markDirty()` above it goes on over a shifted array. The model
has these programs; the passing runs do not (`Restructures = FALSE`), and of the theorems only
`TypeCorrect` and `NoLeakedLockAlways` speak of them. What two goroutines do to each other when
both are inside the graph is a data race: that it happens is what `rk_race` shows, and no
passing run relies on what follows.

**History.** `active`: the effects created and not stopped; `seen[c]`: the
arguments of the last call of the callback of `c`, recorded when it starts; `ran`:
the callbacks called by the outermost operation in progress. No guard reads them,
except that `CallSetValue` consults `active` to know what a program without nested
effects may write.

| Run | Instance | Properties | What it shows |
|---|---|---|---|
| `rk_core` | 1 goroutine, 2 signals, 2 computeds, 2 effects, chains and pairs of computeds, callbacks that read and write | `EffectsSeen`, `CleanFresh`, `NoSelfDeadlock`, `SumTells`, `FirstCallFresh`, `StoppedStaysStopped` | pulling in the middle of the marking loses nothing, and skipping the lock lets callbacks work |
| `rk_faulty` | 2 signals, 1 computed, 2 effects, of which the computed and one effect may panic, reads of computeds, versions modulo 3, `FairSpec` | `TypeOK`, `NoLeakedLock`, `CallsReturn` | no unwinding leaves the mutex locked, and every call ends |
| `rk_race` | 2 goroutines, 1 signal, 1 effect | `Exclusive` violated | the finding below |

**Bounds.** Values are bits and getters NAND. `MaxVersion` stops the writes to a
signal that has reached that version, versions starting at 1: 3 lets it change twice
under its subscribers, and any number of times before it has some, so that an effect
is called by its constructor, by a mark that finds no recorded sum and by one that
does. `rk_core` wires one node or two computeds; wiring a signal with a computed too
passed with `MaxVersion` 2 (2.4 million states, too long for a regular run).
`VersionModulus` stands for
2^32: at 64 nothing wraps in these instances, at 3 it does soon. `MaxNested` 1 lets
callbacks call operations, whose effects call nothing; one level shows what clearing
`inEffect` does to the level below. Two effects are needed for one to be stopped,
nested or skipped beside another.

**Fairness** (`rk_faulty`): weak fairness of `Step` of each goroutine, since the Go
scheduler runs what is not blocked; strong fairness of `Acquire`, since `sync.Mutex` hands
the lock to a waiter that has starved for a millisecond; and strong fairness of the end of a
callback (`CallReturn`, or `CallPanic` where it may): a callback is a function of the program
that may call operations but does not do so for ever. Without the last a callback could
read the same signal again and again, and its write would never return. Nothing is assumed
about when programs call.

Finding, `rk_race`: `Value()` and `SetValue()` read `inEffect` before they have the mutex
and skip the mutex if it is set (signals.go:35, 51). It is a field of the system, not of a goroutine:
while one goroutine runs the callback of an effect, in the middle of its marking, every other
one is let in, and `SetValue()` writes values, versions and marks beside it. README.md:15
calls the package thread safe and means "access safety". One effect is enough.

What follows TLC refutes in a moment, one goroutine and one signal and otherwise the
constants of `rk_core.cfg` except as said; no regular run repeats it:

| Property | Instance | What the code does |
|---|---|---|
| `NoSelfDeadlock` | 2 signals, 2 effects, `Nests`, `MaxNested` 1 | a nested effect clears `inEffect` (signals.go:245): the next call of the outer callback waits for the mutex of its own goroutine, against README.md:15 |
| `NoSelfDeadlock` | 1 effect, `Restructures` | the callback calls `stop()`, or a constructor, which lock always (signals.go:201, 219) |
| `ComputedsReadable` | 1 computed, `ReadsComputeds` | `Value()` of a computed always follows nil (signals.go:117, 130); the tests call it (signals_test.go:48) and cannot pass |
| `OncePerUpdate` | 2 computeds, `Diamonds` | an effect below a diamond runs once per path (signals.go:249), first with one side old, against signals_test.go:124-125 |
| `BailsOut` | 2 signals, 1 computed, `AtMostTwo` | a new effect runs again at its first mark with the same arguments (signals.go:207), against signals_test.go:185 |
| `FirstCallFresh` | 1 computed that may panic, 2 effects | after a getter panicked its computed is clean with the old value (signals.go:139, 153), against the intent of signals_test.go:374 |
| `PanicContained` | 2 computeds, one may panic, 2 effects | a panic in the marking leaves the subscribers behind it unmarked (signals.go:74), against signals_test.go:387-399 |
| `SumTells` | 1 computed, 2 effects, `VersionModulus` 3 | sums that wrap collide (signals.go:148), against the comment at signals.go:103; with exact sums (`rk_core`) no change is missed, because versions only grow |

### What is proved of rocket

`RocketProofs.tla`, for any goroutines, cells, values, wirings, getters, bounds and
moduli that satisfy `KindsAssumption`, `DataAssumption` and `BoundsAssumption`, with
callbacks that panic and with goroutines that race:

* `TypeCorrect`: `Spec => []TypeOK`;
* `NoLeakedLockAlways`: `Spec => []NoLeakedLock`.

Both also speak of callbacks that create cells and stop effects. Their inductive
invariant, `TInv`, is `TypeOK` with three more parts.
`Wired` and `SubsMade`: what exists is wired with, and subscribed by, what exists.
`StackFormed`: every call of every stack is at a place its operation has, about a
cell of the right kind, and a `value()` has collected exactly the arguments before the one
it is at, so that a getter gets a full argument list. `WellLocked`: the mutex is held
by a goroutine exactly if one of its calls locked it, and then by one call only;
this carries `NoLeakedLock` through nested calls, of which only the outermost has
locked, and through a panic, which leaves all of them at once. Every step moves, pushes, pops or
unwinds the stack of one goroutine, so the lemmas `MoveKeeps`, `PushKeeps`,
`PopKeeps`, `CallKeeps` and `UnwindKeeps` prove the parts about stacks once and the
lemma of each action only shows that its frames fit.

The second part of `RocketProofs.tla` assumes `Alone`, one goroutine
whose callbacks create and stop nothing, and otherwise as little:

* `NoSelfDeadlockAlways`: without `Nests`, `Spec => []NoSelfDeadlock`;
* `StoppedStaysStoppedAlways`: `Spec => StoppedStaysStopped`.

To `TInv` its invariant `AInv` adds three parts. `SubsWired`: whoever subscribes to a
node has it as an argument, and an effect that subscribes is active. `Enough`: an effect
has no more entries in a list than arguments that are that node. `CallsFit`, about the
whole stack: each call is `Good` and may be `Under` the calls above it. A `value()` is
about an active effect; a constructor that has not subscribed its effect, and a stop
function, are alone on the stack (`Solo`), and so the list that a mark ranges over is the
present one (`Good`). A stop function at its i-th argument finds no
more entries than arguments left (`Left`), so at the end there is none: this count is what
makes `StoppedStaysStopped` inductive, and it needs that `removeSub()` takes one entry
out if there is one (`WithoutPlaces`).

For the mutex, `Good` says that a callback in progress finds `inEffect` set. What clears
it is the end of a callback, so no second one may be above the first: above a callback
there are only reads, writes and marks of `Unwatched` nodes, those with no active effect
`Above` them. A mark of such a node can only go on to another one (`SubUnwatched`), and never
reaches an effect. `Gate` then lets every call of a callback pass, and what waits for the mutex
is the outermost call, which has not locked.

`RocketFreshProofs.tla` assumes `Calm`: one goroutine, no callback that panics, creates cells or
stops effects, and nobody who calls `Value()` on a computed. The table above shows what each
of these is needed for.
Callbacks may write what effects depend on (`Nests`), nested to any depth:

* `EffectsSeenAlways`, `CleanFreshAlways`: `Spec /\ []Unwrapped => []EffectsSeen`, and
  `[]CleanFresh`;
* `SumTellsAlways`, `FirstCallFreshAlways`: `Spec /\ []Unwrapped => SumTells`, and
  `FirstCallFresh`.

`Unwrapped` says that no version and no sum of versions has reached the modulus; it
holds in every state of `rk_core`. The difficulty is that `markDirty()` evaluates an
effect in the middle of the marking, over a graph of which a part is stale and not
marked yet, and that the callback may begin other writes there. What will still be
marked is in `Pending`: the least set of derived cells that holds what the loops on the
stack have still to mark (`Roots`), and with a cell whatever depends on it (`Spreads`).
The invariant is `UInv == Linked /\ CallsSet /\ DataFit`:

* `Linked`: who depends on a cell subscribes to it, but for a computed that is being
  constructed and an effect that is being stopped (`Settling`), which are alone on the stack.
* `CallsSet`: evaluations go down a rank (`Ordered`); above an evaluation there are only
  evaluations of computeds (`Suffix`), so that nothing it has collected can change under
  it (`Gathered`); no mark is below the first run of an effect (`Unmarked`), which
  is why a constructor sees a graph without anything pending.
* `DataFit`: a stored sum is at most the present one, and if they are equal the arguments
  of the last call are the present ones (`SumsTell`, from versions that only grow);
  a computed that is clean, not pending and not being evaluated agrees with
  dependencies of the same kind (`Fresh`); an effect that no mark will reach has been
  told what its dependencies mean (`Told`).

A write stores its value before it marks, so there `Fresh` breaks for everything above the
signal, and all of it becomes pending in the same step; a turn of a loop takes one
subscriber out of `Roots` and puts a loop over that one's subscribers in. `value()` clears
`isDirty` before it evaluates, so the cells that are being evaluated (`Pulling`) are
excepted until their getters return. `Fresh` goes from values to `Meaning` along the rank, by
`GraphRecursion`. With an empty stack nothing is pending (`Rests`), and `Fresh` and
`Told` are `CleanFresh` and `EffectsSeen`.

Only model-checked: `CallsReturn`, which is liveness under fairness. The code does not keep
`Exclusive`.

## 8. Reactively

`Reactively.tla` is the package, `MCReactively.tla` gives it functions. There are no
locks, so there is one goroutine; what interleaves is the program's functions with
the package that runs them and that they call.

**State.** Cells are signals, memos and effects; a write turns a memo into a signal
and a new function a signal into a memo. `fn`, `value`, `state`, `sources`, `observers` and
`cleanups` are the fields of a cell (of the cleanup functions only how many there
are), `current`, `gets` and `index` those of the context. `effectQueue` is left out:
nothing writes it. `stack` holds the calls in progress. A frame of
`updateIfNecessary()` carries the sources it began with, as the `range` of Go does,
and becomes a frame of `update()`, which carries the old value and the saved context.

**Functions.** `Does(f, seen)` is what `f` does next after it has seen `seen`: read a
cell, write one, ask for a cleanup, return a value, panic. So a function may branch on what it
reads, which is what the dynamic links are for. `Uses(f)` are the cells it may
touch, which exist when it is given to a cell. Cleanup functions are not run: in the
model they do nothing. Functions read and write cells; `WriteFn()`, `Signal()`, `Memo()` and
`Effect()` are called by the program only, although the code lets a function that runs call
them too (reactively.go:78-109, 131-137): there an effect would be updated, and a memo's function
replaced, in the middle of another update. `OnCleanup()` is called by functions only. From
outside of all functions it panics and changes nothing, unless a panic has left a context:
then the code gives the cleanup to the function that was interrupted
(reactively.go:294-306), which the model leaves out.

| Action | Code |
|---|---|
| `Signal`, `Memo`, `Effect` | the constructors; an effect is updated at once |
| `CallRead`, `ReadEnd` | `Read()`: recording the read, and its return |
| `CheckSource`, `CheckEnd`, `Update` | `updateIfNecessary()`: one source; clean after all; dirty, up to the call of the function |
| `OnCleanup`, `Panic`, `NilCall` | a function asks for a cleanup; it panics; it is nil |
| `UpdateEnd` | the rest of `update()` and of the `updateIfNecessary()` that called it: new links, context restored, observers dirty |
| `CallWrite`, `WriteObserver`, `WriteCleanup`, `WriteEnd`, `WriteSame` | `Write()`: dropping the function; its loop; the assignment |
| `CallWriteFn`, `WriteFnEnd` | `WriteFn()` up to `stale()`; the assignment |
| `StaleObserver`, `StaleCleanup`, `StaleEnd` | the loop of `stale()`; its panic |
| `Stablize` | `Stablize()`, whose loop has no round |

**History.** `log[c]` is what the last run of the function of `c` has seen, `moved[c]`
whether something in it has changed since, or the function, or a write has been cut
short by a panic; `ran` the functions run by the program's call. No guard reads them.

| Run | Instance | Properties | What it shows |
|---|---|---|---|
| `rx_core` | 2 signals, 3 memos, 1 effect; functions of two cells that read the second only sometimes, or the first twice; a memo that changes its function | `TypeOK`, `ReadFresh`, `NoNeedlessRun`, `OncePerCall` | what is read is fresh, nothing runs for nothing or twice, while links come and go |
| `rx_faulty` | 1 signal, 2 memos, 1 effect; a function that panics, one with a cleanup, one that writes a memo; `Write()` to memos | `LinksMutual`, `CleanReplays` | the panics, which leave the context inside the interrupted function, do not corrupt the graph |

**Bounds.** Values are bits, which is enough for a source that is recomputed with and
without a change. `rx_core` has a memo over a memo over a memo, so a mark passes through
`stale()` twice; m2 and m3 close diamonds, and m2 can lose and regain a source. The
lists grow (below), so the program stops writing at `MaxLinks` entries: at 4 a list has
been relinked with entries kept, removed and repeated. `MaxGets` bounds the reads
that a context left behind by a panic collects at the top level, where nothing empties it.
Functions only use cells created before theirs, `Sets` writes what its own cell does
not read, and no memo has both `Write()` and `WriteFn()`: the next table says why. No
fairness is assumed and no liveness is stated: nothing waits.

What the code does against its own comments or what a reader would expect. TLC shows
each with the functions named; no regular run repeats it:

| What TLC refutes | Functions | What the code does |
|---|---|---|
| an effect is clean when no call is in progress | `Not(s1)` for an effect | nothing is ever appended to `effectQueue`: after its first run no effect runs again, although line 308 says of `Stablize` "run all non-clean effect nodes" |
| `Update` of a source only while the cell that checks it is not yet dirty | `And(s1, s1)`, `Xor(s2, s2)` and a memo `Xor` of these two | the state of the source that line 262 tests is always clean by then, so the loop goes on to the other sources, which the comment at lines 264-266 wants to avoid |
| `NoNeedlessRun` | `WriteFn()` from `Xor(s1, s3)` to `Xor(s2, s1)` | a read that meets the first old source after another one keeps the old list (line 218): the memo stays an observer of s3 |
| a bound on `Len(sources[c])` | `Xor(s1, s1)` | reading the first source twice adds an entry at each rerun (line 218) |
| `CleanReplays` | m1 = `Not(s2)`, m2 = `Twice(s1, m1)`, m3 = `Xor(m2, m1)` | the next paragraph |
| `CleanReplays` | an effect that reads s1 and writes it | `update()` marks the cell clean whatever was marked meanwhile (line 252) |
| `CleanReplays` | a memo with a cleanup and a memo that reads it | `stale()` panics at the cleanup that `OnCleanup()` put among the observers (lines 173, 302), and does not mark the observers behind it |

m2 reads s1 twice, and m1 only if s1 is 1. A rerun of m2 meets its first old source only
at its second read, and then keeps the whole old list and appends to it (line 218): m2
stays an observer of m1 when it no longer reads it. When m3 runs it reads m2, which is
brought up to date without m1, and then m1, which has changed and marks its observer m2
dirty (line 243), without a mark for the observers of m2. m3 ends clean over a dirty m2. A
later write to s1 finds m2 dirty, goes no further (line 165), and m3 returns its old value,
"valid, no need to recompute" (line 6).

From the code alone: a memo written with `Write()` while it is dirty stays dirty with
a nil function; a later `WriteFn()` then marks none of its observers (line 165).

### What is proved of reactively

`ReactivelyProofs.tla` and `ReactivelyFreshProofs.tla`, for any cells and any functions
that are `Proper`, with panics, cleanups, nested writes, cells written over and cells
given functions:

* `TypeCorrect`: `Spec => []TypeOK`;
* `LinksMutualAlways`: `Spec => []LinksMutual`: a cell is among the observers of its
  sources and of nothing else;

and for functions that are `Careful` too:

* `CleanReplaysAlways`: `Spec => []CleanReplays`;
* `ReadFreshAlways`: `Spec => ReadFresh`;
* `NoNeedlessRunAlways`: `Spec => NoNeedlessRun`;
* `OncePerCallAlways`: `Spec => OncePerCall`.

`Proper` is two conditions. `Functions`: whatever a function has seen, it has a next
step, which touches what `Uses` names only. `Layered`: the cells can be ranked such that
functions use cells of lower rank; without it `Read()` recurses for ever. Both instances
satisfy them: their functions use what stands before their cell in the order s1, s2,
m1, m2, m3, e1.

`Careful` keeps out what the table refutes:

* only effects write, and what an effect writes lies in a set (its `Area`) that is closed
  under dependents and from which the effect reads nothing (the effect that reads s1 and
  writes it is out);
* no cell is both written and rewired (the dirty memo that becomes a signal and a memo again);
* a function that asks for a cleanup belongs to a cell that nobody uses and that is not
  rewired, and uses cells that never have functions (the cleanup among the observers);
* what a cell reads first, in some run of one of its functions, it reads later in none (`Twice`
  above, the rewired `Xor`, `And(s1, s1)`);
* effects are not used.

`rx_faulty` is such a program, and so is `rx_core` but for its `And(s1, s1)`: there TLC
checks `ReadFresh`, `NoNeedlessRun` and `OncePerCall` beyond the theorems, for a cell that
keeps an old source which it does read.

**The links.** The invariant is `RInv == TypeOK /\ Sunk /\ CallsFit /\ LinksMutual`. `update()`
trusts the context with three things at its end: that `currentGetIndex` does not exceed the
sources its cell has *now*, that a run which kept a prefix of them has read something,
and that what it collected may become sources. So each running function has a record, in the
context if it is the innermost and else in what the function above has saved
(`Recorded`), and a record is about the sources of its cell (`Records`). These must not
change while the function runs, although others run, are written over and relinked in the middle of it:
calls above a function are about cells of lower rank (`Ordered`, `Sunk`, `FrameFits`), so none
is about the same cell. What a panic leaves in the context belongs to no call any more
and is not constrained: the next `update()` saves it and puts it back. Links
go by `Without`, a `SelectSeq`, which the standard module defines by recursion; what it
keeps (`WithoutKeeps`) is another use of `GraphRecursion`, whose `Solution` serves for the
positions of a sequence as for the cells of a graph.

**Freshness.** `FInv == GraphFit /\ DataFit /\ CallsSet /\ RanFit` is added to it.

* `GraphFit`: the sources of a cell are what its last run has read, nothing more: with
  `Careful` no read is taken for an old source again, so `update()` replaces the whole
  list. Only then is who has to be told of a change among the observers.
* `DataFit`, about every moment, also in the middle of marking. `Spread`: who observes a
  cell that is marked is marked too, or a `stale()` in progress has still to come to it.
  `Valid`: what a cell has seen that is not *dirty* is what is stored now (while it may be
  *checked* because something below is about to change). `Due`: a dirty cell has a reason,
  a change in what it has read or a write in progress that is about to be one. `Raw` is
  about a cell that waits for its first function.
* `CallsSet`, about the stack. `Shape` says what may stand above what: an effect's function
  at the bottom at most, marking above it or above nothing, and calls that bring up to date
  only where nothing is being marked (`Quiet`). `Holds` gives each call what it relies
  on: what a running function has seen has the same value still, and is clean (`Sees`,
  `Settles`); the sources that a check has passed are clean; the observers that a write has
  passed are dirty, which is why it may then store the value. `Noted`: the record of a running
  function is exactly what it has seen, in the context or in what was saved above it.
* `RanFit`: what has run in this call of the program is running or clean, and outside of the
  `Area` of the effect that runs, so that its write cannot mark it again.

The hard steps are `UpdateEndFresh` and the marking. At the end of `update()` the cell has new
sources, its value may be new, and its observers are set dirty and no further: who
observes *those* is marked already, since nothing is clean over what is being updated
(`Spread` with nothing being marked). A running function is not such an observer, as what
it has read is clean and stays so. `Marking` is the loop of `Write()` and of `stale()`: a
step takes the entry of an observer off the call on top and puts either a mark on it or a call
above that still has all its entries to go. An effect's write in the middle of its run
leaves what the effect has seen alone because of its `Area`. A write that `stale()` ends
with a panic leaves marks and no value; that no mark is lost then (`StaleCleanupFresh`) is where
the third condition of `Careful` is needed. When no call marks, `QuietFacts` says what the
four theorems need.

All properties that the runs check of `reactively` are proved; TLC adds that the
hypotheses have instances and that mutations of the model break them.

## 9. Alien

`Alien.tla` is the package, `MCAlien.tla` gives it functions. As in reactively there
are no locks and one goroutine; functions of the program run inside of the package
and call it back.

**State.** A cell has a function `fn` and a `value`; `activeSub`, `activeScope`,
`batchDepth` and `pauseStack` are fields of the system. `graph` is the linked
structure: the `flags` of each cell, the heads and tails of its list of dependencies
(`deps`, `depsTail`) and of subscribers (`subs`, `subsTail`), the pointers `at` of each
link, and the `queue` of effects. A link is named by its dependency, its subscriber
and a number, since for a moment two links may join the same cells. The collector of
Go is modelled too: `Collected` forgets the links that nothing reaches any more, calls in
progress included, else the states would never come back. `fault` is set by a step
that follows a nil pointer. `stack` holds the calls in progress, of the package and
of functions; `checkDirty()` is a frame with its link, its depth and its
`prevLinks`, since it calls getters and must find its way back through a graph
that those may have changed.

`link()`, `startTracking()`, `endTracking()`, `clearTracking()`, `propagate()` and
`shallowPropagate()` call nothing back and are operators on `graph`: `Link`,
`StartTracking`, `EndTracking`, `ClearTracking`, `Walk` (with the walk's stack of branches
and its target flag), `ShallowPropagate`. They follow lists, so they are recursive,
and for this module TLC is all there is.

**Functions.** `Does(f, seen)` says what `f` does next: read, write, create an effect,
stop one, begin or end a batch, pause or resume tracking, return, panic. Tracking is paused
and resumed by functions only, where it means something, and resumed only when it has been
paused: `ResumeTracking()` with nothing paused indexes an empty slice
(reactive_systems.go:59-60) and panics, which is left out. `EndBatch()` decrements
without looking (lines 40-45): a program that ends a batch it has not begun makes the depth
negative, and from then on effects wait until it is zero again. The program of the model does so, down to
`-MaxUnpaired`.

| Action | Code |
|---|---|
| `Signal`, `Computed` | the constructors |
| `Effect`, `InnerEffect`, `RunEnd` | `Effect()`, called by the program or by a function, and `runEffect()` around the function |
| `EffectScope` | `EffectScope()` and `runEffectScope()`, which also ends in `RunEnd` |
| `Stop` | both stop functions |
| `StartBatch`, `EndBatch`, `Batch`, `BatchEnd`, `PauseTracking`, `ResumeTracking` | the same |
| `ReadSignal` | `Value()` of a signal |
| `ReadComputed`, `ReadChecked`, `ReadUpdated`, `ReadEnd`, `GetterEnd` | `Value()` of a computed, `processComputedUpdate()` and `updateComputed()` |
| `CheckScan`, `CheckUpdate`, `CheckUpdated`, `CheckUp`, `CheckUpEnd`, `CheckTrue` | `checkDirty()`, between one call of a getter and the next |
| `SetValue` | `SetValue()` with `propagate()`, up to the queue |
| `DrainNext`, `NotifyChecked`, `DrainEnd` | `processEffectNotifications()` and `notifyEffect()`, before and after `updateDirtyFlag()` |
| `InnerVisit`, `InnerNext` | the loop of `processPendingInnerEffects()` |
| `Panic`, `NilPanic`, `Unwind` | a function panics; a nil pointer is followed; one call is left, with what it has deferred |

**History.** `log[c]` is what the last run of `c` has read, `moved[c]` whether any of it
has changed since; `kids[c]` the effects its last run created and `dead` the effects
that were stopped, or whose creator has run again or was stopped; `ran` the functions run by
the program's call; `hurt` the cells with a run that a panic cut short. `Orderly`, which a
guard reads, bounds the programs: once an *effect* has panicked the program only
reads, stops and ends batches.

| Run | Instance | Properties | What it shows |
|---|---|---|---|
| `al_core` | 2 signals, 2 computeds, 1 effect; functions that always, sometimes or never read the second cell; batches, also ended once too often | `TypeOK`, `EffectsSeen`, `ReadFresh`, `NoNeedlessRun`, `OncePerCall` | the flags lose nothing and cause nothing while dependencies come and go |
| `al_nested` | an effect and a scope that create effects, one of which stops the other; `Batch()`, reads that are not tracked, a getter and an inner effect that panic | `EffectsSeen`, `WellLinked`, `ContextBack`, `DeadStayDead` | ownership, release and the context |
| `al_stale` | 1 signal, 3 computeds, 1 effect | `EffectsSeen` violated | the finding below |

**Bounds.** Values are bits. `al_core` has an effect over a diamond of computeds and over a
chain with a signal beside it, with `Pick` and `And` to move a link from one
cell to another; c2 is over c1 and has one subscriber at most (see below why), and a
batch of depth 1 puts several writes before one drain, and a depth of -1 (`MaxUnpaired`) defers
effects without a batch. `al_nested` has three inner effects,
enough for the two of one run and those of another to coexist while the lists of dead
ones are released. Scopes are created at the top level only, and functions stop effects
that have been given a stop function. A stop function is called once; each further call would only
repeat the release of an empty list. No fairness is assumed: nothing waits.

Finding, `al_stale`: when `checkDirty()` has gone down into a pending computed and finds
that none of its dependencies changed, it returns false (reactive_systems.go:141-143)
instead of going back to where it came from. With c1 constant over s1, c2 over c1, c3
over s1 and an effect over c2 and c3, a write to s1 changes c3 and the effect is not
called. topology_test.go:305-308 calls the like "a bug".

Two more that TLC shows in a moment and that the runs above keep clear of:

| What TLC refutes | Functions | What the code does |
|---|---|---|
| `EffectsSeen` | c1 = `Pick(s1, s2, s2)`, e1 = `Nests(c1, Not(s1))` | `processPendingInnerEffects()` writes back the flags from before `updateDirtyFlag()` cleared `PendingComputed` (effects.go:108-110; reactive_systems.go:67 says that it is cleared). An effect with effects inside, over a computed that was recomputed to the same value, stays pending; every later `propagate()` finds it marked and does not queue it: it is never called again |
| `NeverNil` | c1 = `Not(s1)`, c2 = `Not(c1)`, e1 and e2 both `Not(c2)` | `checkDirty()` records its way back for links with neighbours on *both* sides (line 133), and returns by it when the computed has more than one subscriber (lines 109-112): with two subscribers nothing was recorded and nil is followed |

For the first, the effects of `al_nested` that create others depend on signals only; for
the second, no computed over a computed has two subscribers in `al_core`.

From the code alone, and outside of the programs of the model:

* `runEffect()` defers nothing. After the panic of an effect `activeSub` is still that
  effect: what the program reads and creates from then on is linked to it. Hence `Orderly`.
* A getter that panics has lost its `Dirty` flag in `startTracking()`; its computed
  passes for clean with the old value. `Sound` excepts what reads it.
* `runEffectScope()` restores `activeScope` from `activeSub` (effects.go:85, 95): a scope
  created in an effect makes that effect the active scope, and one created in a scope
  leaves none.
* An effect that stops itself while it runs subscribes again with its next read.

## 10. Foo

`Foo.tla` is the package, `MCFoo.tla` the instance's constants. README.md:15 does not
count foo among the packages that are thread safe, so there is one goroutine. What is
hard is that effects run inside of a write that holds a mutex.

**State.** A node has `val`, `ver`, `subs`; a derived cell `deps` and `vsum`
(`depVersionsSum`), a computed also `fn` and `isDirty`. `locked` are the cells whose mutex is
held; the difference between a read and a write lock matters only between goroutines.
`stack` holds the calls: `Value()` and `SetValue()` wait at `lock`; `SetValue()` and
`markDirty()` loop at `mark` over the subscribers there were when the loop began; `value()`
collects at `pull`, and an effect is in its callback at `call`; `end` is the deferred
`Unlock`.

| Action | Code |
|---|---|
| `Signal`, `Computed`, `Effect` | the constructors and `addSubs()`; an effect is not run |
| `Stop` | the stop function: `removeSub()` for each argument, which takes out whoever subscribed first |
| `CallValue`, `CallSetValue` | the call up to the mutex |
| `ReadClean`, `ReadDirty`, `Return` | `Value()` at once; by `value()` of a dirty computed; its return |
| `WriteSame`, `Write`, `WriteEnd` | `SetValue()` of the same value; of another, up to the loop; its return |
| `MarkComputed`, `MarkEffect`, `MarkEnd` | one turn of the loop; its end |
| `PullArg`, `PullDep` | `depHash()`: a dependency answers at once; is dirty and evaluated first |
| `PullSame`, `PullGet`, `PullRun`, `CallReturn` | the sum is the stored one; the getter is called; the callback starts; it returns |
| `GetPanic`, `CallPanic` | a panic unwinds everything and the mutexes are unlocked |

**Programs.** At the top and in callbacks of effects, at most `MaxNested` deep, a program
calls `Value()` and `SetValue()` and creates cells. Two disciplines are constants:
`Orderly`, that a callback uses signals of a `Level` above its effect's, where a cell depends on
cells of no higher level; `StopsHead`, that only an effect is stopped which comes first
in the lists of all its dependencies. Effects are stopped from outside of callbacks.
`Faulty` are the cells whose callback may panic.

**History.** `active`: the effects created and not stopped; `seen[e]`: the arguments of the
last call of `e`, or what it was created over; `hurt`: the signals that were written, or on which what
was read depends, when a panic ended the operation. They stay there for good: the
next complete change does not always repair the damage (the end of this section).

`foo_core` has 2 signals, 2 computeds and 2 effects, wired as chains, as an effect over
two computeds and over a signal and a computed. It checks:

* `UpToDate`: outside of calls what is not marked is fresh, and no effect has missed a
  change, although effects pull while the marks are still being pushed, and other
  callbacks read and write in between. A panic costs only what depends on a `hurt` signal, for good.
* `NoSelfDeadlock`: no call waits for a mutex of its own goroutine.
* `TypeOK`.

`foo_stop` has the same cells and programs that stop any effect, without panics, and violates
`StoppedStaysStopped`: the loop variable of `removeSub()` hides its parameter and is compared
with itself (signals.go:54-56, 132-135), so the first subscriber goes and the stopped one
stays, against signals_test.go:65-67. With `StopsHead`, where the first subscriber *is* the effect to
stop, the property would hold, which says little about the code; it is neither run nor
proved.

**Bounds.** Values are bits, getters NAND. s1 changes twice and s2 once (`MaxVersion`), so
that there is a change after one that a panic has cut short; c1 and e2 may panic. s2 is
one level above s1, so e1, over s1 and c1, may write it in the middle of a write to s1. The
versions do not wrap at 64. Signals are created with 1 (`Initials`), which is no getter's
zero value. Nothing waits and no fairness is assumed.

What follows TLC refutes in a moment, with the constants of `foo_core.cfg` except as said:

| Property | Instance | What the code does |
|---|---|---|
| `NoSelfDeadlock` | `Orderly = FALSE` | `SetValue()` runs effects under the write lock (signals.go:34-43): a callback that reads or writes the signal being written waits for its own goroutine |

From the code alone: an effect below a diamond runs once per path, first with one old
argument; a new effect has the sum 0 and so runs at its first mark, whether its arguments
have changed or not.

And what a panic costs, it costs for good: when a getter panics the sum of versions is stored
already, and its computed is clean (signals.go:86, 92-93). With c1 over s1 and c2 over c1, let
a write to s1 change c1 and c2's getter panic: c2 keeps its old value with the new sum. If s1 is
then written away and back before anyone reads c2, both changes complete, c1 is recomputed to
the value it had, its version does not move, c2's sum is the stored one, and c2 is stale
whatever is read from then on. Only another value of c1 repairs it.

### What is proved of foo

`FooProofs.tla`, for any cells, values, wirings, levels, getters, bounds and moduli that
satisfy `KindsAssumption`, `DataAssumption` and `BoundsAssumption`, with callbacks nested to
any depth and with panics:

* `TypeCorrect`: `Spec => []TypeOK`;
* `NoSelfDeadlockAlways`: with `Orderly`, `Spec => []NoSelfDeadlock`;
* `UpToDateAlways`: with `StopsHead`, `Spec /\ []Unwrapped => []UpToDate`. `Unwrapped` says that
  no version and no sum of versions has reached the modulus; it holds in every state of
  `foo_core`. `Orderly` is not needed: a callback that waits for its own goroutine is
  stuck, but nothing is stale.

The first two rest on `IInv == TypeOK /\ Wired /\ SubsMade /\ CallsGood`. `CallsGood`
speaks of the whole stack: each call is `Formed` (at a place its operation has, about
the right kind of cell, with as many arguments as it has collected, in a loop that
stays in its list), and each call `Leads` to those above it. A write leads to calls of
no lower level, and to reads and writes of a higher level only; a read leads to getters
only. `Held` adds that every locked mutex belongs to a call in progress. So a call that waits
for a mutex its goroutine holds would be above a call about the same cell, at the same
level. That `Leads` holds of *all* pairs and not only of neighbours is what
makes it inductive, since a call returns to any depth of others.

The steps of a stack are few: the lemmas `Pops`, `Tops`, `Pushes`, `TopsPushes` and
`Unwinds` prove the parts about stacks once, `Grows` that of a longer list of subscribers, and
each action has a lemma of its own that shows what its frames satisfy.

For the third, take the middle of a write, when the marks have reached part of the graph
and an effect pulls, and its callback reads and writes and creates cells. What is stale
then and has not been marked is in `Pending`: the least set of derived cells that holds what
the loops in progress have still to mark, and with a cell whatever depends on it. It
is defined from the stack and the lists of subscribers, so a step changes it by what it
takes from its own loop; that a mark of a cell adds a loop over exactly its subscribers is
why nothing drops out of it unmarked. The invariant is
`UInv == GraphFit /\ CallsFit /\ DataFit`:

* `GraphFit`: who depends on a cell subscribes to it, and nobody else does.
* `CallsFit`: evaluations go down a rank (`Ordered`) and only evaluations of computeds are
  above one (`Suffix`); what an evaluation has collected is what there is, and stays
  so, since nothing it has read can be marked before it ends (`Gathered`); and marks
  and evaluations of effects come from a write to a signal that the cell depends on
  (`Caused`), which is why the signals a panic makes `hurt` cover all that was pending.
* `DataFit`: a stored sum is at most the present one, and if equal its values are the
  present ones (`SumsTell`, from versions that only grow and `Unwrapped`); a computed
  that is clean, not pending, not being evaluated and not `hurt` agrees with dependencies of
  the same kind (`Fresh`); an effect that no mark will reach has been told what its
  dependencies mean (`Told`).

`Meaning`, `Sources` and `Sums` are recursive functions; that they solve their equations
comes from `GraphRecursion`, as in section 6, and so does the step from `Fresh` to
`Meaning`. A write changes `Meaning` only above the signal, and all of that becomes pending;
every other action leaves it alone. There is a lemma for each action (`WriteFresh`,
`PullGetFresh`, ...), and `Rests` ends the argument: with an empty stack nothing is pending
or being evaluated, and `Fresh` and `Told` are `UpToDate`.

So the three properties of `foo_core` are proved; what TLC adds is that the hypotheses have
instances and that mutations of the model break them.

## 11. What is not modelled

The code generator and the benchmarks keep no state. Of `dumbdumb`, callbacks that call
back into the system, torn slice headers and the growth of the array beyond its first
capacity are left out (section 3); of `rocket`, what a data race does to words of memory
(section 7), while constructors and stop functions in callbacks are in the model but in
no passing run; of `reactively`, `WriteFn`, `Signal`, `Memo` and `Effect` called by functions that
run, `OnCleanup` called by the program after a panic, and what cleanup functions do (section 8); of
`alien`, scopes, signals and computeds created inside functions, tracking
paused or resumed by the program or resumed once too often, programs that go on after the panic of an
effect, and the `onError` hook, which
only reports (section 9); of `foo`, several goroutines, for which the package claims
nothing, and stop functions called from callbacks (section 10).
