-------------------------------- MODULE Foo --------------------------------
(***************************************************************************)
(* The foo package (foo/signals.go): cells without a system around them.   *)
(* Each cell has a mutex of its own, which its Value() and SetValue() take *)
(* and nothing else does; a write pushes marks along the subscribers, and  *)
(* an effect reached by a mark pulls its dependencies at once, still       *)
(* inside of the write.                                                    *)
(*                                                                         *)
(* The package does not claim to be safe for several goroutines            *)
(* (README.md:15), so there is one, and `stack' holds its calls.           *)
(***************************************************************************)
EXTENDS Naturals, Sequences, FiniteSets

CONSTANTS
  Signals,         \* the writeable cells the program may create
  Computeds,       \* the computed cells it may create
  Effects,         \* the side effects it may create
  Values,          \* what a cell can hold
  Initials,        \* BOUND: what the program creates signals with
  Zero,            \* Go's zero value of that type
  Getters,         \* the pure functions the program passes to ComputedN
  Apply(_, _),     \* Apply(g, args): the result of calling g
  Wirings,         \* the argument lists it may give a cell (1 to 8 nodes)
  Level,           \* Level[c]: a cell depends on cells of no higher level
  Orderly,         \* TRUE iff callbacks use signals of a higher level only
  StopsHead,       \* TRUE iff only an effect that heads all lists is stopped
  Faulty,          \* the cells whose callback may panic
  MaxNested,       \* BOUND: how deep callbacks of effects may nest calls
  VersionModulus,  \* versions and their sums wrap here (2^32 in the code)
  MaxVersion,      \* BOUND: MaxVersion[s]: up to which s is written
  None             \* no getter

Nodes == Signals \cup Computeds     \* what a cell can depend on
Derived == Computeds \cup Effects   \* what subscribes
Cells == Signals \cup Derived

ASSUME KindsAssumption ==
  /\ Signals \cap Computeds = {}
  /\ Nodes \cap Effects = {}
  /\ None \notin Getters
  /\ Faulty \subseteq Derived

ASSUME DataAssumption ==
  /\ Zero \in Values /\ Initials \subseteq Values
  /\ Wirings \subseteq Seq(Nodes) \ {<<>>}
  /\ \A g \in Getters, ds \in Wirings :
       \A args \in [DOMAIN ds -> Values] : Apply(g, args) \in Values

ASSUME BoundsAssumption ==
  /\ Level \in [Cells -> Nat]
  /\ Orderly \in BOOLEAN /\ StopsHead \in BOOLEAN
  /\ MaxNested \in Nat /\ MaxVersion \in [Signals -> Nat]
  /\ VersionModulus \in Nat \ {0, 1}

VARIABLES
  made,      \* the cells created
  deps,      \* deps[c]: the arguments of a derived cell
  fn,        \* fn[c]: the getter of a computed
  subs,      \* subs[c]: its subscribers
  val,       \* val[c] of a node
  ver,       \* ver[c]: its version
  isDirty,   \* isDirty[c] of a computed
  vsum,      \* depVersionsSum of a derived cell
  locked,    \* the cells whose mutex is held
  stack,     \* the calls in progress, the innermost last
  active,    \* history: the effects created and not stopped since
  seen,      \* history: the arguments of the last call of each effect
  hurt       \* history: the signals under a write or read that panicked

graphVars == <<made, deps, fn, subs>>
dataVars == <<val, ver, isDirty, vsum>>
histVars == <<active, seen, hurt>>
vars == <<graphVars, dataVars, locked, stack, histVars>>

(* A call in progress.  Value() and SetValue() wait for the mutex at       *)
(* "lock", Value() gives it back at "end"; a loop over `last' subscribers  *)
(* is at "mark", depHash() at "pull"; at "call" an effect's callback runs. *)
FrameSet ==
  [op : {"Value", "SetValue", "markDirty", "value"},
   at : {"lock", "mark", "pull", "call", "end"},
   cell : Cells, arg : Nat \ {0}, last : Nat, args : Seq(Values),
   sum : 0 .. (VersionModulus - 1)]

(* Mutant: the loops start one before the first. *)
FrameAtZero(op, at, c) ==
  [op |-> op, at |-> at, cell |-> c, arg |-> 0, last |-> 0, args |-> <<>>,
   sum |-> 0]

Frame(op, at, c) ==
  [op |-> op, at |-> at, cell |-> c, arg |-> 1, last |-> 0, args |-> <<>>,
   sum |-> 0]

Init ==
  /\ made = {}
  /\ deps = [c \in Derived |-> <<>>]
  /\ fn = [c \in Computeds |-> None]
  /\ subs = [c \in Nodes |-> <<>>]
  /\ val = [c \in Nodes |-> Zero]
  /\ ver = [c \in Nodes |-> 1]
  /\ isDirty = [c \in Computeds |-> TRUE]
  /\ vsum = [c \in Derived |-> 0]
  /\ locked = {} /\ stack = <<>>
  /\ active = {} /\ hurt = {}
  /\ seen = [e \in Effects |-> <<>>]

Plus(m, n) == (m + n) % VersionModulus

-----------------------------------------------------------------------------
(* What the graph means.                                                   *)

(* What the cells would hold if each getter were called now, in dependency *)
(* order.                                                                  *)
Meaning[c \in Nodes] ==
  IF c \in Signals THEN val[c]
  ELSE Apply(fn[c], [j \in DOMAIN deps[c] |-> Meaning[deps[c][j]]])

Meanings(ds) == [j \in DOMAIN ds |-> Meaning[ds[j]]]

(* The signals that c depends on. *)
Sources[c \in Cells] ==
  IF c \in Signals THEN {c}
  ELSE UNION {Sources[deps[c][j]] : j \in DOMAIN deps[c]}
-----------------------------------------------------------------------------
(* Frames. *)

Idle == stack = <<>>
Top == stack[Len(stack)]
Is(at) == ~Idle /\ Top.at = at
Moved(f) == [stack EXCEPT ![Len(stack)] = f]
Goto(at) == stack' = Moved([Top EXCEPT !.at = at])
Popped == SubSeq(stack, 1, Len(stack) - 1)
Advanced == [Top EXCEPT !.arg = @ + 1]

(* The program runs: outside of every call, or in a callback of an effect. *)
Callbacks == {k \in 1 .. Len(stack) : stack[k].at = "call"}
Running == Idle \/ (Is("call") /\ Cardinality(Callbacks) <= MaxNested)

(* The discipline of callbacks: they leave alone what is being written. *)
MayUse(s) == ~Idle /\ Orderly => Level[s] > Level[Top.cell]

(* A panic leaves every call; the deferred Unlocks run. *)
Interrupted ==
  {c \in Nodes : \E k \in 1 .. Len(stack) :
                   stack[k].cell = c /\ stack[k].op # "markDirty"}

(* Mutant: the Unlocks are not deferred. *)
UnwindLocked ==
  /\ stack' = <<>>
  /\ hurt' = hurt \cup {s \in Signals : \E c \in Interrupted : s \in Sources[c]}
  /\ UNCHANGED locked

Unwind ==
  /\ stack' = <<>> /\ locked' = {}
  /\ hurt' = hurt \cup {s \in Signals : \E c \in Interrupted : s \in Sources[c]}
-----------------------------------------------------------------------------
(* Constructors and stop take no lock and call nothing back.               *)

Signal(s, v) ==
  /\ Running /\ s \notin made
  /\ made' = made \cup {s}
  /\ val' = [val EXCEPT ![s] = v]
  /\ UNCHANGED <<deps, fn, subs, ver, isDirty, vsum, locked, stack, histVars>>

Times(ds, d) == Cardinality({j \in DOMAIN ds : ds[j] = d})

(* dep.addSubs(c) for each dependency, once per argument it stands for. *)
Subscribe(c, ds) ==
  /\ c \notin made
  /\ \A j \in DOMAIN ds : ds[j] \in made /\ Level[ds[j]] <= Level[c]
  /\ made' = made \cup {c}
  /\ deps' = [deps EXCEPT ![c] = ds]
  /\ subs' = [d \in Nodes |->
                 subs[d] \o [k \in 1 .. Times(ds, d) |-> c]]

Computed(c, ds, getter) ==
  /\ Running
  /\ Subscribe(c, ds)
  /\ fn' = [fn EXCEPT ![c] = getter]
  /\ UNCHANGED <<dataVars, locked, stack, histVars>>

(* A new effect is not run: it counts as told what it is created over. *)
Effect(e, ds) ==
  /\ Running
  /\ Subscribe(e, ds)
  /\ active' = active \cup {e}
  /\ seen' = [seen EXCEPT ![e] = Meanings(ds)]
  /\ UNCHANGED <<fn, dataVars, locked, stack, hurt>>

(* e comes first in the lists of all that it depends on. *)
Heads(e) ==
  /\ e \in active
  /\ \A d \in Nodes : \A k \in 1 .. Times(deps[e], d) :
       k <= Len(subs[d]) /\ subs[d][k] = e

(* dep.removeSub(e) for each dependency.  The loop variable of removeSub() *)
(* hides its parameter and is compared with itself: whoever subscribed     *)
(* first goes.                                                             *)
Stop(e) ==
  /\ Idle /\ e \in made
  /\ StopsHead => Heads(e)
  /\ subs' = [d \in Nodes |->
                 SubSeq(subs[d], 1 + Times(deps[e], d), Len(subs[d]))]
  /\ active' = active \ {e}
  /\ UNCHANGED <<made, deps, fn, dataVars, locked, stack, seen, hurt>>
-----------------------------------------------------------------------------
(* Value() and SetValue(), from the program or from the callback of an     *)
(* effect.                                                                 *)

CallValue(c) ==
  /\ Running /\ c \in made
  /\ c \in Signals => MayUse(c)
  /\ stack' = Append(stack, Frame("Value", "lock", c))
  /\ UNCHANGED <<graphVars, dataVars, locked, histVars>>

CallSetValue(s, v) ==
  /\ Running /\ s \in made /\ ver[s] < MaxVersion[s]
  /\ MayUse(s)
  /\ stack' = Append(stack, [Frame("SetValue", "lock", s)
                                EXCEPT !.args = <<v>>])
  /\ UNCHANGED <<graphVars, dataVars, locked, histVars>>

(* s.mu.Lock(): a goroutine that holds it itself waits for ever.           *)
Locks(op) == Is("lock") /\ Top.op = op /\ Top.cell \notin locked
Stale(d) == IF d \in Computeds THEN isDirty[d] ELSE FALSE

ReadClean ==
  /\ Locks("Value") /\ ~Stale(Top.cell)
  /\ stack' = Popped
  /\ UNCHANGED <<graphVars, dataVars, locked, histVars>>

(* value() is entered on a dirty computed, which is clean from here on. *)
EnterValue(c, below) ==
  /\ isDirty' = [isDirty EXCEPT ![c] = FALSE]
  /\ stack' = Append(below, Frame("value", "pull", c))

ReadDirty ==
  /\ Locks("Value") /\ Stale(Top.cell)
  /\ locked' = locked \cup {Top.cell}
  /\ EnterValue(Top.cell, Moved([Top EXCEPT !.at = "end"]))
  /\ UNCHANGED <<graphVars, val, ver, vsum, histVars>>

(* The deferred Unlock. *)
Return ==
  /\ Is("end")
  /\ locked' = locked \ {Top.cell}
  /\ stack' = Popped
  /\ UNCHANGED <<graphVars, dataVars, histVars>>

WriteSame ==
  /\ Locks("SetValue") /\ val[Top.cell] = Top.args[1]
  /\ stack' = Popped
  /\ UNCHANGED <<graphVars, dataVars, locked, histVars>>

(* The loop is over the subscribers of this moment. *)
Write ==
  /\ Locks("SetValue") /\ val[Top.cell] # Top.args[1]
  /\ locked' = locked \cup {Top.cell}
  /\ val' = [val EXCEPT ![Top.cell] = Top.args[1]]
  /\ ver' = [ver EXCEPT ![Top.cell] = Plus(@, 1)]
  /\ stack' = Moved([Top EXCEPT !.at = "mark", !.last = Len(subs[Top.cell])])
  /\ UNCHANGED <<graphVars, isDirty, vsum, histVars>>
-----------------------------------------------------------------------------
(* markDirty(): a computed passes the mark on, an effect pulls.            *)

Marking == Is("mark") /\ Top.arg <= Top.last
Sub == subs[Top.cell][Top.arg]

(* Mutant: a computed that is dirty already does not pass the mark on. *)
MarkComputedOnce ==
  /\ Marking /\ Sub \in Computeds
  /\ isDirty' = [isDirty EXCEPT ![Sub] = TRUE]
  /\ stack' = IF isDirty[Sub] THEN Moved(Advanced)
               ELSE Append(Moved(Advanced), [Frame("markDirty", "mark", Sub)
                                               EXCEPT !.last = Len(subs[Sub])])
  /\ UNCHANGED <<graphVars, val, ver, vsum, locked, histVars>>

MarkComputed ==
  /\ Marking /\ Sub \in Computeds
  /\ isDirty' = [isDirty EXCEPT ![Sub] = TRUE]
  /\ stack' = Append(Moved(Advanced), [Frame("markDirty", "mark", Sub)
                                         EXCEPT !.last = Len(subs[Sub])])
  /\ UNCHANGED <<graphVars, val, ver, vsum, locked, histVars>>

MarkEffect ==
  /\ Marking /\ Sub \in Effects
  /\ stack' = Append(Moved(Advanced), Frame("value", "pull", Sub))
  /\ UNCHANGED <<graphVars, dataVars, locked, histVars>>

MarkEnd ==
  /\ Is("mark") /\ Top.arg > Top.last /\ Top.op = "markDirty"
  /\ stack' = Popped
  /\ UNCHANGED <<graphVars, dataVars, locked, histVars>>

(* The change has reached everything. *)
WriteEnd ==
  /\ Is("mark") /\ Top.arg > Top.last /\ Top.op = "SetValue"
  /\ locked' = locked \ {Top.cell}
  /\ stack' = Popped
  /\ UNCHANGED <<graphVars, dataVars, histVars>>
-----------------------------------------------------------------------------
(* depHash(): the arguments and the sum of their versions.                 *)

Collecting == Is("pull") /\ Top.arg <= Len(deps[Top.cell])
Dep == deps[Top.cell][Top.arg]

PullArg ==
  /\ Collecting /\ ~Stale(Dep)
  /\ stack' = Moved([Advanced EXCEPT !.args = Append(@, val[Dep]),
                                     !.sum = Plus(@, ver[Dep])])
  /\ UNCHANGED <<graphVars, dataVars, locked, histVars>>

PullDep ==
  /\ Collecting /\ Stale(Dep)
  /\ EnterValue(Dep, stack)
  /\ UNCHANGED <<graphVars, val, ver, vsum, locked, histVars>>

Collected == Is("pull") /\ Top.arg > Len(deps[Top.cell])

(* The sum is the stored one: nothing has changed. *)
PullSame ==
  /\ Collected /\ Top.sum = vsum[Top.cell]
  /\ stack' = Popped
  /\ UNCHANGED <<graphVars, dataVars, locked, histVars>>

Calling == Collected /\ Top.sum # vsum[Top.cell]
SumStored == [vsum EXCEPT ![Top.cell] = Top.sum]

(* The getter returns; the version tells whether its value has changed. *)
PullGet ==
  /\ Calling /\ Top.cell \in Computeds
  /\ LET c == Top.cell
         v == Apply(fn[c], Top.args)
     IN  /\ val' = [val EXCEPT ![c] = v]
         /\ ver' = IF v = val[c] THEN ver ELSE [ver EXCEPT ![c] = Plus(@, 1)]
  /\ vsum' = SumStored
  /\ stack' = Popped
  /\ UNCHANGED <<graphVars, isDirty, locked, histVars>>

(* The getter panics: isDirty and depVersionsSum have been updated. *)
GetPanic ==
  /\ Calling /\ Top.cell \in Computeds \cap Faulty
  /\ vsum' = SumStored
  /\ Unwind
  /\ UNCHANGED <<graphVars, val, ver, isDirty, active, seen>>

(* The callback of an effect starts, returns or panics. *)
PullRun ==
  /\ Calling /\ Top.cell \in Effects
  /\ vsum' = SumStored
  /\ seen' = [seen EXCEPT ![Top.cell] = Top.args]
  /\ Goto("call")
  /\ UNCHANGED <<graphVars, val, ver, isDirty, locked, active, hurt>>

CallReturn ==
  /\ Is("call")
  /\ stack' = Popped
  /\ UNCHANGED <<graphVars, dataVars, locked, histVars>>

CallPanic ==
  /\ Is("call") /\ Top.cell \in Faulty
  /\ Unwind
  /\ UNCHANGED <<graphVars, dataVars, active, seen>>
-----------------------------------------------------------------------------
Call ==
  \/ \E s \in Signals, v \in Initials : Signal(s, v)
  \/ \E s \in Signals, v \in Values : CallSetValue(s, v)
  \/ \E c \in Computeds, ds \in Wirings, g \in Getters : Computed(c, ds, g)
  \/ \E e \in Effects, ds \in Wirings : Effect(e, ds)
  \/ \E e \in Effects : Stop(e)
  \/ \E c \in Nodes : CallValue(c)

Step ==
  \/ ReadClean \/ ReadDirty \/ Return \/ WriteSame \/ Write
  \/ MarkComputed \/ MarkEffect \/ MarkEnd \/ WriteEnd
  \/ PullArg \/ PullDep \/ PullSame \/ PullGet \/ GetPanic \/ PullRun
  \/ CallReturn \/ CallPanic

Next == Call \/ Step

Spec == Init /\ [][Next]_vars
-----------------------------------------------------------------------------
(* What the program observes.                                              *)

GraphType ==
  /\ made \in SUBSET Cells
  /\ deps \in [Derived -> Seq(Nodes)]
  /\ fn \in [Computeds -> Getters \cup {None}]
  /\ subs \in [Nodes -> Seq(Derived)]

DataType ==
  /\ val \in [Nodes -> Values]
  /\ ver \in [Nodes -> 0 .. (VersionModulus - 1)]
  /\ isDirty \in [Computeds -> BOOLEAN]
  /\ vsum \in [Derived -> 0 .. (VersionModulus - 1)]

CallType ==
  /\ locked \in SUBSET Nodes
  /\ stack \in Seq(FrameSet)

HistType ==
  /\ active \in SUBSET (made \cap Effects)
  /\ DOMAIN seen = Effects
  /\ hurt \in SUBSET Signals

(* The types of the variables. *)
TypeOK == GraphType /\ DataType /\ CallType /\ HistType

(* No goroutine waits for a mutex that it holds itself, although effects   *)
(* run inside of the locked SetValue() and may write and read: an order on *)
(* the signals is enough, whatever panics and whoever is stopped.          *)
NoSelfDeadlock == ~(Is("lock") /\ Top.cell \in locked)

(* Outside of the calls a computed that is not marked holds what its       *)
(* getter gives, and no effect has missed a change, whatever ran in the    *)
(* middle of the marking.  A panic costs only what depends on the signals  *)
(* that were being written or read (the computed and effect tests of       *)
(* foo/signals_test.go); it may cost that for good, since a getter that    *)
(* panics leaves the new sum behind (signals.go:92-93).                       *)
Touched(c) == Sources[c] \cap hurt # {}
UpToDate ==
  Idle => \A c \in made \cap Derived : Touched(c) \/
    IF c \in Computeds THEN isDirty[c] \/ val[c] = Meaning[c]
    ELSE c \in active => seen[c] = Meanings(deps[c])

(* No version and no sum of versions has wrapped, or is about to. *)
Sums(ds, vs) ==
  LET f[n \in 0 .. Len(ds)] ==
        IF n = 0 THEN 0 ELSE f[n - 1] + vs[ds[n]]
  IN  f
Total(c) == Sums(deps[c], ver)[Len(deps[c])]
Unwrapped ==
  /\ \A c \in Nodes : ver[c] + 1 < VersionModulus
  /\ \A c \in made \cap Derived : Total(c) < VersionModulus

(* An effect that was stopped never runs again, as the test of stop says   *)
(* (signals_test.go:65-67).  The code keeps this only where an effect that *)
(* is stopped heads all its lists: stopping another one unsubscribes the   *)
(* head, and the stopped effect runs at the next change.                   *)
StoppedStaysStopped == [][PullRun => Top.cell \in active]_vars
-----------------------------------------------------------------------------
(* Why the properties hold: the invariant that the steps preserve.         *)

(* Every derived cell has a wiring of cells that exist and are of no       *)
(* higher level, and only such cells subscribe.                            *)
Wired ==
  \A c \in made \cap Derived :
    /\ deps[c] \in Wirings
    /\ c \in Computeds => fn[c] \in Getters
    /\ \A j \in 1 .. Len(deps[c]) :
         deps[c][j] \in made /\ Level[deps[c][j]] <= Level[c]

SubsMade ==
  \A d \in Nodes : \A k \in 1 .. Len(subs[d]) :
    subs[d][k] \in made /\ Level[d] <= Level[subs[d][k]]

(* A call has a fitting place, cell and arguments. *)
Formed(f, m, ds, sb) ==
  /\ f.at = "lock" => f.op \in {"Value", "SetValue"}
  /\ f.at = "mark" => /\ f.op \in {"SetValue", "markDirty"}
                      /\ f.last <= Len(sb[f.cell])
  /\ f.at \in {"pull", "call"} => f.op = "value"
  /\ f.at = "call" => f.cell \in Effects
  /\ f.at = "end" => f.op = "Value"
  /\ f.op = "SetValue" => f.cell \in Signals /\ Len(f.args) = 1
  /\ f.op = "markDirty" => f.cell \in Computeds
  /\ f.op = "Value" => f.cell \in Nodes \cap m
  /\ f.op = "value" => /\ f.cell \in Derived \cap m
                       /\ Len(f.args) = f.arg - 1
                       /\ f.arg <= Len(ds[f.cell]) + 1

(* The calls that lead from a write to what is above it in the order. *)
Upward(f) ==
  \/ f.op \in {"SetValue", "markDirty"}
  \/ f.op = "Value" /\ f.cell \in Signals
  \/ f.op = "value" /\ f.cell \in Effects

(* h, in progress, has led to f: only the call on top waits, a read leads  *)
(* to getters only, and a write to calls of higher levels.                 *)
Leads(h, f) ==
  /\ h.at # "lock"
  /\ h.op = "Value" => f.op = "value" /\ f.cell \in Computeds
  /\ Orderly /\ h.op = "SetValue" /\ Upward(f) =>
       /\ Level[h.cell] <= Level[f.cell]
       /\ f.op \in {"Value", "SetValue"} => Level[h.cell] < Level[f.cell]

Good(s, m, ds, sb) ==
  /\ s \in Seq(FrameSet)
  /\ \A k \in 1 .. Len(s) : Formed(s[k], m, ds, sb)
  /\ \A k, l \in 1 .. Len(s) : k < l => Leads(s[k], s[l])

(* The mutexes that are locked belong to calls in progress. *)
Holds(f) == (f.op = "SetValue" /\ f.at = "mark") \/ (f.op = "Value" /\ f.at = "end")
Held(s, cs) ==
  \A c \in cs : \E k \in 1 .. Len(s) : s[k].cell = c /\ Holds(s[k])

CallsGood == Good(stack, made, deps, subs) /\ Held(stack, locked)
=============================================================================
