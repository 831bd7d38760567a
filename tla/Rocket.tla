------------------------------- MODULE Rocket -------------------------------
(***************************************************************************)
(* The rocket package (rocket/signals.go): writes push dirty marks along   *)
(* the subscribers; an effect reached by a mark pulls its dependencies at  *)
(* once, in the middle of the marking, and runs if the sum of their        *)
(* versions has changed.                                                   *)
(*                                                                         *)
(* Constructors and stop functions take rs.mu; Value() and SetValue() skip *)
(* it while rs.inEffect is set, so that the callback of an effect can use  *)
(* them.  Each goroutine has a stack of frames, one per call in progress.  *)
(***************************************************************************)
EXTENDS Naturals, Sequences, FiniteSets

CONSTANTS
  Goroutines,      \* the goroutines that use the system
  Signals,         \* the writeable cells the program may create
  Computeds,       \* the computed cells it may create
  Effects,         \* the side effects it may create
  Values,          \* what a cell can hold
  Zero,            \* Go's zero value of that type
  Getters,         \* the pure functions the program passes to ComputedN
  Apply(_, _),     \* Apply(g, args): the result of calling g
  Wirings,         \* the argument lists it may give a cell (1 to 8 nodes)
  MaxNested,       \* BOUND: how deep callbacks of effects may nest calls
  Nests,           \* TRUE iff callbacks write what effects depend on
  Restructures,    \* TRUE iff callbacks create cells and stop effects
  ReadsComputeds,  \* TRUE iff the program calls Value() on computeds
  Faulty,          \* the cells whose callback may panic
  VersionModulus,  \* versions and their sums wrap here (2^32 in the code)
  MaxVersion,      \* BOUND: the version up to which a signal is written
  None             \* no goroutine, no cell, no getter

Nodes == Signals \cup Computeds     \* what a cell can depend on
Derived == Computeds \cup Effects   \* what subscribes
Cells == Signals \cup Derived

ASSUME KindsAssumption ==
  /\ Signals \cap Computeds = {}
  /\ Nodes \cap Effects = {}
  /\ None \notin Goroutines \cup Cells \cup Getters
  /\ Faulty \subseteq Derived

ASSUME DataAssumption ==
  /\ Zero \in Values
  /\ Wirings \subseteq Seq(Nodes) \ {<<>>}
  /\ \A g \in Getters, ds \in Wirings :
       \A args \in [DOMAIN ds -> Values] : Apply(g, args) \in Values

ASSUME BoundsAssumption ==
  /\ MaxNested \in Nat /\ MaxVersion \in Nat
  /\ VersionModulus \in Nat \ {0, 1}
  /\ Nests \in BOOLEAN /\ Restructures \in BOOLEAN
  /\ ReadsComputeds \in BOOLEAN

VARIABLES
  mu,        \* rs.mu: the goroutine that holds it
  inEffect,  \* rs.inEffect
  made,      \* the cells whose constructor has been called
  held,      \* the cells a constructor has returned to the program
  deps,      \* deps[c]: dep0, dep1, ... of a derived cell
  fn,        \* fn[c]: the get function of a computed
  val,       \* val[c] of a node
  ver,       \* ver[c]: its version
  subs,      \* subs[c]: its subscribers
  isDirty,   \* isDirty[c] of a computed
  vsum,      \* versionSum of a derived cell
  stack,     \* stack[g]: the calls of goroutine g in progress
  active,    \* history: the effects created and not stopped since
  seen,      \* history: the arguments of the last call of each callback
  ran        \* history: the callbacks called by the outermost operation

graphVars == <<made, held, deps, fn, subs>>
dataVars == <<val, ver, isDirty, vsum>>
lockVars == <<mu, inEffect>>
histVars == <<active, seen, ran>>
vars == <<graphVars, dataVars, lockVars, stack, histVars>>

(* A call in progress.  Operations wait at "lock", act at "body" and leave *)
(* at "end"; markDirty() loops at "mark"; value() collects arguments at    *)
(* "pull", a new effect at "first"; at "call" the callback of an effect    *)
(* runs; at "nil" a nil pointer is about to be followed.  over: the slice  *)
(* that a markDirty() ranges over, evaluated once.                         *)
FrameSet ==
  [op : {"Value", "SetValue", "Computed", "Effect", "Stop", "markDirty",
         "value"},
   at : {"lock", "body", "end", "mark", "pull", "first", "call", "nil"},
   cell : Cells, arg : Nat \ {0}, args : Seq(Values),
   sum : 0 .. (VersionModulus - 1), locked : BOOLEAN, over : Seq(Derived)]

Frame(op, at, c, args) ==
  [op |-> op, at |-> at, cell |-> c, arg |-> 1, args |-> args, sum |-> 0,
   locked |-> FALSE, over |-> <<>>]

Init ==
  /\ mu = None /\ inEffect = FALSE
  /\ made = {} /\ held = {}
  /\ deps = [c \in Derived |-> <<>>]
  /\ fn = [c \in Computeds |-> None]
  /\ val = [c \in Nodes |-> Zero]
  /\ ver = [c \in Nodes |-> 1]
  /\ subs = [c \in Nodes |-> <<>>]
  /\ isDirty = [c \in Computeds |-> TRUE]
  /\ vsum = [c \in Derived |-> 0]
  /\ stack = [g \in Goroutines |-> <<>>]
  /\ active = {} /\ ran = {}
  /\ seen = [c \in Derived |-> <<>>]

(* Mutant: the sum is kept in a wider integer than the versions. *)
PlusWide(m, n) == m + n

Plus(m, n) == (m + n) % VersionModulus

-----------------------------------------------------------------------------
(* Frames. *)

Idle(g) == stack[g] = <<>>
Top(g) == stack[g][Len(stack[g])]
Is(g, at) == ~Idle(g) /\ Top(g).at = at

Pushed(g, f) == [stack EXCEPT ![g] = Append(@, f)]
Popped(g) == [stack EXCEPT ![g] = SubSeq(@, 1, Len(@) - 1)]
Moved(g, f) == [stack EXCEPT ![g][Len(stack[g])] = f]
Goto(g, at) == stack' = Moved(g, [Top(g) EXCEPT !.at = at])

(* Mutant: the Unlock is not deferred. *)
UnwindLocked(g) ==
  /\ stack' = [stack EXCEPT ![g] = <<>>]
  /\ ran' = {}
  /\ UNCHANGED mu

(* A panic leaves every call of g; the deferred Unlock runs if g locked.   *)
Unwind(g) ==
  /\ stack' = [stack EXCEPT ![g] = <<>>]
  /\ mu' = IF mu = g THEN None ELSE mu
  /\ ran' = {}

Callbacks(g) == {k \in 1 .. Len(stack[g]) : stack[g][k].at = "call"}

(* g calls an operation, from the program or from the callback of an       *)
(* effect.                                                                 *)
Calls(g, f) ==
  /\ Idle(g) \/ (Is(g, "call") /\ Cardinality(Callbacks(g)) <= MaxNested)
  /\ stack' = Pushed(g, f)

(* if !s.rs.inEffect { s.rs.mu.Lock(); defer s.rs.mu.Unlock() } *)
Gate == IF inEffect THEN "body" ELSE "lock"

(* What depends on d: the cells of every set that has d and, with a cell,  *)
(* all that depend on it.                                                  *)
Closed(cs) ==
  \A c \in made \cap Derived :
    (\E j \in DOMAIN deps[c] : deps[c][j] \in cs) => c \in cs
Above(d) ==
  {c \in made : \A cs \in SUBSET made : d \in cs /\ Closed(cs) => c \in cs}
-----------------------------------------------------------------------------
(* Calls. *)

(* Signal() touches nothing that is shared. *)
Signal(g, s, v) ==
  /\ Idle(g) \/ (Restructures /\ Is(g, "call"))
  /\ s \notin made
  /\ made' = made \cup {s} /\ held' = held \cup {s}
  /\ val' = [val EXCEPT ![s] = v]
  /\ UNCHANGED <<deps, fn, subs, ver, isDirty, vsum>>
  /\ UNCHANGED <<lockVars, stack, histVars>>

CallValue(g, s) ==
  /\ s \in held
  /\ Calls(g, Frame("Value", Gate, s, <<>>))
  /\ UNCHANGED <<graphVars, dataVars, lockVars, histVars>>

CallSetValue(g, s, v) ==
  /\ s \in held /\ ver[s] < MaxVersion
  /\ Calls(g, Frame("SetValue", Gate, s, <<v>>))
  /\ ~Idle(g) /\ ~Nests => active \cap Above(s) = {}
  /\ UNCHANGED <<graphVars, dataVars, lockVars, histVars>>

(* Value() of a computed locks s.rs.mu, but no constructor has set s.rs. *)
CallComputedValue(g, c) ==
  /\ ReadsComputeds /\ c \in held
  /\ Calls(g, Frame("Value", "nil", c, <<>>))
  /\ UNCHANGED <<graphVars, dataVars, lockVars, histVars>>

NilPanic(g) ==
  /\ Is(g, "nil")
  /\ Unwind(g)
  /\ UNCHANGED <<graphVars, dataVars, inEffect, active, seen>>

(* The constructors and stop always lock, in a callback too. *)
CallComputed(g, c, ds, getter) ==
  /\ Idle(g) \/ Restructures
  /\ c \notin made
  /\ \A j \in DOMAIN ds : ds[j] \in held
  /\ made' = made \cup {c}
  /\ deps' = [deps EXCEPT ![c] = ds]
  /\ fn' = [fn EXCEPT ![c] = getter]
  /\ Calls(g, Frame("Computed", "lock", c, <<>>))
  /\ UNCHANGED <<held, subs, dataVars, lockVars, histVars>>

CallEffect(g, e, ds) ==
  /\ Idle(g) \/ Restructures
  /\ e \notin made
  /\ \A j \in DOMAIN ds : ds[j] \in held
  /\ made' = made \cup {e}
  /\ deps' = [deps EXCEPT ![e] = ds]
  /\ Calls(g, Frame("Effect", "lock", e, <<>>))
  /\ UNCHANGED <<held, fn, subs, dataVars, lockVars, histVars>>

CallStop(g, e) ==
  /\ Idle(g) \/ Restructures
  /\ e \in held
  /\ Calls(g, Frame("Stop", "lock", e, <<>>))
  /\ UNCHANGED <<graphVars, dataVars, lockVars, histVars>>

Acquire(g) ==
  /\ Is(g, "lock") /\ mu = None
  /\ mu' = g
  /\ stack' = Moved(g, [Top(g) EXCEPT !.at = "body", !.locked = TRUE])
  /\ UNCHANGED <<graphVars, dataVars, inEffect, histVars>>

(* The operation returns: a deferred Unlock, and what was constructed.     *)
Return(g) ==
  /\ Is(g, "end")
  /\ stack' = Popped(g)
  /\ mu' = IF Top(g).locked THEN None ELSE mu
  /\ held' = IF Top(g).op \in {"Computed", "Effect"}
              THEN held \cup {Top(g).cell} ELSE held
  /\ ran' = IF Len(stack[g]) = 1 THEN {} ELSE ran
  /\ UNCHANGED <<made, deps, fn, subs, dataVars, inEffect, active, seen>>
-----------------------------------------------------------------------------
(* The bodies of the operations. *)

At(g, op) == Is(g, "body") /\ Top(g).op = op

ReadBody(g) ==
  /\ At(g, "Value")
  /\ Goto(g, "end")
  /\ UNCHANGED <<graphVars, dataVars, lockVars, histVars>>

WriteSame(g) ==
  /\ At(g, "SetValue") /\ val[Top(g).cell] = Top(g).args[1]
  /\ Goto(g, "end")
  /\ UNCHANGED <<graphVars, dataVars, lockVars, histVars>>

(* A write goes on to markDirty(), and a mark to that of a computed. *)
Ranging(g) == [Top(g) EXCEPT !.at = "mark", !.over = subs[Top(g).cell]]
MarkFrame(c) == [Frame("markDirty", "mark", c, <<>>) EXCEPT !.over = subs[c]]

(* Without subscribers the version stays. *)
WriteQuiet(g) ==
  /\ At(g, "SetValue") /\ val[Top(g).cell] # Top(g).args[1]
  /\ subs[Top(g).cell] = <<>>
  /\ val' = [val EXCEPT ![Top(g).cell] = Top(g).args[1]]
  /\ Goto(g, "end")
  /\ UNCHANGED <<graphVars, ver, isDirty, vsum, lockVars, histVars>>

(* Mutant: the version is not incremented. *)
WriteUnversioned(g) ==
  /\ At(g, "SetValue") /\ val[Top(g).cell] # Top(g).args[1]
  /\ subs[Top(g).cell] # <<>>
  /\ val' = [val EXCEPT ![Top(g).cell] = Top(g).args[1]]
  /\ stack' = Moved(g, Ranging(g))
  /\ UNCHANGED <<graphVars, ver, isDirty, vsum, lockVars, histVars>>

WriteMark(g) ==
  /\ At(g, "SetValue") /\ val[Top(g).cell] # Top(g).args[1]
  /\ subs[Top(g).cell] # <<>>
  /\ val' = [val EXCEPT ![Top(g).cell] = Top(g).args[1]]
  /\ ver' = [ver EXCEPT ![Top(g).cell] = Plus(@, 1)]
  /\ stack' = Moved(g, Ranging(g))
  /\ UNCHANGED <<graphVars, isDirty, vsum, lockVars, histVars>>

(* addSubs(c) on each dependency, once per argument it stands for. *)
Uses(c, d) == {j \in DOMAIN deps[c] : deps[c][j] = d}
Copies(n, c) == [k \in 1 .. n |-> c]
Subscribed(c) ==
  [d \in Nodes |-> subs[d] \o Copies(Cardinality(Uses(c, d)), c)]

(* A new computed is dirty, and is not evaluated. *)
ComputedBody(g) ==
  /\ At(g, "Computed")
  /\ subs' = Subscribed(Top(g).cell)
  /\ Goto(g, "end")
  /\ UNCHANGED <<made, held, deps, fn, dataVars, lockVars, histVars>>

(* A new effect collects its arguments with inEffect already set. *)
EffectBody(g) ==
  /\ At(g, "Effect")
  /\ subs' = Subscribed(Top(g).cell)
  /\ inEffect' = TRUE
  /\ active' = active \cup {Top(g).cell}
  /\ stack' = [stack EXCEPT ![g] =
                Append(Moved(g, [Top(g) EXCEPT !.at = "end"])[g],
                       Frame("value", "first", Top(g).cell, <<>>))]
  /\ UNCHANGED <<made, held, deps, fn, dataVars, mu, seen, ran>>

(* s without its first c. *)
First(s, c, k) == s[k] = c /\ \A l \in 1 .. (k - 1) : s[l] # c
Without(s, c) ==
  IF \E k \in DOMAIN s : First(s, c, k)
  THEN LET i == CHOOSE k \in DOMAIN s : First(s, c, k)
       IN  SubSeq(s, 1, i - 1) \o SubSeq(s, i + 1, Len(s))
  ELSE s

(* Mutant: whoever subscribed first is removed. *)
StopSubFirst(g) ==
  /\ At(g, "Stop") /\ Top(g).arg <= Len(deps[Top(g).cell])
  /\ LET d == deps[Top(g).cell][Top(g).arg]
     IN  subs' = [subs EXCEPT ![d] = SubSeq(@, 2, Len(@))]
  /\ stack' = Moved(g, [Top(g) EXCEPT !.arg = @ + 1])
  /\ UNCHANGED <<made, held, deps, fn, dataVars, lockVars, histVars>>

(* depJ.removeSub(s) *)
StopSub(g) ==
  /\ At(g, "Stop") /\ Top(g).arg <= Len(deps[Top(g).cell])
  /\ LET d == deps[Top(g).cell][Top(g).arg]
     IN  subs' = [subs EXCEPT ![d] = Without(@, Top(g).cell)]
  /\ stack' = Moved(g, [Top(g) EXCEPT !.arg = @ + 1])
  /\ UNCHANGED <<made, held, deps, fn, dataVars, lockVars, histVars>>

StopEnd(g) ==
  /\ At(g, "Stop") /\ Top(g).arg > Len(deps[Top(g).cell])
  /\ active' = active \ {Top(g).cell}
  /\ Goto(g, "end")
  /\ UNCHANGED <<graphVars, dataVars, lockVars, seen, ran>>
-----------------------------------------------------------------------------
(* markDirty(): a computed passes the mark on, an effect runs value().     *)

Marking(g) == Is(g, "mark") /\ Top(g).arg <= Len(Top(g).over)
Sub(g) == subs[Top(g).cell][Top(g).arg]
Advanced(g) == [Top(g) EXCEPT !.arg = @ + 1]

(* The next entry.  A removal shifts the array in place, and an append may *)
(* leave it for a larger one: once either has happened, the old slice may  *)
(* hold any cell that has subscribed.                                      *)
Subscribers(d) ==
  {c \in made \cap Derived : \E j \in DOMAIN deps[c] : deps[c][j] = d}
Reached(g) ==
  IF Top(g).over = subs[Top(g).cell] THEN {Sub(g)}
  ELSE Subscribers(Top(g).cell)

(* Mutant: the mark is not passed on to the subscribers of the computed. *)
MarkComputedShallow(g) ==
  /\ Marking(g)
  /\ \E c \in Reached(g) \cap Computeds :
       /\ isDirty' = [isDirty EXCEPT ![c] = TRUE]
       /\ stack' = Moved(g, Advanced(g))
  /\ UNCHANGED <<graphVars, val, ver, vsum, lockVars, histVars>>

(* Mutant: the loop over the subscribers does not advance. *)
MarkComputedStuck(g) ==
  /\ Marking(g)
  /\ \E c \in Reached(g) \cap Computeds :
       /\ isDirty' = [isDirty EXCEPT ![c] = TRUE]
       /\ stack' = Pushed(g, MarkFrame(c))
  /\ UNCHANGED <<graphVars, val, ver, vsum, lockVars, histVars>>

MarkComputed(g) ==
  /\ Marking(g)
  /\ \E c \in Reached(g) \cap Computeds :
       /\ isDirty' = [isDirty EXCEPT ![c] = TRUE]
       /\ stack' = [stack EXCEPT ![g] =
                     Append(Moved(g, Advanced(g))[g], MarkFrame(c))]
  /\ UNCHANGED <<graphVars, val, ver, vsum, lockVars, histVars>>

MarkEffect(g) ==
  /\ Marking(g)
  /\ \E e \in Reached(g) \cap Effects :
       stack' = [stack EXCEPT ![g] = Append(Moved(g, Advanced(g))[g],
                                            Frame("value", "pull", e, <<>>))]
  /\ UNCHANGED <<graphVars, dataVars, lockVars, histVars>>

MarkEnd(g) ==
  /\ Is(g, "mark") /\ Top(g).arg > Len(Top(g).over)
  /\ IF Top(g).op = "SetValue" THEN Goto(g, "end") ELSE stack' = Popped(g)
  /\ UNCHANGED <<graphVars, dataVars, lockVars, histVars>>
-----------------------------------------------------------------------------
(* value(): collect the arguments and the sum of their versions.           *)

Collecting(g) ==
  /\ Is(g, "pull") \/ Is(g, "first")
  /\ Top(g).arg <= Len(deps[Top(g).cell])
Dep(g) == deps[Top(g).cell][Top(g).arg]
Stale(d) == IF d \in Computeds THEN isDirty[d] ELSE FALSE

(* Mutant: the last version overwrites the sum. *)
PullArgLast(g) ==
  /\ Collecting(g) /\ ~Stale(Dep(g))
  /\ stack' = Moved(g, [Advanced(g) EXCEPT !.args = Append(@, val[Dep(g)]),
                                           !.sum = ver[Dep(g)]])
  /\ UNCHANGED <<graphVars, dataVars, lockVars, histVars>>

PullArg(g) ==
  /\ Collecting(g) /\ ~Stale(Dep(g))
  /\ stack' = Moved(g, [Advanced(g) EXCEPT !.args = Append(@, val[Dep(g)]),
                                           !.sum = Plus(@, ver[Dep(g)])])
  /\ UNCHANGED <<graphVars, dataVars, lockVars, histVars>>

(* depJ.value() on a dirty computed, which is clean from here on; the      *)
(* argument is read when it has returned.  (PullArg looks at the mark      *)
(* again, which only a goroutine racing with this one could have set.)     *)
PullDep(g) ==
  /\ Collecting(g) /\ Stale(Dep(g))
  /\ isDirty' = [isDirty EXCEPT ![Dep(g)] = FALSE]
  /\ stack' = Pushed(g, Frame("value", "pull", Dep(g), <<>>))
  /\ UNCHANGED <<graphVars, val, ver, vsum, lockVars, histVars>>

Collected(g) == Is(g, "pull") /\ Top(g).arg > Len(deps[Top(g).cell])

PullSkip(g) ==
  /\ Collected(g) /\ Top(g).sum = vsum[Top(g).cell]
  /\ stack' = Popped(g)
  /\ UNCHANGED <<graphVars, dataVars, lockVars, histVars>>

Calling(g) == Collected(g) /\ Top(g).sum # vsum[Top(g).cell]

(* The callback of c is called with these arguments. *)
Noted(c, args) ==
  /\ seen' = [seen EXCEPT ![c] = args]
  /\ ran' = ran \cup {c}

(* Mutant: a computed changes without a new version. *)
PullGetUnversioned(g) ==
  /\ Calling(g) /\ Top(g).cell \in Computeds
  /\ vsum' = [vsum EXCEPT ![Top(g).cell] = Top(g).sum]
  /\ val' = [val EXCEPT ![Top(g).cell] =
               Apply(fn[Top(g).cell], Top(g).args)]
  /\ Noted(Top(g).cell, Top(g).args)
  /\ stack' = Popped(g)
  /\ UNCHANGED <<graphVars, ver, isDirty, lockVars, active>>

PullGet(g) ==
  /\ Calling(g) /\ Top(g).cell \in Computeds
  /\ LET c == Top(g).cell
         v == Apply(fn[c], Top(g).args)
     IN  /\ vsum' = [vsum EXCEPT ![c] = Top(g).sum]
         /\ val' = [val EXCEPT ![c] = v]
         /\ ver' = IF v = val[c] THEN ver ELSE [ver EXCEPT ![c] = Plus(@, 1)]
         /\ Noted(c, Top(g).args)
  /\ stack' = Popped(g)
  /\ UNCHANGED <<graphVars, isDirty, lockVars, active>>

(* The get function panics: isDirty and versionSum have been updated. *)
GetPanic(g) ==
  /\ Calling(g) /\ Top(g).cell \in Computeds \cap Faulty
  /\ vsum' = [vsum EXCEPT ![Top(g).cell] = Top(g).sum]
  /\ Unwind(g)
  /\ UNCHANGED <<graphVars, val, ver, isDirty, inEffect, active, seen>>

(* Mutant: inEffect is only set by the constructor. *)
PullRunUnflagged(g) ==
  /\ Calling(g) /\ Top(g).cell \in Effects
  /\ vsum' = [vsum EXCEPT ![Top(g).cell] = Top(g).sum]
  /\ Noted(Top(g).cell, Top(g).args)
  /\ Goto(g, "call")
  /\ UNCHANGED <<graphVars, val, ver, isDirty, lockVars, active>>

PullRun(g) ==
  /\ Calling(g) /\ Top(g).cell \in Effects
  /\ vsum' = [vsum EXCEPT ![Top(g).cell] = Top(g).sum]
  /\ inEffect' = TRUE
  /\ Noted(Top(g).cell, Top(g).args)
  /\ Goto(g, "call")
  /\ UNCHANGED <<graphVars, val, ver, isDirty, mu, active>>

(* The first call, in EffectN, which records no versionSum. *)
FirstRun(g) ==
  /\ Is(g, "first") /\ Top(g).arg > Len(deps[Top(g).cell])
  /\ Noted(Top(g).cell, Top(g).args)
  /\ Goto(g, "call")
  /\ UNCHANGED <<graphVars, dataVars, lockVars, active>>

(* fn returns: inEffect is cleared, whatever it was before the call.       *)
CallReturn(g) ==
  /\ Is(g, "call")
  /\ inEffect' = FALSE
  /\ stack' = Popped(g)
  /\ UNCHANGED <<graphVars, dataVars, mu, histVars>>

(* fn panics: inEffect stays set. *)
CallPanic(g) ==
  /\ Is(g, "call") /\ Top(g).cell \in Faulty
  /\ Unwind(g)
  /\ UNCHANGED <<graphVars, dataVars, inEffect, active, seen>>
-----------------------------------------------------------------------------
Call(g) ==
  \/ \E s \in Signals, v \in Values : Signal(g, s, v) \/ CallSetValue(g, s, v)
  \/ \E s \in Signals : CallValue(g, s)
  \/ \E c \in Computeds : CallComputedValue(g, c)
  \/ \E c \in Computeds, ds \in Wirings, f \in Getters :
       CallComputed(g, c, ds, f)
  \/ \E e \in Effects, ds \in Wirings : CallEffect(g, e, ds)
  \/ \E e \in Effects : CallStop(g, e)

Step(g) ==
  \/ NilPanic(g) \/ Return(g)
  \/ ReadBody(g) \/ WriteSame(g) \/ WriteQuiet(g) \/ WriteMark(g)
  \/ ComputedBody(g) \/ EffectBody(g) \/ StopSub(g) \/ StopEnd(g)
  \/ MarkComputed(g) \/ MarkEffect(g) \/ MarkEnd(g)
  \/ PullArg(g) \/ PullDep(g) \/ PullSkip(g)
  \/ PullGet(g) \/ GetPanic(g) \/ PullRun(g) \/ FirstRun(g)
  \/ CallReturn(g) \/ CallPanic(g)

Next == \E g \in Goroutines : Call(g) \/ Acquire(g) \/ Step(g)

Spec == Init /\ [][Next]_vars

(* A goroutine that is not blocked keeps running, callbacks return or      *)
(* panic, and sync.Mutex starves no waiter.                                *)
FairSpec ==
  /\ Spec
  /\ \A g \in Goroutines : /\ WF_vars(Step(g)) /\ SF_vars(Acquire(g))
                           /\ SF_vars(CallReturn(g) \/ CallPanic(g))
-----------------------------------------------------------------------------
(* What the program observes. *)

(* The value the graph gives each node: what the cells would hold if each  *)
(* getter were called now, in dependency order.                            *)
Meaning[c \in Nodes] ==
  IF c \in Signals THEN val[c]
  ELSE Apply(fn[c], [j \in DOMAIN deps[c] |-> Meaning[deps[c][j]]])

(* c, or a cell that c depends on, has a callback that may panic. *)
Tainted[c \in Cells] ==
  /\ c \notin Signals
  /\ c \in Faulty \/ \E j \in DOMAIN deps[c] : Tainted[deps[c][j]]

DepMeanings(c) == [j \in DOMAIN deps[c] |-> Meaning[deps[c][j]]]

Quiet == \A g \in Goroutines : Idle(g)

GraphType ==
  /\ made \in SUBSET Cells /\ held \in SUBSET made
  /\ deps \in [Derived -> Seq(Nodes)]
  /\ fn \in [Computeds -> Getters \cup {None}]
  /\ subs \in [Nodes -> Seq(Derived)]

DataType ==
  /\ val \in [Nodes -> Values]
  /\ ver \in [Nodes -> 0 .. (VersionModulus - 1)]
  /\ isDirty \in [Computeds -> BOOLEAN]
  /\ vsum \in [Derived -> 0 .. (VersionModulus - 1)]

StackType ==
  /\ mu \in Goroutines \cup {None} /\ inEffect \in BOOLEAN
  /\ stack \in [Goroutines -> Seq(FrameSet)]

HistType ==
  /\ active \in SUBSET (made \cap Effects)
  /\ seen \in [Derived -> Seq(Values)] /\ ran \in SUBSET Derived

(* The types of the variables. *)
TypeOK == GraphType /\ DataType /\ StackType /\ HistType

(* What keeps the types: every derived cell has a wiring of cells that      *)
(* exist, only cells that exist subscribe, and each call has a fitting     *)
(* cell, place and arguments.                                              *)
Wired ==
  \A c \in made \cap Derived :
    /\ deps[c] \in Wirings
    /\ c \in Computeds => fn[c] \in Getters
    /\ \A j \in 1 .. Len(deps[c]) : deps[c][j] \in made

SubsMade == \A d \in Nodes : \A k \in 1 .. Len(subs[d]) : subs[d][k] \in made

Inner == {"markDirty", "value"}   \* the calls that never lock

Formed(f, m, ds) ==
  /\ f.op = "SetValue" => f.cell \in Signals /\ Len(f.args) = 1
  /\ f.op = "Computed" => f.cell \in Computeds \cap m
  /\ f.op \in {"Effect", "Stop"} => f.cell \in Effects \cap m
  /\ f.op = "markDirty" => f.cell \in Computeds
  /\ f.op = "value" => /\ f.cell \in Derived \cap m
                       /\ Len(f.args) = f.arg - 1
                       /\ f.arg <= Len(ds[f.cell]) + 1
  /\ f.at = "mark" => f.op \in {"SetValue", "markDirty"}
  /\ f.at \in {"pull", "first", "call"} => f.op = "value"
  /\ f.at \in {"first", "call"} => f.cell \in Effects
  /\ f.at \in {"lock", "body", "end", "nil"} => f.op \notin Inner
  /\ f.op \in Inner \/ f.at \in {"lock", "nil"} => ~f.locked

StackFormed ==
  \A g \in Goroutines : \A k \in 1 .. Len(stack[g]) :
    Formed(stack[g][k], made, deps)

WellFormed == Wired /\ SubsMade /\ StackFormed

(* The mutex is held by the goroutine that has a call that locked it; it   *)
(* has exactly one.                                                        *)
WellLocked ==
  /\ \A g \in Goroutines : \A k \in 1 .. Len(stack[g]) :
       stack[g][k].locked =>
         /\ mu = g
         /\ \A l \in 1 .. Len(stack[g]) : stack[g][l].locked => l = k
  /\ \A g \in Goroutines :
       mu = g => \E k \in 1 .. Len(stack[g]) : stack[g][k].locked

(* No effect misses the last change: when no call is in progress, each     *)
(* effect that was not stopped was last called with what its dependencies  *)
(* now mean, although it may have run in the middle of the marking.        *)
EffectsSeen ==
  Quiet => \A e \in active \cap held : seen[e] = DepMeanings(e)

(* A panic is contained (signals_test.go:387-399): an effect that depends   *)
(* on no callback that may panic misses no change.                         *)
PanicContained ==
  Quiet => \A e \in active \cap held :
    Tainted[e] \/ seen[e] = DepMeanings(e)

(* A computed that is not marked dirty holds what its getter gives: every  *)
(* path of marks has reached it, whatever effects pulled it meanwhile.     *)
CleanFresh ==
  Quiet => \A c \in held \cap Computeds : isDirty[c] \/ val[c] = Meaning[c]

(* No version and no sum of versions has wrapped, or is about to. *)
Sums(ds, vs) ==
  LET f[n \in 0 .. Len(ds)] ==
        IF n = 0 THEN 0 ELSE f[n - 1] + vs[ds[n]]
  IN  f
Total(c) == Sums(deps[c], ver)[Len(deps[c])]
Unwrapped ==
  /\ \A c \in Nodes : ver[c] + 1 < VersionModulus
  /\ \A c \in made \cap Derived : Total(c) < VersionModulus

(* A sum of versions tells all changes: when it is the stored one, the     *)
(* arguments are those of the last call (signals.go:103, "value of         *)
(* dependencies changes").                                                 *)
SumTells ==
  [][\A g \in Goroutines : PullSkip(g) => Top(g).args = seen[Top(g).cell]]_vars

(* The first call of an effect, in its constructor, is made with what its  *)
(* dependencies mean.                                                      *)
FirstCallFresh ==
  [][\A g \in Goroutines :
       FirstRun(g) => Top(g).args = DepMeanings(Top(g).cell)]_vars

(* An effect that was stopped never runs again (signals_test.go:68-70).    *)
StoppedStaysStopped ==
  [][\A g \in Goroutines : PullRun(g) => Top(g).cell \in active]_vars

(* One update calls each callback at most once (signals_test.go:124, "D    *)
(* should only update once when A receives an update").                    *)
OncePerUpdate ==
  [][\A g \in Goroutines :
       PullGet(g) \/ PullRun(g) => Top(g).cell \notin ran]_vars

(* Bail-out: an effect is not called again with the arguments of its last  *)
(* call (signals_test.go:185, "Bail out if value of B never changes").     *)
BailsOut ==
  [][\A g \in Goroutines :
       PullRun(g) => Top(g).args # seen[Top(g).cell]]_vars

(* Value() of a computed answers (signals_test.go:48 asserts it): no call  *)
(* is about to follow a nil pointer.                                       *)
ComputedsReadable == \A g \in Goroutines : ~Is(g, "nil")

(* Access safety (README.md:15): at most one goroutine is in the code that *)
(* reads and writes the graph.                                             *)
InGraph(g) == \E at \in {"body", "mark", "pull", "first"} : Is(g, at)
Exclusive ==
  \A g, h \in Goroutines : InGraph(g) /\ InGraph(h) => g = h

(* No goroutine waits for a mutex that it holds itself. *)
NoSelfDeadlock == \A g \in Goroutines : ~(Is(g, "lock") /\ mu = g)

(* No call, and no panic of a callback or of a nil pointer, leaves the      *)
(* mutex locked behind it.                                                 *)
NoLeakedLock == \A g \in Goroutines : Idle(g) => mu # g

(* Every call returns, or unwinds. *)
CallsReturn == \A g \in Goroutines : ~Idle(g) ~> Idle(g)
=============================================================================
