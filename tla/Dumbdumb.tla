------------------------------ MODULE Dumbdumb ------------------------------
(***************************************************************************)
(* The dumbdumb package (dumbdumb/signals.go): a reactive system that      *)
(* keeps every cell in one list and, on each access, marks the whole list  *)
(* dirty and re-evaluates it, memoising on the arguments of each cell.     *)
(*                                                                         *)
(* One mutex rs.mu covers every operation but Signal(), which appends to   *)
(* the list without it.  The operation that holds the mutex runs as a      *)
(* small machine: `pc' is its place in the code and `stack' the activation *)
(* records of the recursive eval() calls.                                  *)
(***************************************************************************)
EXTENDS Naturals, Sequences, FiniteSets

CONSTANTS
  Goroutines,      \* the goroutines that use the system
  Signals,         \* the writeable cells the program may create
  Computeds,       \* the computed cells it may create
  Effects,         \* the side effects it may create
  Values,          \* what a cell can hold
  Zero,            \* Go's zero value of that type
  Getters,         \* the pure functions the program passes to ComputedN
  Apply(_, _),     \* Apply(g, args): the result of calling g
  Wirings,         \* the argument lists it may give a cell (1 to 8 nodes)
  MaxRemove,       \* BOUND: cells handed to one Remove call
  Faulty,          \* the cells whose callback may panic
  SignalOverlaps,  \* TRUE iff callers let Signal() overlap other calls
  None             \* no goroutine, no cell, no getter

Nodes == Signals \cup Computeds     \* what a cell can depend on
Derived == Computeds \cup Effects   \* what is evaluated
Cells == Signals \cup Derived

ASSUME KindsAssumption ==
  /\ Signals \cap Computeds = {}
  /\ Nodes \cap Effects = {}
  /\ None \notin Goroutines \cup Cells \cup Getters
  /\ Faulty \subseteq Derived

ASSUME DataAssumption ==
  /\ Zero \in Values
  /\ Wirings \subseteq Seq(Nodes) \ {<<>>}
  /\ MaxRemove \in Nat \ {0}
  /\ SignalOverlaps \in BOOLEAN
  /\ \A g \in Getters, ds \in Wirings :
       \A args \in [DOMAIN ds -> Values] : Apply(g, args) \in Values

VARIABLES
  mu,         \* rs.mu: the goroutine that holds it
  slots,      \* the backing array of rs.cells
  len,        \* the length in the slice header rs.cells
  anyDirty,   \* rs.anyDirty
  made,       \* the cells allocated so far
  held,       \* the cells a constructor has returned to the program
  deps,       \* deps[c]: cell0, cell1, ... of a derived cell
  fn,         \* fn[c]: the getter of a computed
  val,        \* val[c]: v of a signal, value of a computed
  cached,     \* cached[c]: cached0, cached1, ... of a derived cell
  state,      \* state[c]: clean, dirty or computing
  pc, op,     \* where the holder of mu is, and in which operation
  next, upto, \* the index and the bound of evalAll's second loop
  stack,      \* the eval() calls that have not returned
  pendCell,   \* pendCell[g]: the signal g is appending without the mutex
  pendLen,    \* pendLen[g]: the length g read for that append
  enrolled,   \* history: the cells the program has registered
  seen        \* history: the arguments of each callback's last completed call

graphVars == <<made, held, deps, fn>>
listVars == <<slots, len, enrolled>>
dataVars == <<val, cached, state, seen>>
ctrlVars == <<mu, anyDirty, pc, op, next, upto, stack>>
pendVars == <<pendCell, pendLen>>
vars == <<graphVars, listVars, dataVars, ctrlVars, pendVars>>

NoOp == [name |-> "none", cell |-> None, rest |-> <<>>, dropped |-> 0]

Registered == {slots[k] : k \in 1 .. len}

Init ==
  /\ mu = None
  /\ slots = <<>> /\ len = 0 /\ enrolled = {}
  /\ anyDirty = FALSE
  /\ made = {} /\ held = {}
  /\ deps = [c \in Derived |-> <<>>]
  /\ fn = [c \in Computeds |-> None]
  /\ val = [c \in Nodes |-> Zero]
  /\ cached = [c \in Derived |-> <<>>]
  /\ state = [c \in Derived |-> "clean"]
  /\ pc = "idle" /\ op = NoOp
  /\ next = 0 /\ upto = 0 /\ stack = <<>>
  /\ pendCell = [g \in Goroutines |-> None]
  /\ pendLen = [g \in Goroutines |-> 0]
  /\ seen = [c \in Derived |-> <<>>]

-----------------------------------------------------------------------------
(* rs.cells = append(rs.cells, c), from the length n that the append read. *)
AppendAt(n, c) ==
  /\ slots' = IF n < Len(slots) THEN [slots EXCEPT ![n + 1] = c]
                                ELSE Append(slots, c)
  /\ len' = n + 1
  /\ enrolled' = enrolled \cup {c}

NoPending == \A g \in Goroutines : pendCell[g] = None

(* rs.mu.Lock() by g at the start of an operation. *)
Lock(g, name, c, rest) ==
  /\ mu = None /\ pendCell[g] = None
  /\ SignalOverlaps \/ NoPending
  /\ mu' = g
  /\ op' = [name |-> name, cell |-> c, rest |-> rest, dropped |-> 0]

(* The deferred rs.mu.Unlock(), and the registers of the machine cleared. *)
Unlock ==
  /\ mu' = None
  /\ pc' = "idle" /\ op' = NoOp
  /\ next' = 0 /\ upto' = 0 /\ stack' = <<>>

FrameSet == [cell : Derived, arg : Nat \ {0}, same : BOOLEAN]
(* Mutant: allMatch starts as false. *)
FrameUnmatched(c) == [cell |-> c, arg |-> 1, same |-> FALSE]

Frame(c) == [cell |-> c, arg |-> 1, same |-> TRUE]
-----------------------------------------------------------------------------
(* Signal() takes no lock: it reads the slice header and writes it back.   *)

SignalRead(g, s, v) ==
  /\ mu # g /\ pendCell[g] = None
  /\ SignalOverlaps \/ (mu = None /\ NoPending)
  /\ s \notin made
  /\ made' = made \cup {s}
  /\ val' = [val EXCEPT ![s] = v]
  /\ pendCell' = [pendCell EXCEPT ![g] = s]
  /\ pendLen' = [pendLen EXCEPT ![g] = len]
  /\ UNCHANGED <<held, deps, fn, listVars, cached, state, seen,
                 ctrlVars>>

SignalWrite(g) ==
  /\ pendCell[g] # None
  /\ AppendAt(pendLen[g], pendCell[g])
  /\ held' = held \cup {pendCell[g]}
  /\ pendCell' = [pendCell EXCEPT ![g] = None]
  /\ pendLen' = [pendLen EXCEPT ![g] = 0]
  /\ UNCHANGED <<made, deps, fn, dataVars, ctrlVars>>
-----------------------------------------------------------------------------
(* The operations that start by taking the mutex. *)

(* Mutant: Value() returns the cached value without looking at anyDirty. *)
ValueUnswept(g, c) ==
  /\ Lock(g, "Value", c, <<>>)
  /\ c \in held
  /\ pc' = "done"
  /\ UNCHANGED <<graphVars, listVars, val, cached, state, seen, anyDirty,
                 next, upto, stack, pendVars>>

(* Value() of a signal or of a computed: evalAll first if anyDirty. *)
Value(g, c) ==
  /\ Lock(g, "Value", c, <<>>)
  /\ c \in held
  /\ pc' = IF anyDirty THEN "mark" ELSE "done"
  /\ UNCHANGED <<graphVars, listVars, val, cached, state, seen, anyDirty,
                 next, upto, stack, pendVars>>

(* Mutant: SetValue leaves the evaluation to the next Value(). *)
SetValueLazy(g, s, v) ==
  /\ Lock(g, "SetValue", s, <<>>)
  /\ s \in held
  /\ anyDirty' = TRUE
  /\ val' = [val EXCEPT ![s] = v]
  /\ pc' = "done"
  /\ UNCHANGED <<graphVars, listVars, cached, state, seen, next, upto, stack,
                 pendVars>>

(* SetValue never compares: equal or not, everything is re-evaluated. *)
SetValue(g, s, v) ==
  /\ Lock(g, "SetValue", s, <<>>)
  /\ s \in held
  /\ anyDirty' = TRUE
  /\ val' = [val EXCEPT ![s] = v]
  /\ pc' = "mark"
  /\ UNCHANGED <<graphVars, listVars, cached, state, seen, next, upto, stack,
                 pendVars>>

Allocate(c, ds) ==
  /\ c \notin made
  /\ \A j \in DOMAIN ds : ds[j] \in held
  /\ made' = made \cup {c}
  /\ deps' = [deps EXCEPT ![c] = ds]
  /\ cached' = [cached EXCEPT ![c] = [j \in DOMAIN ds |-> Zero]]
  /\ state' = [state EXCEPT ![c] = "dirty"]
  /\ anyDirty' = TRUE

(* ComputedN evaluates its arguments and calls f before it registers.     *)
(* The constructor's own activation is the bottom frame of the stack.     *)
Computed(g, c, ds, getter) ==
  /\ Lock(g, "Computed", c, <<>>)
  /\ Allocate(c, ds)
  /\ fn' = [fn EXCEPT ![c] = getter]
  /\ pc' = "build"
  /\ stack' = <<Frame(c)>>
  /\ UNCHANGED <<held, listVars, val, seen, next, upto, pendVars>>

(* EffectN registers first and lets evalAll run it. *)
Effect(g, e, ds) ==
  /\ Lock(g, "Effect", e, <<>>)
  /\ Allocate(e, ds)
  /\ AppendAt(len, e)
  /\ pc' = "mark"
  /\ UNCHANGED <<held, fn, val, seen, next, upto, stack, pendVars>>

(* Remove(cells...), and the stop function of an effect: remove(e). *)
Remove(g, cs) ==
  /\ Lock(g, "Remove", None, cs)
  /\ \/ /\ \A j \in DOMAIN cs : cs[j] \in held \ Effects
        /\ Len(cs) <= MaxRemove
     \/ \E e \in Effects \cap held : cs = <<e>>
  /\ pc' = "remove"
  /\ enrolled' = enrolled \ {cs[j] : j \in DOMAIN cs}
  /\ UNCHANGED <<graphVars, slots, len, val, cached, state, seen, anyDirty,
                 next, upto, stack, pendVars>>

Reset(g) ==
  /\ Lock(g, "Reset", None, <<>>)
  /\ anyDirty' = FALSE
  /\ len' = 0 /\ enrolled' = {}
  /\ pc' = "done"
  /\ UNCHANGED <<graphVars, slots, val, cached, state, seen, next, upto,
                 stack, pendVars>>
-----------------------------------------------------------------------------
(* remove(): one step per cell to drop, then the slice is cut. *)

(* Mutant: the cell is overwritten, the removal not counted. *)
RemoveOneUncounted ==
  /\ pc = "remove" /\ op.rest # <<>>
  /\ slots' = [k \in DOMAIN slots |->
                 IF k <= len /\ slots[k] = Head(op.rest) THEN slots[len]
                                                        ELSE slots[k]]
  /\ op' = [op EXCEPT !.rest = Tail(@)]
  /\ UNCHANGED <<graphVars, len, enrolled, dataVars, mu, anyDirty, pc, next,
                 upto, stack, pendVars>>

(* Mutant: the last cell is not moved into the place of the removed one. *)
RemoveOneUnmoved ==
  /\ pc = "remove" /\ op.rest # <<>>
  /\ op' = [op EXCEPT !.rest = Tail(@),
               !.dropped = @ + Cardinality({k \in 1 .. len :
                                              slots[k] = Head(op.rest)})]
  /\ UNCHANGED <<graphVars, listVars, dataVars, mu, anyDirty, pc, next, upto,
                 stack, pendVars>>

RemoveOne ==
  /\ pc = "remove" /\ op.rest # <<>>
  /\ LET c == Head(op.rest)
         hits == {k \in 1 .. len : slots[k] = c}
     IN  /\ slots' = [k \in DOMAIN slots |->
                        IF k \in hits THEN slots[len] ELSE slots[k]]
         /\ op' = [op EXCEPT !.rest = Tail(@),
                             !.dropped = @ + Cardinality(hits)]
  /\ UNCHANGED <<graphVars, len, enrolled, dataVars, mu, anyDirty, pc, next,
                 upto, stack, pendVars>>

(* Mutant: the slice is cut without the bounds check of the run time. *)
RemoveCutUnchecked ==
  /\ pc = "remove" /\ op.rest = <<>>
  /\ len' = len - op.dropped
  /\ pc' = "done"
  /\ UNCHANGED <<graphVars, slots, enrolled, dataVars, mu, anyDirty, op, next,
                 upto, stack, pendVars>>

RemoveCut ==
  /\ pc = "remove" /\ op.rest = <<>> /\ op.dropped <= len
  /\ len' = len - op.dropped
  /\ pc' = "done"
  /\ UNCHANGED <<graphVars, slots, enrolled, dataVars, mu, anyDirty, op, next,
                 upto, stack, pendVars>>

(* rs.cells[:negative]: a run-time panic, the mutex released by the defer. *)
RemoveOverrun ==
  /\ pc = "remove" /\ op.rest = <<>> /\ op.dropped > len
  /\ Unlock
  /\ UNCHANGED <<graphVars, listVars, dataVars, anyDirty, pendVars>>
-----------------------------------------------------------------------------
(* evalAll(): mark every registered cell, then eval() each in list order.  *)

(* Mutant: the first loop stops one cell early. *)
MarkButLast ==
  /\ pc = "mark"
  /\ state' = [c \in Derived |-> IF \E k \in 1 .. len : k < len /\ slots[k] = c
                                THEN "dirty" ELSE state[c]]
  /\ pc' = "sweep" /\ next' = 1 /\ upto' = len
  /\ UNCHANGED <<graphVars, listVars, val, cached, seen, mu, anyDirty,
                 op, stack, pendVars>>

Mark ==
  /\ pc = "mark"
  /\ state' = [c \in Derived |-> IF c \in Registered THEN "dirty"
                                                     ELSE state[c]]
  /\ pc' = "sweep" /\ next' = 1 /\ upto' = len
  /\ UNCHANGED <<graphVars, listVars, val, cached, seen, mu, anyDirty,
                 op, stack, pendVars>>

(* eval() on this cell returns at once, without changing anything. *)
Ready(c) == IF c \in Signals THEN TRUE ELSE state[c] = "clean"

InLoop == pc = "sweep" /\ stack = <<>> /\ next <= upto

Enter(c) ==
  /\ state' = [state EXCEPT ![c] = "computing"]
  /\ stack' = Append(stack, Frame(c))

(* Mutant: the loop does not move past a clean cell. *)
SweepSkipStuck ==
  /\ InLoop /\ Ready(slots[next])
  /\ UNCHANGED <<graphVars, listVars, dataVars, ctrlVars, pendVars>>

SweepSkip ==
  /\ InLoop /\ Ready(slots[next])
  /\ next' = next + 1
  /\ UNCHANGED <<graphVars, listVars, dataVars, mu, anyDirty, pc, op, upto,
                 stack, pendVars>>

SweepEval ==
  /\ InLoop /\ ~Ready(slots[next]) /\ state[slots[next]] = "dirty"
  /\ Enter(slots[next])
  /\ next' = next + 1
  /\ UNCHANGED <<graphVars, listVars, val, cached, seen, mu, anyDirty,
                 pc, op, upto, pendVars>>

SweepEnd ==
  /\ pc = "sweep" /\ stack = <<>> /\ next > upto
  /\ pc' = "done"
  /\ UNCHANGED <<graphVars, listVars, dataVars, mu, anyDirty, op, next, upto,
                 stack, pendVars>>
-----------------------------------------------------------------------------
(* eval() of the cell on top of the stack. *)

Top == stack[Len(stack)]
InEval == stack # <<>>
ArgsDone == Top.arg > Len(deps[Top.cell])
Callee == deps[Top.cell][Top.arg]
Building == pc = "build" /\ Len(stack) = 1
Pop == SubSeq(stack, 1, Len(stack) - 1)

(* Mutant: the change is noticed but the cache is not updated. *)
EvalArgUncached ==
  /\ InEval /\ ~ArgsDone /\ Ready(Callee)
  /\ LET c == Top.cell
         j == Top.arg
     IN  stack' = [stack EXCEPT ![Len(stack)] =
           [cell |-> c, arg |-> j + 1,
            same |-> Top.same /\ cached[c][j] = val[Callee]]]
  /\ UNCHANGED <<graphVars, listVars, dataVars, mu, anyDirty, pc, op, next,
                 upto, pendVars>>

(* argJ := cellJ.eval() returns at once; it is compared with cachedJ. *)
EvalArg ==
  /\ InEval /\ ~ArgsDone /\ Ready(Callee)
  /\ LET c == Top.cell
         j == Top.arg
     IN  /\ cached' = [cached EXCEPT ![c] = [@ EXCEPT ![j] = val[Callee]]]
         /\ stack' = [stack EXCEPT ![Len(stack)] =
              [cell |-> c, arg |-> j + 1,
               same |-> Top.same /\ cached[c][j] = val[Callee]]]
  /\ UNCHANGED <<graphVars, listVars, val, state, seen, mu, anyDirty,
                 pc, op, next, upto, pendVars>>

(* cellJ.eval() finds a dirty cell and evaluates it first. *)
EvalDep ==
  /\ InEval /\ ~ArgsDone /\ ~Ready(Callee) /\ state[Callee] = "dirty"
  /\ Enter(Callee)
  /\ UNCHANGED <<graphVars, listVars, val, cached, seen, mu, anyDirty,
                 pc, op, next, upto, pendVars>>

(* Mutant: postEval() is forgotten when the arguments match. *)
EvalKeepComputing ==
  /\ InEval /\ ~Building /\ ArgsDone /\ Top.same
  /\ stack' = Pop
  /\ UNCHANGED <<graphVars, listVars, dataVars, mu, anyDirty, pc, op, next,
                 upto, pendVars>>

(* Every argument matched its cache: the old value stands. *)
EvalKeep ==
  /\ InEval /\ ~Building /\ ArgsDone /\ Top.same
  /\ state' = [state EXCEPT ![Top.cell] = "clean"]
  /\ stack' = Pop
  /\ UNCHANGED <<graphVars, listVars, val, cached, seen, mu, anyDirty,
                 pc, op, next, upto, pendVars>>

Calling == InEval /\ ArgsDone /\ (Building \/ ~Top.same)

(* The getter of a computed is called and its result stored. *)
EvalGet ==
  /\ Calling /\ ~Building /\ Top.cell \in Computeds
  /\ LET c == Top.cell
     IN  /\ val' = [val EXCEPT ![c] = Apply(fn[c], cached[c])]
         /\ seen' = [seen EXCEPT ![c] = cached[c]]
         /\ state' = [state EXCEPT ![c] = "clean"]
  /\ stack' = Pop
  /\ UNCHANGED <<graphVars, listVars, cached, mu, anyDirty, pc, op, next,
                 upto, pendVars>>

(* The fn of an effect is called; the error it returns is dropped. *)
EvalRun ==
  /\ Calling /\ ~Building /\ Top.cell \in Effects
  /\ LET e == Top.cell
     IN  /\ seen' = [seen EXCEPT ![e] = cached[e]]
         /\ state' = [state EXCEPT ![e] = "clean"]
  /\ stack' = Pop
  /\ UNCHANGED <<graphVars, listVars, val, cached, mu, anyDirty, pc, op,
                 next, upto, pendVars>>

(* The end of ComputedN: s.value = f(...), and s joins the list, still     *)
(* marked dirty.                                                           *)
BuildEnd ==
  /\ Calling /\ Building
  /\ LET c == Top.cell
     IN  /\ val' = [val EXCEPT ![c] = Apply(fn[c], cached[c])]
         /\ seen' = [seen EXCEPT ![c] = cached[c]]
         /\ AppendAt(len, c)
  /\ pc' = "done" /\ stack' = <<>>
  /\ UNCHANGED <<graphVars, cached, state, mu, anyDirty, op, next, upto,
                 pendVars>>

(* The callback panics: eval() unwinds, leaving every cell on the stack    *)
(* in state computing, and the deferred Unlock releases the mutex.         *)
CallbackPanic ==
  /\ Calling /\ Top.cell \in Faulty
  /\ Unlock
  /\ UNCHANGED <<graphVars, listVars, dataVars, anyDirty, pendVars>>

(* eval() is about to be called on a cell in state computing. *)
CircularCall ==
  \/ InEval /\ ~ArgsDone /\ ~Ready(Callee) /\ state[Callee] = "computing"
  \/ InLoop /\ ~Ready(slots[next]) /\ state[slots[next]] = "computing"

(* panic("circular dependency") *)
CircularPanic ==
  /\ CircularCall
  /\ Unlock
  /\ UNCHANGED <<graphVars, listVars, dataVars, anyDirty, pendVars>>

(* The operation returns; a constructor hands out the cell it made. *)
Return ==
  /\ pc = "done"
  /\ Unlock
  /\ held' = IF op.name \in {"Computed", "Effect"} THEN held \cup {op.cell}
                                                   ELSE held
  /\ UNCHANGED <<made, deps, fn, listVars, dataVars, anyDirty, pendVars>>
-----------------------------------------------------------------------------
Call(g) ==
  \/ \E s \in Signals, v \in Values : SignalRead(g, s, v) \/ SetValue(g, s, v)
  \/ \E c \in Nodes : Value(g, c)
  \/ \E c \in Computeds, ds \in Wirings, f \in Getters :
       Computed(g, c, ds, f)
  \/ \E e \in Effects, ds \in Wirings : Effect(g, e, ds)
  \/ \E cs \in UNION {[1 .. k -> Cells] : k \in 1 .. MaxRemove} :
       Remove(g, cs)
  \/ Reset(g)

(* The steps of the operation that holds the mutex. *)
Step ==
  \/ RemoveOne \/ RemoveCut \/ RemoveOverrun
  \/ Mark \/ SweepSkip \/ SweepEval \/ SweepEnd
  \/ EvalArg \/ EvalDep \/ EvalKeep \/ EvalGet \/ EvalRun \/ BuildEnd
  \/ CallbackPanic \/ CircularPanic \/ Return

Next == Step \/ \E g \in Goroutines : Call(g) \/ SignalWrite(g)

Spec == Init /\ [][Next]_vars

(* A goroutine inside the library keeps running; nobody has to call it. *)
FairSpec == Spec /\ WF_vars(Step) /\ WF_vars(\E g \in Goroutines : SignalWrite(g))
-----------------------------------------------------------------------------
(* What the program observes.  The program sees the cells through Value(), *)
(* through the arguments of its callbacks and through the panics.          *)

(* The value the graph gives each node: what the cells would hold if each  *)
(* getter were called now, in dependency order.                            *)
Meaning[c \in made \cap Nodes] ==
  IF c \in Signals THEN val[c]
  ELSE Apply(fn[c], [j \in DOMAIN deps[c] |-> Meaning[deps[c][j]]])

(* The largest part of cs in which nothing depends on a cell outside.      *)
Closed(cs) ==
  \A c \in cs \ Signals : \A j \in DOMAIN deps[c] : deps[c][j] \in cs

Within(cs) == UNION {ds \in SUBSET cs : Closed(ds)}

(* What is registered, like every derived cell it depends on: what Remove()*)
(* and Reset() have detached is no longer kept up to date.                 *)
Live == Within(Signals \cup enrolled)

(* What does not depend on a cell whose callback may panic, nor is one.    *)
Untainted == Within(Cells \ Faulty)

DepVals(c) == [j \in DOMAIN deps[c] |-> val[deps[c][j]]]
ListType ==
  /\ slots \in Seq(Cells)
  /\ len \in 0 .. Len(slots)
  /\ enrolled \in SUBSET made

GraphType ==
  /\ made \in SUBSET Cells
  /\ held \in SUBSET made
  /\ deps \in [Derived -> Seq(Nodes)]
  /\ fn \in [Computeds -> Getters \cup {None}]

DataType ==
  /\ val \in [Nodes -> Values]
  /\ cached \in [Derived -> Seq(Values)]
  /\ \A c \in Derived : Len(cached[c]) = Len(deps[c])
  /\ state \in [Derived -> {"clean", "dirty", "computing"}]
  /\ seen \in [Derived -> Seq(Values)]

OpType ==
  op \in [name : {"none", "Value", "SetValue", "Computed", "Effect", "Remove",
                  "Reset"},
          cell : Cells \cup {None}, rest : Seq(Cells), dropped : Nat]

ControlType ==
  /\ mu \in Goroutines \cup {None}
  /\ anyDirty \in BOOLEAN
  /\ pc \in {"idle", "mark", "sweep", "build", "remove", "done"}
  /\ mu = None <=> pc = "idle"
  /\ next \in Nat /\ upto \in Nat
  /\ stack \in Seq(FrameSet)
  /\ stack # <<>> => pc \in {"sweep", "build"}

PendType ==
  /\ pendCell \in [Goroutines -> Signals \cup {None}]
  /\ pendLen \in [Goroutines -> Nat]

(* The types of the variables; the machine is idle exactly when the mutex  *)
(* is free, and eval() runs only under evalAll() or a constructor.         *)
TypeOK ==
  ListType /\ GraphType /\ DataType /\ OpType /\ ControlType /\ PendType

(* Between two operations rs.cells holds each cell that was registered and *)
(* not removed since, exactly once: the swap-with-last of remove() neither *)
(* loses, nor doubles, nor brings back a cell.  It is stated for programs  *)
(* that keep Signal() apart from other calls, as its append takes no mutex *)
(* (signals.go:107), and that remove one cell at a time.                   *)
RegistryExact ==
  mu = None /\ NoPending =>
    /\ Registered = enrolled
    /\ len = Cardinality(enrolled)

(* What Value() returns for a live computed is what its getter gives for   *)
(* the current signals, however long the chain and whatever was skipped.   *)
ReadFresh ==
  pc = "done" /\ op.name = "Value" /\ op.cell \in Live =>
    val[op.cell] = Meaning[op.cell]

(* Once evalAll() has run, the registered cells solve the equations of the *)
(* graph: each is clean, its cache holds what its dependencies hold, and a *)
(* computed holds what its getter makes of them.                           *)
Settled ==
  pc = "done" /\ op.name \in {"Value", "SetValue", "Effect"} =>
    \A c \in Registered \ Signals :
      /\ state[c] = "clean"
      /\ cached[c] = DepVals(c)
      /\ c \in Computeds => val[c] = Apply(fn[c], DepVals(c))

(* An effect runs when it is created (signals_test.go:42-43): when the     *)
(* constructor returns, the callback has been called.                      *)
EffectRunsOnCreation ==
  pc = "done" /\ op.name = "Effect" => seen[op.cell] # <<>>

(* eval() never meets a cell in state computing: constructors only accept  *)
(* cells that exist, so a "circular dependency" panic is always wrong.     *)
NoFalseCycle == ~CircularCall

(* Bail-out: a callback is not called again with the arguments of its last *)
(* call (signals_test.go, the BailOut and equality tests), although every  *)
(* access marks every cell dirty.                                          *)
NoWastedCall == [][EvalGet \/ EvalRun => seen' # seen]_vars

(* An effect that was stopped, or whose system was reset, never runs again *)
(* (signals_test.go:47-49 and 68-70).                                      *)
StoppedStaysStopped == [][EvalRun => Top.cell \in enrolled]_vars

(* What depends on cells in rs.cells only. *)
Listed == Within(Signals \cup Registered)

(* A panic is contained: what Value() returns for a cell that depends on   *)
(* no callback that can panic is fresh, whatever the panics interrupted,   *)
(* those of a getter and those of a Remove() that has cut too much; only   *)
(* cells that the latter has cut off, which RegistryExact is about, and    *)
(* what reads them are not told of changes.                                *)
PanicContained ==
  pc = "done" /\ op.name = "Value" /\ op.cell \in Listed \cap Untainted =>
    val[op.cell] = Meaning[op.cell]

(* The mutex is always released, by a return or by the deferred Unlock of  *)
(* a panic, so no caller waits for ever.                                   *)
LockReleased == mu # None ~> mu = None
-----------------------------------------------------------------------------
(* Why the properties hold: the invariant that the steps preserve.         *)

OnStack(c) == \E k \in 1 .. Len(stack) : stack[k].cell = c

(* The frame of the constructor: its cell is neither registered nor a      *)
(* dependency yet, and is marked dirty, not computing.                     *)
IsBuilder(k) == pc = "build" /\ k = 1

SlotsMade == \A k \in 1 .. Len(slots) : slots[k] \in made

Wired ==
  \A c \in made \cap Derived :
    /\ deps[c] \in Wirings
    /\ \A j \in 1 .. Len(deps[c]) : deps[c][j] \in held
    /\ c \in Computeds => fn[c] \in Getters

StackMade ==
  \A k \in 1 .. Len(stack) :
    /\ stack[k].cell \in made
    /\ stack[k].arg <= Len(deps[stack[k].cell]) + 1

PendMade ==
  \A g \in Goroutines : pendCell[g] # None =>
    pendCell[g] \in made /\ pendLen[g] <= Len(slots)

Placed ==
  /\ pc = "sweep" => next >= 1 /\ upto <= Len(slots)
  /\ pc = "build" =>
       /\ stack # <<>> /\ stack[1].cell = op.cell
       /\ op.cell \in Computeds /\ op.name = "Computed"
  /\ op.name \in {"Computed", "Effect"} => op.cell \in made \cap Derived

(* Every cell the machine can reach has been allocated, with its wiring.   *)
WellFormed == SlotsMade /\ Wired /\ StackMade /\ PendMade /\ Placed

(* A Signal() in progress is alone with the list. *)
AppendsAlone ==
  \A g \in Goroutines : pendCell[g] # None =>
    /\ mu = None /\ pendLen[g] = len
    /\ \A h \in Goroutines : pendCell[h] # None => h = g

(* c agrees with its dependencies, and these will not change in this sweep.*)
Agrees(c) ==
  \A j \in 1 .. Len(deps[c]) :
    Ready(deps[c][j]) /\ cached[c][j] = val[deps[c][j]]

CleanAgree ==
  pc # "mark" =>
    \A c \in Registered \ Signals : state[c] = "clean" => Agrees(c)

(* The frames: what has been read is final, what is being computed is the  *)
(* argument of the frame below.                                            *)
Frames ==
  \A k \in 1 .. Len(stack) :
    LET c == stack[k].cell
    IN  /\ \A j \in 1 .. (stack[k].arg - 1) :
             Ready(deps[c][j]) /\ cached[c][j] = val[deps[c][j]]
        /\ k < Len(stack) =>
             /\ stack[k].arg <= Len(deps[c])
             /\ deps[c][stack[k].arg] = stack[k + 1].cell
        /\ ~IsBuilder(k) => state[c] = "computing"

BuilderApart ==
  pc = "build" =>
    /\ op.cell \notin held \cup Registered
    /\ state[op.cell] = "dirty" /\ anyDirty

(* A panic leaves what it unwinds in state computing: callers of a getter  *)
(* that panics only.                                                       *)
Computing ==
  \A c \in Derived \cap Untainted : state[c] = "computing" => OnStack(c)

(* The value of a computed belongs to its cache, unless an argument has    *)
(* changed under an eval() that has not called the getter yet, or never    *)
(* did because of a panic.                                                 *)
Memoised ==
  \A c \in made \cap Computeds \cap Untainted :
    (\A k \in 1 .. Len(stack) :
       stack[k].cell = c => stack[k].same /\ ~IsBuilder(k)) =>
      val[c] = Apply(fn[c], cached[c])

(* The sweep leaves nothing behind it. *)
Swept ==
  /\ pc = "sweep" =>
       /\ upto = len
       /\ \A k \in 1 .. (next - 1) : k <= len =>
            Ready(slots[k]) \/ (stack # <<>> /\ stack[1].cell = slots[k])
  /\ pc \notin {"sweep", "build"} => stack = <<>>
  /\ pc = "done" /\ op.name \in {"Value", "SetValue", "Effect"} =>
       \A c \in Registered : Ready(c)
  /\ pc = "remove" => op.name = "Remove"
  /\ ~anyDirty => Registered \subseteq Signals

(* The whole of it, for programs whose calls of Signal() do not overlap:   *)
(* at every step of evalAll() the cells already clean are final, and the   *)
(* value of a cell that no panic can reach never drifts from its cache.    *)
Consistent ==
  /\ WellFormed /\ AppendsAlone /\ CleanAgree /\ Frames /\ BuilderApart
  /\ Computing /\ Memoised /\ Swept
=============================================================================
