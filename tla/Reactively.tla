----------------------------- MODULE Reactively -----------------------------
(***************************************************************************)
(* The reactively package (reactively/reactively.go): a cell is clean, to  *)
(* be checked or dirty.  Writes mark what is downstream, reads bring it up *)
(* to date.  What a function reads is recorded while it runs, and becomes  *)
(* the sources of its cell.                                                *)
(*                                                                         *)
(* One goroutine.  The stack holds the calls in progress: the program's    *)
(* one at the bottom, the recursion of the package and the functions of    *)
(* cells that it runs above.                                               *)
(***************************************************************************)
EXTENDS Naturals, Sequences, FiniteSets

CONSTANTS
  Signals,      \* the cells the program may create with Signal()
  Memos,        \* with Memo()
  Effects,      \* with Effect(), which does not return the cell
  Values,       \* what a cell can hold
  Zero,         \* Go's zero value of that type
  Fns,          \* the functions of the program
  Does(_, _),   \* Does(f, seen): what f does next, having seen that
  FnsOf(_),     \* FnsOf(c): the functions it may give c
  Uses(_),      \* Uses(f): the cells f may read or write
  Writable,     \* the cells it calls Write() on
  Rewritable,   \* the cells it calls WriteFn() on
  MaxLinks,     \* BOUND: it writes while no cell has more links either way
  MaxGets,      \* BOUND: it reads while fewer reads are on record
  None,         \* no cell, no function
  Cleanup       \* a cleanup function among the observers of a cell

Cells == Signals \cup Memos \cup Effects

ASSUME KindsAssumption ==
  /\ Signals \cap Memos = {} /\ (Signals \cup Memos) \cap Effects = {}
  /\ None \notin Cells \cup Fns /\ Cleanup \notin Cells
  /\ Writable \subseteq Cells \ Effects
  /\ Rewritable \subseteq Cells \ Effects

(* A step of a function: a read, a write, OnCleanup(), its result, a panic *)
Steps ==
  [do : {"read", "write", "cleanup", "return", "panic"},
   cell : Cells \cup {None}, val : Values]
Seen == [cell : Cells \cup {None}, val : Values]

ASSUME DataAssumption ==
  /\ Zero \in Values
  /\ \A c \in Cells : FnsOf(c) \subseteq Fns
  /\ MaxLinks \in Nat /\ MaxGets \in Nat

(* CacheClean, CacheCheck, CacheDirty *)
Clean == 0
Check == 1
Dirty == 2

VARIABLES
  made,       \* the cells created so far
  fn,         \* fn[c]: its function, None for a signal
  value,      \* value[c]
  state,      \* state[c]: Clean, Check or Dirty
  sources,    \* sources[c]: what it has read
  observers,  \* observers[c]: who has read it
  cleanups,   \* cleanups[c]: how many cleanup functions wait
  current,    \* rctx.current: the cell whose function runs
  gets,       \* rctx.currentGets: the new sources it has read
  index,      \* rctx.currentGetIndex: the old sources it has read again
  stack,      \* the calls in progress
  log,        \* history: what the last run of each cell has seen
  moved,      \* history: has any of it changed since, or its function?
  ran         \* history: the functions run by the program's call

graphVars == <<made, fn, sources, observers, cleanups>>
dataVars == <<value, state>>
context == <<current, gets, index>>
histVars == <<log, moved, ran>>
vars == <<graphVars, dataVars, context, stack, histVars>>

(* A call in progress; updateIfNecessary() becomes update() in place.      *)
FrameSet ==
  [op : {"Read", "Write", "WriteFn", "stale", "updateIfNecessary", "update"},
   cell : Cells, arg : Nat \ {0}, val : Values, fn : Fns \cup {None},
   list : Seq(Cells), seen : Seq(Seen), saved : (Cells \cup {None}) \X Seq(Cells) \X Nat]

(* Mutant: the loops begin before the first element. *)
FrameAtZero(op, c, v, f) ==
  [op |-> op, cell |-> c, arg |-> 0, val |-> v, fn |-> f, list |-> <<>>,
   seen |-> <<>>, saved |-> <<None, <<>>, 0>>]

Frame(op, c, v, f) ==
  [op |-> op, cell |-> c, arg |-> 1, val |-> v, fn |-> f, list |-> <<>>,
   seen |-> <<>>, saved |-> <<None, <<>>, 0>>]

(* updateIfNecessary() goes over the sources the cell has when it begins.  *)
CheckFrame(c) ==
  [Frame("updateIfNecessary", c, Zero, None) EXCEPT !.list = sources[c]]

Init ==
  /\ made = {}
  /\ fn = [c \in Cells |-> None]
  /\ value = [c \in Cells |-> Zero]
  /\ state = [c \in Cells |-> Clean]
  /\ sources = [c \in Cells |-> <<>>] /\ observers = [c \in Cells |-> <<>>]
  /\ cleanups = [c \in Cells |-> 0]
  /\ current = None /\ gets = <<>> /\ index = 0
  /\ stack = <<>>
  /\ log = [c \in Cells |-> <<>>] /\ moved = [c \in Cells |-> TRUE]
  /\ ran = {}

-----------------------------------------------------------------------------
(* Calls. *)

Idle == stack = <<>>
Top == stack[Len(stack)]
In(op) == ~Idle /\ Top.op = op
Rest == SubSeq(stack, 1, Len(stack) - 1)
Advanced == Append(Rest, [Top EXCEPT !.arg = @ + 1])

(* What the function that runs does next. *)
Doing(what) == In("update") /\ Does(Top.fn, Top.seen).do = what
Next1 == Does(Top.fn, Top.seen)

(* The call on top returns v, that it has read from c, to the function     *)
(* that made it, if one did. *)
Returned(c, v) ==
  IF Rest = <<>> THEN <<>>
  ELSE [Rest EXCEPT ![Len(Rest)].seen = Append(@, [cell |-> c, val |-> v])]

Leave(s) ==
  /\ stack' = s
  /\ ran' = IF s = <<>> THEN {} ELSE ran

(* A panic leaves all calls; nothing restores the context. *)
Unwind == Leave(<<>>)

(* The functions that c can have now: the cells they use exist. *)
Ready(c) == {f \in FnsOf(c) : Uses(f) \subseteq made}

Bounded ==
  \A c \in Cells : Len(sources[c]) <= MaxLinks /\ Len(observers[c]) <= MaxLinks

(* s without c. *)
Without(s, c) ==
  LET kept[n \in 0 .. Len(s)] ==
        IF n = 0 THEN <<>>
        ELSE IF s[n] = c THEN kept[n - 1] ELSE Append(kept[n - 1], s[n])
  IN  kept[Len(s)]

(* Mutant: the observers of the sources keep the cell. *)
UnlinkedNot(c, from) == observers

(* removeParentObservers(from - 1) *)
Unlinked(c, from) ==
  LET old == {sources[c][k] : k \in from .. Len(sources[c])}
  IN  [d \in Cells |->
         IF d \in old THEN Without(observers[d], c) ELSE observers[d]]

(* c at the end of the observers of the sources from there on. *)
Linked(obs, c, new, from) ==
  [d \in Cells |->
     obs[d] \o [k \in 1 .. Cardinality({j \in from .. Len(new) : new[j] = d})
                  |-> c]]
-----------------------------------------------------------------------------
(* Creating cells.  The program does, outside of all functions; the code   *)
(* would let a function do it too, as it would WriteFn().                  *)

Signal(c, v) ==
  /\ Idle /\ c \in Signals \ made
  /\ made' = made \cup {c}
  /\ value' = [value EXCEPT ![c] = v]
  /\ UNCHANGED <<fn, sources, observers, cleanups, state, context, stack>>
  /\ UNCHANGED <<log, moved, ran>>

Memo(c, f) ==
  /\ Idle /\ c \in Memos \ made /\ f \in Ready(c)
  /\ made' = made \cup {c}
  /\ fn' = [fn EXCEPT ![c] = f]
  /\ state' = [state EXCEPT ![c] = Dirty]
  /\ UNCHANGED <<sources, observers, cleanups, value, context, stack>>
  /\ UNCHANGED <<log, moved, ran>>

(* update() up to rf.fn(): the context is saved and cleared.  The cleanup  *)
(* functions are called here. *)
Enter(c, f, below) ==
  /\ current' = c /\ gets' = <<>> /\ index' = 0
  /\ cleanups' = [cleanups EXCEPT ![c] = 0]
  /\ stack' = Append(below, [Frame("update", c, value[c], f)
                              EXCEPT !.saved = <<current, gets, index>>])
  /\ ran' = ran \cup {c}

(* An effect runs at once. *)
Effect(c, f) ==
  /\ Idle /\ c \in Effects \ made /\ f \in Ready(c)
  /\ made' = made \cup {c}
  /\ fn' = [fn EXCEPT ![c] = f]
  /\ state' = [state EXCEPT ![c] = Dirty]
  /\ Enter(c, f, <<>>)
  /\ UNCHANGED <<sources, observers, value, log, moved>>

(* Nothing appends to effectQueue, so the loop of Stablize() has no round. *)
Stablize == Idle /\ UNCHANGED vars
-----------------------------------------------------------------------------
(* Read() *)

(* c is the next old source of the cell that runs; the first read never is.*)
Again(c) ==
  /\ Len(gets) > 0 /\ Len(sources[current]) > index
  /\ sources[current][index + 1] = c

Track(c) ==
  IF current = None THEN UNCHANGED context
  ELSE IF Again(c) THEN index' = index + 1 /\ UNCHANGED <<current, gets>>
  ELSE gets' = Append(gets, c) /\ UNCHANGED <<current, index>>

(* Mutant: Read() returns what is stored. *)
ReadFramesStored(c) == <<Frame("Read", c, Zero, None)>>

ReadFrames(c) ==
  IF fn[c] = None THEN <<Frame("Read", c, Zero, None)>>
  ELSE <<Frame("Read", c, Zero, None), CheckFrame(c)>>

CallRead(c) ==
  /\ \/ Idle /\ c \in made \ Effects /\ Len(gets) < MaxGets
     \/ Doing("read") /\ Next1.cell = c
  /\ Track(c)
  /\ stack' = stack \o ReadFrames(c)
  /\ UNCHANGED <<graphVars, dataVars, log, moved, ran>>

ReadEnd ==
  /\ In("Read")
  /\ Leave(Returned(Top.cell, value[Top.cell]))
  /\ UNCHANGED <<graphVars, dataVars, context, log, moved>>
-----------------------------------------------------------------------------
(* updateIfNecessary() *)

(* The loop over the sources, which begins with state Check, goes on to    *)
(* the last of them: a source is clean when its updateIfNecessary() has    *)
(* returned, so the break is never taken.                                  *)
Checking ==
  /\ In("updateIfNecessary")
  /\ Top.arg > 1 \/ state[Top.cell] = Check
  /\ Top.arg <= Len(Top.list)

CheckSource ==
  /\ Checking
  /\ stack' = Append(Advanced, CheckFrame(Top.list[Top.arg]))
  /\ UNCHANGED <<graphVars, dataVars, context, histVars>>

Checked == In("updateIfNecessary") /\ ~Checking

CheckEnd ==
  /\ Checked /\ state[Top.cell] # Dirty
  /\ state' = [state EXCEPT ![Top.cell] = Clean]
  /\ stack' = Rest
  /\ UNCHANGED <<graphVars, value, context, histVars>>

Update ==
  /\ Checked /\ state[Top.cell] = Dirty /\ fn[Top.cell] # None
  /\ Enter(Top.cell, fn[Top.cell], Rest)
  /\ UNCHANGED <<made, fn, sources, observers, dataVars, log, moved>>

(* update() of a cell that Write() has turned into a signal while it was   *)
(* dirty calls a nil function.                                             *)
NilCall ==
  /\ Checked /\ state[Top.cell] = Dirty /\ fn[Top.cell] = None
  /\ current' = Top.cell /\ gets' = <<>> /\ index' = 0
  /\ cleanups' = [cleanups EXCEPT ![Top.cell] = 0]
  /\ Unwind
  /\ UNCHANGED <<made, fn, sources, observers, dataVars, log, moved>>
-----------------------------------------------------------------------------
(* The function of a cell runs. *)

OnCleanup ==
  /\ Doing("cleanup")
  /\ cleanups' = [cleanups EXCEPT ![current] = @ + 1]
  /\ observers' = [observers EXCEPT ![current] = Append(@, Cleanup)]
  /\ stack' = Append(Rest, [Top EXCEPT !.seen =
                              Append(@, [cell |-> None, val |-> Zero])])
  /\ UNCHANGED <<made, fn, sources, dataVars, context, histVars>>

Panic ==
  /\ Doing("panic")
  /\ Unwind
  /\ UNCHANGED <<graphVars, dataVars, context, log, moved>>

LogCells(c) == {log[c][k].cell : k \in DOMAIN log[c]}

(* History: c has got a new value. *)
Moved(c) == [d \in Cells |-> moved[d] \/ c \in LogCells(d)]

(* The rest of update(): what was read becomes the sources, the context is *)
(* restored, and if the value has changed the observers are dirty.  An     *)
(* effect always has the value false.                                      *)
Relinked(c) ==
  LET new == IF gets = <<>> THEN SubSeq(sources[c], 1, index)
             ELSE IF index > 0 THEN sources[c] \o gets ELSE gets
  IN  /\ sources' = [sources EXCEPT ![c] = new]
      /\ observers' = Linked(Unlinked(c, index + 1), c, new, index + 1)

(* Mutant: they are dirty even if it has the old value. *)
ObserversAlways(c, changed) ==
  [d \in Cells |->
     IF d = c THEN Clean
     ELSE IF \E k \in DOMAIN observers'[c] : observers'[c][k] = d
     THEN Dirty ELSE state[d]]

(* Mutant: the cell itself stays as it was. *)
ObserversOnly(c, changed) ==
  [d \in Cells |->
     IF changed /\ \E k \in DOMAIN observers'[c] : observers'[c][k] = d
     THEN Dirty ELSE state[d]]

ObserversDirty(c, changed) ==
  [d \in Cells |->
     IF d = c THEN Clean
     ELSE IF changed /\ \E k \in DOMAIN observers'[c] : observers'[c][k] = d
     THEN Dirty ELSE state[d]]

UpdateEnd ==
  /\ Doing("return")
  /\ LET c == Top.cell
         v == IF c \in Effects THEN Zero ELSE Next1.val
     IN  /\ Relinked(c)
         /\ value' = [value EXCEPT ![c] = v]
         /\ state' = ObserversDirty(c, v # Top.val)
         /\ log' = [log EXCEPT ![c] = Top.seen]
         /\ moved' = [(IF v = value[c] THEN moved ELSE Moved(c))
                        EXCEPT ![c] = FALSE]
  /\ current' = Top.saved[1] /\ gets' = Top.saved[2] /\ index' = Top.saved[3]
  /\ Leave(Rest)
  /\ UNCHANGED <<made, fn, cleanups>>
-----------------------------------------------------------------------------
(* Write() and WriteFn() *)

(* stale(mark) on c, on top of the calls s. *)
Stale(c, mark, s) ==
  IF state[c] < mark
  THEN /\ state' = [state EXCEPT ![c] = mark]
       /\ stack' = Append(s, Frame("stale", c, Zero, None))
  ELSE state' = state /\ stack' = s

Observer == observers[Top.cell][Top.arg]
MoreObservers == Top.arg <= Len(observers[Top.cell])

(* A write turns a memo into a signal. *)
CallWrite(c, v) ==
  /\ \/ Idle /\ c \in Writable \cap made /\ Bounded
     \/ Doing("write") /\ Next1.cell = c /\ Next1.val = v
  /\ IF fn[c] = None THEN UNCHANGED <<fn, sources, observers>>
     ELSE /\ observers' = Unlinked(c, 1)
          /\ sources' = [sources EXCEPT ![c] = <<>>]
          /\ fn' = [fn EXCEPT ![c] = None]
  /\ stack' = Append(stack, Frame("Write", c, v, None))
  /\ UNCHANGED <<made, cleanups, dataVars, context, log, moved, ran>>

Writing == In("Write") /\ value[Top.cell] # Top.val

(* The observers are marked before the value is stored. *)
WriteObserver ==
  /\ Writing /\ MoreObservers /\ Observer # Cleanup
  /\ Stale(Observer, Dirty, Advanced)
  /\ UNCHANGED <<graphVars, value, context, histVars>>

WriteCleanup ==
  /\ Writing /\ MoreObservers /\ Observer = Cleanup
  /\ stack' = Advanced
  /\ UNCHANGED <<graphVars, dataVars, context, histVars>>

WriteEnd ==
  /\ Writing /\ ~MoreObservers
  /\ value' = [value EXCEPT ![Top.cell] = Top.val]
  /\ moved' = Moved(Top.cell)
  /\ Leave(Returned(None, Top.val))
  /\ UNCHANGED <<graphVars, state, context, log>>

WriteSame ==
  /\ In("Write") /\ value[Top.cell] = Top.val
  /\ Leave(Returned(None, Top.val))
  /\ UNCHANGED <<graphVars, dataVars, context, log, moved>>

(* Mutant: the mark is not passed on to the observers. *)
StaleObserverStop ==
  /\ In("stale") /\ MoreObservers /\ Observer # Cleanup
  /\ stack' = Advanced
  /\ UNCHANGED <<graphVars, dataVars, context, histVars>>

StaleObserver ==
  /\ In("stale") /\ MoreObservers /\ Observer # Cleanup
  /\ Stale(Observer, Check, Advanced)
  /\ UNCHANGED <<graphVars, value, context, histVars>>

(* A cleanup function among the observers is "not a reactive value": the   *)
(* write ends there, with marks set and no value stored.  History: this    *)
(* counts as a change.                                                     *)
StaleCleanup ==
  /\ In("stale") /\ MoreObservers /\ Observer = Cleanup
  /\ Unwind
  /\ moved' = [c \in Cells |-> TRUE]
  /\ UNCHANGED <<graphVars, dataVars, context, log>>

StaleEnd ==
  /\ In("stale") /\ ~MoreObservers
  /\ stack' = Rest
  /\ UNCHANGED <<graphVars, dataVars, context, histVars>>

CallWriteFn(c, f) ==
  /\ Idle /\ c \in Rewritable \cap made /\ f \in Ready(c) /\ Bounded
  /\ Stale(c, Dirty, <<Frame("WriteFn", c, Zero, f)>>)
  /\ UNCHANGED <<graphVars, value, context, log, moved, ran>>

WriteFnEnd ==
  /\ In("WriteFn")
  /\ fn' = [fn EXCEPT ![Top.cell] = Top.fn]
  /\ moved' = [moved EXCEPT ![Top.cell] = TRUE]
  /\ Leave(<<>>)
  /\ UNCHANGED <<made, sources, observers, cleanups, dataVars, context>>
  /\ UNCHANGED <<log>>
-----------------------------------------------------------------------------
Call ==
  \/ Stablize
  \/ \E c \in Signals, v \in Values : Signal(c, v)
  \/ \E c \in Memos : \E f \in FnsOf(c) : Memo(c, f)
  \/ \E c \in Effects : \E f \in FnsOf(c) : Effect(c, f)
  \/ \E c \in Rewritable : \E f \in FnsOf(c) : CallWriteFn(c, f)
  \/ Idle /\ \E c \in Cells : CallRead(c)
  \/ Idle /\ \E c \in Cells, v \in Values : CallWrite(c, v)

Step ==
  \/ ~Idle /\ \E c \in Cells : CallRead(c)
  \/ ~Idle /\ \E c \in Cells, v \in Values : CallWrite(c, v)
  \/ ReadEnd \/ CheckSource \/ CheckEnd \/ Update \/ NilCall
  \/ OnCleanup \/ Panic \/ UpdateEnd
  \/ WriteObserver \/ WriteCleanup \/ WriteEnd \/ WriteSame
  \/ StaleObserver \/ StaleCleanup \/ StaleEnd \/ WriteFnEnd

Next == Call \/ Step

Spec == Init /\ [][Next]_vars
-----------------------------------------------------------------------------
TypeOK ==
  /\ made \in SUBSET Cells
  /\ fn \in [Cells -> Fns \cup {None}]
  /\ value \in [Cells -> Values]
  /\ state \in [Cells -> {Clean, Check, Dirty}]
  /\ sources \in [Cells -> Seq(Cells)]
  /\ observers \in [Cells -> Seq(Cells \cup {Cleanup})]
  /\ cleanups \in [Cells -> Nat]
  /\ current \in Cells \cup {None} /\ gets \in Seq(Cells) /\ index \in Nat
  /\ stack \in Seq(FrameSet)
  /\ In("update") => Next1 \in Steps
  /\ log \in [Cells -> Seq(Seen)] /\ moved \in [Cells -> BOOLEAN]
  /\ ran \in SUBSET Cells

(* Links go both ways: a cell observes its sources and nothing else,       *)
(* whatever was read, rewired, unlinked or interrupted by a panic.         *)
LinksMutual ==
  \A c, d \in Cells :
    (\E k \in DOMAIN sources[c] : sources[c][k] = d)
      <=> (\E k \in DOMAIN observers[d] : observers[d][k] = c)

(* Its last run saw what its sources hold now, and these are clean too:    *)
(* the function would take the same way again.                             *)
Fresh(c) ==
  \A k \in DOMAIN log[c] :
    LET d == log[c][k].cell
    IN  d # None => /\ value[d] = log[c][k].val
                    /\ fn[d] = None \/ state[d] = Clean

(* A cell that no write, no rewiring and no panic has left marked would    *)
(* compute what it holds: a clean cell is fresh whenever no call is in     *)
(* progress (the comment on CacheClean, "no need to recompute").           *)
CleanReplays ==
  Idle => \A c \in made : fn[c] # None /\ state[c] = Clean => Fresh(c)

(* Read() of a function returns a fresh value, to the program and to the   *)
(* functions that run, whatever they have written before.                  *)
ReadFresh ==
  [][ReadEnd /\ fn[Top.cell] # None =>
       state[Top.cell] = Clean /\ Fresh(Top.cell)]_vars

(* A function runs again only if something it has read has changed since   *)
(* its last run (reactively_test.go:163, "unchanged, oughtn't run").       *)
NoNeedlessRun == [][Update => moved[Top.cell]]_vars

(* One call of the program runs each function at most once                 *)
(* (reactively_test.go:195-198, the diamond).                              *)
OncePerCall == [][Update => Top.cell \notin ran]_vars
=============================================================================
