-------------------------------- MODULE Alien --------------------------------
(***************************************************************************)
(* The alien package (alien/*.go).  Who reads whom is a graph of links;    *)
(* each link is in two lists, the dependencies of its subscriber and the   *)
(* subscribers of its dependency.  A write walks down the graph and sets   *)
(* flags, a read or the queue of effects walks up and brings up to date.   *)
(*                                                                         *)
(* One goroutine.  The stack holds the calls in progress, those of the     *)
(* package and the functions of the program that it runs.                  *)
(***************************************************************************)
EXTENDS Naturals, Integers, Sequences, FiniteSets, TLC

CONSTANTS
  Signals,      \* the cells the program may create with Signal()
  Computeds,    \* with Computed()
  Effects,      \* with Effect(), keeping the stop function
  Inners,       \* effects that functions create, dropping the stop function
  Scopes,       \* with EffectScope()
  Values,       \* what a cell can hold
  Zero,         \* Go's zero value of that type
  Fns,          \* the functions of the program
  Does(_, _),   \* Does(f, seen): what f does next, having seen that
  FnsOf(_),     \* FnsOf(c): the functions it may give c
  Uses(_),      \* Uses(f): the cells f may read or write
  Batches,      \* the functions it may give Batch()
  MaxBatch,     \* BOUND: the depth up to which the program starts batches
  MaxUnpaired,  \* BOUND: how far below 0 it ends batches
  None          \* no cell, no link, no function

AllEffects == Effects \cup Inners
Cells == Signals \cup Computeds \cup AllEffects \cup Scopes

ASSUME KindsAssumption ==
  /\ Signals \cap Computeds = {} /\ (Signals \cup Computeds) \cap AllEffects = {}
  /\ Effects \cap Inners = {}
  /\ Scopes \cap (Signals \cup Computeds \cup AllEffects) = {}
  /\ None \notin Cells \cup Fns

ASSUME DataAssumption ==
  /\ Zero \in Values /\ Batches \subseteq Fns
  /\ MaxBatch \in Nat /\ MaxUnpaired \in Nat
  /\ \A c \in Cells : FnsOf(c) \subseteq Fns

(* A step of a function. *)
Steps ==
  [do : {"read", "write", "effect", "stop", "start", "end", "pause", "resume",
         "return", "panic"},
   cell : Cells \cup {None}, val : Values, fn : Fns \cup {None}]
Seen == [cell : Cells \cup {None}, val : Values]

Flags == {"Computed", "Effect", "Tracking", "Notified", "Recursed", "Dirty",
          "PendingComputed", "PendingEffect", "EffectScope"}
Propagated == {"Dirty", "PendingComputed", "PendingEffect"}

(* The k-th link of sub to dep that exists at a time. *)
Dep(l) == l[1]
Sub(l) == l[2]

VARIABLES
  made,         \* the cells created so far
  held,         \* the stop functions the program has
  fn,           \* fn[c]: its function
  value,        \* value[c]
  graph,        \* flags, links, lists of links, and the queue: see Graph
  activeSub,    \* rs.activeSub
  activeScope,  \* rs.activeScope
  batchDepth,   \* rs.batchDepth
  pauseStack,   \* rs.pauseStack
  stack,        \* the calls in progress
  log,          \* history: what the last run of each function has seen
  moved,        \* history: has any of it changed since?
  kids,         \* history: the effects that the last run of each has created
  dead,         \* history: the effects stopped, or dropped by their parent
  ran,          \* history: the functions run by the program's call
  hurt          \* history: the cells with a run that a panic has cut short

cellVars == <<made, held, fn>>
context == <<activeSub, activeScope, batchDepth, pauseStack>>
family == <<kids, dead, hurt>>
histVars == <<log, moved, family, ran>>
vars == <<cellVars, value, graph, context, stack, histVars>>

(* graph.at[l] are the pointers of link l; the lists of a cell begin at    *)
(* deps and subs.  A nil pointer was followed when fault is set.           *)
EmptyGraph ==
  [flags |-> [c \in Cells |-> {}],
   deps |-> [c \in Cells |-> None], depsTail |-> [c \in Cells |-> None],
   subs |-> [c \in Cells |-> None], subsTail |-> [c \in Cells |-> None],
   at |-> <<>>, queue |-> <<>>, fault |-> FALSE]

Init ==
  /\ made = {} /\ held = {}
  /\ fn = [c \in Cells |-> None]
  /\ value = [c \in Cells |-> Zero]
  /\ graph = EmptyGraph
  /\ activeSub = None /\ activeScope = None
  /\ batchDepth = 0 /\ pauseStack = <<>>
  /\ stack = <<>>
  /\ log = [c \in Cells |-> <<>>] /\ moved = [c \in Cells |-> TRUE]
  /\ kids = [c \in Cells |-> {}] /\ dead = {} /\ ran = {} /\ hurt = {}
-----------------------------------------------------------------------------
(* The graph. *)

RECURSIVE DepsBetween(_, _, _)
(* The links from l to the tail by nextDep. *)
DepsBetween(g, l, tail) ==
  IF l = None THEN {}
  ELSE IF l = tail THEN {l}
  ELSE {l} \cup DepsBetween(g, g.at[l].nextDep, tail)

IsValidLink(g, l, sub) ==
  g.depsTail[sub] # None /\ l \in DepsBetween(g, g.deps[sub], g.depsTail[sub])

LinkNewDepUntied(g, dep, sub, nextDep, tail) ==
  LET k == CHOOSE k \in 1 .. Cardinality(DOMAIN g.at) + 1 :
             <<dep, sub, k>> \notin DOMAIN g.at
      new == <<dep, sub, k>>
      g1 == [g EXCEPT !.at = @ @@ (new :> [prevSub |-> None, nextSub |-> None,
                                           nextDep |-> nextDep])]
      g2 == IF tail = None THEN [g1 EXCEPT !.deps[sub] = new]
            ELSE [g1 EXCEPT !.at[tail].nextDep = new]
      g3 == IF g.subs[dep] = None THEN [g2 EXCEPT !.subs[dep] = new]
            ELSE [g2 EXCEPT !.at[g.subsTail[dep]].nextSub = new]
  IN  [g3 EXCEPT !.depsTail[sub] = new, !.subsTail[dep] = new]

(* The new link goes behind the tail of sub, and last in the list of dep.  *)
LinkNewDep(g, dep, sub, nextDep, tail) ==
  LET k == CHOOSE k \in 1 .. Cardinality(DOMAIN g.at) + 1 :
             <<dep, sub, k>> \notin DOMAIN g.at
      new == <<dep, sub, k>>
      last == g.subsTail[dep]
      ptrs == [prevSub |-> IF g.subs[dep] = None THEN None ELSE last,
               nextSub |-> None, nextDep |-> nextDep]
      g1 == [g EXCEPT !.at = @ @@ (new :> ptrs)]
      g2 == IF tail = None THEN [g1 EXCEPT !.deps[sub] = new]
            ELSE [g1 EXCEPT !.at[tail].nextDep = new]
      g3 == IF g.subs[dep] = None THEN [g2 EXCEPT !.subs[dep] = new]
            ELSE [g2 EXCEPT !.at[last].nextSub = new]
  IN  [g3 EXCEPT !.depsTail[sub] = new, !.subsTail[dep] = new]

(* link(): sub has read dep, or is the parent of the effect dep. *)
Link(g, dep, sub) ==
  LET tail == g.depsTail[sub]
      next == IF tail = None THEN g.deps[sub] ELSE g.at[tail].nextDep
      last == g.subsTail[dep]
  IN  IF tail # None /\ Dep(tail) = dep THEN g
      ELSE IF next # None /\ Dep(next) = dep
      THEN [g EXCEPT !.depsTail[sub] = next]
      ELSE IF last # None /\ Sub(last) = sub /\ IsValidLink(g, last, sub) THEN g
      ELSE LinkNewDep(g, dep, sub, next, tail)

StartTrackingDirty(g, sub) ==
  [g EXCEPT !.depsTail[sub] = None, !.flags[sub] = @ \cup {"Tracking"}]

StartTracking(g, sub) ==
  [g EXCEPT !.depsTail[sub] = None,
            !.flags[sub] = (@ \ ({"Notified", "Recursed"} \cup Propagated))
                             \cup {"Tracking"}]

RECURSIVE ClearTracking(_, _)
(* Links l and those after it leave the subscribers of their dependencies; *)
(* who has no subscriber left is dirty and gives up its own links too.     *)
ClearTracking(g, l) ==
  LET p == g.at[l]
      d == Dep(l)
      g1 == IF p.nextSub # None
            THEN [g EXCEPT !.at[p.nextSub].prevSub = p.prevSub]
            ELSE [g EXCEPT !.subsTail[d] = p.prevSub]
      g2 == IF p.prevSub # None
            THEN [g1 EXCEPT !.at[p.prevSub].nextSub = p.nextSub]
            ELSE [g1 EXCEPT !.subs[d] = p.nextSub]
      orphan == g2.subs[d] = None /\ g2.flags[d] # {}
      g3 == IF orphan THEN [g2 EXCEPT !.flags[d] = @ \cup {"Dirty"}] ELSE g2
  IN  IF orphan /\ g3.deps[d] # None
      THEN IF g3.depsTail[d] = None THEN [g3 EXCEPT !.fault = TRUE]
           ELSE ClearTracking([g3 EXCEPT !.at[g3.depsTail[d]].nextDep = p.nextDep,
                                         !.deps[d] = None, !.depsTail[d] = None],
                              g3.deps[d])
      ELSE IF p.nextDep # None THEN ClearTracking(g3, p.nextDep)
      ELSE g3

EndTracking(g, sub) ==
  LET tail == g.depsTail[sub]
      next == IF tail = None THEN g.deps[sub] ELSE g.at[tail].nextDep
      g1 == IF next = None THEN g ELSE ClearTracking(g, next)
      g2 == IF tail = None THEN [g1 EXCEPT !.deps[sub] = None]
            ELSE [g1 EXCEPT !.at[tail].nextDep = None]
  IN  [g2 EXCEPT !.flags[sub] = @ \ {"Tracking"}]

Queued(g, sub) == [g EXCEPT !.queue = Append(@, sub)]
Flagged(g, sub, flags) == [g EXCEPT !.flags[sub] = flags]

(* propagate(): w is where the walk is, at link w.cur with w.next to come, *)
(* w.branchs what was left for later above, w.flag what it sets.           *)
RECURSIVE Popped(_)
Popped(links) ==
  IF links = <<>> THEN links
  ELSE IF links[Len(links)] # None THEN links
  ELSE Popped(SubSeq(links, 1, Len(links) - 1))

Onward(g, w) ==
  LET up == w.next = None
      left == IF up THEN Append(Popped(w.branchs), None) ELSE Append(w.branchs, None)
      n == Len(left) - 1
      cur == IF ~up THEN w.next ELSE IF n = 0 THEN None ELSE left[n]
      branchs == SubSeq(left, 1, IF up /\ n > 0 THEN n - 1 ELSE n)
  IN  [cur |-> cur, branchs |-> branchs,
       next |-> IF cur = None THEN None ELSE g.at[cur].nextSub,
       flag |-> IF branchs = <<>> THEN "Dirty" ELSE "PendingComputed"]

DownLost(g, w, flags) ==
  LET first == g.subs[Sub(w.cur)]
  IN  [w EXCEPT !.cur = first, !.next = g.at[first].nextSub, !.flag = "PendingComputed"]

(* Down to the subscribers of the one at w.cur, which had these flags.     *)
Down(g, w, flags) ==
  LET first == g.subs[Sub(w.cur)]
  IN  IF g.at[first].nextSub # None
      THEN [cur |-> first, next |-> g.at[first].nextSub,
            branchs |-> Append(w.branchs, w.next), flag |-> "PendingComputed"]
      ELSE [w EXCEPT !.cur = first,
                     !.flag = IF "Effect" \in flags THEN "PendingEffect"
                              ELSE "PendingComputed"]

RECURSIVE Walk(_, _)
Walk(g, w) ==
  IF w.cur = None THEN g
  ELSE
  LET sub == Sub(w.cur)
      flags == g.flags[sub]
      set == flags \cup {w.flag, "Notified"}
      idle == flags \cap ({"Tracking", "Recursed"} \cup Propagated) = {}
      recursed == ~idle /\ "Recursed" \in flags /\ "Tracking" \notin flags
      running == /\ ~idle /\ ~recursed /\ flags \cap Propagated = {}
                 /\ IsValidLink(g, w.cur, sub)
      notify == idle \/ recursed \/ (running /\ g.subs[sub] # None)
      more == ~notify /\ {"Tracking", w.flag} \cap flags = {}
      mark == /\ ~notify /\ ~more /\ w.flag \notin flags
              /\ flags \cap Propagated # {} /\ IsValidLink(g, w.cur, sub)
      h == Flagged(g, sub,
             CASE running -> set \cup {"Recursed"}
               [] recursed -> set \ {"Recursed"}
               [] idle \/ more -> set
               [] mark -> flags \cup {w.flag}
               [] OTHER -> flags)
      wake == /\ "Effect" \in flags
              /\ notify \/ (more /\ "Notified" \notin flags)
  IN  IF notify /\ g.subs[sub] # None THEN Walk(h, Down(h, w, flags))
      ELSE Walk(IF wake THEN Queued(h, sub) ELSE h, Onward(h, w))

Propagate(g, l) ==
  Walk(g, [cur |-> l, next |-> g.at[l].nextSub, branchs |-> <<>>,
           flag |-> "Dirty"])

RECURSIVE ShallowPropagate(_, _)
ShallowPropagate(g, l) ==
  IF l = None THEN g
  ELSE LET sub == Sub(l)
           flags == g.flags[sub]
           h == Flagged(g, sub, flags \cup {"Dirty", "Notified"})
           q == IF {"Effect", "Notified"} \cap flags = {"Effect"}
                THEN Queued(h, sub) ELSE h
       IN  ShallowPropagate(
             IF {"PendingComputed", "Dirty"} \cap flags = {"PendingComputed"}
             THEN q ELSE g, g.at[l].nextSub)

RECURSIVE Reached(_, _)
Reached(g, links) ==
  LET next == links \cup UNION {{g.at[l].prevSub, g.at[l].nextSub,
                                 g.at[l].nextDep} \ {None} : l \in links}
  IN  IF next = links THEN links ELSE Reached(g, next)

LinksOf(frame) ==
  CASE frame.op = "check" ->
         {frame.link, frame.first} \cup {frame.prev[k] : k \in DOMAIN frame.prev}
    [] frame.op = "inner" -> {frame.link}
    [] OTHER -> {}

(* What Go's collector does with the links: only these are still there,    *)
(* when s are the calls in progress.                                       *)
Collected(g, s) ==
  LET ends == UNION {{g.deps[c], g.depsTail[c], g.subs[c], g.subsTail[c]}
                       : c \in Cells} \cup UNION {LinksOf(s[k]) : k \in DOMAIN s}
      kept == Reached(g, ends \ {None})
  IN  [g EXCEPT !.at = [l \in kept |-> g.at[l]]]
-----------------------------------------------------------------------------
(* Calls. *)

Run(op, c, f) ==
  [op |-> op, cell |-> c, fn |-> f, seen |-> <<>>, saved |-> activeSub,
   kids |-> {}]
Pull(c, at) ==
  [op |-> "Value", cell |-> c, at |-> at, flags |-> graph.flags[c], got |-> FALSE]
CheckDirty(l) ==
  [op |-> "check", at |-> "scan", link |-> l, prev |-> <<>>, depth |-> 0,
   first |-> None, got |-> FALSE]
Notify(e) ==
  [op |-> "notify", cell |-> e, flags |-> graph.flags[e], got |-> FALSE]
InnerEffects(l) == [op |-> "inner", link |-> l, at |-> "visit"]
Drain == [op |-> "drain"]
Raise == [op |-> "raise"]

(* A nil pointer that was followed lets nothing else happen: NilPanic. *)
Idle == stack = <<>> /\ ~graph.fault
(* BOUND: a program that has recovered from the panic of an effect only    *)
(* reads, stops effects and ends batches.                                  *)
Orderly == hurt \cap (AllEffects \cup Scopes) = {}
Free == Idle /\ Orderly

Busy == stack # <<>> /\ ~graph.fault
Top == stack[Len(stack)]
In(op) == Busy /\ Top.op = op
Rest == SubSeq(stack, 1, Len(stack) - 1)
With(frame) == Append(Rest, frame)

RunOps == {"getter", "effect", "scope", "batch"}
Doing(what) ==
  Busy /\ Top.op \in RunOps /\ Does(Top.fn, Top.seen).do = what
Step == Does(Top.fn, Top.seen)

(* A call of the package returns to the function that has made it, which   *)
(* has read v from c, or to the program, or to another call.  A read that  *)
(* is not tracked leaves no trace but its value.                           *)
Returned(s, c, v) ==
  IF s = <<>> THEN s
  ELSE IF s[Len(s)].op \notin RunOps THEN s
  ELSE LET tracked == IF s[Len(s)].cell = activeSub THEN c ELSE None
       IN  [s EXCEPT ![Len(s)].seen = Append(@, [cell |-> tracked, val |-> v])]
Answered(s, yes) == [s EXCEPT ![Len(s)].got = yes]

(* The functions that c can have now: the cells they use exist. *)
Ready(c) == {f \in FnsOf(c) : Uses(f) \subseteq made}

(* History of the functions run by one call of the program. *)
Ran(s, c) == ran' = IF s = <<>> THEN {} ELSE ran \cup ({c} \ {None})

(* processEffectNotifications() is called outside of batches only. *)
Drained(s, depth) == IF depth = 0 THEN Append(s, Drain) ELSE Returned(s, None, Zero)

LogCells(c) == {log[c][k].cell : k \in DOMAIN log[c]}
Moved(c) == [d \in Cells |-> moved[d] \/ c \in LogCells(d)]

RECURSIVE Family(_)
Family(es) == IF es = {} THEN {} ELSE es \cup Family(UNION {kids[e] : e \in es})
-----------------------------------------------------------------------------
(* Creating cells: at the top level. *)

New(c, cells) == Free /\ c \in cells \ made

Signal(c, v) ==
  /\ New(c, Signals)
  /\ made' = made \cup {c}
  /\ value' = [value EXCEPT ![c] = v]
  /\ UNCHANGED <<held, fn, graph, context, stack, histVars>>

Computed(c, f) ==
  /\ New(c, Computeds) /\ f \in Ready(c)
  /\ made' = made \cup {c}
  /\ fn' = [fn EXCEPT ![c] = f]
  /\ graph' = Flagged(graph, c, {"Computed", "Dirty"})
  /\ UNCHANGED <<held, value, context, stack, histVars>>

(* runEffect() up to e.fn(), with the graph g, on top of the calls s.      *)
RunEffect(e, f, g, s) ==
  /\ activeSub' = e
  /\ graph' = StartTracking(g, e)
  /\ stack' = Append(s, Run("effect", e, f))
  /\ Ran(stack', e)
  /\ UNCHANGED <<activeScope, batchDepth, pauseStack>>

NewEffectUnowned(e, f, s) ==
  fn' = [fn EXCEPT ![e] = f] /\ RunEffect(e, f, Flagged(graph, e, {"Effect"}), s)

(* The new effect is a dependency of the one that runs, or of the scope.   *)
Parent == IF activeSub # None THEN activeSub ELSE activeScope
NewEffect(e, f, s) ==
  LET g == Flagged(graph, e, {"Effect"})
  IN  /\ fn' = [fn EXCEPT ![e] = f]
      /\ RunEffect(e, f, IF Parent = None THEN g ELSE Link(g, e, Parent), s)

Effect(e, f) ==
  /\ New(e, Effects) /\ f \in Ready(e)
  /\ made' = made \cup {e}
  /\ NewEffect(e, f, stack)
  /\ UNCHANGED <<held, value, log, moved, family>>

(* An inner effect is a cell that nothing refers to any more. *)
Unused(e) ==
  /\ \A l \in DOMAIN graph.at : e \notin {Dep(l), Sub(l)}
  /\ \A k \in DOMAIN graph.queue : graph.queue[k] # e
  /\ \A k \in DOMAIN stack : stack[k].op \in RunOps \cup {"notify"} => stack[k].cell # e
  /\ e \notin {activeSub, activeScope}
  /\ \A k \in DOMAIN pauseStack : pauseStack[k] # e

InnerEffect ==
  /\ Doing("effect")
  /\ \E e \in Inners : Unused(e)
  /\ LET e == CHOOSE i \in Inners : Unused(i)
     IN  /\ NewEffect(e, Step.fn, With([Top EXCEPT !.kids = @ \cup {e}]))
         /\ made' = made \cup {e}
         /\ log' = [log EXCEPT ![e] = <<>>]
         /\ moved' = [moved EXCEPT ![e] = TRUE]
         /\ kids' = [c \in Cells |-> IF c = e THEN {} ELSE kids[c] \ {e}]
         /\ dead' = dead \ {e}
  /\ UNCHANGED <<held, value, hurt>>

(* EffectScope(): runEffectScope() up to scopedFn(). *)
EffectScope(c, f) ==
  /\ New(c, Scopes) /\ f \in Ready(c)
  /\ made' = made \cup {c}
  /\ fn' = [fn EXCEPT ![c] = f]
  /\ activeScope' = c
  /\ graph' = StartTracking(Flagged(graph, c, {"Effect", "EffectScope"}), c)
  /\ stack' = Append(stack, Run("scope", c, f))
  /\ Ran(stack', c)
  /\ UNCHANGED <<held, value, activeSub, batchDepth, pauseStack, log, moved, family>>

(* The function of an effect or of a scope returns.                        *)
RunEnd ==
  /\ Doing("return") /\ Top.op \in {"effect", "scope"}
  /\ LET c == Top.cell
         g == EndTracking(graph, c)
     IN  /\ stack' = Returned(Rest, None, Zero)
         /\ graph' = Collected(g, stack')
         /\ activeSub' = IF Top.op = "effect" /\ ~g.fault THEN Top.saved ELSE activeSub
         /\ activeScope' = IF Top.op = "scope" THEN Top.saved ELSE activeScope
         /\ held' = held \cup ({c} \ Inners)
         /\ log' = [log EXCEPT ![c] = Top.seen]
         /\ moved' = [moved EXCEPT ![c] = FALSE]
         /\ dead' = dead \cup Family(kids[c])
         /\ kids' = [kids EXCEPT ![c] = Top.kids]
  /\ Ran(stack', None)
  /\ UNCHANGED <<made, fn, value, batchDepth, pauseStack, hurt>>

(* A stop function; the program calls it once.                             *)
Stop(c) ==
  /\ \/ Idle /\ c \in held
     \/ Doing("stop") /\ Step.cell = c
  /\ stack' = Returned(stack, None, Zero)
  /\ held' = held \ {c}
  /\ IF c \in held
     THEN /\ graph' = Collected(EndTracking(StartTracking(graph, c), c), stack')
          /\ dead' = dead \cup Family({c})
     ELSE UNCHANGED <<graph, dead>>
  /\ UNCHANGED <<made, fn, value, context, log, moved, kids, ran, hurt>>
-----------------------------------------------------------------------------
(* Batches and pauses. *)

Plain(what) == Doing(what) /\ stack' = Returned(stack, None, Zero)

StartBatch ==
  /\ \/ Free /\ batchDepth < MaxBatch /\ stack' = stack
     \/ Plain("start")
  /\ batchDepth' = batchDepth + 1
  /\ UNCHANGED <<cellVars, value, graph, activeSub, activeScope, pauseStack, histVars>>

(* Nothing asks whether a batch was started: the depth may fall below 0.   *)
EndBatch ==
  /\ \/ Idle /\ batchDepth > -MaxUnpaired
     \/ Doing("end")
  /\ batchDepth' = batchDepth - 1
  /\ stack' = Drained(stack, batchDepth')
  /\ UNCHANGED <<cellVars, value, graph, activeSub, activeScope, pauseStack, histVars>>

Batch(f) ==
  /\ Free /\ f \in Batches /\ Uses(f) \subseteq made
  /\ batchDepth' = batchDepth + 1
  /\ stack' = <<Run("batch", None, f)>>
  /\ UNCHANGED <<cellVars, value, graph, activeSub, activeScope, pauseStack, histVars>>

BatchEnd ==
  /\ Doing("return") /\ Top.op = "batch"
  /\ batchDepth' = batchDepth - 1
  /\ stack' = Drained(Rest, batchDepth')
  /\ Ran(stack', None)
  /\ UNCHANGED <<cellVars, value, graph, activeSub, activeScope, pauseStack>>
  /\ UNCHANGED <<log, moved, family>>

PauseTracking ==
  /\ Plain("pause")
  /\ pauseStack' = Append(pauseStack, activeSub)
  /\ activeSub' = None
  /\ UNCHANGED <<cellVars, value, graph, activeScope, batchDepth, histVars>>

ResumeTracking ==
  /\ Plain("resume") /\ pauseStack # <<>>
  /\ activeSub' = pauseStack[Len(pauseStack)]
  /\ pauseStack' = SubSeq(pauseStack, 1, Len(pauseStack) - 1)
  /\ UNCHANGED <<cellVars, value, graph, activeScope, batchDepth, histVars>>
-----------------------------------------------------------------------------
(* Value() *)

Reads(c) == (Idle /\ c \in made) \/ (Doing("read") /\ Step.cell = c)

ReadSignal(c) ==
  /\ Reads(c) /\ c \in Signals
  /\ graph' = IF activeSub = None THEN graph ELSE Link(graph, c, activeSub)
  /\ stack' = Returned(stack, c, value[c])
  /\ UNCHANGED <<cellVars, value, context, histVars>>

(* updateComputed() up to the getter, on top of the calls s. *)
UpdateComputed(c, s) ==
  /\ activeSub' = c
  /\ graph' = StartTracking(graph, c)
  /\ stack' = Append(s, Run("getter", c, fn[c]))
  /\ Ran(stack', c)
  /\ UNCHANGED <<activeScope, batchDepth, pauseStack>>

(* Value() of a computed, with processComputedUpdate(). *)
ReadComputed(c) ==
  /\ Reads(c) /\ c \in Computeds
  /\ IF "Dirty" \in graph.flags[c]
     THEN UpdateComputed(c, Append(stack, Pull(c, "updated")))
     ELSE /\ stack' = IF "PendingComputed" \in graph.flags[c]
                      THEN stack \o <<Pull(c, "checked"), CheckDirty(graph.deps[c])>>
                      ELSE Append(stack, Pull(c, "done"))
          /\ UNCHANGED <<graph, context, ran>>
  /\ UNCHANGED <<cellVars, value, log, moved, family>>

ReadChecked ==
  /\ In("Value") /\ Top.at = "checked"
  /\ IF Top.got
     THEN UpdateComputed(Top.cell, With([Top EXCEPT !.at = "updated"]))
     ELSE /\ graph' = Flagged(graph, Top.cell, Top.flags \ {"PendingComputed"})
          /\ stack' = With([Top EXCEPT !.at = "done"])
          /\ UNCHANGED <<context, ran>>
  /\ UNCHANGED <<cellVars, value, log, moved, family>>

ReadUpdatedQuiet ==
  /\ In("Value") /\ Top.at = "updated"
  /\ stack' = With([Top EXCEPT !.at = "done"])
  /\ UNCHANGED <<cellVars, value, graph, context, histVars>>

ReadUpdated ==
  /\ In("Value") /\ Top.at = "updated"
  /\ graph' = IF Top.got THEN ShallowPropagate(graph, graph.subs[Top.cell]) ELSE graph
  /\ stack' = With([Top EXCEPT !.at = "done"])
  /\ UNCHANGED <<cellVars, value, context, histVars>>

ReadEnd ==
  /\ In("Value") /\ Top.at = "done"
  /\ graph' = IF Parent = None THEN graph ELSE Link(graph, Top.cell, Parent)
  /\ stack' = Returned(Rest, Top.cell, value[Top.cell])
  /\ Ran(stack', None)
  /\ UNCHANGED <<cellVars, value, context, log, moved, family>>

GetterEndAlways ==
  /\ Doing("return") /\ Top.op = "getter"
  /\ LET c == Top.cell
     IN  /\ value' = [value EXCEPT ![c] = Step.val]
         /\ activeSub' = Top.saved
         /\ stack' = Answered(Rest, TRUE)
         /\ graph' = Collected(EndTracking(graph, c), stack')
         /\ log' = [log EXCEPT ![c] = Top.seen]
         /\ moved' = [(IF Step.val # value[c] THEN Moved(c) ELSE moved)
                        EXCEPT ![c] = FALSE]
  /\ UNCHANGED <<cellVars, activeScope, batchDepth, pauseStack, family, ran>>

(* The getter returns: cas() and the deferred rest of updateComputed().    *)
GetterEnd ==
  /\ Doing("return") /\ Top.op = "getter"
  /\ LET c == Top.cell
     IN  /\ value' = [value EXCEPT ![c] = Step.val]
         /\ activeSub' = Top.saved
         /\ stack' = Answered(Rest, Step.val # value[c])
         /\ graph' = Collected(EndTracking(graph, c), stack')
         /\ log' = [log EXCEPT ![c] = Top.seen]
         /\ moved' = [(IF Step.val # value[c] THEN Moved(c) ELSE moved)
                        EXCEPT ![c] = FALSE]
  /\ UNCHANGED <<cellVars, activeScope, batchDepth, pauseStack, family, ran>>
-----------------------------------------------------------------------------
(* checkDirty(): at link Top.link, Top.depth levels down, Top.prev what to *)
(* come back to. *)

Scanned == graph.flags[Dep(Top.link)]

(* checkDirty() returns this. *)
Checked(yes) == stack' = Answered(Rest, yes) /\ UNCHANGED graph

ScanFrom(l, prev) ==
  IF l = None THEN Checked(FALSE)
  ELSE /\ stack' = With([Top EXCEPT !.at = "scan", !.link = l, !.prev = prev])
       /\ UNCHANGED graph

CheckScan ==
  /\ In("check") /\ Top.at = "scan" /\ Top.link # None
  /\ ~({"Computed", "Dirty"} \subseteq Scanned)
  /\ IF {"Computed", "PendingComputed"} \subseteq Scanned
     THEN LET l == Top.link
              p == graph.at[l]
          IN  /\ graph' = Flagged(graph, Dep(l), Scanned \ {"PendingComputed"})
              /\ stack' = With([Top EXCEPT
                   !.link = graph.deps[Dep(l)], !.depth = @ + 1,
                   !.prev = IF p.nextSub # None /\ p.prevSub # None
                            THEN Append(@, l) ELSE @])
     ELSE ScanFrom(graph.at[Top.link].nextDep, Top.prev)
  /\ UNCHANGED <<cellVars, value, context, histVars>>

CheckUpdate ==
  /\ In("check") /\ Top.at = "scan" /\ Top.link # None
  /\ {"Computed", "Dirty"} \subseteq Scanned
  /\ UpdateComputed(Dep(Top.link), With([Top EXCEPT !.at = "dep"]))
  /\ UNCHANGED <<cellVars, value, log, moved, family>>

(* The dependency has been updated. *)
CheckUpdated ==
  /\ In("check") /\ Top.at = "dep"
  /\ IF ~Top.got THEN ScanFrom(graph.at[Top.link].nextDep, Top.prev)
     ELSE LET subs == graph.subs[Dep(Top.link)]
          IN  /\ graph' = IF subs = None THEN [graph EXCEPT !.fault = TRUE]
                          ELSE IF graph.at[subs].nextSub = None THEN graph
                          ELSE ShallowPropagate(graph, subs)
              /\ stack' = With([Top EXCEPT !.at = "up"])
  /\ UNCHANGED <<cellVars, value, context, histVars>>

(* Mutant: the loop goes on at depth 0. *)
CheckUpAlways ==
  /\ In("check") /\ Top.at = "up"
  /\ LET c == Sub(Top.link)
     IN  UpdateComputed(c, With([Top EXCEPT !.at = "sub", !.depth = @ - 1,
                                            !.first = graph.subs[c]]))
  /\ UNCHANGED <<cellVars, value, log, moved, family>>

CheckUp ==
  /\ In("check") /\ Top.at = "up" /\ Top.depth > 0
  /\ LET c == Sub(Top.link)
     IN  UpdateComputed(c, With([Top EXCEPT !.at = "sub", !.depth = @ - 1,
                                            !.first = graph.subs[c]]))
  /\ UNCHANGED <<cellVars, value, log, moved, family>>

CheckTrue ==
  /\ In("check") /\ Top.at = "up" /\ Top.depth = 0
  /\ Checked(TRUE)
  /\ UNCHANGED <<cellVars, value, context, histVars>>

(* The subscriber, one level up, has been updated. *)
CheckUpEnd ==
  /\ In("check") /\ Top.at = "sub"
  /\ LET first == Top.first
         back == IF Top.prev = <<>> THEN None ELSE Top.prev[Len(Top.prev)]
         prev == SubSeq(Top.prev, 1, Len(Top.prev) - 1)
         up == [Top EXCEPT !.at = "up", !.first = None]
     IN  IF first = None \/ (graph.at[first].nextSub # None /\ back = None)
         THEN graph' = [graph EXCEPT !.fault = TRUE] /\ stack' = stack
         ELSE IF Top.got /\ graph.at[first].nextSub # None
         THEN /\ graph' = ShallowPropagate(graph, first)
              /\ stack' = With([up EXCEPT !.link = back, !.prev = prev])
         ELSE IF Top.got
         THEN stack' = With([up EXCEPT !.link = first]) /\ UNCHANGED graph
         ELSE IF graph.at[first].nextSub # None
         THEN ScanFrom(graph.at[back].nextDep, prev)
         ELSE Checked(FALSE)
  /\ UNCHANGED <<cellVars, value, context, histVars>>
-----------------------------------------------------------------------------
(* SetValue() and the effects. *)

SetValue(c, v) ==
  /\ \/ Free /\ c \in Signals \cap made
     \/ Doing("write") /\ Step.cell = c /\ Step.val = v
  /\ value' = [value EXCEPT ![c] = v]
  /\ IF value[c] = v \/ graph.subs[c] = None
     THEN graph' = graph /\ stack' = Returned(stack, None, Zero)
     ELSE /\ graph' = Propagate(graph, graph.subs[c])
          /\ stack' = Drained(stack, batchDepth)
  /\ moved' = IF value[c] = v THEN moved ELSE Moved(c)
  /\ UNCHANGED <<cellVars, context, log, family, ran>>

(* processPendingInnerEffects() up to its loop, with the graph g. *)
Inside(e, flags, g, s) ==
  /\ IF "PendingEffect" \in flags
     THEN /\ graph' = Flagged(g, e, flags \ {"PendingEffect"})
          /\ stack' = Append(s, InnerEffects(g.deps[e]))
     ELSE graph' = g /\ stack' = s
  /\ UNCHANGED context

(* notifyEffect() with the graph g, on top of the calls s, up to its calls.*)
NotifyEffect(e, g, s) ==
  LET flags == g.flags[e]
      scope == "EffectScope" \in flags
  IN  \/ /\ "Dirty" \in flags /\ ~scope
         /\ RunEffect(e, fn[e], g, s)
      \/ /\ flags \cap {"Dirty", "PendingComputed"} = {"PendingComputed"} /\ ~scope
         /\ stack' = s \o <<Notify(e), CheckDirty(g.deps[e])>>
         /\ graph' = g
         /\ UNCHANGED <<context, ran>>
      \/ /\ scope \/ flags \cap {"Dirty", "PendingComputed"} = {}
         /\ Inside(e, flags, g, s)
         /\ UNCHANGED ran

(* One turn of processEffectNotifications(). *)
DrainNext ==
  /\ In("drain") /\ graph.queue # <<>>
  /\ LET e == Head(graph.queue)
         flags == graph.flags[e]
         g == [graph EXCEPT !.queue = Tail(@)]
     IN  NotifyEffect(e, IF "EffectScope" \in flags /\ "PendingEffect" \notin flags
                         THEN Flagged(g, e, flags \ {"Notified"}) ELSE g, stack)
  /\ UNCHANGED <<cellVars, value, log, moved, family>>

DrainEnd ==
  /\ In("drain") /\ graph.queue = <<>>
  /\ stack' = Returned(Rest, None, Zero)
  /\ Ran(stack', None)
  /\ UNCHANGED <<cellVars, value, graph, context, log, moved, family>>

(* updateDirtyFlag() and the rest of notifyEffect(). *)
NotifyChecked ==
  /\ In("notify")
  /\ LET e == Top.cell
     IN  IF Top.got
         THEN RunEffect(e, fn[e], Flagged(graph, e, Top.flags \cup {"Dirty"}), Rest)
         ELSE /\ Inside(e, Top.flags,
                        Flagged(graph, e, Top.flags \ {"PendingComputed"}), Rest)
              /\ UNCHANGED ran
  /\ UNCHANGED <<cellVars, value, log, moved, family>>

(* One turn of processPendingInnerEffects(). *)
InnerVisit ==
  /\ In("inner") /\ Top.at = "visit" /\ Top.link # None
  /\ LET e == Dep(Top.link)
         s == With([Top EXCEPT !.at = "next"])
     IN  IF "Effect" \in graph.flags[e] /\ graph.flags[e] \cap Propagated # {}
         THEN NotifyEffect(e, graph, s)
         ELSE stack' = s /\ UNCHANGED <<graph, context, ran>>
  /\ UNCHANGED <<cellVars, value, log, moved, family>>

InnerNextOnce ==
  /\ In("inner") /\ Top.at = "next"
  /\ stack' = Rest
  /\ UNCHANGED <<cellVars, value, graph, context, histVars>>

InnerNext ==
  /\ In("inner") /\ Top.at = "next"
  /\ LET l == graph.at[Top.link].nextDep
     IN  stack' = IF l = None THEN Rest ELSE With(InnerEffects(l))
  /\ UNCHANGED <<cellVars, value, graph, context, histVars>>
-----------------------------------------------------------------------------
(* Panics: the function's own, and those of nil pointers. *)

Panic ==
  /\ Doing("panic")
  /\ stack' = Append(stack, Raise)
  /\ UNCHANGED <<cellVars, value, graph, context, histVars>>

NoLink ==
  \/ In("check") /\ Top.at = "scan" /\ Top.link = None
  \/ In("inner") /\ Top.at = "visit" /\ Top.link = None

NilPanic ==
  /\ graph.fault \/ NoLink
  /\ graph' = [graph EXCEPT !.fault = FALSE]
  /\ stack' = Append(stack, Raise)
  /\ UNCHANGED <<cellVars, value, context, histVars>>

UnwindTracked ==
  /\ In("raise")
  /\ LET below == Rest[Len(Rest)]
         s == SubSeq(Rest, 1, Len(Rest) - 1)
         op == IF Rest = <<>> THEN "program" ELSE below.op
     IN  /\ stack' = IF op = "program" THEN <<>>
                     ELSE IF op = "batch" /\ batchDepth = 1 THEN s \o <<Raise, Drain>>
                     ELSE Append(s, Raise)
         /\ batchDepth' = IF op = "batch" THEN batchDepth - 1 ELSE batchDepth
         /\ kids' = IF op \in {"effect", "scope"}
                    THEN [kids EXCEPT ![below.cell] = @ \cup below.kids] ELSE kids
         /\ hurt' = IF op \in {"getter", "effect", "scope"}
                    THEN hurt \cup {below.cell} ELSE hurt
  /\ Ran(stack', None)
  /\ UNCHANGED <<cellVars, value, graph, activeSub, activeScope, pauseStack,
                 log, moved, dead>>

(* A panic leaves one call: updateComputed() and Batch() have deferred     *)
(* something, and nobody else has.                                         *)
Unwind ==
  /\ In("raise")
  /\ LET below == Rest[Len(Rest)]
         s == SubSeq(Rest, 1, Len(Rest) - 1)
         op == IF Rest = <<>> THEN "program" ELSE below.op
     IN  /\ stack' = IF op = "program" THEN <<>>
                     ELSE IF op = "batch" /\ batchDepth = 1 THEN s \o <<Raise, Drain>>
                     ELSE Append(s, Raise)
         /\ batchDepth' = IF op = "batch" THEN batchDepth - 1 ELSE batchDepth
         /\ activeSub' = IF op = "getter" THEN below.saved ELSE activeSub
         /\ graph' = IF op = "getter"
                     THEN Collected(EndTracking(graph, below.cell), stack')
                     ELSE graph
         /\ kids' = IF op \in {"effect", "scope"}
                    THEN [kids EXCEPT ![below.cell] = @ \cup below.kids] ELSE kids
         /\ hurt' = IF op \in {"getter", "effect", "scope"}
                    THEN hurt \cup {below.cell} ELSE hurt
  /\ Ran(stack', None)
  /\ UNCHANGED <<cellVars, value, activeScope, pauseStack, log, moved, dead>>
-----------------------------------------------------------------------------
Call ==
  \/ \E c \in Signals, v \in Values : Signal(c, v)
  \/ \E c \in Computeds : \E f \in FnsOf(c) : Computed(c, f)
  \/ \E c \in Effects : \E f \in FnsOf(c) : Effect(c, f)
  \/ \E c \in Scopes : \E f \in FnsOf(c) : EffectScope(c, f)
  \/ \E f \in Batches : Batch(f)

(* What functions call too. *)
Operation ==
  \/ InnerEffect
  \/ \E c \in Effects \cup Scopes : Stop(c)
  \/ StartBatch \/ EndBatch \/ PauseTracking \/ ResumeTracking
  \/ \E c \in Signals : ReadSignal(c)
  \/ \E c \in Computeds : ReadComputed(c)
  \/ \E c \in Signals, v \in Values : SetValue(c, v)

Internal ==
  \/ RunEnd \/ BatchEnd \/ GetterEnd
  \/ ReadChecked \/ ReadUpdated \/ ReadEnd
  \/ CheckScan \/ CheckUpdate \/ CheckUpdated \/ CheckUp \/ CheckTrue \/ CheckUpEnd
  \/ DrainNext \/ DrainEnd \/ NotifyChecked \/ InnerVisit \/ InnerNext
  \/ Panic \/ NilPanic \/ Unwind

Next == Call \/ Operation \/ Internal

Spec == Init /\ [][Next]_vars
-----------------------------------------------------------------------------
(* The types; a function that runs does what Does can say, and checkDirty() *)
(* comes up as many levels as it has gone down, and no further.            *)
TypeOK ==
  /\ made \in SUBSET Cells /\ held \in SUBSET (Effects \cup Scopes)
  /\ fn \in [Cells -> Fns \cup {None}] /\ value \in [Cells -> Values]
  /\ graph.flags \in [Cells -> SUBSET Flags]
  /\ \A l \in DOMAIN graph.at : Dep(l) \in Cells /\ Sub(l) \in Cells
  /\ \A h \in {graph.deps, graph.depsTail, graph.subs, graph.subsTail} :
       h \in [Cells -> DOMAIN graph.at \cup {None}]
  /\ \A l \in DOMAIN graph.at :
       graph.at[l] \in [{"prevSub", "nextSub", "nextDep"} -> DOMAIN graph.at \cup {None}]
  /\ graph.queue \in Seq(AllEffects \cup Scopes)
  /\ {activeSub, activeScope} \subseteq Cells \cup {None}
  /\ pauseStack \in Seq(Cells \cup {None}) /\ batchDepth \in Int
  /\ \A k \in DOMAIN stack : stack[k].op \in RunOps =>
       /\ Does(stack[k].fn, stack[k].seen) \in Steps
       /\ stack[k].seen \in Seq(Seen)
  /\ \A k \in DOMAIN stack : stack[k].op = "check" =>
       /\ {stack[k].link, stack[k].first} \subseteq DOMAIN graph.at \cup {None}
       /\ stack[k].prev \in Seq(DOMAIN graph.at) /\ stack[k].depth \in Nat

(* No step follows a nil pointer, as long as no panic has left an effect.  *)
(* The code does not keep this: checkDirty() returns through prevLinks,    *)
(* where it has put middle links only, whenever a computed has a second    *)
(* subscriber (reactive_systems.go:107-126), and does not ask for nil.     *)
NeverNil == Orderly => ~graph.fault /\ ~NoLink

(* What c holds if every getter is called now. *)
RECURSIVE Meaning(_), Outcome(_, _)
Meaning(c) == IF c \in Signals THEN value[c] ELSE Outcome(fn[c], <<>>)
Outcome(f, seen) ==
  LET s == Does(f, seen)
  IN  CASE s.do \in {"return", "panic"} -> s.val
        [] s.do = "read" ->
             Outcome(f, Append(seen, [cell |-> s.cell, val |-> Meaning(s.cell)]))
        [] OTHER -> Outcome(f, Append(seen, [cell |-> None, val |-> Zero]))

(* No panic has cut short what c may read, who has created it, and so on.  *)
RECURSIVE Upstream(_)
Upstream(cs) ==
  IF cs = {} THEN {} ELSE cs \cup Upstream(UNION {Uses(fn[c]) : c \in cs \ Signals})
Sound(c) == Upstream({p \in Cells : c \in Family({p})}) \cap hurt = {}

(* What Value() of a computed returns is what its getter makes of the      *)
(* current signals, whatever the flags have let it skip, also in a batch,  *)
(* in a function, and after panics elsewhere.                              *)
ReadFresh ==
  [][ReadEnd /\ Sound(Top.cell) => value[Top.cell] = Meaning(Top.cell)]_vars

Agrees(c) ==
  \A k \in DOMAIN log[c] :
    log[c][k].cell # None => log[c][k].val = Meaning(log[c][k].cell)

(* No effect misses the last change: when the program goes on outside of   *)
(* batches each effect that is not stopped, at the top or created by       *)
(* another or in a scope, has seen what the cells it has read hold now.    *)
Quiet == Idle /\ Orderly /\ batchDepth = 0 /\ graph.queue = <<>>
EffectsSeen ==
  Quiet => \A e \in (AllEffects \cap made) \ dead : Sound(e) => Agrees(e)

(* The package, not its constructor, starts the function of a cell. *)
Started == stack'[Len(stack')].cell
StartsEffect ==
  /\ DrainNext \/ NotifyChecked \/ InnerVisit
  /\ stack'[Len(stack')].op = "effect"
StartsGetter ==
  /\ ~Doing("return") /\ Len(stack') > Len(stack)
  /\ stack'[Len(stack')].op = "getter"

(* Bail-out (topology_test.go:123-148): an effect is called again, and the *)
(* getter of a computed that somebody depends on, only if a cell that it   *)
(* has read has another value than before.                                 *)
NoNeedlessRun ==
  [][/\ StartsEffect /\ Orderly => moved[Started]
     /\ StartsGetter /\ Orderly =>
          moved[Started] \/ graph.subs[Started] = None]_vars

(* One call of the program runs no function twice, however many paths lead *)
(* to it (topology_test.go:48-121, 150-230): the diamonds update once.     *)
OncePerCall == [][StartsEffect \/ StartsGetter => Started \notin ran]_vars

(* An effect stays dead: neither its own stop function (effect_test.go:    *)
(* 245-277), nor that of its scope, nor the next run of the effect that    *)
(* has created it leave it where a later write would find it.              *)
DeadStayDead == [][StartsEffect /\ Orderly => Started \notin dead]_vars

RECURSIVE SubsFrom(_, _)
SubsFrom(g, l) ==
  IF l = None THEN <<>> ELSE <<l>> \o SubsFrom(g, g.at[l].nextSub)

SubsInOrder(c) ==
  LET links == SubsFrom(graph, graph.subs[c])
      n == Len(links)
  IN  /\ graph.subsTail[c] = IF n = 0 THEN None ELSE links[n]
      /\ \A k \in 1 .. n : /\ Dep(links[k]) = c
                          /\ graph.at[links[k]].prevSub =
                               IF k = 1 THEN None ELSE links[k - 1]

DepLinks(c) == DepsBetween(graph, graph.deps[c], None)
SubLinks(c) == {SubsFrom(graph, graph.subs[c])[k] :
                  k \in DOMAIN SubsFrom(graph, graph.subs[c])}

(* The two lists agree through every link(), endTracking() and release of  *)
(* cells nobody depends on, in the middle of runs too: each link is in the *)
(* subscribers of its dependency, whose prevSub, nextSub and subsTail are  *)
(* right, exactly when it is in the dependencies of its subscriber.        *)
WellLinked ==
  ~graph.fault /\ Orderly =>
    /\ \A c \in Cells : SubsInOrder(c)
    /\ \A c \in Cells :
         /\ \A l \in DepLinks(c) : Sub(l) = c
         /\ graph.depsTail[c] \in DepLinks(c) \cup {None}
         /\ "Tracking" \notin graph.flags[c] /\ graph.deps[c] # None =>
              /\ graph.depsTail[c] # None
              /\ graph.at[graph.depsTail[c]].nextDep = None
    /\ UNION {DepLinks(c) : c \in Cells} = UNION {SubLinks(c) : c \in Cells}

(* Outside of calls nobody is being tracked, whatever getters have         *)
(* panicked, scopes and effects have nested, and tracking was paused: else *)
(* the reads of the program would become dependencies of an effect.        *)
ContextBack ==
  Idle /\ Orderly => activeSub = None /\ activeScope = None /\ pauseStack = <<>>
=============================================================================
