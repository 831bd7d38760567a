------------------------ MODULE DumbdumbGraphProofs ------------------------
(* Proofs about what Dumbdumb calls, what it lists, and what it            *)
(* implements.  Although every access marks every cell dirty, no callback  *)
(* is called again with the arguments of its last call; for any graph and  *)
(* any callbacks, panicking ones too: what is registered, what remove()    *)
(* leaves behind, and what a sweep therefore runs; and every step of the   *)
(* package is a step of ReactiveGraph or changes nothing of what the       *)
(* mapping of DumbdumbGraph shows of it.                                   *)
EXTENDS DumbdumbProofs, DumbdumbGraph


(* What is cached are the arguments of the last call, zeros before the     *)
(* first, unless eval() has just noticed that they differ; then they do in *)
(* an argument it has read.                                                *)
Told ==
  \A c \in Derived :
    /\ (\A k \in 1 .. Len(stack) : stack[k].cell = c => stack[k].same) =>
         LastTold(c) = cached[c]
    /\ \A k \in 1 .. Len(stack) : stack[k].cell = c /\ ~stack[k].same =>
         \E j \in 1 .. (stack[k].arg - 1) : LastTold(c)[j] # cached[c][j]

Uncalled == \A c \in Derived \ made : seen[c] = <<>>

WInv == SInv /\ Told /\ Uncalled

LEMMA CallInit == Init => WInv
<1> SUFFICES ASSUME Init PROVE WInv
  OBVIOUS
<1>1. \A c \in Derived : seen[c] = <<>> /\ cached[c] = <<>> /\ deps[c] = <<>>
  BY DEF Init
<1>2. stack = <<>>
  BY DEF Init
<1>3. \A c \in Derived : LastTold(c) = cached[c]
  BY <1>1 DEF LastTold
<1> QED BY <1>1, <1>2, <1>3, SafeInit DEF WInv, Told, Uncalled

(* Most steps leave the caches and the stack alone. *)
LEMMA CallElsewhere ==
  ASSUME Told, Uncalled, UNCHANGED <<deps, cached, seen, stack>>,
         made \subseteq made'
  PROVE  Told' /\ Uncalled'
BY DEF Told, Uncalled, LastTold

(* A new cell has not been called; its frame, if any, is alone.            *)
LEMMA CallAllocate ==
  ASSUME WInv, stack = <<>>, NEW c \in Derived, NEW ds, Allocate(c, ds),
         seen' = seen, stack' \in {<<>>, <<Frame(c)>>}
  PROVE  Told' /\ Uncalled'
<1>1. /\ c \notin made /\ made' = made \cup {c}
      /\ cached'[c] = [j \in DOMAIN ds |-> Zero] /\ deps'[c] = ds
      /\ \A d \in Derived : d # c => cached'[d] = cached[d] /\ deps'[d] = deps[d]
  BY DEF Allocate, WInv, SInv, TypeOK, DataType, GraphType
<1>2. LastTold(c)' = cached'[c]
  <2>1. seen'[c] = <<>>
    BY <1>1 DEF WInv, Uncalled
  <2> QED BY <1>1, <2>1 DEF LastTold
<1>3. \A k \in 1 .. Len(stack') : stack'[k].cell = c /\ stack'[k].same = TRUE
  <2>1. CASE stack' = <<>>
    BY <2>1, EmptySeq
  <2>2. CASE stack' = <<Frame(c)>>
    BY <2>2 DEF Frame
  <2> QED BY <2>1, <2>2
<1>4. \A d \in Derived : LastTold(d)' = cached'[d]
  <2> TAKE d \in Derived
  <2>1. CASE d = c
    BY <1>2, <2>1
  <2>2. CASE d # c
    <3>1. \A k \in 1 .. Len(stack) : FALSE
      BY EmptySeq
    <3>2. LastTold(d) = cached[d]
      BY <3>1 DEF WInv, Told
    <3> QED BY <1>1, <2>2, <3>2 DEF LastTold
  <2> QED BY <2>1, <2>2
<1>5. Told'
  BY <1>3, <1>4 DEF Told
<1> QED BY <1>1, <1>5 DEF WInv, Uncalled

(* eval() begins: nothing has differed yet. *)
LEMMA CallEnter ==
  ASSUME WInv, NEW c \in Derived, Enter(c),
         UNCHANGED <<deps, cached, seen, made>>
  PROVE  Told' /\ Uncalled'
<1>1. stack \in Seq(FrameSet) /\ Frame(c) \in FrameSet
  BY DEF WInv, SInv, TypeOK, ControlType, Frame, FrameSet
<1>2. /\ Len(stack') = Len(stack) + 1 /\ Len(stack) \in Nat
      /\ \A k \in 1 .. Len(stack) : stack'[k] = stack[k]
      /\ stack'[Len(stack) + 1] = Frame(c)
  BY <1>1, Push, LenProperties DEF Enter
<1>3. Frame(c).same = TRUE
  BY DEF Frame
<1>4. \A k \in 1 .. Len(stack) : k \in 1 .. Len(stack')
  BY <1>2
<1>5. \A k \in 1 .. Len(stack') : k \in 1 .. Len(stack) \/ k = Len(stack) + 1
  BY <1>2
<1>6. ASSUME NEW d \in Derived,
             \A k \in 1 .. Len(stack') : stack'[k].cell = d => stack'[k].same
      PROVE  LastTold(d) = cached[d]
  <2>1. \A k \in 1 .. Len(stack) : stack[k].cell = d => stack[k].same
    BY <1>2, <1>4, <1>6
  <2> QED BY <2>1 DEF WInv, Told
<1>7. ASSUME NEW d \in Derived, NEW k \in 1 .. Len(stack'),
             stack'[k].cell = d, ~stack'[k].same
      PROVE  \E j \in 1 .. (stack'[k].arg - 1) : LastTold(d)[j] # cached[d][j]
  <2>1. k \in 1 .. Len(stack) /\ stack'[k] = stack[k]
    BY <1>2, <1>3, <1>5, <1>7
  <2> QED BY <1>7, <2>1 DEF WInv, Told
<1>8. \A d \in Derived : LastTold(d)' = LastTold(d)
  BY DEF LastTold
<1>9. Told'
  BY <1>6, <1>7, <1>8 DEF Told
<1> QED BY <1>9 DEF WInv, Uncalled

(* The frame on top is the only one of its cell. *)
LEMMA TopAlone ==
  ASSUME SInv, InEval
  PROVE  /\ Len(stack) \in 1 .. Len(stack) /\ stack[Len(stack)] = Top
         /\ Top.cell \in Derived /\ Top.arg \in Nat \ {0} /\ Top.same \in BOOLEAN
         /\ \A k \in 1 .. Len(stack) : stack[k].cell = Top.cell => k = Len(stack)
<1>1. /\ Len(stack) \in Nat \ {0} /\ Top = stack[Len(stack)]
      /\ Top \in FrameSet
  BY TopFacts, SInvType
<1>2. Len(stack) \in 1 .. Len(stack)
  BY <1>1
<1>3. \A k \in 1 .. Len(stack) : stack[k].cell = Top.cell => k = Len(stack)
  BY <1>1, <1>2, StackDistinct
<1> QED BY <1>1, <1>2, <1>3 DEF FrameSet

(* No cell is made without arguments. *)
LEMMA CacheFilled ==
  ASSUME SInv, NEW c \in made \cap Derived
  PROVE  cached[c] # <<>> /\ Len(cached[c]) = Len(deps[c]) /\ deps[c] # <<>>
<1>1. Len(cached[c]) = Len(deps[c]) /\ deps[c] \in Wirings
  BY DEF SInv, TypeOK, DataType, Consistent, WellFormed, Wired
<1>2. deps[c] \in Seq(Nodes) /\ deps[c] # <<>>
  BY <1>1, DataAssumption DEF DataAssumption
<1> QED BY <1>1, <1>2, EmptySeq

(* An argument is compared, and cached if it differs. *)
LEMMA CallEvalArg ==
  ASSUME WInv, EvalArg
  PROVE  Told' /\ Uncalled'
<1> DEFINE c == Top.cell
           j == Top.arg
           n == Len(stack)
           v == val[Callee]
           f == [cell |-> c, arg |-> j + 1, same |-> Top.same /\ cached[c][j] = v]
<1>1. /\ InEval /\ ~ArgsDone /\ stack' = [stack EXCEPT ![n] = f]
      /\ cached' = [cached EXCEPT ![c] = [@ EXCEPT ![j] = v]]
      /\ UNCHANGED <<seen, made, deps>>
  BY DEF EvalArg, graphVars
<1>2. /\ n \in 1 .. n /\ stack[n] = Top /\ c \in Derived /\ j \in Nat \ {0}
      /\ Top.same \in BOOLEAN
      /\ \A k \in 1 .. n : stack[k].cell = c => k = n
  BY <1>1, TopAlone DEF WInv
<1>3. /\ cached[c] \in Seq(Values) /\ Len(cached[c]) = Len(deps[c])
      /\ j \in 1 .. Len(cached[c])
      /\ cached \in [Derived -> Seq(Values)] /\ stack \in Seq(FrameSet)
  BY <1>1, <1>2, TopFacts, SInvType
  DEF WInv, SInv, TypeOK, DataType, ControlType
<1>4. /\ cached'[c] = [cached[c] EXCEPT ![j] = v]
      /\ \A d \in Derived : d # c => cached'[d] = cached[d]
  BY <1>1, <1>2, <1>3
<1>5. Len(stack') = n /\ stack'[n] = f
      /\ \A k \in 1 .. n : k # n => stack'[k] = stack[k]
  BY <1>1, <1>2, <1>3
<1>6. f.cell = c /\ f.arg = j + 1 /\ (f.same <=> Top.same /\ cached[c][j] = v)
  OBVIOUS
<1> HIDE DEF c, j, n, v, f
<1>7. \A k \in 1 .. n : stack'[k].cell = stack[k].cell
  BY <1>2, <1>5, <1>6 DEF c
<1>8. ASSUME NEW d \in Derived, d # c
      PROVE  /\ (\A k \in 1 .. n : stack'[k].cell = d => stack'[k].same) =>
                  LastTold(d) = cached'[d]
             /\ \A k \in 1 .. n : stack'[k].cell = d /\ ~stack'[k].same =>
                  \E i \in 1 .. (stack'[k].arg - 1) : LastTold(d)[i] # cached'[d][i]
  <2>1. \A k \in 1 .. n : stack'[k].cell = d => stack'[k] = stack[k] /\ stack[k].cell = d
    BY <1>2, <1>5, <1>6, <1>7, <1>8
  <2>2. \A k \in 1 .. n : stack[k].cell = d => stack'[k] = stack[k]
    BY <1>7, <2>1
  <2>3. /\ (\A k \in 1 .. n : stack[k].cell = d => stack[k].same) =>
             LastTold(d) = cached[d]
        /\ \A k \in 1 .. n : stack[k].cell = d /\ ~stack[k].same =>
             \E i \in 1 .. (stack[k].arg - 1) : LastTold(d)[i] # cached[d][i]
    BY DEF WInv, Told, n
  <2>4. cached'[d] = cached[d]
    BY <1>4, <1>8
  <2>5. (\A k \in 1 .. n : stack'[k].cell = d => stack'[k].same) => LastTold(d) = cached'[d]
    <3>1. (\A k \in 1 .. n : stack'[k].cell = d => stack'[k].same) =>
            (\A k \in 1 .. n : stack[k].cell = d => stack[k].same)
      BY <1>7, <2>2
    <3> QED BY <2>3, <2>4, <3>1
  <2> QED BY <2>1, <2>3, <2>4, <2>5
<1>9. /\ f.same => LastTold(c) = cached'[c]
      /\ ~f.same => \E i \in 1 .. j : LastTold(c)[i] # cached'[c][i]
  <2>1. CASE Top.same
    <3>1. LastTold(c) = cached[c]
      BY <1>2, <2>1 DEF WInv, Told, n
    <3>2. CASE cached[c][j] = v
      <4>1. cached'[c] = cached[c]
        BY <1>3, <1>4, <3>2
      <4> QED BY <1>6, <2>1, <3>1, <3>2, <4>1
    <3>3. CASE cached[c][j] # v
      <4>1. cached'[c][j] = v /\ j \in 1 .. j
        BY <1>2, <1>3, <1>4
      <4> QED BY <1>6, <3>1, <3>3, <4>1
    <3> QED BY <3>2, <3>3
  <2>2. CASE ~Top.same
    <3>1. stack[n].cell = c /\ ~stack[n].same /\ stack[n].arg = j
      BY <1>2, <2>2 DEF c, j
    <3>2. PICK i \in 1 .. (j - 1) : LastTold(c)[i] # cached[c][i]
      BY <1>2, <3>1 DEF WInv, Told, n
    <3>3. i \in 1 .. j /\ i # j
      BY <1>2, <3>2
    <3>4. cached'[c][i] = cached[c][i]
      BY <1>3, <1>4, <3>3
    <3> QED BY <1>6, <2>2, <3>2, <3>3, <3>4
  <2> QED BY <1>2, <2>1, <2>2
<1>10. /\ (\A k \in 1 .. n : stack'[k].cell = c => stack'[k].same) =>
            LastTold(c) = cached'[c]
       /\ \A k \in 1 .. n : stack'[k].cell = c /\ ~stack'[k].same =>
            \E i \in 1 .. (stack'[k].arg - 1) : LastTold(c)[i] # cached'[c][i]
  <2>1. \A k \in 1 .. n : stack'[k].cell = c => stack'[k] = f
    BY <1>2, <1>5, <1>7
  <2>2. f.arg - 1 = j
    BY <1>2, <1>6
  <2>3. (\A k \in 1 .. n : stack'[k].cell = c => stack'[k].same) => f.same
    BY <1>2, <1>5, <1>6
  <2> QED BY <1>9, <2>1, <2>2, <2>3
<1>11. \A d \in Derived : LastTold(d)' = LastTold(d)
  BY <1>1 DEF LastTold
<1>12. Told'
  BY <1>5, <1>8, <1>10, <1>11 DEF Told
<1> QED BY <1>1, <1>12 DEF WInv, Uncalled

(* eval() returns: either nothing has differed, or the callback has just   *)
(* been called with what is cached.                                        *)
LEMMA CallEvalReturn ==
  ASSUME WInv, EvalKeep \/ EvalGet \/ EvalRun
  PROVE  Told' /\ Uncalled'
<1> DEFINE n == Len(stack)
<1>0. PICK c : c = Top.cell
  OBVIOUS
<1>1. /\ InEval /\ stack' = Pop /\ UNCHANGED <<cached, made, deps>>
      /\ \/ Top.same /\ seen' = seen
         \/ seen' = [seen EXCEPT ![c] = cached[c]]
  BY <1>0 DEF EvalKeep, EvalGet, EvalRun, Calling, graphVars
<1>2. /\ n \in 1 .. n /\ stack[n] = Top /\ c \in Derived /\ c \in made
      /\ \A k \in 1 .. n : stack[k].cell = c => k = n
  BY <1>0, <1>1, TopAlone, TopFacts, SInvType DEF WInv
<1>3. stack \in Seq(FrameSet) /\ seen \in [Derived -> Seq(Values)]
  BY DEF WInv, SInv, TypeOK, ControlType, DataType
<1>4. Len(stack') = n - 1 /\ \A k \in 1 .. (n - 1) : stack'[k] = stack[k]
  BY <1>1, <1>3, Shrink DEF Pop, InEval
<1>5. /\ \A k \in 1 .. (n - 1) : k \in 1 .. n /\ k # n
      /\ \A k \in 1 .. n : k = n \/ k \in 1 .. (n - 1)
  BY <1>2
<1>6. LastTold(c)' = cached[c]
  <2>1. CASE Top.same /\ seen' = seen
    <3>1. LastTold(c) = cached[c]
      BY <1>2, <2>1 DEF WInv, Told
    <3> QED BY <1>1, <2>1, <3>1 DEF LastTold
  <2>2. CASE seen' = [seen EXCEPT ![c] = cached[c]]
    <3>1. seen'[c] = cached[c] /\ cached[c] # <<>>
      BY <1>2, <1>3, <2>2, CacheFilled DEF WInv
    <3> QED BY <3>1 DEF LastTold
  <2> QED BY <1>1, <2>1, <2>2
<1>7. \A d \in Derived : d # c =>
        seen'[d] = seen[d] /\ LastTold(d)' = LastTold(d)
  BY <1>1, <1>3 DEF LastTold
<1>8. \A k \in 1 .. Len(stack') : stack'[k].cell # c
  BY <1>2, <1>4, <1>5
<1> HIDE DEF n
<1>9. ASSUME NEW d \in Derived
      PROVE  /\ (\A k \in 1 .. Len(stack') : stack'[k].cell = d => stack'[k].same) =>
                  LastTold(d)' = cached'[d]
             /\ \A k \in 1 .. Len(stack') : stack'[k].cell = d /\ ~stack'[k].same =>
                  \E j \in 1 .. (stack'[k].arg - 1) : LastTold(d)'[j] # cached'[d][j]
  <2>1. CASE d = c
    BY <1>1, <1>6, <1>8, <2>1
  <2>2. CASE d # c
    <3>1. LastTold(d)' = LastTold(d) /\ cached'[d] = cached[d]
      BY <1>1, <1>7, <2>2
    <3>2. (\A k \in 1 .. Len(stack') : stack'[k].cell = d => stack'[k].same) =>
            (\A k \in 1 .. n : stack[k].cell = d => stack[k].same)
      BY <1>0, <1>2, <1>4, <1>5, <2>2
    <3>3. \A k \in 1 .. Len(stack') : k \in 1 .. n /\ stack'[k] = stack[k]
      BY <1>4, <1>5
    <3> QED BY <3>1, <3>2, <3>3 DEF WInv, Told, n
  <2> QED BY <2>1, <2>2
<1>10. Told'
  BY <1>9 DEF Told
<1>11. Uncalled'
  BY <1>1, <1>2, <1>7 DEF WInv, Uncalled
<1> QED BY <1>10, <1>11

(* A constructor has called the getter with what is cached. *)
LEMMA CallBuildEnd ==
  ASSUME WInv, BuildEnd
  PROVE  Told' /\ Uncalled'
<1> DEFINE c == Top.cell
<1>1. /\ InEval /\ Len(stack) = 1 /\ stack' = <<>>
      /\ seen' = [seen EXCEPT ![c] = cached[c]] /\ UNCHANGED <<cached, made, deps>>
  BY DEF BuildEnd, Calling, Building, graphVars
<1>2. /\ 1 \in 1 .. Len(stack) /\ stack[1] = Top /\ c \in Derived /\ c \in made
      /\ \A k \in 1 .. Len(stack) : k = 1
  BY <1>1, TopAlone, TopFacts, SInvType DEF WInv
<1>3. seen \in [Derived -> Seq(Values)]
  BY DEF WInv, SInv, TypeOK, DataType
<1>4. \A k \in 1 .. Len(stack') : FALSE
  BY <1>1, EmptySeq
<1>5. \A d \in Derived : LastTold(d)' = cached[d]
  <2> TAKE d \in Derived
  <2>1. CASE d = c
    <3>1. seen'[c] = cached[c] /\ cached[c] # <<>>
      BY <1>1, <1>2, <1>3, CacheFilled DEF WInv
    <3> QED BY <2>1, <3>1 DEF LastTold
  <2>2. CASE d # c
    <3>1. \A k \in 1 .. Len(stack) : stack[k].cell # d
      BY <1>2, <2>2
    <3>2. LastTold(d)' = LastTold(d)
      BY <1>1, <1>3, <2>2 DEF LastTold
    <3> QED BY <3>1, <3>2 DEF WInv, Told
  <2> QED BY <2>1, <2>2
<1>6. Told'
  BY <1>1, <1>4, <1>5 DEF Told
<1>7. Uncalled'
  BY <1>1, <1>2, <1>3 DEF WInv, Uncalled
<1> QED BY <1>6, <1>7

LEMMA CallStep ==
  ASSUME Disciplined, WInv, Step
  PROVE  Told' /\ Uncalled'
<1>1. CASE RemoveOne \/ RemoveCut \/ Mark \/ SweepSkip \/ SweepEnd
  <2>1. UNCHANGED <<deps, cached, seen, stack, made>>
    BY <1>1 DEF RemoveOne, RemoveCut, Mark, SweepSkip, SweepEnd, dataVars,
       graphVars
  <2> QED BY <2>1, CallElsewhere DEF WInv
<1>2. CASE RemoveOverrun \/ Return
  <2>1. stack = <<>>
    BY <1>2, IdleStack DEF RemoveOverrun, Return, WInv
  <2>2. UNCHANGED <<deps, cached, seen, stack, made>>
    BY <1>2, <2>1 DEF RemoveOverrun, Return, Unlock, dataVars, graphVars
  <2> QED BY <2>2, CallElsewhere DEF WInv
<1>3. CASE SweepEval
  <2>1. next \in 1 .. Len(slots) /\ slots[next] \in Cells /\ ~Ready(slots[next])
    BY <1>3 DEF SweepEval, InLoop, WInv, SInv, TypeOK, Consistent, WellFormed,
       ListType, Placed, ControlType
  <2>2. slots[next] \in Derived
    BY <2>1 DEF Ready, Cells
  <2> QED BY <1>3, <2>2, CallEnter DEF SweepEval, graphVars
<1>4. CASE EvalDep
  <2>1. Callee \in Nodes /\ ~Ready(Callee)
    BY <1>4, TopFacts, SInvType DEF EvalDep, WInv
  <2>2. Callee \in Derived
    BY <2>1 DEF Ready, Nodes, Derived
  <2> QED BY <1>4, <2>2, CallEnter DEF EvalDep, graphVars
<1>5. ~CallbackPanic /\ ~CircularPanic
  BY NoCircular DEF CallbackPanic, CircularPanic, Disciplined, WInv
<1> QED BY <1>1, <1>2, <1>3, <1>4, <1>5, CallEvalArg, CallEvalReturn,
           CallBuildEnd DEF Step

LEMMA CallNext == Disciplined /\ WInv /\ [Next]_vars => WInv'
<1> SUFFICES ASSUME Disciplined, WInv, [Next]_vars PROVE Told' /\ Uncalled'
  BY SafeNext DEF WInv, Disciplined
<1>1. CASE UNCHANGED vars
  BY <1>1, CallElsewhere DEF WInv, vars, dataVars, ctrlVars, graphVars
<1>2. CASE Step
  BY <1>2, CallStep
<1>3. ASSUME NEW g \in Goroutines, Call(g) PROVE Told' /\ Uncalled'
  <2>1. ASSUME NEW s \in Signals, NEW v \in Values,
               SignalRead(g, s, v) \/ SetValue(g, s, v)
        PROVE  Told' /\ Uncalled'
    <3>1. UNCHANGED <<deps, cached, seen, stack>> /\ made \subseteq made'
      BY <2>1 DEF SignalRead, SetValue, ctrlVars, graphVars
    <3> QED BY <3>1, CallElsewhere DEF WInv
  <2>2. ASSUME NEW c \in Nodes, Value(g, c) PROVE Told' /\ Uncalled'
    BY <2>2, CallElsewhere DEF WInv, Value, graphVars
  <2>3. ASSUME NEW c \in Computeds, NEW ds \in Wirings, NEW f \in Getters,
               Computed(g, c, ds, f)
        PROVE  Told' /\ Uncalled'
    <3>1. stack = <<>> /\ c \in Derived
      BY <2>3, IdleStack DEF Computed, Lock, WInv, SInv, TypeOK, ControlType,
         Derived
    <3> QED BY <2>3, <3>1, CallAllocate DEF Computed
  <2>4. ASSUME NEW e \in Effects, NEW ds \in Wirings, Effect(g, e, ds)
        PROVE  Told' /\ Uncalled'
    <3>1. stack = <<>> /\ e \in Derived
      BY <2>4, IdleStack DEF Effect, Lock, WInv, SInv, TypeOK, ControlType,
         Derived
    <3> QED BY <2>4, <3>1, CallAllocate DEF Effect
  <2>5. ASSUME NEW cs, Remove(g, cs) PROVE Told' /\ Uncalled'
    BY <2>5, CallElsewhere DEF WInv, Remove, graphVars
  <2>6. CASE Reset(g)
    BY <2>6, CallElsewhere DEF WInv, Reset, graphVars
  <2> QED BY <1>3, <2>1, <2>2, <2>3, <2>4, <2>5, <2>6 DEF Call
<1>4. ASSUME NEW g \in Goroutines, SignalWrite(g) PROVE Told' /\ Uncalled'
  BY <1>4, CallElsewhere DEF WInv, SignalWrite, dataVars, ctrlVars
<1> QED BY <1>1, <1>2, <1>3, <1>4 DEF Next

(* A callback is called only when its arguments are not those of its last  *)
(* call, however often writes and reads mark its cell dirty.               *)
THEOREM NoWastedCallAlways ==
  ASSUME Disciplined PROVE Spec => NoWastedCall
<1>1. Init => WInv
  BY CallInit
<1>2. WInv /\ [Next]_vars => WInv'
  BY CallNext
<1>3. WInv /\ [Next]_vars => [EvalGet \/ EvalRun => seen' # seen]_vars
  <2> SUFFICES ASSUME WInv, EvalGet \/ EvalRun PROVE seen' # seen
    OBVIOUS
  <2> DEFINE c == Top.cell
             n == Len(stack)
  <2>1. /\ InEval /\ ArgsDone /\ ~Top.same
        /\ seen' = [seen EXCEPT ![c] = cached[c]]
    BY DEF EvalGet, EvalRun, Calling
  <2>2. n \in 1 .. n /\ stack[n] = Top /\ c \in Derived
    BY <2>1, TopAlone DEF WInv
  <2>3. seen'[c] = cached[c]
    BY <2>1, <2>2 DEF WInv, SInv, TypeOK, DataType
  <2>4. PICK j \in 1 .. (stack[n].arg - 1) : LastTold(c)[j] # cached[c][j]
    BY <2>1, <2>2 DEF WInv, Told
  <2>5. CASE seen[c] = <<>>
    <3>1. c \in made
      BY <2>1, TopFacts, SInvType DEF WInv
    <3> QED BY <2>2, <2>3, <2>5, <3>1, CacheFilled DEF WInv
  <2>6. CASE seen[c] # <<>>
    BY <2>3, <2>4, <2>6 DEF LastTold
  <2> QED BY <2>5, <2>6
<1> QED BY <1>1, <1>2, <1>3, PTL DEF Spec, NoWastedCall

-----------------------------------------------------------------------------
(* The list of cells. *)

(* Signal() does not overlap other calls, and Remove() gets one cell.      *)
OneByOne == SignalOverlaps = FALSE /\ MaxRemove = 1

-----------------------------------------------------------------------------
(* The invariant. *)

Distinct == \A j, k \in 1 .. len : slots[j] = slots[k] => j = k

(* The first n slots hold each enrolled cell once, and no other cell.      *)
Listing(n) ==
  /\ \A k \in 1 .. n : slots[k] \in enrolled
  /\ \A c \in enrolled : \E k \in 1 .. n : slots[k] = c
  /\ \A j, k \in 1 .. n : slots[j] = slots[k] => j = k

(* In remove(), before its only round: the cell to drop is still listed.   *)
Leaving(c) ==
  /\ c \notin enrolled
  /\ \A k \in 1 .. len : slots[k] = c \/ slots[k] \in enrolled
  /\ \A d \in enrolled : \E k \in 1 .. len : slots[k] = d
  /\ Distinct

ListExact ==
  /\ pc # "remove" => Listing(len)
  /\ pc = "remove" /\ op.rest = <<>> =>
       op.dropped <= len /\ Listing(len - op.dropped)
  /\ pc = "remove" /\ op.rest # <<>> =>
       op.dropped = 0 /\ Len(op.rest) = 1 /\ Leaving(Head(op.rest))

(* What is being constructed is not in the list yet. *)
PendingApart == \A g \in Goroutines : pendCell[g] # None => pendCell[g] \notin enrolled
BuiltApart == pc = "build" => op.cell \notin enrolled

(* The sweep covers the list, and evaluates effects of the list only.      *)
EffectsListed ==
  /\ pc = "sweep" => upto = len
  /\ \A k \in 1 .. Len(stack) :
       stack[k].cell \in Effects => stack[k].cell \in enrolled

LInv ==
  /\ TypeInv /\ AppendsAlone /\ ListExact
  /\ PendingApart /\ BuiltApart /\ EffectsListed

-----------------------------------------------------------------------------
(* What steps have in common. *)

(* Nobody appends while an operation is in progress. *)
LEMMA Busy ==
  ASSUME LInv, pc # "idle"
  PROVE  NoPending /\ mu # None
BY DEF LInv, TypeInv, TypeOK, ControlType, AppendsAlone, NoPending

LEMMA NobodyAppends ==
  ASSUME NoPending, UNCHANGED pendVars
  PROVE  AppendsAlone' /\ PendingApart'
BY DEF NoPending, pendVars, AppendsAlone, PendingApart

(* At the start of an operation. *)
LEMMA Start ==
  ASSUME LInv, OneByOne, NEW g \in Goroutines, NEW name, NEW c, NEW rest,
         Lock(g, name, c, rest)
  PROVE  /\ NoPending /\ pc = "idle" /\ stack = <<>> /\ Listing(len)
         /\ op' = [name |-> name, cell |-> c, rest |-> rest, dropped |-> 0]
<1>1. NoPending /\ pc = "idle"
  BY DEF OneByOne, Lock, LInv, TypeInv, TypeOK, ControlType
<1> QED BY <1>1 DEF Lock, LInv, TypeInv, TypeOK, ControlType, ListExact

(* The list has not changed. *)
LEMMA SameList ==
  ASSUME LInv, UNCHANGED listVars, pc # "remove", pc' # "remove"
  PROVE  ListExact'
BY DEF LInv, ListExact, Listing, listVars

(* A new cell is appended to an exact list. *)
LEMMA Appended ==
  ASSUME TypeInv, Listing(len), NEW c \in Cells, c \notin enrolled, c \in made',
         made \subseteq made', AppendAt(len, c)
  PROVE  Listing(len)' /\ enrolled' = enrolled \cup {c}
<1>1. len \in 0 .. Len(slots) /\ len \in Nat
  BY DEF TypeInv, TypeOK, ListType
<1>2. /\ \A k \in 1 .. len : slots'[k] = slots[k]
      /\ slots'[len + 1] = c /\ len' = len + 1
      /\ enrolled' = enrolled \cup {c}
  BY <1>1, AppendType
<1>3. \A k \in 1 .. len' : k \in 1 .. len \/ k = len + 1
  BY <1>1, <1>2
<1>4. \A k \in 1 .. len : k \in 1 .. len'
  BY <1>1, <1>2
<1>5. len + 1 \in 1 .. len'
  BY <1>1, <1>2
<1>6. \A k \in 1 .. len : slots[k] # c
  BY DEF Listing
<1>7. \A k \in 1 .. len' : slots'[k] \in enrolled'
  BY <1>2, <1>3 DEF Listing
<1>8. \A d \in enrolled' : \E k \in 1 .. len' : slots'[k] = d
  BY <1>2, <1>4, <1>5 DEF Listing
<1>9. \A j, k \in 1 .. len' : slots'[j] = slots'[k] => j = k
  <2> TAKE j, k \in 1 .. len'
  <2> HAVE slots'[j] = slots'[k]
  <2>1. CASE j \in 1 .. len /\ k \in 1 .. len
    BY <2>1, <1>2 DEF Listing
  <2>2. CASE j = len + 1 /\ k \in 1 .. len
    BY <2>2, <1>2, <1>6
  <2>3. CASE j \in 1 .. len /\ k = len + 1
    BY <2>3, <1>2, <1>6
  <2> QED BY <2>1, <2>2, <2>3, <1>3
<1> QED BY <1>2, <1>7, <1>8, <1>9 DEF Listing

(* The stack is empty. *)
LEMMA NothingRuns ==
  ASSUME stack' = <<>>, pc' # "sweep"
  PROVE  EffectsListed'
BY EmptySeq DEF EffectsListed

-----------------------------------------------------------------------------
(* The initial state. *)

LEMMA ListInit == Init => LInv
<1> SUFFICES ASSUME Init PROVE LInv
  OBVIOUS
<1>1. TypeInv
  BY TypeInit
<1>2. pc = "idle" /\ stack = <<>> /\ len = 0 /\ enrolled = {}
      /\ \A g \in Goroutines : pendCell[g] = None
  BY DEF Init
<1>3. AppendsAlone /\ PendingApart /\ BuiltApart
  BY <1>2 DEF AppendsAlone, PendingApart, BuiltApart
<1>4. ListExact
  BY <1>2 DEF ListExact, Listing
<1>5. EffectsListed
  BY <1>2, EmptySeq DEF EffectsListed
<1> QED BY <1>1, <1>3, <1>4, <1>5 DEF LInv

(* The steps of TypeInv are those of DumbdumbProofs: what follows is about *)
(* the rest of the invariant.                                              *)
Rest == AppendsAlone /\ ListExact /\ PendingApart /\ BuiltApart /\ EffectsListed

LEMMA ListSignalRead ==
  ASSUME LInv, OneByOne, NEW g \in Goroutines, NEW s \in Signals,
         NEW v \in Values, SignalRead(g, s, v)
  PROVE  Rest'
<1>1. /\ mu = None /\ NoPending /\ pc = "idle" /\ s \notin made
      /\ pendCell' = [pendCell EXCEPT ![g] = s]
      /\ pendLen' = [pendLen EXCEPT ![g] = len]
      /\ UNCHANGED <<slots, len, enrolled, mu, pc, op, upto, stack>>
  BY DEF SignalRead, OneByOne, LInv, TypeInv, TypeOK, ControlType, listVars,
     ctrlVars
<1>2. s \notin enrolled
  BY <1>1 DEF LInv, TypeInv, TypeOK, ListType
<1>3. \A h \in Goroutines : pendCell'[h] # None => h = g /\ pendCell'[h] = s
  BY <1>1 DEF LInv, TypeInv, TypeOK, PendType, NoPending
<1>4. pendLen'[g] = len
  BY <1>1 DEF LInv, TypeInv, TypeOK, PendType
<1>5. AppendsAlone' /\ PendingApart'
  BY <1>1, <1>2, <1>3, <1>4 DEF AppendsAlone, PendingApart
<1>6. ListExact'
  BY <1>1, SameList DEF listVars
<1>7. BuiltApart' /\ EffectsListed'
  BY <1>1 DEF LInv, BuiltApart, EffectsListed
<1> QED BY <1>5, <1>6, <1>7 DEF Rest

LEMMA ListSignalWrite ==
  ASSUME LInv, NEW g \in Goroutines, SignalWrite(g)
  PROVE  Rest'
<1> DEFINE s == pendCell[g]
<1>1. /\ s # None /\ AppendAt(len, s) /\ mu = None /\ s \notin enrolled
      /\ \A h \in Goroutines : pendCell[h] # None => h = g
  BY DEF SignalWrite, LInv, AppendsAlone, PendingApart
<1>2. s \in Cells /\ s \in made
  BY <1>1 DEF LInv, TypeInv, TypeOK, WellFormed, PendMade, PendType, Cells
<1>3. /\ pendCell' = [pendCell EXCEPT ![g] = None]
      /\ UNCHANGED <<made, mu, pc, op, upto, stack>>
  BY DEF SignalWrite, ctrlVars
<1>4. pc = "idle" /\ stack = <<>> /\ Listing(len)
  BY <1>1 DEF LInv, TypeInv, TypeOK, ControlType, ListExact
<1> HIDE DEF s
<1>5. Listing(len)' /\ enrolled' = enrolled \cup {s}
  BY <1>1, <1>2, <1>3, <1>4, Appended DEF LInv
<1>6. ListExact'
  BY <1>3, <1>4, <1>5 DEF ListExact
<1>7. \A h \in Goroutines : pendCell'[h] = None
  BY <1>1, <1>3 DEF LInv, TypeInv, TypeOK, PendType
<1>8. AppendsAlone' /\ PendingApart' /\ BuiltApart'
  BY <1>3, <1>4, <1>7 DEF AppendsAlone, PendingApart, BuiltApart
<1>9. EffectsListed'
  BY <1>3, <1>4, NothingRuns
<1> QED BY <1>6, <1>8, <1>9 DEF Rest

LEMMA ListValue ==
  ASSUME LInv, OneByOne, NEW g \in Goroutines, NEW c \in Nodes, Value(g, c)
  PROVE  Rest'
<1>1. /\ NoPending /\ pc = "idle" /\ stack = <<>> /\ pc' \in {"mark", "done"}
      /\ UNCHANGED <<listVars, pendVars, stack>>
  BY Start DEF Value
<1>2. ListExact' /\ EffectsListed' /\ BuiltApart'
  BY <1>1, SameList, NothingRuns DEF BuiltApart
<1> QED BY <1>1, <1>2, NobodyAppends DEF Rest

LEMMA ListSetValue ==
  ASSUME LInv, OneByOne, NEW g \in Goroutines, NEW s \in Signals,
         NEW v \in Values, SetValue(g, s, v)
  PROVE  Rest'
<1>1. /\ NoPending /\ pc = "idle" /\ stack = <<>> /\ pc' = "mark"
      /\ UNCHANGED <<listVars, pendVars, stack>>
  BY Start DEF SetValue
<1>2. ListExact' /\ EffectsListed' /\ BuiltApart'
  BY <1>1, SameList, NothingRuns DEF BuiltApart
<1> QED BY <1>1, <1>2, NobodyAppends DEF Rest

LEMMA ListComputed ==
  ASSUME LInv, OneByOne, NEW g \in Goroutines, NEW c \in Computeds,
         NEW ds \in Wirings, NEW f \in Getters, Computed(g, c, ds, f)
  PROVE  Rest'
<1>1. /\ NoPending /\ pc = "idle" /\ pc' = "build" /\ op'.cell = c
      /\ stack' = <<Frame(c)>> /\ c \notin made
      /\ UNCHANGED <<listVars, pendVars>>
  BY Start DEF Computed, Allocate
<1>2. ListExact'
  BY <1>1, SameList
<1>3. BuiltApart'
  BY <1>1 DEF BuiltApart, LInv, TypeInv, TypeOK, ListType, listVars
<1>4. c \notin Effects /\ Frame(c).cell = c
  BY KindsAssumption DEF KindsAssumption, Nodes, Frame
<1>5. Len(stack') = 1 /\ stack'[1].cell = c
  BY <1>1, <1>4
<1>6. EffectsListed'
  BY <1>1, <1>4, <1>5 DEF EffectsListed
<1> QED BY <1>1, <1>2, <1>3, <1>6, NobodyAppends DEF Rest

LEMMA ListEffect ==
  ASSUME LInv, OneByOne, NEW g \in Goroutines, NEW e \in Effects,
         NEW ds \in Wirings, Effect(g, e, ds)
  PROVE  Rest'
<1>1. /\ NoPending /\ pc = "idle" /\ stack = <<>> /\ Listing(len)
      /\ pc' = "mark" /\ stack' = stack /\ UNCHANGED pendVars
      /\ made' = made \cup {e} /\ e \notin made /\ AppendAt(len, e)
  BY Start DEF Effect, Allocate
<1>2. e \in Cells /\ e \notin enrolled
  BY <1>1 DEF Cells, Derived, LInv, TypeInv, TypeOK, ListType
<1>3. Listing(len)'
  BY <1>1, <1>2, Appended DEF LInv
<1>4. ListExact' /\ BuiltApart' /\ EffectsListed'
  BY <1>1, <1>3, NothingRuns DEF ListExact, BuiltApart
<1> QED BY <1>1, <1>4, NobodyAppends DEF Rest

LEMMA ListRemove ==
  ASSUME LInv, OneByOne, NEW g \in Goroutines, NEW cs \in [1 .. 1 -> Cells],
         Remove(g, cs)
  PROVE  Rest'
<1>1. /\ NoPending /\ stack = <<>> /\ Listing(len)
      /\ pc' = "remove" /\ op'.rest = cs /\ op'.dropped = 0
      /\ enrolled' = enrolled \ {cs[j] : j \in DOMAIN cs}
      /\ UNCHANGED <<slots, len, stack, pendVars>>
  BY Start DEF Remove
<1>2. cs \in Seq(Cells) /\ Len(cs) = 1 /\ Head(cs) = cs[1] /\ cs # <<>>
  OBVIOUS
<1>3. enrolled' = enrolled \ {cs[1]}
  BY <1>1, <1>2
<1>4. Leaving(cs[1])'
  <2>1. \A k \in 1 .. len : slots[k] = cs[1] \/ slots[k] \in enrolled'
    BY <1>1, <1>3 DEF Listing
  <2>2. \A d \in enrolled' : \E k \in 1 .. len : slots[k] = d
    BY <1>1, <1>3 DEF Listing
  <2>3. Distinct'
    BY <1>1 DEF Listing, Distinct
  <2> QED BY <1>1, <1>3, <2>1, <2>2, <2>3 DEF Leaving
<1>5. ListExact'
  <2>1. Leaving(Head(op.rest))'
    BY <1>1, <1>2, <1>4 DEF Leaving
  <2> QED BY <1>1, <1>2, <2>1 DEF ListExact
<1>6. BuiltApart' /\ EffectsListed'
  BY <1>1, NothingRuns DEF BuiltApart
<1> QED BY <1>1, <1>5, <1>6, NobodyAppends DEF Rest

LEMMA ListReset ==
  ASSUME LInv, OneByOne, NEW g \in Goroutines, Reset(g)
  PROVE  Rest'
<1>1. /\ NoPending /\ stack = <<>> /\ pc' = "done" /\ len' = 0
      /\ enrolled' = {} /\ UNCHANGED <<stack, pendVars>>
  BY Start DEF Reset
<1>2. Listing(len)'
  BY <1>1 DEF Listing
<1>3. ListExact' /\ BuiltApart' /\ EffectsListed'
  BY <1>1, <1>2, NothingRuns DEF ListExact, BuiltApart
<1> QED BY <1>1, <1>3, NobodyAppends DEF Rest

-----------------------------------------------------------------------------
(* remove(). *)

(* The one round of remove(): the last cell takes the place of the cell to *)
(* drop, which is listed once or not at all.                               *)
LEMMA ListRemoveOne ==
  ASSUME LInv, RemoveOne
  PROVE  Rest'
<1> DEFINE c == Head(op.rest)
           hits == {k \in 1 .. len : slots[k] = c}
<1>1. /\ pc = "remove" /\ op.rest # <<>>
      /\ slots' = [k \in DOMAIN slots |->
                     IF k \in hits THEN slots[len] ELSE slots[k]]
      /\ op' = [op EXCEPT !.rest = Tail(@), !.dropped = @ + Cardinality(hits)]
      /\ UNCHANGED <<len, enrolled, pc, stack, pendVars>>
  BY DEF RemoveOne
<1>2. NoPending /\ stack = <<>>
  BY <1>1, Busy DEF LInv, TypeInv, TypeOK, ControlType
<1>3. Leaving(c) /\ op.dropped = 0 /\ Len(op.rest) = 1
  BY <1>1 DEF LInv, ListExact
<1>4. op'.rest = <<>> /\ op'.dropped = Cardinality(hits)
  <2>1. op.rest \in Seq(Cells) /\ op.dropped \in Nat
    BY DEF LInv, TypeInv, TypeOK, OpType
  <2>2. Tail(op.rest) = <<>>
    <3>1. Len(Tail(op.rest)) = 0 /\ Tail(op.rest) \in Seq(Cells)
      BY <1>1, <1>3, <2>1, HeadTailProperties
    <3> QED BY <3>1, EmptySeq
  <2>3. op' = [name |-> op.name, cell |-> op.cell, rest |-> Tail(op.rest),
               dropped |-> op.dropped + Cardinality(hits)]
    BY <1>1 DEF LInv, TypeInv, TypeOK, OpType
  <2>4. IsFiniteSet(hits)
    <3>1. IsFiniteSet(1 .. len)
      BY FS_Interval DEF LInv, TypeInv, TypeOK, ListType
    <3> QED BY <3>1, FS_Subset
  <2>5. Cardinality(hits) \in Nat
    BY <2>4, FS_CardinalityType
  <2> QED BY <1>3, <2>2, <2>3, <2>5
<1>5. len \in Nat /\ \A k \in 1 .. len : k \in DOMAIN slots
  BY DEF LInv, TypeInv, TypeOK, ListType
<1>6. \A k \in 1 .. len : slots'[k] = IF k \in hits THEN slots[len] ELSE slots[k]
  BY <1>1, <1>5
<1>7. (op.dropped <= len /\ Listing(len - op.dropped))'
  <2>1. CASE hits = {}
    <3>1. op'.dropped = 0
      BY <1>4, <2>1, FS_EmptySet, Zenon
    <3>0. len - 0 = len /\ 0 <= len
      BY <1>5
    <3>2. \A k \in 1 .. len : slots'[k] = slots[k] /\ slots[k] # c
      BY <1>6, <2>1
    <3>3. \A k \in 1 .. len : slots'[k] \in enrolled
      BY <1>3, <3>2 DEF Leaving
    <3>4. \A d \in enrolled : \E k \in 1 .. len : slots'[k] = d
      BY <1>3, <3>2 DEF Leaving
    <3>5. \A j, k \in 1 .. len : slots'[j] = slots'[k] => j = k
      BY <1>3, <3>2 DEF Leaving, Distinct
    <3>6. len' - op.dropped' = len /\ op.dropped' <= len' /\ enrolled' = enrolled
      BY <1>1, <3>0, <3>1
    <3> HIDE DEF hits, c
    <3> QED BY <3>3, <3>4, <3>5, <3>6 DEF Listing
  <2>2. CASE hits # {}
    <3>1. PICK h \in 1 .. len : hits = {h} /\ slots[h] = c
      <4>1. PICK h \in 1 .. len : slots[h] = c
        BY <2>2
      <4>2. \A k \in hits : k = h
        BY <1>3, <4>1 DEF Leaving, Distinct
      <4> QED BY <4>1, <4>2
    <3>2. Cardinality(hits) = 1
      BY <3>1, FS_Singleton
    <3> DEFINE n == len - 1
    <3>3. /\ op'.dropped <= len /\ len - op'.dropped = n /\ n \in Nat
          /\ len \in 1 .. len /\ \A k \in 1 .. n : k \in 1 .. len /\ k # len
          /\ \A k \in 1 .. len : k = len \/ k \in 1 .. n
      BY <1>4, <1>5, <3>1, <3>2
    <3> HIDE DEF n, hits, c
    <3>4. \A k \in 1 .. n : slots'[k] = IF k = h THEN slots[len] ELSE slots[k]
      BY <1>6, <3>1, <3>3
    <3>5. \A k \in 1 .. len : k # h => slots[k] \in enrolled
      BY <1>3, <3>1 DEF Leaving, Distinct
    <3>6. \A k \in 1 .. n : slots'[k] \in enrolled
      BY <3>3, <3>4, <3>5
    <3>7. ASSUME NEW d \in enrolled PROVE \E k \in 1 .. n : slots'[k] = d
      <4>1. PICK k \in 1 .. len : slots[k] = d
        BY <1>3 DEF Leaving
      <4>2. k # h
        BY <1>3, <3>1, <4>1 DEF Leaving
      <4>3. CASE k = len
        BY <3>1, <3>3, <3>4, <4>1, <4>2, <4>3
      <4>4. CASE k \in 1 .. n
        BY <3>4, <4>1, <4>2, <4>4
      <4> QED BY <3>3, <4>3, <4>4
    <3>8. ASSUME NEW j \in 1 .. n, NEW k \in 1 .. n, slots'[j] = slots'[k]
          PROVE  j = k
      <4>1. \A i \in 1 .. n : slots[i] # slots[len]
        BY <1>3, <3>3 DEF Leaving, Distinct
      <4>2. CASE j = h /\ k # h
        BY <3>4, <3>8, <4>1, <4>2
      <4>3. CASE j # h /\ k = h
        BY <3>4, <3>8, <4>1, <4>3
      <4>4. CASE j # h /\ k # h
        <5>1. slots[j] = slots[k]
          BY <3>4, <3>8, <4>4
        <5> QED BY <1>3, <3>3, <5>1 DEF Leaving, Distinct
      <4> QED BY <4>2, <4>3, <4>4
    <3>9. len' - op.dropped' = n /\ op.dropped' <= len' /\ enrolled' = enrolled
      BY <1>1, <3>3
    <3> QED BY <3>6, <3>7, <3>8, <3>9 DEF Listing
  <2> QED BY <2>1, <2>2
<1> HIDE DEF hits, c
<1>8. ListExact'
  <2>1. (op.rest = <<>> /\ pc = "remove")'
    BY <1>1, <1>4
  <2> QED BY <1>7, <2>1 DEF ListExact
<1>9. BuiltApart' /\ EffectsListed'
  BY <1>1, <1>2, NothingRuns DEF BuiltApart
<1> QED BY <1>1, <1>2, <1>8, <1>9, NobodyAppends DEF Rest

LEMMA ListRemoveCut ==
  ASSUME LInv, RemoveCut
  PROVE  Rest'
<1>1. /\ pc = "remove" /\ op.rest = <<>> /\ len' = len - op.dropped
      /\ pc' = "done" /\ UNCHANGED <<slots, enrolled, stack, pendVars>>
  BY DEF RemoveCut
<1>2. NoPending /\ stack = <<>>
  BY <1>1, Busy DEF LInv, TypeInv, TypeOK, ControlType
<1>3. Listing(len)'
  BY <1>1 DEF LInv, ListExact, Listing
<1>4. ListExact' /\ BuiltApart' /\ EffectsListed'
  BY <1>1, <1>2, <1>3, NothingRuns DEF ListExact, BuiltApart
<1> QED BY <1>1, <1>2, <1>4, NobodyAppends DEF Rest

(* remove() never drops more cells than there are. *)
LEMMA NoOverrun ==
  ASSUME LInv PROVE ~RemoveOverrun
<1> SUFFICES ASSUME RemoveOverrun PROVE FALSE
  OBVIOUS
<1>1. pc = "remove" /\ op.rest = <<>> /\ op.dropped > len /\ op.dropped \in Nat
      /\ len \in Nat
  BY DEF RemoveOverrun, LInv, TypeInv, TypeOK, OpType, ListType
<1> QED BY <1>1 DEF LInv, ListExact

-----------------------------------------------------------------------------
(* evalAll() and eval(). *)

(* A step of the machine that leaves the list alone. *)
LEMMA Elsewhere ==
  ASSUME LInv, pc \notin {"idle", "remove"}, pc' # "remove",
         pc' = "build" => pc = "build" /\ op' = op,
         UNCHANGED <<listVars, pendVars>>
  PROVE  AppendsAlone' /\ ListExact' /\ PendingApart' /\ BuiltApart'
<1>1. NoPending
  BY Busy
<1>2. BuiltApart'
  BY DEF LInv, BuiltApart, listVars
<1> QED BY <1>1, <1>2, SameList, NobodyAppends

LEMMA ListMark ==
  ASSUME LInv, Mark
  PROVE  Rest'
<1>1. /\ pc = "mark" /\ pc' = "sweep" /\ upto' = len /\ len' = len
      /\ UNCHANGED <<listVars, pendVars, stack>> /\ stack = <<>>
  BY DEF Mark, listVars, LInv, TypeInv, TypeOK, ControlType
<1>2. EffectsListed'
  BY <1>1, EmptySeq DEF EffectsListed
<1> QED BY <1>1, <1>2, Elsewhere DEF Rest

LEMMA ListSweep ==
  ASSUME LInv, SweepSkip \/ SweepEnd
  PROVE  Rest'
<1>1. /\ pc = "sweep" /\ stack = <<>> /\ pc' \in {"sweep", "done"}
      /\ UNCHANGED <<listVars, pendVars, stack, upto>>
  BY DEF SweepSkip, SweepEnd, InLoop
<1>2. EffectsListed'
  BY <1>1, EmptySeq DEF EffectsListed, LInv, listVars
<1> QED BY <1>1, <1>2, Elsewhere DEF Rest

(* eval() is called on c, which is no effect unless the sweep found it. *)
LEMMA ListEnter ==
  ASSUME LInv, NEW c \in Derived, c \in Effects => c \in enrolled, Enter(c),
         pc \in {"sweep", "build"},
         UNCHANGED <<listVars, pendVars, pc, op, upto>>
  PROVE  Rest'
<1>1. Frame(c) \in FrameSet /\ Frame(c).cell = c
  BY DEF Frame, FrameSet
<1>2. stack \in Seq(FrameSet) /\ stack' = Append(stack, Frame(c))
  BY DEF Enter, LInv, TypeInv, TypeOK, ControlType
<1>3. /\ Len(stack') = Len(stack) + 1
      /\ \A k \in 1 .. Len(stack) : stack'[k] = stack[k]
      /\ stack'[Len(stack) + 1] = Frame(c) /\ Len(stack) \in Nat
  BY <1>1, <1>2, Push, LenProperties
<1>4. \A k \in 1 .. Len(stack') : k \in 1 .. Len(stack) \/ k = Len(stack) + 1
  BY <1>3
<1>5. EffectsListed'
  BY <1>1, <1>3, <1>4 DEF EffectsListed, LInv, listVars
<1> QED BY <1>5, Elsewhere DEF Rest

LEMMA ListSweepEval ==
  ASSUME LInv, SweepEval
  PROVE  Rest'
<1> DEFINE c == slots[next]
<1>1. /\ pc = "sweep" /\ next <= upto /\ ~Ready(c) /\ Enter(c)
      /\ UNCHANGED <<listVars, pendVars, pc, op, upto>>
  BY DEF SweepEval, InLoop
<1>2. next \in 1 .. len
  BY <1>1 DEF LInv, EffectsListed, TypeInv, TypeOK, ListType, ControlType,
     WellFormed, Placed
<1>3. c \in enrolled /\ c \in Cells
  BY <1>1, <1>2 DEF LInv, ListExact, Listing, TypeInv, TypeOK, ListType,
     GraphType
<1>4. c \in Derived
  BY <1>1, <1>3 DEF Ready, Cells
<1> HIDE DEF c
<1> QED BY <1>1, <1>3, <1>4, ListEnter

LEMMA ListEvalDep ==
  ASSUME LInv, EvalDep
  PROVE  Rest'
<1>1. /\ InEval /\ ~ArgsDone /\ ~Ready(Callee) /\ Enter(Callee)
      /\ UNCHANGED <<listVars, pendVars, pc, op, upto>>
  BY DEF EvalDep
<1>2. Callee \in Nodes
  BY <1>1, TopFacts DEF LInv
<1>3. Callee \in Derived /\ Callee \notin Effects
  BY <1>1, <1>2, KindsAssumption DEF KindsAssumption, Ready, Nodes, Derived
<1>4. pc \in {"sweep", "build"}
  BY <1>1 DEF InEval, LInv, TypeInv, TypeOK, ControlType
<1> QED BY <1>1, <1>3, <1>4, ListEnter

(* The frame on top moves on to its next argument. *)
LEMMA ListEvalArg ==
  ASSUME LInv, EvalArg
  PROVE  Rest'
<1> DEFINE n == Len(stack)
<1>1. PICK f : /\ stack' = [stack EXCEPT ![n] = f] /\ f.cell = Top.cell
               /\ stack # <<>>
               /\ UNCHANGED <<listVars, pendVars, pc, op, upto>>
  BY DEF EvalArg, InEval
<1>2. stack \in Seq(FrameSet) /\ n \in Nat \ {0} /\ Top = stack[n]
  BY <1>1, EmptySeq DEF LInv, TypeInv, TypeOK, ControlType, Top
<1>3. Len(stack') = n /\ \A k \in 1 .. n : stack'[k].cell = stack[k].cell
  BY <1>1, <1>2
<1>4. EffectsListed'
  <2>1. \A k \in 1 .. n : stack[k].cell \in Effects => stack[k].cell \in enrolled
    BY DEF LInv, EffectsListed
  <2>2. \A k \in 1 .. Len(stack') :
          stack'[k].cell \in Effects => stack'[k].cell \in enrolled'
    <3>1. enrolled' = enrolled
      BY <1>1 DEF listVars
    <3> HIDE DEF n
    <3> QED BY <1>3, <2>1, <3>1
  <2>3. pc' = "sweep" => upto' = len'
    BY <1>1 DEF LInv, EffectsListed, listVars
  <2> QED BY <2>2, <2>3 DEF EffectsListed
<1>5. pc \in {"sweep", "build"}
  BY <1>1 DEF LInv, TypeInv, TypeOK, ControlType
<1> QED BY <1>1, <1>4, <1>5, Elsewhere DEF Rest

LEMMA ListEvalReturn ==
  ASSUME LInv, EvalKeep \/ EvalGet \/ EvalRun
  PROVE  Rest'
<1>1. /\ stack # <<>> /\ stack' = Pop
      /\ UNCHANGED <<listVars, pendVars, pc, op, upto>>
  BY DEF EvalKeep, EvalGet, EvalRun, Calling, InEval
<1>2. stack \in Seq(FrameSet) /\ Len(stack) \in Nat
  BY DEF LInv, TypeInv, TypeOK, ControlType
<1>3. /\ Len(stack') = Len(stack) - 1
      /\ \A k \in 1 .. (Len(stack) - 1) : stack'[k] = stack[k]
  BY <1>1, <1>2, Shrink DEF Pop
<1>4. \A k \in 1 .. Len(stack') : k \in 1 .. Len(stack) /\ stack'[k] = stack[k]
  BY <1>2, <1>3
<1>5. EffectsListed'
  BY <1>1, <1>4 DEF EffectsListed, LInv, listVars
<1>6. pc \in {"sweep", "build"}
  BY <1>1 DEF LInv, TypeInv, TypeOK, ControlType
<1> QED BY <1>1, <1>5, <1>6, Elsewhere DEF Rest

LEMMA ListBuildEnd ==
  ASSUME LInv, BuildEnd
  PROVE  Rest'
<1> DEFINE c == Top.cell
<1>1. /\ InEval /\ pc = "build" /\ Len(stack) = 1 /\ AppendAt(len, c)
      /\ pc' = "done" /\ stack' = <<>> /\ UNCHANGED <<pendVars, made>>
  BY DEF BuildEnd, Calling, Building, graphVars
<1>2. c = op.cell /\ c \in made
  BY <1>1, TopFacts DEF LInv, TypeInv, WellFormed, Placed, Top
<1>3. c \in Cells /\ c \notin enrolled /\ Listing(len)
  BY <1>1, <1>2 DEF LInv, BuiltApart, ListExact, TypeInv, TypeOK, GraphType
<1> HIDE DEF c
<1>4. Listing(len)'
  BY <1>1, <1>2, <1>3, Appended DEF LInv
<1>5. ListExact' /\ BuiltApart' /\ EffectsListed'
  BY <1>1, <1>4, NothingRuns DEF ListExact, BuiltApart
<1>6. NoPending
  BY <1>1, Busy
<1> QED BY <1>1, <1>5, <1>6, NobodyAppends DEF Rest

(* A panic unwinds to the deferred Unlock; an operation returns. *)
LEMMA ListUnlock ==
  ASSUME LInv, Unlock, pc \notin {"idle", "remove"},
         UNCHANGED <<listVars, pendVars>>
  PROVE  Rest'
<1>1. pc' = "idle" /\ stack' = <<>>
  BY DEF Unlock
<1> QED BY <1>1, Elsewhere, NothingRuns DEF Rest

LEMMA ListStep ==
  ASSUME LInv, Step
  PROVE  Rest'
<1>1. CASE CallbackPanic \/ CircularPanic
  <2>1. Unlock /\ UNCHANGED <<listVars, pendVars>>
    BY <1>1 DEF CallbackPanic, CircularPanic
  <2>2. pc \in {"sweep", "build"}
    BY <1>1 DEF CallbackPanic, CircularPanic, CircularCall, Calling, InEval,
       InLoop, LInv, TypeInv, TypeOK, ControlType
  <2> QED BY <2>1, <2>2, ListUnlock
<1>2. CASE Return
  BY <1>2, ListUnlock DEF Return
<1> QED BY <1>1, <1>2, NoOverrun, ListRemoveOne, ListRemoveCut, ListMark,
           ListSweep, ListSweepEval, ListEvalArg, ListEvalDep, ListEvalReturn,
           ListBuildEnd DEF Step

LEMMA ListNext == OneByOne /\ LInv /\ [Next]_vars => LInv'
<1> SUFFICES ASSUME OneByOne, LInv, [Next]_vars PROVE Rest'
  BY TypeNext DEF LInv, Rest
<1>1. CASE UNCHANGED vars
  <2>1. UNCHANGED <<slots, len, enrolled, mu, pc, op, upto, stack, pendCell,
                    pendLen>>
    BY <1>1 DEF vars, listVars, ctrlVars, pendVars
  <2>2. Listing(len)' = Listing(len) /\ Listing(len - op.dropped)' = Listing(len - op.dropped)
        /\ Leaving(Head(op.rest))' = Leaving(Head(op.rest))
    BY <2>1 DEF Listing, Leaving, Distinct
  <2>3. ListExact'
    BY <2>1, <2>2 DEF LInv, ListExact
  <2> QED BY <2>1, <2>3 DEF LInv, Rest, AppendsAlone, PendingApart, BuiltApart,
             EffectsListed
<1>2. CASE Step
  BY <1>2, ListStep
<1>3. ASSUME NEW g \in Goroutines, Call(g) PROVE Rest'
  <2>1. ASSUME NEW s \in Signals, NEW v \in Values,
               SignalRead(g, s, v) \/ SetValue(g, s, v)
        PROVE  Rest'
    BY <2>1, ListSignalRead, ListSetValue
  <2>2. ASSUME NEW c \in Nodes, Value(g, c) PROVE Rest'
    BY <2>2, ListValue
  <2>3. ASSUME NEW c \in Computeds, NEW ds \in Wirings, NEW f \in Getters,
               Computed(g, c, ds, f)
        PROVE  Rest'
    BY <2>3, ListComputed
  <2>4. ASSUME NEW e \in Effects, NEW ds \in Wirings, Effect(g, e, ds)
        PROVE  Rest'
    BY <2>4, ListEffect
  <2>5. ASSUME NEW cs \in UNION {[1 .. k -> Cells] : k \in 1 .. MaxRemove},
               Remove(g, cs)
        PROVE  Rest'
    <3>1. cs \in [1 .. 1 -> Cells]
      BY DEF OneByOne
    <3> QED BY <2>5, <3>1, ListRemove
  <2>6. CASE Reset(g)
    BY <2>6, ListReset
  <2> QED BY <1>3, <2>1, <2>2, <2>3, <2>4, <2>5, <2>6 DEF Call
<1>4. ASSUME NEW g \in Goroutines, SignalWrite(g) PROVE Rest'
  BY <1>4, ListSignalWrite
<1> QED BY <1>1, <1>2, <1>3, <1>4 DEF Next

-----------------------------------------------------------------------------
(* The theorems. *)

LEMMA ListInvariant == ASSUME OneByOne PROVE Spec => []LInv
<1>1. Init => LInv
  BY ListInit
<1>2. LInv /\ [Next]_vars => LInv'
  BY ListNext
<1> QED BY <1>1, <1>2, PTL DEF Spec

(* An exact listing has as many places as there are cells. *)
LEMMA Counted ==
  ASSUME LInv, Listing(len)
  PROVE  Registered = enrolled /\ len = Cardinality(enrolled)
<1>1. len \in Nat
  BY DEF LInv, TypeInv, TypeOK, ListType
<1> DEFINE f == [k \in 1 .. len |-> slots[k]]
<1>2. f \in [1 .. len -> enrolled]
  BY DEF Listing
<1>3. \A j, k \in 1 .. len : f[j] = f[k] => j = k
  BY DEF Listing
<1>4. \A c \in enrolled : \E k \in 1 .. len : f[k] = c
  BY DEF Listing
<1>5. f \in Bijection(1 .. len, enrolled)
  <2> HIDE DEF f
  <2> QED BY <1>2, <1>3, <1>4 DEF Bijection, Injection, Surjection, IsInjective
<1>6. ExistsBijection(1 .. len, enrolled)
  BY <1>5 DEF ExistsBijection
<1>7. Registered = enrolled
  BY DEF Registered, Listing
<1> QED BY <1>1, <1>6, <1>7, FS_CountingElements

(* Between operations rs.cells holds each registered cell once and nothing *)
(* else, whatever was constructed, removed, reset or interrupted by a      *)
(* panic, as long as Remove() is given one cell at a time.                 *)
THEOREM RegistryExactAlways ==
  ASSUME OneByOne PROVE Spec => []RegistryExact
<1>1. LInv => RegistryExact
  <2> SUFFICES ASSUME LInv, mu = None
               PROVE  Registered = enrolled /\ len = Cardinality(enrolled)
    BY DEF RegistryExact
  <2>1. Listing(len)
    BY DEF LInv, ListExact, TypeInv, TypeOK, ControlType
  <2> QED BY <2>1, Counted
<1> QED BY <1>1, ListInvariant, PTL

(* A stopped effect never runs again: eval() calls effects of the list     *)
(* only, and the list holds no cell that was removed.                      *)
THEOREM StoppedStaysStoppedAlways ==
  ASSUME OneByOne PROVE Spec => StoppedStaysStopped
<1>1. LInv /\ [Next]_vars => [EvalRun => Top.cell \in enrolled]_vars
  <2> SUFFICES ASSUME LInv, EvalRun PROVE Top.cell \in enrolled
    OBVIOUS
  <2>1. InEval /\ Top.cell \in Effects
    BY DEF EvalRun, Calling
  <2>2. Len(stack) \in Nat \ {0} /\ Top = stack[Len(stack)]
    BY <2>1, TopFacts DEF LInv
  <2>3. Len(stack) \in 1 .. Len(stack)
    BY <2>2
  <2> QED BY <2>1, <2>2, <2>3 DEF LInv, EffectsListed
<1> QED BY <1>1, ListInvariant, PTL DEF Spec, StoppedStaysStopped

-----------------------------------------------------------------------------
(* The refinement of the abstract reactive graph. *)


(* Calls of Signal() do not overlap others, callbacks do not panic, and    *)
(* Remove() gets one cell at a time.                                       *)
Orderly == Disciplined /\ OneByOne

-----------------------------------------------------------------------------
(* The invariant.  Beyond those of the other proofs: outside of evalAll()  *)
(* every registered effect has been called for the present values, and a   *)
(* read is of a cell that the program holds.                               *)

EffectsClean ==
  pc \notin {"mark", "sweep"} =>
    \A e \in Registered \cap Effects : state[e] = "clean"

Asked == op.name = "Value" => op.cell \in held \cap Nodes

GInv == WInv /\ LInv /\ EffectsClean /\ Asked

-----------------------------------------------------------------------------
(* What is live. *)

LEMMA LiveFacts ==
  /\ Live \subseteq Signals \cup enrolled /\ Signals \subseteq Live
  /\ Closed(Live)
  /\ \A cs \in SUBSET (Signals \cup enrolled) : Closed(cs) => cs \subseteq Live
<1>1. /\ Live \subseteq Signals \cup enrolled /\ Closed(Live)
      /\ \A cs \in SUBSET (Signals \cup enrolled) : Closed(cs) => cs \subseteq Live
  BY LargestPart DEF Live, Within, Closed
<1>2. Closed(Signals) /\ Signals \in SUBSET (Signals \cup enrolled)
  BY DEF Closed
<1> QED BY <1>1, <1>2

LEMMA LiveNext ==
  /\ Live' \subseteq Signals \cup enrolled' /\ Signals \subseteq Live'
  /\ Closed(Live)'
  /\ \A cs \in SUBSET (Signals \cup enrolled') : Closed(cs)' => cs \subseteq Live'
<1>1. /\ Live' \subseteq Signals \cup enrolled' /\ Closed(Live)'
      /\ \A cs \in SUBSET (Signals \cup enrolled') : Closed(cs)' => cs \subseteq Live'
  BY LargestPart DEF Live, Within, Closed
<1>2. Closed(Signals)' /\ Signals \in SUBSET (Signals \cup enrolled')
  BY DEF Closed
<1> QED BY <1>1, <1>2

(* Liveness of cells depends on the wirings of the registered ones only.   *)
LEMMA LiveSame ==
  ASSUME Signals \cup enrolled' = Signals \cup enrolled,
         \A c \in enrolled \ Signals : deps'[c] = deps[c]
  PROVE  Live' = Live
<1>1. \A cs \in SUBSET (Signals \cup enrolled) : Closed(cs)' <=> Closed(cs)
  BY DEF Closed
<1>2. Live' \in SUBSET (Signals \cup enrolled) /\ Live' \subseteq Live
  BY <1>1, LiveFacts, LiveNext
<1>3. Live \in SUBSET (Signals \cup enrolled') /\ Live \subseteq Live'
  BY <1>1, LiveFacts, LiveNext
<1> QED BY <1>2, <1>3

(* Removing cells detaches what depends on them, and attaches nothing.     *)
LEMMA LiveDrops ==
  ASSUME enrolled' \subseteq enrolled, deps' = deps
  PROVE  Live' \subseteq Live
<1>1. Closed(Live)' => Closed(Live')
  BY DEF Closed
<1>2. Live' \in SUBSET (Signals \cup enrolled)
  BY LiveNext
<1> QED BY <1>1, <1>2, LiveFacts, LiveNext

(* A cell that joins is live if all that it depends on is. *)
LEMMA LiveJoins ==
  ASSUME NEW c, c \notin Signals \cup enrolled, enrolled' = enrolled \cup {c},
         \A d \in enrolled \ Signals :
           deps'[d] = deps[d] /\ \A j \in DOMAIN deps[d] : deps[d][j] # c,
         \A j \in DOMAIN deps'[c] : deps'[c][j] # c
  PROVE  Live' = IF \A j \in DOMAIN deps'[c] : deps'[c][j] \in Live
                 THEN Live \cup {c} ELSE Live
<1>1. /\ Live \subseteq Signals \cup enrolled
      /\ \A d \in Live \ Signals : \A j \in DOMAIN deps[d] : deps[d][j] \in Live
  BY LiveFacts DEF Closed
<1>2. \A d \in Live \ Signals : \A j \in DOMAIN deps'[d] : deps'[d][j] \in Live
  BY <1>1
<1>3. Live \subseteq Live'
  <2>0. PICK cs : cs = Live
    OBVIOUS
  <2>1. Closed(cs)' /\ cs \in SUBSET (Signals \cup enrolled')
    BY <2>0, <1>1, <1>2 DEF Closed
  <2> QED BY <2>0, <2>1, LiveNext
<1>4. /\ Live' \subseteq Signals \cup enrolled \cup {c}
      /\ \A d \in Live' \ Signals : \A j \in DOMAIN deps'[d] : deps'[d][j] \in Live'
  BY LiveNext DEF Closed
<1>5. Live' \ {c} \subseteq Live
  <2>0. PICK cs : cs = Live' \ {c}
    OBVIOUS
  <2>1. cs \in SUBSET (Signals \cup enrolled)
    BY <2>0, <1>4
  <2>2. Closed(cs)
    BY <2>0, <1>4, <2>1 DEF Closed
  <2> QED BY <2>0, <2>1, <2>2, LiveFacts
<1>6. CASE \A j \in DOMAIN deps'[c] : deps'[c][j] \in Live
  <2>0. PICK cs : cs = Live \cup {c}
    OBVIOUS
  <2>1. Closed(cs)' /\ cs \in SUBSET (Signals \cup enrolled')
    BY <2>0, <1>1, <1>2, <1>6 DEF Closed
  <2>2. c \in Live'
    BY <2>0, <2>1, LiveNext
  <2> QED BY <1>3, <1>5, <1>6, <2>2
<1>7. CASE ~(\A j \in DOMAIN deps'[c] : deps'[c][j] \in Live)
  <2>1. c \notin Live'
    BY <1>4, <1>5, <1>7
  <2>2. c \notin Live
    BY <1>1
  <2> QED BY <1>3, <1>5, <1>7, <2>1
<1> QED BY <1>6, <1>7

-----------------------------------------------------------------------------
(* The values of the graph. *)

Kept == (made \cap Signals) \cup (Live \cap Computeds)

(* What GInv says of the cells of the graph. *)
LEMMA KeptFacts ==
  ASSUME GInv
  PROVE  /\ Graph!Known = Kept /\ Kept \subseteq Nodes \cap made
         /\ enrolled \subseteq Registered
         /\ Live \subseteq Signals \cup (Registered \cap made)
         /\ \A c \in Live \ Signals : \A j \in DOMAIN deps[c] : deps[c][j] \in Kept
         /\ \A c \in Live \ Signals : c \in Registered \cap made \cap Derived
<1>1. enrolled \subseteq Registered
  <2>1. \A c \in enrolled : \E k \in 1 .. len : slots[k] = c
    <3>1. len \in Nat /\ op.dropped \in Nat
      BY DEF GInv, WInv, SInv, TypeOK, ListType, OpType
    <3>2. CASE pc # "remove"
      BY <3>2 DEF GInv, LInv, ListExact, Listing
    <3>3. CASE pc = "remove" /\ op.rest = <<>>
      <4>1. op.dropped <= len /\ \A c \in enrolled :
              \E k \in 1 .. (len - op.dropped) : slots[k] = c
        BY <3>3 DEF GInv, LInv, ListExact, Listing
      <4>2. \A k \in 1 .. (len - op.dropped) : k \in 1 .. len
        BY <3>1, <4>1
      <4> QED BY <4>1, <4>2
    <3>4. CASE pc = "remove" /\ op.rest # <<>>
      BY <3>4 DEF GInv, LInv, ListExact, Leaving
    <3> QED BY <3>2, <3>3, <3>4
  <2> QED BY <2>1 DEF Registered
<1>2. Registered \subseteq made /\ made \subseteq Cells
  BY RegisteredMade DEF GInv, WInv, SInv, TypeOK, GraphType
<1>3. /\ Live \subseteq Signals \cup enrolled
      /\ \A c \in Live \ Signals : \A j \in DOMAIN deps[c] : deps[c][j] \in Live
  BY LiveFacts DEF Closed
<1>4. \A c \in Live \ Signals : c \in Registered \cap made \cap Derived
  BY <1>1, <1>2, <1>3 DEF Cells, Nodes, Derived
<1>5. \A c \in Live \ Signals : \A j \in DOMAIN deps[c] : deps[c][j] \in Kept
  <2> TAKE c \in Live \ Signals
  <2>1. DOMAIN deps[c] = 1 .. Len(deps[c])
    BY <1>4 DEF GInv, WInv, SInv, TypeOK, GraphType
  <2>2. \A j \in DOMAIN deps[c] : deps[c][j] \in made \cap Nodes
    BY <1>4, <2>1, RegisteredMade DEF GInv, WInv
  <2> QED BY <1>3, <2>2 DEF Kept, Nodes
<1>6. Graph!Known = Kept
  <2>1. UpToDate \cap Computeds = Live \cap Computeds
    BY KindsAssumption DEF KindsAssumption, UpToDate
  <2> QED BY <2>1 DEF Graph!Known, Inputs, Formulas, Kept
<1>7. Kept \subseteq Nodes \cap made
  BY <1>3, <1>1, <1>2, KindsAssumption DEF KindsAssumption, Kept, Nodes
<1> QED BY <1>1, <1>2, <1>3, <1>4, <1>5, <1>6, <1>7

(* The equations of the graph have a solution, and Value is one.           *)
LEMMA GraphValue ==
  ASSUME GInv
  PROVE  \A c \in Kept :
           Graph!Value[c] =
             IF c \in Signals THEN val[c]
             ELSE Apply(fn[c], [j \in DOMAIN deps[c] |-> Graph!Value[deps[c][j]]])
<1>1. /\ Graph!Known = Kept /\ Kept \subseteq Nodes \cap made
      /\ \A c \in Live \ Signals : \A j \in DOMAIN deps[c] : deps[c][j] \in Kept
      /\ \A c \in Live \ Signals : c \in Registered \cap made \cap Derived
  BY KeptFacts
<1>2. PICK rank \in [Cells -> Nat], n \in Nat : RankedGraph(rank, n)
  BY DEF GInv, WInv, SInv, Ordered
<1> DEFINE ds == [c \in Kept |-> IF c \in Signals THEN <<>> ELSE deps[c]]
           G == [c \in Kept |-> [a \in [DOMAIN ds[c] -> Values] |->
                  IF c \in Signals THEN val[c] ELSE Apply(fn[c], a)]]
<1>3. \A c \in Kept : rank[c] \in Nat /\ rank[c] < n
  BY <1>1, <1>2 DEF RankedGraph, Nodes, Cells, Derived
<1>4. ASSUME NEW c \in Kept \ Signals
      PROVE  /\ c \in Live \ Signals /\ c \in made \cap Computeds /\ c \in Derived
             /\ ds[c] = deps[c] /\ DOMAIN deps[c] = 1 .. Len(deps[c])
  <2>1. c \in Live \ Signals /\ c \in made \cap Computeds /\ c \in Derived
    BY <1>1 DEF Kept, Derived
  <2> QED BY <2>1 DEF GInv, WInv, SInv, TypeOK, GraphType
<1>5. \A c \in Kept : \A j \in DOMAIN ds[c] :
        ds[c][j] \in Kept /\ rank[ds[c][j]] < rank[c]
  <2> TAKE c \in Kept
  <2>1. CASE c \in Signals
    BY <2>1
  <2>2. CASE c \notin Signals
    BY <2>2, <1>1, <1>2, <1>4 DEF RankedGraph
  <2> QED BY <2>1, <2>2
<1>6. \A c \in Kept : \A a \in [DOMAIN ds[c] -> Values] : G[c][a] \in Values
  <2> TAKE c \in Kept
  <2> TAKE a \in [DOMAIN ds[c] -> Values]
  <2>1. CASE c \in Signals
    BY <1>1, <2>1 DEF GInv, WInv, SInv, TypeOK, DataType
  <2>2. CASE c \notin Signals
    <3>1. deps[c] \in Wirings /\ fn[c] \in Getters
      BY <1>4, <2>2 DEF GInv, WInv, SInv, Consistent, WellFormed, Wired
    <3> QED BY <1>4, <2>2, <3>1, DataAssumption DEF DataAssumption
  <2> QED BY <2>1, <2>2
<1>7. Zero \in Values
  BY DataAssumption DEF DataAssumption
<1>8. PICK f \in [Kept -> Values] : Solves(Kept, ds, Values, G, f)
  <2>1. Ranked(Kept, ds, rank) /\ Giving(Kept, ds, Values, G)
    BY <1>3, <1>5, <1>6 DEF Ranked, Giving
  <2> HIDE DEF ds, G
  <2> QED BY <1>3, <1>7, <2>1, Solution
<1>9. \A c \in Kept :
        f[c] = IF c \in Signals THEN val[c]
               ELSE Apply(fn[c], [j \in DOMAIN deps[c] |-> f[deps[c][j]]])
  <2> TAKE c \in Kept
  <2>1. [j \in DOMAIN ds[c] |-> f[ds[c][j]]] \in [DOMAIN ds[c] -> Values]
    BY <1>5
  <2>2. f[c] = IF c \in Signals THEN val[c]
               ELSE Apply(fn[c], [j \in DOMAIN ds[c] |-> f[ds[c][j]]])
    BY <1>8, <2>1 DEF Solves
  <2> QED BY <1>4, <2>2
<1>10. \A c \in Kept \ Signals :
         Formulas[c].args = deps[c] /\ Formulas[c].getter = fn[c]
  <2> TAKE c \in Kept \ Signals
  <2>1. c \in UpToDate \cap Computeds
    BY <1>4 DEF UpToDate
  <2>2. Formulas[c] = [args |-> deps[c], getter |-> fn[c]]
    BY <2>1 DEF Formulas
  <2> QED BY <2>2
<1>11. \A c \in Kept : c \in Signals => Inputs[c] = val[c]
  BY <1>1 DEF Inputs
<1> DEFINE Fits(g) ==
      g = [c \in Graph!Known |->
             IF c \in Signals THEN Inputs[c]
             ELSE Apply(Formulas[c].getter,
                        [j \in DOMAIN Formulas[c].args |-> g[Formulas[c].args[j]]])]
<1>12. Fits(f)
  <2>1. \A c \in Kept :
          f[c] = IF c \in Signals THEN Inputs[c]
                 ELSE Apply(Formulas[c].getter,
                        [j \in DOMAIN Formulas[c].args |-> f[Formulas[c].args[j]]])
    <3> TAKE c \in Kept
    <3>1. CASE c \in Signals
      BY <1>9, <1>11, <3>1
    <3>2. CASE c \notin Signals
      <4>1. Formulas[c].args = deps[c] /\ Formulas[c].getter = fn[c]
        BY <1>10, <3>2
      <4>2. f[c] = Apply(fn[c], [j \in DOMAIN deps[c] |-> f[deps[c][j]]])
        BY <1>9, <3>2
      <4>3. f[c] = Apply(Formulas[c].getter,
                         [j \in DOMAIN Formulas[c].args |-> f[Formulas[c].args[j]]])
        BY <4>1, <4>2, Zenon
      <4> QED BY <3>2, <4>3
    <3> QED BY <3>1, <3>2
  <2> QED BY <2>1, <1>1
<1>13. Graph!Value = CHOOSE g : Fits(g)
  BY DEF Graph!Value
<1>14. Fits(Graph!Value)
  <2> HIDE DEF Fits
  <2> QED BY <1>12, <1>13
<1>15. \A c \in Kept :
         Graph!Value[c] =
           IF c \in Signals THEN Inputs[c]
           ELSE Apply(Formulas[c].getter,
                      [j \in DOMAIN Formulas[c].args |->
                         Graph!Value[Formulas[c].args[j]]])
  BY <1>1, <1>14
<1> TAKE c \in Kept
<1>16. CASE c \in Signals
  BY <1>11, <1>15, <1>16
<1>17. CASE c \notin Signals
  <2>1. Formulas[c].args = deps[c] /\ Formulas[c].getter = fn[c]
    BY <1>10, <1>17
  <2>2. Graph!Value[c] =
          Apply(Formulas[c].getter,
            [j \in DOMAIN Formulas[c].args |-> Graph!Value[Formulas[c].args[j]]])
    BY <1>15, <1>17
  <2>3. Graph!Value[c] =
          Apply(fn[c], [j \in DOMAIN deps[c] |-> Graph!Value[deps[c][j]]])
    BY <2>1, <2>2, Zenon
  <2> QED BY <1>17, <2>3
<1> QED BY <1>16, <1>17

(* A registered cell that is clean is on no frame of the stack. *)
LEMMA CleanOffStack ==
  ASSUME SInv, NEW c \in Derived, state[c] = "clean"
  PROVE  \A k \in 1 .. Len(stack) : stack[k].cell # c
<1>1. \A k \in 1 .. Len(stack) :
        IF IsBuilder(k) THEN stack[k].cell = op.cell /\ state[op.cell] = "dirty"
                        ELSE state[stack[k].cell] = "computing"
  BY DEF SInv, Consistent, Frames, BuilderApart, WellFormed, Placed, IsBuilder
<1> QED BY <1>1

(* A clean cell has its caches filled with what its dependencies hold.     *)
LEMMA CleanCache ==
  ASSUME SInv, pc # "mark", NEW c \in Registered \ Signals, state[c] = "clean"
  PROVE  /\ c \in Derived /\ cached[c] = DepVals(c)
         /\ \A j \in DOMAIN deps[c] : Ready(deps[c][j])
         /\ c \in Computeds \cap Untainted => val[c] = Apply(fn[c], DepVals(c))
<1>1. c \in Derived /\ c \in made
  BY RegisteredMade
<1>2. Agrees(c)
  BY DEF SInv, Consistent, CleanAgree
<1>3. /\ cached[c] \in Seq(Values) /\ deps[c] \in Seq(Nodes)
      /\ Len(cached[c]) = Len(deps[c]) /\ DOMAIN deps[c] = 1 .. Len(deps[c])
  BY <1>1 DEF SInv, TypeOK, DataType, GraphType
<1>4. cached[c] = [j \in 1 .. Len(deps[c]) |-> cached[c][j]]
  BY <1>3
<1>5. cached[c] = DepVals(c)
  BY <1>2, <1>3, <1>4 DEF Agrees, DepVals
<1>6. c \in Computeds \cap Untainted => val[c] = Apply(fn[c], cached[c])
  BY <1>1, CleanOffStack DEF SInv, Consistent, Memoised
<1> QED BY <1>1, <1>2, <1>3, <1>5, <1>6 DEF Agrees

(* What is clean holds its value of the graph, whatever is being swept.    *)
LEMMA CleanFresh ==
  ASSUME Disciplined, GInv, pc # "mark"
  PROVE  \A c \in Kept : Ready(c) => val[c] = Graph!Value[c]
<1>1. /\ Kept \subseteq Nodes \cap made
      /\ \A c \in Live \ Signals : \A j \in DOMAIN deps[c] : deps[c][j] \in Kept
      /\ \A c \in Live \ Signals : c \in Registered \cap made \cap Derived
  BY KeptFacts
<1>2. PICK rank \in [Cells -> Nat], n \in Nat : RankedGraph(rank, n)
  BY DEF GInv, WInv, SInv, Ordered
<1> DEFINE ds == [c \in Kept |-> IF c \in Signals THEN <<>> ELSE deps[c]]
           T == {c \in Kept : Ready(c) => val[c] = Graph!Value[c]}
<1>3. \A c \in Kept \ Signals :
        /\ c \in Registered \ Signals /\ c \in made \cap Computeds
        /\ DOMAIN deps[c] = 1 .. Len(deps[c]) /\ ds[c] = deps[c]
        /\ \A j \in DOMAIN deps[c] : deps[c][j] \in Kept
  <2> TAKE c \in Kept \ Signals
  <2>1. c \in Live \ Signals /\ c \in Registered \ Signals /\ c \in made \cap Computeds
    BY <1>1 DEF Kept
  <2> QED BY <1>1, <2>1 DEF GInv, WInv, SInv, TypeOK, GraphType
<1>4. Ranked(Kept, ds, rank)
  <2>1. \A c \in Kept : rank[c] \in Nat
    BY <1>1 DEF Nodes, Cells, Derived
  <2>2. \A c \in Kept : \A j \in DOMAIN ds[c] :
          ds[c][j] \in Kept /\ rank[ds[c][j]] < rank[c]
    BY <1>2, <1>3 DEF RankedGraph, Derived
  <2> QED BY <2>1, <2>2 DEF Ranked
<1>5. ASSUME NEW c \in Kept, \A j \in DOMAIN ds[c] : ds[c][j] \in T
      PROVE  c \in T
  <2>1. CASE c \in Signals
    BY <2>1, GraphValue
  <2>2. CASE c \notin Signals
    <3> SUFFICES ASSUME Ready(c) PROVE val[c] = Graph!Value[c]
      OBVIOUS
    <3>1. /\ val[c] = Apply(fn[c], DepVals(c))
          /\ \A j \in DOMAIN deps[c] : Ready(deps[c][j])
      <4>1. c \in Untainted
        BY <1>1, NothingTainted DEF GInv, WInv, SInv, Disciplined, Nodes, Cells,
           Derived
      <4> QED BY <2>2, <1>3, <4>1, CleanCache DEF Ready, GInv, WInv
    <3>2. \A j \in DOMAIN deps[c] : val[deps[c][j]] = Graph!Value[deps[c][j]]
      BY <1>3, <1>5, <2>2, <3>1
    <3>3. DepVals(c) = [j \in DOMAIN deps[c] |-> Graph!Value[deps[c][j]]]
      BY <3>2 DEF DepVals
    <3> QED BY <2>2, <3>1, <3>3, GraphValue
  <2> QED BY <2>1, <2>2
<1>6. Hereditary(Kept, ds, T)
  BY <1>5 DEF Hereditary
<1> HIDE DEF ds
<1>7. Kept \subseteq T
  <2> HIDE DEF T
  <2> QED BY <1>4, <1>6, Descent
<1> QED BY <1>7

(* What an effect that is kept up to date should have been told. *)
LEMMA GraphPresent ==
  ASSUME Disciplined, GInv, pc # "mark", NEW e \in UpToDate \cap Effects,
         \A j \in DOMAIN deps[e] : Ready(deps[e][j])
  PROVE  Graph!Present(e) = DepVals(e)
<1>1. \A j \in DOMAIN deps[e] : deps[e][j] \in Kept
  BY KeptFacts DEF UpToDate
<1>2. \A j \in DOMAIN deps[e] : val[deps[e][j]] = Graph!Value[deps[e][j]]
  BY <1>1, CleanFresh
<1>3. Watches[e] = deps[e]
  BY DEF Watches
<1>4. Graph!Present(e) = [j \in DOMAIN Watches[e] |-> Graph!Value[Watches[e][j]]]
  BY DEF Graph!Present
<1> QED BY <1>2, <1>3, <1>4 DEF DepVals

(* Effects that are clean have been told. *)
LEMMA CleanTold ==
  ASSUME Disciplined, GInv, pc # "mark",
         \A e \in Registered \cap Effects : state[e] = "clean"
  PROVE  Graph!AllTold
<1> SUFFICES ASSUME NEW e \in UpToDate \cap Effects
             PROVE  ToldLast[e] = Graph!Present(e)
  BY DEF Graph!AllTold, Watches
<1>1. e \in Registered \ Signals /\ e \in Derived /\ state[e] = "clean"
  BY KeptFacts DEF UpToDate
<1>2. cached[e] = DepVals(e) /\ \A j \in DOMAIN deps[e] : Ready(deps[e][j])
  BY <1>1, CleanCache DEF GInv, WInv
<1>3. LastTold(e) = cached[e]
  BY <1>1, CleanOffStack DEF GInv, WInv, Told
<1> QED BY <1>2, <1>3, GraphPresent DEF ToldLast

-----------------------------------------------------------------------------
(* The invariant is one. *)

(* At the end of the second loop of evalAll() every cell is clean. *)
LEMMA SweptAll ==
  ASSUME SInv, SweepEnd
  PROVE  \A c \in Registered : Ready(c)
<1>1. /\ pc = "sweep" /\ stack = <<>> /\ next > upto /\ upto = len
      /\ \A k \in 1 .. (next - 1) : k <= len => Ready(slots[k])
  BY DEF SweepEnd, SInv, Consistent, Swept
<1>2. len \in Nat /\ next \in Nat
  BY DEF SInv, TypeOK, ListType, ControlType
<1>3. \A k \in 1 .. len : Ready(slots[k])
  BY <1>1, <1>2
<1> QED BY <1>3 DEF Registered

(* Outside of evalAll() no effect is marked and none is evaluated. *)
LEMMA EffectsStayClean ==
  ASSUME Disciplined, GInv, [Next]_vars
  PROVE  EffectsClean'
<1> SUFFICES ASSUME pc' \notin {"mark", "sweep"}
             PROVE  \A e \in Registered' \cap Effects : state'[e] = "clean"
  BY DEF EffectsClean
<1> USE DEF GInv, WInv
<1>0. state \in [Derived -> {"clean", "dirty", "computing"}] /\ len \in 0 .. Len(slots)
  BY DEF SInv, TypeOK, DataType, ListType
<1>1. CASE UNCHANGED <<state, slots, len, pc>>
  BY <1>1 DEF Registered, EffectsClean
<1>2. ASSUME pc \notin {"mark", "sweep"}, Registered' \cap Effects \subseteq Registered,
             \A e \in Registered \cap Effects : state'[e] = state[e] \/ state'[e] = "clean"
      PROVE  \A e \in Registered' \cap Effects : state'[e] = "clean"
  BY <1>2 DEF EffectsClean
<1>3. CASE RemoveOne
  <2>1. Registered' \subseteq Registered
    <3>1. \A k \in DOMAIN slots : slots'[k] \in {slots[k], slots[len]}
      BY <1>3 DEF RemoveOne
    <3>2. len' = len /\ \A k \in 1 .. len : k \in DOMAIN slots /\ len \in 1 .. len
      BY <1>0, <1>3 DEF RemoveOne, SInv, TypeOK, ListType
    <3> QED BY <3>1, <3>2 DEF Registered
  <2> QED BY <1>2, <1>3, <2>1 DEF RemoveOne, dataVars
<1>4. CASE RemoveCut
  <2>1. Registered' \subseteq Registered
    <3>1. len' \in Nat /\ len' <= len /\ slots' = slots /\ len \in Nat
      BY <1>0, <1>4 DEF RemoveCut, SInv, TypeOK, OpType
    <3>2. \A k \in 1 .. len' : k \in 1 .. len
      BY <3>1
    <3> QED BY <3>1, <3>2 DEF Registered
  <2> QED BY <1>2, <1>4, <2>1 DEF RemoveCut, dataVars
<1>5. CASE RemoveOverrun \/ Return
  BY <1>2, <1>5 DEF RemoveOverrun, Return, Unlock, Registered, listVars, dataVars
<1>6. CASE Mark \/ SweepSkip \/ SweepEval
  BY <1>6 DEF Mark, SweepSkip, SweepEval, InLoop
<1>7. CASE SweepEnd
  <2>1. \A c \in Registered : Ready(c)
    BY <1>7, SweptAll
  <2>2. \A e \in Effects : e \notin Signals
    BY KindsAssumption DEF KindsAssumption, Nodes
  <2> QED BY <1>7, <2>1, <2>2 DEF SweepEnd, Registered, listVars, dataVars, Ready
<1>8. CASE EvalArg \/ EvalDep \/ EvalKeep \/ EvalGet \/ EvalRun
  <2>1. InEval /\ pc' = pc /\ Registered' = Registered
    BY <1>8 DEF EvalArg, EvalDep, EvalKeep, EvalGet, EvalRun, Calling, Registered,
       listVars
  <2>2. \A e \in Effects : state'[e] = state[e] \/ state'[e] = "clean"
    <3>1. CASE EvalDep
      <4>1. Callee \notin Effects /\ state' = [state EXCEPT ![Callee] = "computing"]
        BY <2>1, <3>1, TopFacts, SInvType, KindsAssumption
        DEF EvalDep, Enter, KindsAssumption
      <4> QED BY <1>0, <4>1
    <3>2. CASE EvalArg
      BY <3>2 DEF EvalArg
    <3>3. CASE EvalKeep \/ EvalGet \/ EvalRun
      BY <1>0, <3>3 DEF EvalKeep, EvalGet, EvalRun, Derived
    <3> QED BY <1>8, <3>1, <3>2, <3>3
  <2> QED BY <1>2, <2>1, <2>2
<1>9. CASE BuildEnd
  <2>1. /\ InEval /\ pc = "build" /\ Top = stack[1] /\ AppendAt(len, Top.cell)
        /\ state' = state /\ made' = made
    BY <1>9, TopFacts, SInvType DEF BuildEnd, Calling, Building, graphVars, InEval
  <2>2. Top.cell \in Computeds /\ Top.cell \in made /\ Top.cell \in Cells
    BY <2>1, TopFacts, SInvType DEF SInv, Consistent, WellFormed, Placed, Cells
  <2>3. Registered' = Registered \cup {Top.cell}
    BY <2>1, <2>2, AppendRegisters
  <2>4. Top.cell \notin Effects
    BY <2>2, KindsAssumption DEF KindsAssumption, Nodes
  <2> QED BY <1>2, <2>1, <2>3, <2>4
<1>10. ~CallbackPanic /\ ~CircularPanic
  BY NoCircular DEF CallbackPanic, CircularPanic, Disciplined
<1>11. ASSUME NEW g \in Goroutines, SignalWrite(g)
       PROVE  \A e \in Registered' \cap Effects : state'[e] = "clean"
  <2>1. /\ pendLen[g] = len /\ pendCell[g] \in Signals \cap made
        /\ AppendAt(len, pendCell[g]) /\ made' = made /\ state' = state /\ pc' = pc
    BY <1>11 DEF SignalWrite, SInv, Consistent, AppendsAlone, TypeOK, PendType,
       WellFormed, PendMade, dataVars, ctrlVars
  <2>2. Registered' = Registered \cup {pendCell[g]}
    BY <2>1, AppendRegisters DEF Cells
  <2>3. pendCell[g] \notin Effects
    BY <2>1, KindsAssumption DEF KindsAssumption, Nodes
  <2> QED BY <1>2, <2>1, <2>2, <2>3
<1>12. ASSUME NEW g \in Goroutines, Call(g)
       PROVE  \A e \in Registered' \cap Effects : state'[e] = "clean"
  <2>1. CASE \E s \in Signals, v \in Values : SignalRead(g, s, v)
    BY <1>1, <2>1 DEF SignalRead, listVars, ctrlVars
  <2>2. CASE \/ \E s \in Signals, v \in Values : SetValue(g, s, v)
             \/ \E e \in Effects, ds \in Wirings : Effect(g, e, ds)
    BY <2>2 DEF SetValue, Effect
  <2>3. ASSUME NEW c \in Nodes, Value(g, c)
        PROVE  \A e \in Registered' \cap Effects : state'[e] = "clean"
    <3>1. pc = "idle"
      BY <2>3, LockFacts DEF Value, Disciplined
    <3> QED BY <1>2, <2>3, <3>1 DEF Value, Registered, listVars
  <2>4. ASSUME NEW c \in Computeds, NEW ds \in Wirings, NEW f \in Getters,
               Computed(g, c, ds, f)
        PROVE  \A e \in Registered' \cap Effects : state'[e] = "clean"
    <3>1. /\ pc = "idle" /\ Registered' = Registered
          /\ state' = [state EXCEPT ![c] = "dirty"]
      BY <2>4, LockFacts DEF Computed, Allocate, Registered, listVars,
         Disciplined
    <3>2. c \notin Effects
      BY KindsAssumption DEF KindsAssumption, Nodes
    <3> QED BY <1>0, <1>2, <3>1, <3>2
  <2>5. ASSUME NEW cs, Remove(g, cs)
        PROVE  \A e \in Registered' \cap Effects : state'[e] = "clean"
    <3>1. pc = "idle"
      BY <2>5, LockFacts DEF Remove, Disciplined
    <3> QED BY <1>2, <2>5, <3>1 DEF Remove, Registered
  <2>6. CASE Reset(g)
    BY <2>6 DEF Reset, Registered
  <2> QED BY <1>12, <2>1, <2>2, <2>3, <2>4, <2>5, <2>6 DEF Call
<1>13. CASE UNCHANGED vars
  BY <1>1, <1>13 DEF vars, listVars, dataVars, ctrlVars
<1> QED BY <1>3, <1>4, <1>5, <1>6, <1>7, <1>8, <1>9, <1>10, <1>11, <1>12, <1>13
        DEF Next, Step

LEMMA AskedStays ==
  ASSUME SignalOverlaps = FALSE, SInv, Asked, [Next]_vars
  PROVE  Asked'
<1> SUFFICES ASSUME op'.name = "Value" PROVE op'.cell \in held' \cap Nodes
  BY DEF Asked
<1>0. /\ op \in [name : {"none", "Value", "SetValue", "Computed", "Effect",
                        "Remove", "Reset"},
                 cell : Cells \cup {None}, rest : Seq(Cells), dropped : Nat]
  BY DEF SInv, TypeOK, OpType
<1>1. ASSUME op' = op, held \subseteq held'
      PROVE  op'.cell \in held' \cap Nodes
  BY <1>1 DEF Asked
<1>2. CASE UNCHANGED vars
  BY <1>1, <1>2 DEF vars, ctrlVars, graphVars
<1>3. CASE RemoveOne
  <2>1. op'.name = op.name /\ op'.cell = op.cell /\ held' = held
    BY <1>0, <1>3 DEF RemoveOne, graphVars
  <2> QED BY <2>1 DEF Asked
<1>4. CASE RemoveOverrun \/ CallbackPanic \/ CircularPanic \/ Return
  BY <1>4 DEF RemoveOverrun, CallbackPanic, CircularPanic, Return, Unlock, NoOp
<1>5. CASE \/ RemoveCut \/ Mark \/ SweepSkip \/ SweepEval \/ SweepEnd
           \/ EvalArg \/ EvalDep \/ EvalKeep \/ EvalGet \/ EvalRun \/ BuildEnd
  <2>1. op' = op /\ held' = held
    BY <1>5 DEF RemoveCut, Mark, SweepSkip, SweepEval, SweepEnd, EvalArg, EvalDep,
       EvalKeep, EvalGet, EvalRun, BuildEnd, graphVars
  <2> QED BY <1>1, <2>1
<1>6. ASSUME NEW g \in Goroutines, SignalWrite(g)
      PROVE  op'.cell \in held' \cap Nodes
  BY <1>1, <1>6 DEF SignalWrite, ctrlVars
<1>7. ASSUME NEW g \in Goroutines, Call(g)
      PROVE  op'.cell \in held' \cap Nodes
  <2>1. CASE \E s \in Signals, v \in Values : SignalRead(g, s, v)
    BY <1>1, <2>1 DEF SignalRead, ctrlVars
  <2>2. CASE \E c \in Nodes : Value(g, c)
    BY <2>2, LockFacts DEF Value, graphVars
  <2>3. CASE \/ \E s \in Signals, v \in Values : SetValue(g, s, v)
             \/ \E c \in Computeds, ds \in Wirings, f \in Getters :
                  Computed(g, c, ds, f)
             \/ \E e \in Effects, ds \in Wirings : Effect(g, e, ds)
             \/ \E cs \in UNION {[1 .. k -> Cells] : k \in 1 .. MaxRemove} :
                  Remove(g, cs)
             \/ Reset(g)
    BY <2>3 DEF SetValue, Computed, Effect, Remove, Reset, Lock
  <2> QED BY <1>7, <2>1, <2>2, <2>3 DEF Call
<1> QED BY <1>2, <1>3, <1>4, <1>5, <1>6, <1>7 DEF Next, Step

LEMMA GraphInit == Init => GInv
<1> SUFFICES ASSUME Init PROVE GInv
  OBVIOUS
<1>1. Registered = {}
  BY DEF Init, Registered
<1>2. Asked
  BY DEF Init, NoOp, Asked
<1> QED BY <1>1, <1>2, CallInit, ListInit DEF GInv, EffectsClean

LEMMA GraphNext == Orderly /\ GInv /\ [Next]_vars => GInv'
BY CallNext, ListNext, EffectsStayClean, AskedStays
DEF Orderly, GInv, WInv, Disciplined

-----------------------------------------------------------------------------
(* The steps. *)

Same == UNCHANGED <<Inputs, Formulas, Watches, ToldLast>>

(* What the graph is made of. *)
LEMMA SameGraph ==
  ASSUME made' \cap Signals = made \cap Signals,
         \A s \in made \cap Signals : val'[s] = val[s],
         Live' = Live,
         \A c \in Live \ Signals : deps'[c] = deps[c],
         \A c \in Live \cap Computeds : fn'[c] = fn[c],
         \A e \in (Live \ Signals) \cap Effects : seen'[e] = seen[e]
  PROVE  Same
<1>1. UpToDate' = UpToDate
  BY DEF UpToDate
<1>2. Inputs' = Inputs
  BY DEF Inputs
<1>3. Formulas' = Formulas
  BY <1>1 DEF Formulas, UpToDate
<1>4. Watches' = Watches
  BY <1>1 DEF Watches, UpToDate
<1>5. ToldLast' = ToldLast
  <2>1. \A e \in UpToDate \cap Effects : LastTold(e)' = LastTold(e)
    BY DEF LastTold, UpToDate
  <2> QED BY <1>1, <2>1 DEF ToldLast
<1> QED BY <1>2, <1>3, <1>4, <1>5 DEF Same

(* Between the start and the end of an operation. *)
LEMMA GraphStutter ==
  ASSUME Same, (mu' # None) = (mu # None), ~Answered, ~Answered'
  PROVE  UNCHANGED Graph!vars
BY DEF Same, Graph!vars, Answering

LEMMA GraphBegin ==
  ASSUME Same, mu = None, mu' # None, ~Answered, ~Answered'
  PROVE  Graph!Begin
BY DEF Same, Graph!Begin, Answering

(* At the start of an operation. *)
LEMMA IdleFacts ==
  ASSUME GInv, Disciplined, NEW g \in Goroutines, NEW name, NEW c, NEW rest,
         Lock(g, name, c, rest)
  PROVE  /\ mu = None /\ mu' # None /\ pc = "idle" /\ op'.name = name /\ op'.cell = c
         /\ ~Answered /\ Answering = None
<1>1. mu = None /\ mu' # None /\ pc = "idle" /\ op'.name = name /\ op'.cell = c
  BY LockFacts DEF GInv, WInv, Disciplined
<1> QED BY <1>1 DEF Answered, Answering

LEMMA StepSignalRead ==
  ASSUME Disciplined, GInv, NEW g \in Goroutines, NEW s \in Signals, NEW v \in Values,
         SignalRead(g, s, v)
  PROVE  Graph!NewSignal(s, v)
<1>1. /\ mu = None /\ s \notin made /\ made' = made \cup {s}
      /\ val' = [val EXCEPT ![s] = v]
      /\ UNCHANGED <<deps, fn, enrolled, seen, mu, pc, op>>
  BY DEF SignalRead, Disciplined, listVars, ctrlVars
<1>2. val \in [Nodes -> Values] /\ s \in Nodes /\ pc = "idle"
  BY <1>1 DEF GInv, WInv, SInv, TypeOK, DataType, ControlType, Nodes
<1>3. ~Answered /\ ~Answered'
  BY <1>1, <1>2 DEF Answered
<1>4. Live' = Live
  BY <1>1, LiveSame
<1>5. Formulas' = Formulas /\ Watches' = Watches /\ ToldLast' = ToldLast
  BY <1>1, <1>4 DEF Formulas, Watches, ToldLast, LastTold, UpToDate
<1>6. DOMAIN Inputs = made \cap Signals
  BY DEF Inputs
<1>7. Inputs' = Graph!With(Inputs, s, v)
  <2>1. Inputs' = [k \in (made \cap Signals) \cup {s} |-> val'[k]]
    BY <1>1 DEF Inputs
  <2>2. \A k \in (made \cap Signals) \cup {s} :
          val'[k] = IF k = s THEN v ELSE Inputs[k]
    BY <1>1, <1>2 DEF Inputs, Nodes
  <2> QED BY <1>6, <2>1, <2>2 DEF Graph!With
<1> QED BY <1>1, <1>3, <1>5, <1>6, <1>7 DEF Graph!NewSignal, Answering

LEMMA StepSetValue ==
  ASSUME Disciplined, GInv, NEW g \in Goroutines, NEW s \in Signals, NEW v \in Values,
         SetValue(g, s, v)
  PROVE  Graph!Write(s, v)
<1>1. /\ s \in held /\ val' = [val EXCEPT ![s] = v] /\ pc' = "mark"
      /\ UNCHANGED <<made, deps, fn, enrolled, seen>>
  BY DEF SetValue, graphVars, listVars
<1>2. /\ mu = None /\ mu' # None /\ Answering = None
  BY IdleFacts DEF SetValue
<1>3. val \in [Nodes -> Values] /\ s \in Nodes /\ s \in made
  BY <1>1 DEF GInv, WInv, SInv, TypeOK, DataType, GraphType, Nodes
<1>4. Answering' = None
  BY <1>1 DEF Answered, Answering
<1>5. Live' = Live
  BY <1>1, LiveSame
<1>6. Formulas' = Formulas /\ Watches' = Watches /\ ToldLast' = ToldLast
  BY <1>1, <1>5 DEF Formulas, Watches, ToldLast, LastTold, UpToDate
<1>7. s \in DOMAIN Inputs /\ Inputs' = [Inputs EXCEPT ![s] = v]
  BY <1>1, <1>3 DEF Inputs, Nodes
<1> QED BY <1>2, <1>4, <1>6, <1>7 DEF Graph!Write

(* A read that finds anyDirty false answers at once. *)
LEMMA StepValue ==
  ASSUME Disciplined, GInv, NEW g \in Goroutines, NEW c \in Nodes, Value(g, c)
  PROVE  Graph!Begin \/ Graph!Answer(c)
<1>1. /\ c \in held /\ pc' = IF anyDirty THEN "mark" ELSE "done"
      /\ UNCHANGED <<made, deps, fn, enrolled, seen, val>>
  BY DEF Value, graphVars, listVars
<1>2. /\ mu = None /\ mu' # None /\ pc = "idle" /\ ~Answered /\ Answering = None
      /\ op'.name = "Value" /\ op'.cell = c
  BY IdleFacts DEF Value
<1>3. Live' = Live
  BY <1>1, LiveSame
<1>4. Same
  BY <1>1, <1>3, SameGraph
<1>5. CASE ~Answered'
  BY <1>2, <1>4, <1>5, GraphBegin
<1>6. CASE Answered'
  <2>1. ~anyDirty /\ c \in Live
    BY <1>1, <1>2, <1>3, <1>6 DEF Answered
  <2>2. Registered \subseteq Signals
    BY <2>1 DEF GInv, WInv, SInv, Consistent, Swept
  <2>3. c \in Signals \cap made /\ UpToDate = {}
    BY <1>1, <2>1, <2>2, KeptFacts
    DEF UpToDate, GInv, WInv, SInv, TypeOK, GraphType
  <2>4. c \in Kept /\ val[c] = Graph!Value[c]
    BY <2>3, GraphValue DEF Kept
  <2>5. Graph!AllTold
    BY <2>3 DEF Graph!AllTold, Watches
  <2>6. Answering' = <<c, Graph!Value[c]>>
    BY <1>1, <1>2, <1>6, <2>4 DEF Answering
  <2> QED BY <1>2, <1>4, <2>4, <2>5, <2>6, KeptFacts DEF Same, Graph!Answer
<1> QED BY <1>5, <1>6

LEMMA StepComputed ==
  ASSUME Disciplined, GInv, NEW g \in Goroutines, NEW c \in Computeds,
         NEW ds \in Wirings, NEW f \in Getters, Computed(g, c, ds, f)
  PROVE  Graph!Begin
<1>1. /\ c \notin made /\ made' = made \cup {c} /\ deps' = [deps EXCEPT ![c] = ds]
      /\ fn' = [fn EXCEPT ![c] = f] /\ pc' = "build"
      /\ UNCHANGED <<enrolled, seen, val>>
  BY DEF Computed, Allocate, listVars
<1>2. mu = None /\ mu' # None /\ ~Answered
  BY IdleFacts DEF Computed
<1>3. /\ c \notin Signals /\ c \in Derived /\ c \notin enrolled
      /\ deps \in [Derived -> Seq(Nodes)] /\ DOMAIN fn = Computeds
  BY <1>1, KindsAssumption
  DEF KindsAssumption, Derived, GInv, WInv, SInv, TypeOK, GraphType, ListType
<1>4. Live' = Live /\ c \notin Live
  <2>1. \A d \in enrolled \ Signals : deps'[d] = deps[d]
    BY <1>1, <1>3
  <2> QED BY <1>1, <1>3, <2>1, LiveSame, LiveFacts
<1>5. /\ \A d \in Live \ Signals : d \in Derived /\ d # c
      /\ \A d \in Live \ Signals : deps'[d] = deps[d]
  BY <1>1, <1>3, <1>4, KeptFacts
<1>6. Same
  <2>1. made' \cap Signals = made \cap Signals
    BY <1>1, <1>3
  <2>2. \A d \in Live \cap Computeds : fn'[d] = fn[d]
    BY <1>1, <1>3, <1>4
  <2> QED BY <1>1, <1>4, <1>5, <2>1, <2>2, SameGraph
<1>7. ~Answered'
  BY <1>1 DEF Answered
<1> QED BY <1>2, <1>6, <1>7, GraphBegin
(* An effect joins the graph if all that it watches is kept up to date.    *)
LEMMA StepEffect ==
  ASSUME Disciplined, GInv, NEW g \in Goroutines, NEW e \in Effects,
         NEW ds \in Wirings, Effect(g, e, ds)
  PROVE  Graph!Begin \/ Graph!NewEffect(e, ds)
<1>1. /\ e \notin made /\ made' = made \cup {e} /\ deps' = [deps EXCEPT ![e] = ds]
      /\ \A j \in DOMAIN ds : ds[j] \in held
      /\ enrolled' = enrolled \cup {e} /\ pc' = "mark"
      /\ UNCHANGED <<fn, seen, val>>
  BY DEF Effect, Allocate, AppendAt
<1>2. mu = None /\ mu' # None /\ ~Answered /\ Answering = None
  BY IdleFacts DEF Effect
<1>3. ~Answered' /\ Answering' = None
  BY <1>1 DEF Answered, Answering
<1>4. /\ e \notin Nodes /\ e \notin Signals /\ e \notin Computeds /\ e \in Derived
      /\ e \notin enrolled /\ enrolled \subseteq made /\ made \subseteq Cells
      /\ held \subseteq made /\ deps \in [Derived -> Seq(Nodes)]
      /\ ds \in Seq(Nodes)
  BY <1>1, KindsAssumption, DataAssumption
  DEF KindsAssumption, DataAssumption, Derived, Nodes, GInv, WInv, SInv, TypeOK,
      GraphType, ListType
<1>5. \A d \in enrolled \ Signals :
        deps'[d] = deps[d] /\ \A j \in DOMAIN deps[d] : deps[d][j] # e
  <2> TAKE d \in enrolled \ Signals
  <2>1. d \in Derived /\ d # e
    BY <1>4 DEF Cells, Derived, Nodes
  <2> QED BY <1>1, <1>4, <2>1
<1>6. deps'[e] = ds /\ \A j \in DOMAIN ds : ds[j] \in Nodes /\ ds[j] # e
  BY <1>1, <1>4
<1>7. Live' = IF \A j \in DOMAIN ds : ds[j] \in Live THEN Live \cup {e} ELSE Live
  BY <1>1, <1>4, <1>5, <1>6, LiveJoins
<1>8. Live \ Signals \subseteq enrolled \ Signals /\ e \notin Live
  BY <1>4, LiveFacts
<1>9. made' \cap Signals = made \cap Signals
  BY <1>1, <1>4
<1>10. CASE ~(\A j \in DOMAIN ds : ds[j] \in Live)
  <2>1. Live' = Live
    BY <1>7, <1>10
  <2>2. Same
    BY <1>1, <1>5, <1>8, <1>9, <2>1, SameGraph
  <2> QED BY <1>2, <1>3, <2>2, GraphBegin
<1>11. CASE \A j \in DOMAIN ds : ds[j] \in Live
  <2>1. UpToDate' = UpToDate \cup {e} /\ e \notin UpToDate
    BY <1>4, <1>7, <1>8, <1>11 DEF UpToDate
  <2>2. Inputs' = Inputs
    BY <1>1, <1>9 DEF Inputs
  <2>3. Formulas' = Formulas
    <3>1. UpToDate' \cap Computeds = UpToDate \cap Computeds
      BY <1>4, <2>1
    <3>2. \A d \in UpToDate : deps'[d] = deps[d]
      BY <1>5, <1>8 DEF UpToDate
    <3> QED BY <1>1, <3>1, <3>2 DEF Formulas
  <2>4. /\ DOMAIN Watches = UpToDate \cap Effects
        /\ DOMAIN ToldLast = UpToDate \cap Effects
        /\ UpToDate' \cap Effects = (UpToDate \cap Effects) \cup {e}
    BY <2>1 DEF Watches, ToldLast
  <2>5. Watches' = Graph!With(Watches, e, ds)
    <3>1. \A k \in (UpToDate \cap Effects) \cup {e} :
            deps'[k] = IF k = e THEN ds ELSE Watches[k]
      BY <1>5, <1>6, <1>8, <2>1 DEF Watches, UpToDate
    <3> QED BY <2>4, <3>1 DEF Watches, Graph!With
  <2>6. ToldLast' = Graph!With(ToldLast, e, Graph!Zeros(ds))
    <3>1. LastTold(e)' = Graph!Zeros(ds)
      BY <1>1, <1>4, <1>6 DEF GInv, WInv, Uncalled, LastTold, Graph!Zeros
    <3>2. \A k \in UpToDate \cap Effects : k # e /\ LastTold(k)' = ToldLast[k]
      BY <1>1, <1>5, <1>8, <2>1 DEF ToldLast, LastTold, UpToDate
    <3> QED BY <2>4, <3>1, <3>2 DEF ToldLast, Graph!With
  <2>7. Graph!Over(ds)
    <3>1. \A j \in DOMAIN ds : ds[j] \in Kept
      BY <1>1, <1>4, <1>6, <1>11 DEF Kept, Nodes
    <3> QED BY <3>1, KeptFacts DEF Graph!Over
  <2> QED BY <1>2, <1>3, <2>1, <2>2, <2>3, <2>4, <2>5, <2>6, <2>7
          DEF Graph!NewEffect
<1> QED BY <1>10, <1>11

(* Remove() and Reset() detach what is removed and what depends on it.     *)
LEMMA StepDetach ==
  ASSUME GInv, enrolled' \subseteq enrolled, mu = None, mu' # None,
         ~Answered, ~Answered', UNCHANGED <<made, deps, fn, val, seen>>
  PROVE  \E cs \in SUBSET (Computeds \cup Effects) : Graph!Detach(cs)
<1> DEFINE cs == UpToDate \ UpToDate'
<1>1. cs \in SUBSET (Computeds \cup Effects)
  BY KeptFacts DEF UpToDate, Derived
<1>2. UpToDate' \subseteq UpToDate
  BY LiveDrops DEF UpToDate
<1>3. \A c \in UpToDate' : \A j \in DOMAIN deps[c] : deps[c][j] \notin cs
  BY LiveNext DEF Closed, UpToDate
<1>4. /\ DOMAIN Formulas = UpToDate \cap Computeds
      /\ DOMAIN Watches = UpToDate \cap Effects
      /\ DOMAIN ToldLast = UpToDate \cap Effects
      /\ \A c \in UpToDate \cap Computeds : Formulas[c].args = deps[c]
      /\ \A e \in UpToDate \cap Effects : Watches[e] = deps[e]
  BY DEF Formulas, Watches, ToldLast
<1>5. /\ DOMAIN Formulas \ cs = UpToDate' \cap Computeds
      /\ DOMAIN Watches \ cs = UpToDate' \cap Effects
      /\ DOMAIN ToldLast \ cs = UpToDate' \cap Effects
  BY <1>2, <1>4
<1>6. /\ \A c \in DOMAIN Formulas \ cs : \A j \in DOMAIN Formulas[c].args :
           Formulas[c].args[j] \notin cs
      /\ \A e \in DOMAIN Watches \ cs : \A j \in DOMAIN Watches[e] :
           Watches[e][j] \notin cs
  BY <1>3, <1>4, <1>5
<1>7. /\ Inputs' = Inputs
      /\ Formulas' = Graph!Without(Formulas, cs)
      /\ Watches' = Graph!Without(Watches, cs)
      /\ ToldLast' = Graph!Without(ToldLast, cs)
  <2>1. Inputs' = Inputs
    BY DEF Inputs
  <2>2. Formulas' = Graph!Without(Formulas, cs)
    BY <1>2, <1>5 DEF Formulas, Graph!Without
  <2>3. Watches' = Graph!Without(Watches, cs)
    BY <1>2, <1>5 DEF Watches, Graph!Without
  <2>4. ToldLast' = Graph!Without(ToldLast, cs)
    <3>1. \A e \in Effects : LastTold(e)' = LastTold(e)
      BY DEF LastTold
    <3> QED BY <1>2, <1>5, <3>1 DEF ToldLast, Graph!Without
  <2> QED BY <2>1, <2>2, <2>3, <2>4
<1>8. Answering = None /\ Answering' = None
  BY DEF Answering
<1>9. Graph!Detach(cs)
  <2> HIDE DEF cs
  <2> QED BY <1>6, <1>7, <1>8 DEF Graph!Detach
<1> QED BY <1>1, <1>9

(* A signal appears to the graph before it joins the list. *)
LEMMA StepSignalWrite ==
  ASSUME GInv, NEW g \in Goroutines, SignalWrite(g)
  PROVE  UNCHANGED Graph!vars
<1>1. /\ pendCell[g] # None /\ enrolled' = enrolled \cup {pendCell[g]}
      /\ UNCHANGED <<made, deps, fn, val, seen, mu, pc, op>>
  BY DEF SignalWrite, AppendAt, dataVars, ctrlVars
<1>2. pendCell[g] \in Signals /\ pc = "idle"
  BY <1>1 DEF GInv, WInv, SInv, TypeOK, PendType, ControlType, Consistent,
     AppendsAlone
<1>3. Live' = Live
  BY <1>1, <1>2, LiveSame
<1>4. Same
  BY <1>1, <1>3, SameGraph
<1> QED BY <1>1, <1>2, <1>4, GraphStutter DEF Answered

-----------------------------------------------------------------------------
(* The steps of the machine. *)

(* What happens between the callbacks of the effects does not show.        *)
LEMMA StepInside ==
  ASSUME GInv,
         \/ RemoveOne \/ RemoveCut \/ Mark \/ SweepSkip \/ SweepEval
         \/ EvalArg \/ EvalDep \/ EvalKeep \/ EvalGet
  PROVE  UNCHANGED Graph!vars
<1>1. /\ UNCHANGED <<made, deps, fn, enrolled, mu>>
      /\ op' = op \/ RemoveOne
  BY DEF RemoveOne, RemoveCut, Mark, SweepSkip, SweepEval, EvalArg, EvalDep,
     EvalKeep, EvalGet, graphVars, listVars
<1>2. Live' = Live
  BY <1>1, LiveSame
<1>3. /\ \A s \in Signals : val'[s] = val[s]
      /\ \A e \in Effects : seen'[e] = seen[e]
  <2>1. CASE UNCHANGED <<val, seen>>
    BY <2>1
  <2>2. CASE EvalGet
    <3>1. /\ Top.cell \in Computeds
          /\ val' = [val EXCEPT ![Top.cell] = Apply(fn[Top.cell], cached[Top.cell])]
          /\ seen' = [seen EXCEPT ![Top.cell] = cached[Top.cell]]
      BY <2>2 DEF EvalGet
    <3>2. Top.cell \notin Signals /\ Top.cell \notin Effects
      BY <3>1, KindsAssumption DEF KindsAssumption, Nodes
    <3>3. DOMAIN val = Nodes /\ DOMAIN seen = Derived
      BY DEF GInv, WInv, SInv, TypeOK, DataType
    <3> QED BY <3>1, <3>2, <3>3 DEF Nodes, Derived
  <2> QED BY <2>1, <2>2 DEF RemoveOne, RemoveCut, Mark, SweepSkip, SweepEval,
         EvalArg, EvalDep, EvalKeep, dataVars
<1>4. Same
  BY <1>1, <1>2, <1>3, SameGraph
<1>5. ~Answered /\ ~Answered'
  <2>1. CASE RemoveCut
    BY <2>1 DEF RemoveCut, Answered, GInv, WInv, SInv, Consistent, Swept
  <2>2. CASE RemoveOne \/ Mark \/ SweepSkip \/ SweepEval
    BY <2>2 DEF RemoveOne, Mark, SweepSkip, SweepEval, InLoop, Answered
  <2>3. CASE EvalArg \/ EvalDep \/ EvalKeep \/ EvalGet
    <3>1. pc \in {"sweep", "build"} /\ pc' = pc
      BY <2>3 DEF EvalArg, EvalDep, EvalKeep, EvalGet, Calling, InEval, GInv, WInv,
         SInv, TypeOK, ControlType
    <3> QED BY <3>1 DEF Answered
  <2> QED BY <2>1, <2>2, <2>3
<1> QED BY <1>1, <1>4, <1>5, GraphStutter

(* The end of evalAll() is where a read takes effect. *)
LEMMA StepSweepEnd ==
  ASSUME Disciplined, GInv, SweepEnd
  PROVE  UNCHANGED Graph!vars \/ \E c \in Nodes : Graph!Answer(c)
<1>1. /\ pc = "sweep" /\ pc' = "done"
      /\ UNCHANGED <<made, deps, fn, enrolled, val, seen, mu, op>>
  BY DEF SweepEnd, graphVars, listVars, dataVars
<1>2. mu # None /\ mu' # None
  BY <1>1 DEF GInv, WInv, SInv, TypeOK, ControlType
<1>3. Live' = Live
  BY <1>1, LiveSame
<1>4. Same
  BY <1>1, <1>3, SameGraph
<1>5. ~Answered /\ Answering = None
  BY <1>1 DEF Answered, Answering
<1>6. CASE ~Answered'
  BY <1>1, <1>4, <1>5, <1>6, GraphStutter
<1>7. CASE Answered'
  <2>0. PICK c : c = op.cell
    OBVIOUS
  <2>1. c \in Live /\ op.name = "Value"
    BY <1>1, <1>3, <1>7, <2>0 DEF Answered
  <2>2. c \in Nodes /\ c \in Kept
    BY <2>0, <2>1
    DEF GInv, WInv, SInv, TypeOK, GraphType, Asked, Kept, Nodes
  <2>3. \A d \in Registered : Ready(d)
    BY SweptAll DEF GInv, WInv
  <2>4. Ready(c)
    BY <2>1, <2>3, KeptFacts DEF Ready
  <2>5. val[c] = Graph!Value[c]
    BY <1>1, <2>2, <2>4, CleanFresh
  <2>6. Graph!AllTold
    <3>1. \A e \in Registered \cap Effects : state[e] = "clean"
      BY <2>3, KindsAssumption DEF KindsAssumption, Nodes, Ready
    <3> QED BY <1>1, <3>1, CleanTold
  <2>7. Answering' = <<c, Graph!Value[c]>>
    BY <1>1, <1>7, <2>0, <2>5 DEF Answering
  <2>8. Graph!Answer(c)
    BY <1>2, <1>4, <1>5, <2>2, <2>6, <2>7, KeptFacts DEF Same, Graph!Answer
  <2> QED BY <2>2, <2>8
<1> QED BY <1>6, <1>7

(* A call of an effect that is kept up to date shows. *)
LEMMA StepEvalRun ==
  ASSUME Disciplined, GInv, EvalRun
  PROVE  UNCHANGED Graph!vars \/ \E e \in Effects : Graph!Tell(e)
<1>0. PICK e : e = Top.cell
  OBVIOUS
<1>1. /\ InEval /\ ArgsDone /\ e \in Effects /\ pc' = pc
      /\ seen' = [seen EXCEPT ![e] = cached[e]]
      /\ UNCHANGED <<made, deps, fn, enrolled, val, mu, op>>
  BY <1>0 DEF EvalRun, Calling, graphVars, listVars
<1>2. pc \in {"sweep", "build"} /\ mu # None
  BY <1>1 DEF InEval, GInv, WInv, SInv, TypeOK, ControlType
<1>3. Live' = Live
  BY <1>1, LiveSame
<1>4. ~Answered /\ ~Answered' /\ Answering = None /\ Answering' = None
  BY <1>1, <1>2 DEF Answered, Answering
<1>5. e \in Derived /\ e \in made /\ seen \in [Derived -> Seq(Values)]
  BY <1>0, <1>1, TopFacts, SInvType DEF GInv, WInv, SInv, TypeOK, DataType
<1>6. CASE e \notin Live
  <2>1. \A d \in (Live \ Signals) \cap Effects : seen'[d] = seen[d]
    BY <1>1, <1>5, <1>6 DEF Derived
  <2>2. Same
    BY <1>1, <1>3, <2>1, SameGraph
  <2> QED BY <1>1, <1>4, <2>2, GraphStutter
<1>7. CASE e \in Live
  <2>1. e \in UpToDate \cap Effects
    BY <1>1, <1>7, KindsAssumption DEF KindsAssumption, Nodes, UpToDate
  <2>2. cached[e] = DepVals(e) /\ \A j \in DOMAIN deps[e] : Ready(deps[e][j])
    BY <1>0, <1>1, ArgsRead DEF GInv, WInv
  <2>3. Graph!Present(e) = cached[e]
    BY <1>2, <2>1, <2>2, GraphPresent
  <2>4. LastTold(e) # cached[e]
    <3>1. /\ ~Top.same /\ Len(stack) \in 1 .. Len(stack)
          /\ stack[Len(stack)] = Top
      BY <1>1, <1>2, TopAlone, KindsAssumption
      DEF EvalRun, Calling, GInv, WInv
    <3>2. stack[Len(stack)].cell = e /\ ~stack[Len(stack)].same
      BY <1>0, <3>1
    <3>3. \E j \in 1 .. (stack[Len(stack)].arg - 1) :
            LastTold(e)[j] # cached[e][j]
      <4>1. Told
        BY DEF GInv, WInv
      <4> QED BY <1>5, <3>1, <3>2, <4>1 DEF Told
    <3> QED BY <3>3
  <2>5. ToldLast' = [ToldLast EXCEPT ![e] = cached[e]]
    <3>1. LastTold(e)' = cached[e]
      BY <1>1, <1>5, CacheFilled DEF LastTold, GInv, WInv
    <3>2. \A d \in UpToDate \cap Effects : d # e => LastTold(d)' = LastTold(d)
      BY <1>1, <1>5 DEF LastTold, Derived
    <3>3. UpToDate' = UpToDate
      BY <1>3 DEF UpToDate
    <3> QED BY <2>1, <3>1, <3>2, <3>3 DEF ToldLast
  <2>6. /\ Inputs' = Inputs /\ Formulas' = Formulas /\ Watches' = Watches
        /\ e \in DOMAIN Watches /\ ToldLast[e] = LastTold(e)
    BY <1>1, <1>3, <2>1 DEF Inputs, Formulas, Watches, ToldLast, UpToDate
  <2>7. Graph!Tell(e)
    BY <1>1, <1>2, <1>4, <2>3, <2>4, <2>5, <2>6 DEF Graph!Tell
  <2> QED BY <1>1, <2>7
<1> QED BY <1>6, <1>7

(* A computed joins the graph if all that it reads is kept up to date.     *)
LEMMA StepBuildEnd ==
  ASSUME Disciplined, GInv, BuildEnd
  PROVE  \/ UNCHANGED Graph!vars
         \/ \E c \in Computeds, ds \in Wirings, f \in Getters :
              Graph!NewComputed(c, ds, f)
<1>0. PICK c : c = Top.cell
  OBVIOUS
<1>1. /\ InEval /\ Len(stack) = 1 /\ pc = "build" /\ pc' = "done"
      /\ val' = [val EXCEPT ![c] = Apply(fn[c], cached[c])]
      /\ seen' = [seen EXCEPT ![c] = cached[c]]
      /\ enrolled' = enrolled \cup {c}
      /\ UNCHANGED <<made, deps, fn, mu, op>>
  BY <1>0 DEF BuildEnd, Calling, Building, AppendAt, graphVars
<1>2. /\ c = op.cell /\ c \in Computeds /\ op.name = "Computed"
      /\ c \in made \cap Derived /\ mu # None
  <2>1. Top = stack[1] /\ Top.cell \in made /\ Top.cell \in Derived
    BY <1>1, TopFacts, SInvType DEF GInv, WInv
  <2> QED BY <1>0, <1>1, <2>1
          DEF GInv, WInv, SInv, TypeOK, ControlType, Consistent, WellFormed, Placed
<1>3. /\ c \notin Signals /\ c \notin Effects /\ c \notin enrolled /\ c \notin held
  BY <1>1, <1>2, KindsAssumption
  DEF KindsAssumption, Nodes, GInv, WInv, SInv, Consistent, BuilderApart, LInv,
      BuiltApart
<1>4. ~Answered /\ ~Answered' /\ Answering = None /\ Answering' = None
  BY <1>1, <1>2 DEF Answered, Answering
<1>5. \A d \in made \cap Derived : \A j \in DOMAIN deps[d] :
        deps[d][j] \in held \cap Nodes
  <2> TAKE d \in made \cap Derived
  <2>1. DOMAIN deps[d] = 1 .. Len(deps[d])
    BY DEF GInv, WInv, SInv, TypeOK, GraphType
  <2> QED BY <2>1, RegisteredMade DEF GInv, WInv
<1>6. enrolled \subseteq made /\ made \subseteq Cells /\ held \subseteq made
  BY DEF GInv, WInv, SInv, TypeOK, GraphType, ListType
<1>7. \A d \in enrolled \ Signals : \A j \in DOMAIN deps[d] : deps[d][j] # c
  <2> TAKE d \in enrolled \ Signals
  <2>1. d \in made \cap Derived
    BY <1>6 DEF Cells, Nodes, Derived
  <2> QED BY <1>3, <1>5, <2>1
<1>8. Live' = IF \A j \in DOMAIN deps[c] : deps[c][j] \in Live
              THEN Live \cup {c} ELSE Live
  <2>1. \A j \in DOMAIN deps'[c] : deps'[c][j] # c
    BY <1>1, <1>2, <1>3, <1>5
  <2> QED BY <1>1, <1>3, <1>7, <2>1, LiveJoins
<1>9. /\ \A s \in made \cap Signals : val'[s] = val[s]
      /\ \A e \in (Live \ Signals) \cap Effects : seen'[e] = seen[e]
      /\ \A e \in Effects : seen'[e] = seen[e]
  <2>1. DOMAIN val = Nodes /\ DOMAIN seen = Derived
    BY DEF GInv, WInv, SInv, TypeOK, DataType
  <2> QED BY <1>1, <1>3, <2>1 DEF Nodes, Derived
<1>10. CASE ~(\A j \in DOMAIN deps[c] : deps[c][j] \in Live)
  <2>1. Live' = Live
    BY <1>8, <1>10
  <2>2. Same
    BY <1>1, <1>9, <2>1, SameGraph
  <2> QED BY <1>1, <1>4, <2>2, GraphStutter
<1>11. CASE \A j \in DOMAIN deps[c] : deps[c][j] \in Live
  <2>1. UpToDate' = UpToDate \cup {c} /\ c \notin UpToDate
    BY <1>3, <1>8, <1>11, LiveFacts DEF UpToDate
  <2>2. Inputs' = Inputs
    BY <1>1, <1>9 DEF Inputs
  <2>3. Watches' = Watches /\ ToldLast' = ToldLast
    <3>1. UpToDate' \cap Effects = UpToDate \cap Effects
      BY <1>3, <2>1
    <3> QED BY <1>1, <1>9, <3>1 DEF Watches, ToldLast, LastTold
  <2>4. /\ DOMAIN Formulas = UpToDate \cap Computeds
        /\ UpToDate' \cap Computeds = (UpToDate \cap Computeds) \cup {c}
    BY <1>2, <2>1 DEF Formulas
  <2>5. Formulas' =
          Graph!With(Formulas, c, [args |-> deps[c], getter |-> fn[c]])
    <3>1. \A k \in (UpToDate \cap Computeds) \cup {c} :
            [args |-> deps[k], getter |-> fn[k]] =
              IF k = c THEN [args |-> deps[c], getter |-> fn[c]] ELSE Formulas[k]
      BY DEF Formulas
    <3> QED BY <1>1, <2>4, <3>1 DEF Formulas, Graph!With
  <2>6. Graph!Over(deps[c])
    <3>1. \A j \in DOMAIN deps[c] : deps[c][j] \in Kept
      BY <1>2, <1>5, <1>6, <1>11 DEF Kept, Nodes
    <3> QED BY <3>1, KeptFacts DEF Graph!Over
  <2>7. Graph!NewComputed(c, deps[c], fn[c])
    BY <1>1, <1>2, <1>4, <2>1, <2>2, <2>3, <2>4, <2>5, <2>6 DEF Graph!NewComputed
  <2>8. deps[c] \in Wirings /\ fn[c] \in Getters
    BY <1>2 DEF GInv, WInv, SInv, Consistent, WellFormed, Wired
  <2> QED BY <1>2, <2>7, <2>8
<1> QED BY <1>10, <1>11

(* No operation returns before every effect has been told. *)
LEMMA StepReturn ==
  ASSUME Disciplined, GInv, Return
  PROVE  Graph!End
<1>1. /\ pc = "done" /\ mu' = None /\ pc' = "idle"
      /\ UNCHANGED <<made, deps, fn, enrolled, val, seen>>
  BY DEF Return, Unlock, listVars, dataVars
<1>2. mu # None
  BY <1>1 DEF GInv, WInv, SInv, TypeOK, ControlType
<1>3. Live' = Live
  BY <1>1, LiveSame
<1>4. Same
  BY <1>1, <1>3, SameGraph
<1>5. Answering' = None
  BY <1>1 DEF Answered, Answering
<1>6. Graph!AllTold
  BY <1>1, CleanTold DEF GInv, EffectsClean
<1> QED BY <1>1, <1>2, <1>4, <1>5, <1>6 DEF Same, Graph!End

-----------------------------------------------------------------------------
(* The whole. *)

LEMMA PromiseInit == Init => Graph!Init
<1> SUFFICES ASSUME Init PROVE Graph!Init
  OBVIOUS
<1>1. made = {} /\ enrolled = {} /\ mu = None /\ pc = "idle"
  BY DEF Init
<1>2. UpToDate = {}
  BY <1>1, LiveFacts DEF UpToDate
<1>3. /\ Inputs = <<>> /\ Formulas = <<>> /\ Watches = <<>> /\ ToldLast = <<>>
  BY <1>1, <1>2 DEF Inputs, Formulas, Watches, ToldLast
<1>4. Answering = None
  BY <1>1 DEF Answered, Answering
<1> QED BY <1>1, <1>3, <1>4 DEF Graph!Init

LEMMA PromiseStep ==
  ASSUME Orderly, GInv, [Next]_vars
  PROVE  [Graph!Next]_(Graph!vars)
<1>1. Disciplined
  BY DEF Orderly
<1>2. CASE UNCHANGED vars
  <2>1. UNCHANGED <<made, deps, fn, enrolled, val, seen, mu, pc, op>>
    BY <1>2 DEF vars, graphVars, listVars, dataVars, ctrlVars
  <2>2. Live' = Live
    BY <2>1, LiveSame
  <2>3. Same
    BY <2>1, <2>2, SameGraph
  <2>4. Answering' = Answering
    BY <2>1, <2>2 DEF Answered, Answering
  <2> QED BY <2>1, <2>3, <2>4 DEF Same, Graph!vars
<1>3. CASE \/ RemoveOne \/ RemoveCut \/ Mark \/ SweepSkip \/ SweepEval
           \/ EvalArg \/ EvalDep \/ EvalKeep \/ EvalGet
  BY <1>3, StepInside
<1>4. CASE SweepEnd
  BY <1>1, <1>4, StepSweepEnd DEF Graph!Next, Graph!Nodes, Nodes
<1>5. CASE EvalRun
  BY <1>1, <1>5, StepEvalRun DEF Graph!Next
<1>6. CASE BuildEnd
  BY <1>1, <1>6, StepBuildEnd DEF Graph!Next
<1>7. CASE Return
  BY <1>1, <1>7, StepReturn DEF Graph!Next
<1>8. ~RemoveOverrun /\ ~CallbackPanic /\ ~CircularPanic
  BY <1>1, NoOverrun, NoCircular
  DEF GInv, WInv, CallbackPanic, CircularPanic, Disciplined
<1>9. ASSUME NEW g \in Goroutines, SignalWrite(g)
      PROVE  [Graph!Next]_(Graph!vars)
  BY <1>9, StepSignalWrite
<1>10. ASSUME NEW g \in Goroutines, Call(g)
       PROVE  Graph!Next
  <2>1. ASSUME NEW s \in Signals, NEW v \in Values,
               SignalRead(g, s, v) \/ SetValue(g, s, v)
        PROVE  Graph!Next
    BY <1>1, <2>1, StepSignalRead, StepSetValue DEF Graph!Next
  <2>2. ASSUME NEW c \in Nodes, Value(g, c) PROVE Graph!Next
    BY <1>1, <2>2, StepValue DEF Graph!Next, Graph!Nodes, Nodes
  <2>3. ASSUME NEW c \in Computeds, NEW ds \in Wirings, NEW f \in Getters,
               Computed(g, c, ds, f)
        PROVE  Graph!Next
    BY <1>1, <2>3, StepComputed DEF Graph!Next
  <2>4. ASSUME NEW e \in Effects, NEW ds \in Wirings, Effect(g, e, ds)
        PROVE  Graph!Next
    BY <1>1, <2>4, StepEffect DEF Graph!Next
  <2>5. ASSUME NEW cs, Remove(g, cs) PROVE Graph!Next
    <3>1. /\ mu = None /\ mu' # None /\ ~Answered /\ pc' = "remove"
          /\ enrolled' \subseteq enrolled /\ UNCHANGED <<made, deps, fn, val, seen>>
      BY <1>1, <2>5, IdleFacts DEF Remove, graphVars
    <3>2. ~Answered'
      BY <3>1 DEF Answered
    <3> QED BY <3>1, <3>2, StepDetach DEF Graph!Next
  <2>6. CASE Reset(g)
    <3>1. /\ mu = None /\ mu' # None /\ ~Answered /\ op'.name = "Reset"
          /\ enrolled' \subseteq enrolled /\ UNCHANGED <<made, deps, fn, val, seen>>
      BY <1>1, <2>6, IdleFacts DEF Reset, graphVars
    <3>2. ~Answered'
      BY <3>1 DEF Answered
    <3> QED BY <3>1, <3>2, StepDetach DEF Graph!Next
  <2> QED BY <1>10, <2>1, <2>2, <2>3, <2>4, <2>5, <2>6 DEF Call
<1> QED BY <1>2, <1>3, <1>4, <1>5, <1>6, <1>7, <1>8, <1>9, <1>10 DEF Next, Step

LEMMA GraphInvariant == ASSUME Orderly PROVE Spec => []GInv
<1>1. Init => GInv
  BY GraphInit
<1>2. GInv /\ [Next]_vars => GInv'
  BY GraphNext
<1> QED BY <1>1, <1>2, PTL DEF Spec

(* dumbdumb implements the abstract reactive graph: an operation acts at   *)
(* once on all that is kept up to date, and the callbacks of its effects   *)
(* and the answers of Value() are those of a graph without marks, caches,  *)
(* a list or an order of evaluation.                                       *)
THEOREM PromiseKept ==
  ASSUME Orderly PROVE Spec => Promise
<1>1. Init => Graph!Init
  BY PromiseInit
<1>2. GInv /\ [Next]_vars => [Graph!Next]_(Graph!vars)
  BY PromiseStep
<1> QED BY <1>1, <1>2, GraphInvariant, PTL DEF Spec, Promise, Graph!Spec

-----------------------------------------------------------------------------
(* What a read returns, whatever callbacks panic. *)

(* The equations of the cells have a solution, and Meaning is one.         *)
LEMMA MeaningUnfolds ==
  ASSUME SInv
  PROVE  \A c \in made \cap Nodes :
           Meaning[c] =
             IF c \in Signals THEN val[c]
             ELSE Apply(fn[c], [j \in DOMAIN deps[c] |-> Meaning[deps[c][j]]])
<1> DEFINE M == made \cap Nodes
           ds == [c \in M |-> IF c \in Signals THEN <<>> ELSE deps[c]]
           G == [c \in M |-> [a \in [DOMAIN ds[c] -> Values] |->
                  IF c \in Signals THEN val[c] ELSE Apply(fn[c], a)]]
<1>1. PICK rank \in [Cells -> Nat], n \in Nat : RankedGraph(rank, n)
  BY DEF SInv, Ordered
<1>2. \A c \in M : rank[c] \in Nat /\ rank[c] < n
  BY <1>1 DEF RankedGraph, Nodes, Cells, Derived
<1>3. ASSUME NEW c \in M \ Signals
      PROVE  /\ c \in made \cap Derived /\ c \in Computeds
             /\ ds[c] = deps[c] /\ DOMAIN deps[c] = 1 .. Len(deps[c])
  BY DEF Nodes, Derived, SInv, TypeOK, GraphType
<1>4. \A c \in M : \A j \in DOMAIN ds[c] :
        ds[c][j] \in M /\ rank[ds[c][j]] < rank[c]
  <2> TAKE c \in M
  <2>1. CASE c \in Signals
    BY <2>1
  <2>2. CASE c \notin Signals
    BY <2>2, <1>1, <1>3, RegisteredMade DEF RankedGraph
  <2> QED BY <2>1, <2>2
<1>5. \A c \in M : \A a \in [DOMAIN ds[c] -> Values] : G[c][a] \in Values
  <2> TAKE c \in M
  <2> TAKE a \in [DOMAIN ds[c] -> Values]
  <2>1. CASE c \in Signals
    BY <2>1 DEF SInv, TypeOK, DataType
  <2>2. CASE c \notin Signals
    <3>1. deps[c] \in Wirings /\ fn[c] \in Getters
      BY <1>3, <2>2 DEF SInv, Consistent, WellFormed, Wired
    <3> QED BY <1>3, <2>2, <3>1, DataAssumption DEF DataAssumption
  <2> QED BY <2>1, <2>2
<1>6. Zero \in Values
  BY DataAssumption DEF DataAssumption
<1>7. PICK f \in [M -> Values] : Solves(M, ds, Values, G, f)
  <2>1. Ranked(M, ds, rank) /\ Giving(M, ds, Values, G)
    BY <1>2, <1>4, <1>5 DEF Ranked, Giving
  <2> HIDE DEF M, ds, G
  <2> QED BY <1>2, <1>6, <2>1, Solution
<1>8. \A c \in M :
        f[c] = IF c \in Signals THEN val[c]
               ELSE Apply(fn[c], [j \in DOMAIN deps[c] |-> f[deps[c][j]]])
  <2> TAKE c \in M
  <2>1. [j \in DOMAIN ds[c] |-> f[ds[c][j]]] \in [DOMAIN ds[c] -> Values]
    BY <1>4
  <2>2. f[c] = IF c \in Signals THEN val[c]
               ELSE Apply(fn[c], [j \in DOMAIN ds[c] |-> f[ds[c][j]]])
    BY <1>7, <2>1 DEF Solves
  <2> QED BY <1>3, <2>2
<1> DEFINE Fits(g) ==
      g = [c \in made \cap Nodes |->
             IF c \in Signals THEN val[c]
             ELSE Apply(fn[c], [j \in DOMAIN deps[c] |-> g[deps[c][j]]])]
<1>9. Fits(f)
  BY <1>8
<1>10. Meaning = CHOOSE g : Fits(g)
  BY DEF Meaning
<1>11. Fits(Meaning)
  <2> HIDE DEF Fits
  <2> QED BY <1>9, <1>10
<1> QED BY <1>11

(* When a read returns, what is registered with all its dependencies and   *)
(* can be reached by no panic is fresh.                                    *)
LEMMA FreshRead ==
  ASSUME SInv, pc = "done", op.name = "Value"
  PROVE  \A c \in Listed \cap Untainted \cap made \cap Nodes : val[c] = Meaning[c]
<1> DEFINE F == Listed \cap Untainted \cap made \cap Nodes
           ds == [c \in F |-> IF c \in Signals THEN <<>> ELSE deps[c]]
           T == {c \in F : val[c] = Meaning[c]}
<1>1. PICK rank \in [Cells -> Nat], n \in Nat : RankedGraph(rank, n)
  BY DEF SInv, Ordered
<1>2. /\ Listed \subseteq Signals \cup Registered
      /\ \A c \in Listed \ Signals : \A j \in DOMAIN deps[c] : deps[c][j] \in Listed
  BY LargestPart DEF Listed, Within, Closed
<1>3. ASSUME NEW c \in F \ Signals
      PROVE  /\ c \in Registered \ Signals /\ c \in made \cap Derived
             /\ c \in Computeds \cap Untainted
             /\ ds[c] = deps[c] /\ DOMAIN deps[c] = 1 .. Len(deps[c])
             /\ \A j \in DOMAIN deps[c] : deps[c][j] \in F
  <2>1. /\ c \in Registered \ Signals /\ c \in made \cap Derived
        /\ c \in Computeds \cap Untainted /\ ds[c] = deps[c]
    BY <1>2 DEF Nodes, Derived
  <2>2. DOMAIN deps[c] = 1 .. Len(deps[c])
    BY <2>1 DEF SInv, TypeOK, GraphType
  <2>3. \A j \in DOMAIN deps[c] : deps[c][j] \in made \cap Nodes
    BY <2>1, <2>2, RegisteredMade
  <2> QED BY <1>2, <2>1, <2>2, <2>3, UntaintedClosed
<1>4. Ranked(F, ds, rank)
  <2>1. \A c \in F : rank[c] \in Nat
    BY DEF Nodes, Cells, Derived
  <2>2. \A c \in F : \A j \in DOMAIN ds[c] :
          ds[c][j] \in F /\ rank[ds[c][j]] < rank[c]
    <3> TAKE c \in F
    <3>1. CASE c \in Signals
      BY <3>1
    <3>2. CASE c \notin Signals
      BY <3>2, <1>1, <1>3 DEF RankedGraph
    <3> QED BY <3>1, <3>2
  <2> HIDE DEF F, ds
  <2> QED BY <2>1, <2>2 DEF Ranked
<1>5. ASSUME NEW c \in F, \A j \in DOMAIN ds[c] : ds[c][j] \in T
      PROVE  c \in T
  <2>1. CASE c \in Signals
    BY <2>1, MeaningUnfolds
  <2>2. CASE c \notin Signals
    <3>1. state[c] = "clean"
      BY <1>3, <2>2 DEF SInv, Consistent, Swept, Ready
    <3>2. val[c] = Apply(fn[c], DepVals(c))
      BY <1>3, <2>2, <3>1, CleanCache
    <3>3. \A j \in DOMAIN deps[c] : val[deps[c][j]] = Meaning[deps[c][j]]
      BY <1>3, <1>5, <2>2
    <3>4. DepVals(c) = [j \in DOMAIN deps[c] |-> Meaning[deps[c][j]]]
      BY <3>3 DEF DepVals
    <3> QED BY <2>2, <3>2, <3>4, MeaningUnfolds
  <2> QED BY <2>1, <2>2
<1>6. Hereditary(F, ds, T)
  BY <1>5 DEF Hereditary
<1>7. F \subseteq T
  <2> HIDE DEF F, ds, T
  <2> QED BY <1>4, <1>6, Descent
<1> QED BY <1>7

LEMMA AskedAlways ==
  ASSUME SignalOverlaps = FALSE
  PROVE  Spec => [](SInv /\ Asked)
<1>1. Init => SInv /\ Asked
  BY SafeInit DEF Init, NoOp, Asked
<1>2. SInv /\ Asked /\ [Next]_vars => SInv' /\ Asked'
  BY SafeNext, AskedStays
<1> QED BY <1>1, <1>2, PTL DEF Spec

(* A panic is contained: whatever panics a program has recovered from,     *)
(* Value() returns what the getters make of the present signals, for a     *)
(* registered cell that depends on registered cells and on no callback     *)
(* that may panic.                                                         *)
THEOREM PanicContainedAlways ==
  ASSUME SignalOverlaps = FALSE
  PROVE  Spec => []PanicContained
<1>1. SInv /\ Asked => PanicContained
  <2> SUFFICES ASSUME SInv, Asked, pc = "done", op.name = "Value",
                      op.cell \in Listed \cap Untainted
               PROVE  val[op.cell] = Meaning[op.cell]
    BY DEF PanicContained
  <2>1. op.cell \in made \cap Nodes
    BY RegisteredMade DEF Asked
  <2> QED BY <2>1, FreshRead
<1> QED BY <1>1, AskedAlways, PTL

(* Where no callback panics and Remove() gets one cell at a time, Value()  *)
(* returns what the getters make of the present signals for every cell     *)
(* that nobody has detached.                                               *)
THEOREM ReadFreshAlways ==
  ASSUME Orderly
  PROVE  Spec => []ReadFresh
<1>1. GInv => ReadFresh
  <2> SUFFICES ASSUME GInv, pc = "done", op.name = "Value", op.cell \in Live
               PROVE  val[op.cell] = Meaning[op.cell]
    BY DEF ReadFresh
  <2>1. SInv /\ op.cell \in made \cap Nodes
    BY RegisteredMade DEF GInv, WInv, Asked
  <2>2. Live \subseteq Listed
    <3>1. Closed(Live) /\ Live \in SUBSET (Signals \cup Registered)
      BY KeptFacts, LiveFacts
    <3> QED BY <3>1, LargestPart DEF Listed, Within, Closed
  <2>3. op.cell \in Untainted
    BY <2>1, NothingTainted
    DEF SInv, Orderly, Disciplined, Nodes, Cells, Derived
  <2> QED BY <2>1, <2>2, <2>3, FreshRead
<1> QED BY <1>1, GraphInvariant, PTL
=============================================================================
