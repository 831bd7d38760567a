--------------------------- MODULE DumbdumbProofs ---------------------------
(* Proofs about Dumbdumb, for any number of goroutines, cells and values,  *)
(* any wiring and any getters.                                             *)
EXTENDS Dumbdumb, GraphRecursion, SequenceTheorems, FiniteSetTheorems

-----------------------------------------------------------------------------
(* Sequences and the eval() stack. *)

(* Pushing a frame leaves the frames below as they are. *)
LEMMA Push ==
  ASSUME NEW S, NEW s \in Seq(S), NEW e \in S
  PROVE  /\ Append(s, e) \in Seq(S)
         /\ Len(Append(s, e)) = Len(s) + 1
         /\ Append(s, e) # <<>>
         /\ \A k \in 1 .. Len(s) : Append(s, e)[k] = s[k]
         /\ Append(s, e)[Len(s) + 1] = e
OBVIOUS

(* So does popping one. *)
LEMMA Shrink ==
  ASSUME NEW S, NEW s \in Seq(S), s # <<>>
  PROVE  /\ SubSeq(s, 1, Len(s) - 1) \in Seq(S)
         /\ Len(SubSeq(s, 1, Len(s) - 1)) = Len(s) - 1
         /\ \A k \in 1 .. (Len(s) - 1) : SubSeq(s, 1, Len(s) - 1)[k] = s[k]
<1> DEFINE n == Len(s) - 1
<1>1. n \in Nat /\ Len(s) \in Nat /\ 1 \in Int /\ n \in Int
  BY EmptySeq, LenProperties
<1>2. \A k \in 1 .. n : s[k] \in S
  BY <1>1, ElementOfSeq
<1>3. /\ SubSeq(s, 1, n) \in Seq(S)
      /\ Len(SubSeq(s, 1, n)) = IF 1 <= n THEN n - 1 + 1 ELSE 0
      /\ \A k \in 1 .. n - 1 + 1 : SubSeq(s, 1, n)[k] = s[1 + k - 1]
  <2> HIDE DEF n
  <2> QED BY <1>1, <1>2, SubSeqProperties
<1> HIDE DEF n
<1>4. n - 1 + 1 = n /\ \A k \in 1 .. n : 1 + k - 1 = k
  BY <1>1
<1>5. Len(SubSeq(s, 1, n)) = n
  BY <1>1, <1>3, <1>4
<1>6. \A k \in 1 .. n : SubSeq(s, 1, n)[k] = s[k]
  BY <1>1, <1>3, <1>4
<1> QED BY <1>3, <1>5, <1>6 DEF n

(* The arguments of a made computed are arguments its getter accepts. *)
LEMMA ApplyType ==
  ASSUME TypeOK, WellFormed, NEW c \in made \cap Computeds
  PROVE  Apply(fn[c], cached[c]) \in Values
<1>1. c \in Derived /\ deps[c] \in Wirings /\ fn[c] \in Getters
  BY DEF WellFormed, Wired, Derived
<1>2. cached[c] \in Seq(Values) /\ Len(cached[c]) = Len(deps[c])
  BY <1>1 DEF TypeOK, DataType, GraphType
<1>3. deps[c] \in Seq(Nodes)
  BY <1>1 DEF TypeOK, DataType, GraphType
<1>4. DOMAIN deps[c] = 1 .. Len(deps[c])
  BY <1>3
<1>5. cached[c] \in [1 .. Len(deps[c]) -> Values]
  BY <1>2, LenProperties
<1> QED BY <1>1, <1>4, <1>5, DataAssumption DEF DataAssumption

TypeInv == TypeOK /\ WellFormed

-----------------------------------------------------------------------------
(* Type correctness. *)

LEMMA TypeInit == Init => TypeInv
<1> SUFFICES ASSUME Init PROVE TypeInv
  OBVIOUS
<1> USE DataAssumption, KindsAssumption
      DEF DataAssumption, KindsAssumption, Cells, Derived, Nodes, Init
<1>1. ListType /\ GraphType
  BY EmptySeq DEF ListType, GraphType
<1>2. DataType
  BY EmptySeq DEF DataType
<1>3. OpType
  BY EmptySeq DEF OpType, NoOp
<1>4. ControlType
  BY EmptySeq DEF ControlType
<1>5. PendType
  BY DEF PendType
<1>6. WellFormed
  BY EmptySeq DEF WellFormed, SlotsMade, Wired, StackMade, PendMade, Placed,
     NoOp
<1> QED BY <1>1, <1>2, <1>3, <1>4, <1>5, <1>6 DEF TypeInv, TypeOK

LEMMA TypeValue ==
  ASSUME NEW g \in Goroutines, NEW c \in Nodes, TypeInv, Value(g, c)
  PROVE  TypeInv'
<1> USE DEF Value, Lock, TypeInv, TypeOK, WellFormed, graphVars, listVars,
       pendVars
<1>1. /\ ListType' /\ GraphType' /\ DataType' /\ PendType' /\ SlotsMade'
      /\ Wired' /\ PendMade'
  BY DEF ListType, GraphType, DataType, PendType, SlotsMade, Wired, PendMade
<1>2. OpType'
  BY EmptySeq DEF OpType, Cells, Nodes, Derived
<1>3. ControlType' /\ StackMade' /\ Placed'
  BY KindsAssumption DEF KindsAssumption, ControlType, StackMade, Placed
<1> QED BY <1>1, <1>2, <1>3

LEMMA TypeSignalRead ==
  ASSUME NEW g \in Goroutines, NEW s \in Signals, NEW v \in Values,
         TypeInv, SignalRead(g, s, v)
  PROVE  TypeInv'
<1> USE KindsAssumption
    DEF SignalRead, TypeInv, TypeOK, WellFormed, listVars, ctrlVars,
       KindsAssumption, Cells, Nodes, Derived
<1>1. ListType' /\ GraphType' /\ DataType' 
  BY DEF ListType, GraphType, DataType
<1>2. ControlType' /\ OpType'
  BY DEF OpType, ControlType
<1>3. SlotsMade' /\ Wired' /\ StackMade' /\ Placed'
  BY DEF SlotsMade, Wired, StackMade, Placed, GraphType
<1>4. PendType' /\ PendMade'
  BY DEF PendMade, PendType, ListType
<1> QED BY <1>1, <1>2, <1>3, <1>4

(* An append puts an allocated cell into the list and keeps the others. *)
LEMMA AppendType ==
  ASSUME TypeInv, NEW n \in 0 .. Len(slots), NEW c \in Cells, c \in made',
         made \subseteq made', AppendAt(n, c)
  PROVE  /\ slots' \in Seq(Cells) /\ len' \in 0 .. Len(slots')
         /\ Len(slots') >= Len(slots)
         /\ \A k \in 1 .. n : slots'[k] = slots[k]
         /\ slots'[n + 1] = c /\ len' = n + 1
         /\ enrolled' = enrolled \cup {c}
         /\ SlotsMade'
<1> USE DEF AppendAt, TypeInv, TypeOK, WellFormed, ListType, SlotsMade
<1>0. slots \in Seq(Cells) /\ Len(slots) \in Nat
  OBVIOUS
<1>1. CASE n < Len(slots)
  <2>1. slots' = [slots EXCEPT ![n + 1] = c] /\ n + 1 \in 1 .. Len(slots)
    BY <1>1, <1>0
  <2> QED BY <1>1, <2>1, ExceptSeq
<1>2. CASE n = Len(slots)
  <2>1. slots' = Append(slots, c)
    BY <1>2, <1>0
  <2>2. /\ slots' \in Seq(Cells) /\ Len(slots') = n + 1
        /\ \A k \in 1 .. n : slots'[k] = slots[k]
        /\ slots'[n + 1] = c
    BY <1>0, <1>2, <2>1, Push
  <2> QED BY <1>0, <1>2, <2>2
<1> QED BY <1>0, <1>1, <1>2

LEMMA TypeSignalWrite ==
  ASSUME NEW g \in Goroutines, TypeInv, SignalWrite(g)
  PROVE  TypeInv'
<1> USE DEF TypeInv, TypeOK, WellFormed, SignalWrite, dataVars, ctrlVars
<1>1. /\ pendCell[g] \in Signals \cap made /\ pendLen[g] \in 0 .. Len(slots)
  BY DEF PendMade, PendType, ListType
<1>2. /\ slots' \in Seq(Cells) /\ len' \in 0 .. Len(slots')
      /\ Len(slots') >= Len(slots)
      /\ enrolled' = enrolled \cup {pendCell[g]}
      /\ SlotsMade'
  BY <1>1, AppendType DEF Cells
<1>3. ListType' /\ GraphType' /\ DataType'
  BY <1>1, <1>2 DEF ListType, GraphType, DataType
<1>4. ControlType' /\ OpType' /\ Wired' /\ StackMade' /\ Placed'
  BY <1>1, <1>2 DEF ControlType, OpType, Wired, StackMade, Placed, ListType
<1>5. PendType' /\ PendMade'
  BY <1>1, <1>2 DEF PendType, PendMade, ListType
<1> QED BY <1>2, <1>3, <1>4, <1>5

LEMMA TypeSetValue ==
  ASSUME NEW g \in Goroutines, NEW s \in Signals, NEW v \in Values,
         TypeInv, SetValue(g, s, v)
  PROVE  TypeInv'
<1> USE DEF SetValue, Lock, TypeInv, TypeOK, WellFormed, graphVars, listVars,
       pendVars
<1>1. /\ ListType' /\ GraphType' /\ DataType' /\ PendType' /\ SlotsMade'
      /\ Wired' /\ PendMade'
  BY DEF ListType, GraphType, DataType, PendType, SlotsMade, Wired, PendMade,
     Nodes
<1>2. OpType'
  BY EmptySeq DEF OpType, Cells, Nodes, Derived
<1>3. ControlType' /\ StackMade' /\ Placed'
  BY KindsAssumption DEF KindsAssumption, ControlType, StackMade, Placed
<1> QED BY <1>1, <1>2, <1>3

(* The parts that concern the cells, after Allocate.                       *)
LEMMA TypeAllocate ==
  ASSUME TypeInv, NEW c \in Derived, NEW ds \in Wirings, Allocate(c, ds),
         held' = held, val' = val, seen' = seen, pendCell' = pendCell,
         pendLen' = pendLen,
         c \in Effects => fn' = fn,
         c \in Computeds => \E f \in Getters : fn' = [fn EXCEPT ![c] = f]
  PROVE  GraphType' /\ DataType' /\ Wired' /\ made' = made \cup {c}
<1> USE DEF Allocate, TypeInv, TypeOK, WellFormed
<1>1. ds \in Seq(Nodes) /\ DOMAIN ds = 1 .. Len(ds) /\ Len(ds) \in Nat
  BY DataAssumption DEF DataAssumption
<1>2. /\ [j \in DOMAIN ds |-> Zero] \in Seq(Values)
      /\ Len([j \in DOMAIN ds |-> Zero]) = Len(ds)
  BY <1>1, DataAssumption DEF DataAssumption
<1>3. c \in Computeds \/ c \in Effects
  BY DEF Derived
<1>4. c \in Cells
  BY DEF Cells
<1>5. fn' \in [Computeds -> Getters \cup {None}]
  BY <1>3 DEF GraphType
<1>6. GraphType'
  BY <1>1, <1>4, <1>5 DEF GraphType
<1>7. DataType'
  BY <1>1, <1>2 DEF DataType, GraphType
<1>8. \A d \in made' \cap Derived : d \in Computeds => fn'[d] \in Getters
  BY KindsAssumption, <1>3 DEF Wired, GraphType, KindsAssumption, Nodes
<1>9. Wired'
  BY <1>1, <1>8 DEF Wired, GraphType
<1> QED BY <1>6, <1>7, <1>9

LEMMA TypeComputed ==
  ASSUME NEW g \in Goroutines, NEW c \in Computeds, NEW ds \in Wirings,
         NEW f \in Getters, TypeInv, Computed(g, c, ds, f)
  PROVE  TypeInv'
<1> USE DEF Computed, Lock, TypeInv, TypeOK, WellFormed, listVars, pendVars
<1>0. c \in Derived /\ c \in Cells /\ c \notin Effects
  BY KindsAssumption DEF Derived, Cells, KindsAssumption, Nodes
<1>1. GraphType' /\ DataType' /\ Wired' /\ made' = made \cup {c}
  BY <1>0, TypeAllocate
<1>2. ListType' /\ SlotsMade'
  BY <1>1 DEF ListType, SlotsMade
<1>3. PendType' /\ PendMade'
  BY <1>1 DEF PendType, PendMade
<1>4. OpType'
  BY <1>0, EmptySeq DEF OpType
<1>5. Frame(c) \in FrameSet /\ Frame(c).cell = c /\ Frame(c).arg = 1
  BY <1>0 DEF Frame, FrameSet
<1>6. /\ stack' \in Seq(FrameSet) /\ Len(stack') = 1 /\ stack'[1] = Frame(c)
      /\ stack' # <<>>
  BY <1>5
<1>7. ControlType'
  BY <1>6, KindsAssumption DEF ControlType, KindsAssumption, Allocate
<1>8. Len(deps'[c]) \in Nat
  BY <1>0, <1>1 DEF GraphType
<1>9. StackMade' /\ Placed'
  BY <1>0, <1>1, <1>5, <1>6, <1>8 DEF StackMade, Placed
<1> QED BY <1>1, <1>2, <1>3, <1>4, <1>7, <1>9

LEMMA TypeEffect ==
  ASSUME NEW g \in Goroutines, NEW e \in Effects, NEW ds \in Wirings,
         TypeInv, Effect(g, e, ds)
  PROVE  TypeInv'
<1> USE DEF Effect, Lock, TypeInv, TypeOK, WellFormed, pendVars
<1>0. e \in Derived /\ e \in Cells /\ e \notin Computeds
  BY KindsAssumption DEF Derived, Cells, KindsAssumption, Nodes
<1>1. GraphType' /\ DataType' /\ Wired' /\ made' = made \cup {e}
  BY <1>0, TypeAllocate
<1>2. /\ slots' \in Seq(Cells) /\ len' \in 0 .. Len(slots')
      /\ Len(slots') >= Len(slots)
      /\ enrolled' = enrolled \cup {e}
      /\ SlotsMade'
  BY <1>0, <1>1, AppendType DEF ListType
<1>3. ListType'
  BY <1>1, <1>2 DEF ListType
<1>4. PendType' /\ PendMade'
  BY <1>1, <1>2 DEF PendType, PendMade, ListType
<1>5. OpType'
  BY <1>0, EmptySeq DEF OpType
<1>6. ControlType'
  BY KindsAssumption DEF ControlType, KindsAssumption, Allocate
<1>7. StackMade' /\ Placed'
  BY <1>0, <1>1 DEF StackMade, Placed, ControlType
<1> QED BY <1>1, <1>2, <1>3, <1>4, <1>5, <1>6, <1>7

LEMMA TypeRemove ==
  ASSUME NEW g \in Goroutines, NEW n \in Nat, NEW cs \in [1 .. n -> Cells],
         TypeInv, Remove(g, cs)
  PROVE  TypeInv'
<1> USE DEF Remove, Lock, TypeInv, TypeOK, WellFormed, graphVars, pendVars
<1>1. /\ ListType' /\ GraphType' /\ DataType' /\ PendType' /\ SlotsMade'
      /\ Wired' /\ PendMade'
  BY DEF ListType, GraphType, DataType, PendType, SlotsMade, Wired, PendMade
<1>2. cs \in Seq(Cells)
  OBVIOUS
<1>3. OpType'
  BY <1>2 DEF OpType
<1>4. ControlType' /\ StackMade' /\ Placed'
  BY KindsAssumption DEF KindsAssumption, ControlType, StackMade, Placed
<1> QED BY <1>1, <1>3, <1>4

LEMMA TypeReset ==
  ASSUME NEW g \in Goroutines, TypeInv, Reset(g)
  PROVE  TypeInv'
<1> USE DEF Reset, Lock, TypeInv, TypeOK, WellFormed, graphVars, pendVars
<1>1. /\ ListType' /\ GraphType' /\ DataType' /\ PendType' /\ SlotsMade'
      /\ Wired' /\ PendMade'
  BY DEF ListType, GraphType, DataType, PendType, SlotsMade, Wired, PendMade
<1>2. OpType'
  BY EmptySeq DEF OpType
<1>3. ControlType' /\ StackMade' /\ Placed'
  BY KindsAssumption DEF KindsAssumption, ControlType, StackMade, Placed
<1> QED BY <1>1, <1>2, <1>3

LEMMA TypeRemoveOne ==
  ASSUME TypeInv, RemoveOne
  PROVE  TypeInv'
<1> USE DEF TypeInv, TypeOK, WellFormed, graphVars, pendVars, dataVars
<1> DEFINE c == Head(op.rest)
           hits == {k \in 1 .. len : slots[k] = c}
<1>1. /\ pc = "remove" /\ op.rest # <<>>
      /\ slots' = [k \in DOMAIN slots |-> IF k \in hits THEN slots[len] ELSE slots[k]]
      /\ op' = [op EXCEPT !.rest = Tail(@), !.dropped = @ + Cardinality(hits)]
      /\ UNCHANGED <<graphVars, len, enrolled, dataVars, mu, anyDirty, pc, next,
                 upto, stack, pendVars>>
  BY DEF RemoveOne
<1>2. Cardinality(hits) \in Nat
  <2>1. IsFiniteSet(1 .. len)
    BY FS_Interval DEF ListType
  <2> QED BY <2>1, FS_Subset, FS_CardinalityType
<1> HIDE DEF c, hits
<1>3. OpType'
  <2>1. Tail(op.rest) \in Seq(Cells)
    BY <1>1, HeadTailProperties DEF OpType
  <2>2. op' = [name |-> op.name, cell |-> op.cell, rest |-> Tail(op.rest),
               dropped |-> op.dropped + Cardinality(hits)]
    BY <1>1 DEF OpType
  <2> QED BY <2>1, <2>2, <1>2 DEF OpType
<1>4. /\ slots' \in Seq(Cells) /\ Len(slots') = Len(slots)
      /\ \A k \in 1 .. Len(slots) : slots'[k] = IF k \in hits THEN slots[len] ELSE slots[k]
  <2>1. DOMAIN slots = 1 .. Len(slots) /\ Len(slots) \in Nat
    BY DEF ListType
  <2>2. hits \subseteq 1 .. len
    BY DEF hits
  <2>3. \A k \in 1 .. Len(slots) : slots[k] \in Cells
    BY DEF ListType
  <2>4. \A k \in hits : len \in 1 .. Len(slots)
    BY <2>2, <2>1 DEF ListType
  <2>5. slots' \in [1 .. Len(slots) -> Cells]
    BY <1>1, <2>1, <2>3, <2>4
  <2> QED BY <1>1, <2>1, <2>5
<1>5. SlotsMade'
  BY <1>1, <1>4 DEF SlotsMade, ListType, hits, graphVars
<1>6. ListType' /\ GraphType' /\ DataType' /\ PendType' /\ Wired' /\ PendMade'
  BY <1>1, <1>4 DEF ListType, GraphType, DataType, PendType, Wired, PendMade
<1>7. ControlType' /\ StackMade' /\ Placed'
  BY <1>1, <1>4 DEF ControlType, StackMade, Placed, OpType
<1> QED BY <1>3, <1>5, <1>6, <1>7

LEMMA TypeRemoveCut ==
  ASSUME TypeInv, RemoveCut
  PROVE  TypeInv'
<1> USE DEF RemoveCut, TypeInv, TypeOK, WellFormed, graphVars, pendVars,
       dataVars
<1>1. ListType' /\ SlotsMade'
  BY DEF ListType, OpType, SlotsMade
<1>2. GraphType' /\ DataType' /\ PendType' /\ Wired' /\ PendMade' /\ OpType'
  BY DEF GraphType, DataType, PendType, Wired, PendMade, OpType
<1>3. ControlType' /\ StackMade' /\ Placed'
  BY DEF ControlType, StackMade, Placed
<1> QED BY <1>1, <1>2, <1>3

(* Leaving the library by a panic or a return: the registers are cleared. *)
LEMMA TypeUnlock ==
  ASSUME TypeInv, Unlock, held' \in SUBSET made, held \subseteq held',
         UNCHANGED <<made, deps, fn, listVars, dataVars, anyDirty, pendVars>>
  PROVE  TypeInv'
<1> USE DEF Unlock, TypeInv, TypeOK, WellFormed, listVars, pendVars, dataVars
<1>1. /\ ListType' /\ GraphType' /\ DataType' /\ PendType' /\ SlotsMade'
      /\ Wired' /\ PendMade'
  BY DEF ListType, GraphType, DataType, PendType, SlotsMade, Wired, PendMade
<1>2. OpType'
  BY EmptySeq DEF OpType, NoOp
<1>3. ControlType' /\ StackMade' /\ Placed'
  BY EmptySeq DEF ControlType, StackMade, Placed, NoOp
<1> QED BY <1>1, <1>2, <1>3

LEMMA TypeMark ==
  ASSUME TypeInv, Mark
  PROVE  TypeInv'
<1> USE DEF Mark, TypeInv, TypeOK, WellFormed, graphVars, listVars, pendVars
<1>1. /\ ListType' /\ GraphType' /\ PendType' /\ SlotsMade' /\ Wired'
      /\ PendMade' /\ OpType'
  BY DEF ListType, GraphType, PendType, SlotsMade, Wired, PendMade, OpType
<1>2. DataType'
  BY DEF DataType
<1>3. ControlType' /\ StackMade' /\ Placed'
  BY DEF ControlType, StackMade, Placed, ListType
<1> QED BY <1>1, <1>2, <1>3

(* The frame on top of the stack, and the argument it is reading.          *)
LEMMA TopFacts ==
  ASSUME TypeInv, InEval
  PROVE  /\ Len(stack) \in Nat \ {0} /\ Top = stack[Len(stack)]
         /\ Top \in FrameSet /\ Top.cell \in made /\ Top.cell \in Derived
         /\ Top.arg \in 1 .. (Len(deps[Top.cell]) + 1)
         /\ deps[Top.cell] \in Wirings
         /\ deps[Top.cell] \in Seq(Nodes) /\ Len(deps[Top.cell]) \in Nat
         /\ ~ArgsDone => /\ Top.arg \in 1 .. Len(deps[Top.cell])
                         /\ Callee \in Nodes /\ Callee \in held
         /\ ArgsDone => Top.arg = Len(deps[Top.cell]) + 1
<1> USE DEF TypeInv, TypeOK, WellFormed, InEval, Top, ArgsDone, Callee
<1>1. stack \in Seq(FrameSet) /\ stack # <<>>
  BY DEF ControlType
<1>2. Len(stack) \in Nat \ {0} /\ stack[Len(stack)] \in FrameSet
  BY <1>1, EmptySeq, ElementOfSeq
<1>3. Top.cell \in Derived /\ Top.arg \in Nat \ {0}
  BY <1>2 DEF FrameSet
<1>4. Top.cell \in made /\ Top.arg <= Len(deps[Top.cell]) + 1
  BY <1>2 DEF StackMade
<1>5. deps[Top.cell] \in Seq(Nodes) /\ Len(deps[Top.cell]) \in Nat
  BY <1>3 DEF GraphType
<1>6. Top.arg \in 1 .. (Len(deps[Top.cell]) + 1)
  BY <1>3, <1>4, <1>5
<1>7. ~ArgsDone => Top.arg \in 1 .. Len(deps[Top.cell])
  BY <1>6, <1>5
<1>8. ~ArgsDone => Callee \in Nodes /\ Callee \in held
  BY <1>3, <1>4, <1>5, <1>7 DEF Wired
<1>9. deps[Top.cell] \in Wirings
  BY <1>3, <1>4 DEF Wired
<1> QED BY <1>2, <1>3, <1>4, <1>5, <1>6, <1>7, <1>8, <1>9

(* Entering eval() of an allocated cell. *)
LEMMA TypeEnter ==
  ASSUME TypeInv, NEW c \in Derived, c \in made, Enter(c),
         pc \in {"sweep", "build"}, pc = "build" => stack # <<>>,
         next' \in Nat, next' >= next,
         UNCHANGED <<graphVars, listVars, val, cached, seen, mu, anyDirty, pc,
                     op, upto, pendVars>>
  PROVE  TypeInv'
<1> USE DEF TypeInv, TypeOK, WellFormed, Enter, graphVars, listVars, pendVars
<1>1. Frame(c) \in FrameSet /\ Frame(c).cell = c /\ Frame(c).arg = 1
  BY DEF Frame, FrameSet
<1>2. stack \in Seq(FrameSet) /\ Len(stack) \in Nat
  BY DEF ControlType
<1>3. /\ stack' \in Seq(FrameSet) /\ Len(stack') = Len(stack) + 1
      /\ stack' # <<>>
      /\ \A k \in 1 .. Len(stack) : stack'[k] = stack[k]
      /\ stack'[Len(stack) + 1] = Frame(c)
  BY <1>1, <1>2, Push
<1>4. /\ ListType' /\ GraphType' /\ PendType' /\ SlotsMade' /\ Wired'
      /\ PendMade' /\ OpType'
  BY DEF ListType, GraphType, PendType, SlotsMade, Wired, PendMade, OpType
<1>5. DataType'
  BY DEF DataType
<1>6. ControlType'
  BY <1>3 DEF ControlType
<1>7. StackMade'
  <2>1. Len(deps[c]) \in Nat
    BY DEF GraphType
  <2> QED BY <1>1, <1>2, <1>3, <2>1 DEF StackMade
<1>8. Placed'
  <2>1. stack # <<>> => 1 \in 1 .. Len(stack)
    BY <1>2, EmptySeq
  <2>2. pc = "sweep" => next \in Nat /\ next >= 1
    BY DEF Placed, ControlType
  <2>3. next' \in Nat /\ next' >= next
    OBVIOUS
  <2> QED BY <1>3, <2>1, <2>2, <2>3 DEF Placed
<1> QED BY <1>4, <1>5, <1>6, <1>7, <1>8

(* Leaving it. *)
LEMMA TypePop ==
  ASSUME TypeInv, InEval, ~Building, stack' = Pop,
         DataType',
         UNCHANGED <<graphVars, listVars, mu, anyDirty, pc, op, next, upto,
                     pendVars>>
  PROVE  TypeInv'
<1> USE DEF TypeInv, TypeOK, WellFormed, Pop, InEval, graphVars, listVars,
       pendVars
<1>1. stack \in Seq(FrameSet) /\ Len(stack) \in Nat \ {0}
  BY TopFacts DEF ControlType
<1>2. /\ stack' \in Seq(FrameSet) /\ Len(stack') = Len(stack) - 1
      /\ \A k \in 1 .. (Len(stack) - 1) : stack'[k] = stack[k]
  BY <1>1, Shrink
<1>3. /\ ListType' /\ GraphType' /\ PendType' /\ SlotsMade' /\ Wired'
      /\ PendMade' /\ OpType'
  BY DEF ListType, GraphType, PendType, SlotsMade, Wired, PendMade, OpType
<1>4. ControlType'
  BY <1>2 DEF ControlType
<1>5. StackMade'
  BY <1>1, <1>2 DEF StackMade, ControlType
<1>6. ASSUME pc = "build"
      PROVE  stack' # <<>> /\ stack'[1] = stack[1]
  <2>1. Len(stack) # 1
    BY <1>6, Zenon DEF Building
  <2>2. Len(stack') \in Nat \ {0} /\ 1 \in 1 .. (Len(stack) - 1)
    BY <1>1, <1>2, <2>1
  <2>3. stack' # <<>>
    BY <2>2, EmptySeq
  <2> QED BY <1>2, <2>2, <2>3
<1>8. Placed'
  BY <1>6 DEF Placed
<1> QED BY <1>3, <1>4, <1>5, <1>8

LEMMA TypeSweep ==
  ASSUME TypeInv, SweepSkip \/ SweepEval \/ SweepEnd
  PROVE  TypeInv'
<1>1. CASE SweepSkip
  <2> USE <1>1 DEF SweepSkip, InLoop, TypeInv, TypeOK, WellFormed, graphVars,
         listVars, pendVars, dataVars
  <2>1. /\ ListType' /\ GraphType' /\ DataType' /\ PendType' /\ SlotsMade'
        /\ Wired' /\ PendMade' /\ OpType'
    BY DEF ListType, GraphType, DataType, PendType, SlotsMade, Wired, PendMade,
       OpType
  <2>2. ControlType' /\ StackMade' /\ Placed'
    BY DEF ControlType, StackMade, Placed
  <2> QED BY <2>1, <2>2
<1>2. CASE SweepEval
  <2>1. /\ next \in 1 .. Len(slots) /\ slots[next] \in made
        /\ slots[next] \in Cells
    BY <1>2 DEF SweepEval, InLoop, TypeInv, TypeOK, WellFormed, ListType,
       SlotsMade, Placed, ControlType, GraphType
  <2>2. slots[next] \in Derived
    BY <1>2, <2>1 DEF SweepEval, Ready, Cells
  <2>3. pc = "sweep" /\ next' = next + 1 /\ next \in Nat
    BY <1>2, <2>1 DEF SweepEval, InLoop
  <2> QED BY <1>2, <2>1, <2>2, <2>3, TypeEnter DEF SweepEval
<1>3. CASE SweepEnd
  <2> USE <1>3 DEF SweepEnd, TypeInv, TypeOK, WellFormed, graphVars, listVars,
         pendVars, dataVars
  <2>1. /\ ListType' /\ GraphType' /\ DataType' /\ PendType' /\ SlotsMade'
        /\ Wired' /\ PendMade' /\ OpType'
    BY DEF ListType, GraphType, DataType, PendType, SlotsMade, Wired, PendMade,
       OpType
  <2>2. ControlType' /\ StackMade' /\ Placed'
    BY DEF ControlType, StackMade, Placed
  <2> QED BY <2>1, <2>2
<1> QED BY <1>1, <1>2, <1>3

LEMMA TypeEvalDep ==
  ASSUME TypeInv, EvalDep
  PROVE  TypeInv'
<1>1. Callee \in held /\ Callee \in Nodes /\ stack # <<>>
  BY TopFacts DEF EvalDep, InEval
<1>2. Callee \in Derived /\ Callee \in made
  BY <1>1 DEF EvalDep, Ready, Nodes, Derived, TypeInv, TypeOK, GraphType
<1>3. pc \in {"sweep", "build"} /\ next' \in Nat /\ next' >= next
  BY <1>1 DEF EvalDep, TypeInv, TypeOK, ControlType
<1> QED BY <1>1, <1>2, <1>3, TypeEnter DEF EvalDep

LEMMA TypeEvalArg ==
  ASSUME TypeInv, EvalArg
  PROVE  TypeInv'
<1> DEFINE c == Top.cell
           j == Top.arg
           f == [cell |-> c, arg |-> j + 1,
                 same |-> Top.same /\ cached[c][j] = val[Callee]]
           n == Len(stack)
<1>1. /\ InEval /\ ~ArgsDone
      /\ cached' = [cached EXCEPT ![c] = [@ EXCEPT ![j] = val[Callee]]]
      /\ stack' = [stack EXCEPT ![n] = f]
      /\ UNCHANGED <<graphVars, listVars, val, state, seen, mu, anyDirty,
                     pc, op, next, upto, pendVars>>
  BY DEF EvalArg
<1>2. /\ n \in Nat \ {0} /\ c \in Derived /\ c \in made
      /\ j \in 1 .. Len(deps[c]) /\ Len(deps[c]) \in Nat
      /\ Callee \in Nodes /\ Top \in FrameSet
  BY <1>1, TopFacts
<1>3. f \in FrameSet /\ f.cell = c /\ f.arg = j + 1
  <2>1. (Top.same /\ cached[c][j] = val[Callee]) \in BOOLEAN
    OBVIOUS
  <2> QED BY <1>2, <2>1 DEF FrameSet
<1>4. stack[n].cell = c
  BY DEF Top
<1>5. stack \in Seq(FrameSet) /\ n \in 1 .. Len(stack)
  BY <1>2 DEF TypeInv, TypeOK, ControlType
<1>6. DataType'
  <2>1. /\ cached[c] \in Seq(Values) /\ Len(cached[c]) = Len(deps[c])
        /\ val[Callee] \in Values
    BY <1>2 DEF TypeInv, TypeOK, DataType
  <2>2. /\ [cached[c] EXCEPT ![j] = val[Callee]] \in Seq(Values)
        /\ Len([cached[c] EXCEPT ![j] = val[Callee]]) = Len(deps[c])
    BY <1>2, <2>1, ExceptSeq
  <2>3. cached' = [cached EXCEPT ![c] = [cached[c] EXCEPT ![j] = val[Callee]]]
    BY <1>1
  <2> HIDE DEF c, j
  <2> QED BY <1>1, <1>2, <2>2, <2>3 DEF TypeInv, TypeOK, DataType, graphVars
<1> HIDE DEF f, c, j
<1>7. /\ stack' \in Seq(FrameSet) /\ Len(stack') = Len(stack)
      /\ \A k \in 1 .. Len(stack) : stack'[k] = IF k = n THEN f ELSE stack[k]
  BY <1>1, <1>3, <1>5, ExceptSeq
<1> HIDE DEF n
<1>8. \A k \in 1 .. Len(stack) : stack'[k].cell = stack[k].cell
  BY <1>3, <1>4, <1>7
<1>9. stack' # <<>>
  BY <1>5, <1>7
<1> USE DEF TypeInv, TypeOK, WellFormed, graphVars, listVars, pendVars
<1>10. /\ ListType' /\ GraphType' /\ PendType' /\ SlotsMade' /\ Wired'
       /\ PendMade' /\ OpType'
  BY <1>1 DEF ListType, GraphType, PendType, SlotsMade, Wired, PendMade, OpType
<1>11. ControlType'
  BY <1>1, <1>7, <1>9 DEF ControlType, InEval
<1>13. StackMade'
  <2>1. ASSUME NEW k \in 1 .. Len(stack)
        PROVE  /\ stack'[k].cell \in made
               /\ stack'[k].arg <= Len(deps[stack'[k].cell]) + 1
    <3>1. CASE k = n
      BY <1>2, <1>3, <1>7, <3>1
    <3>2. CASE k # n
      BY <1>7, <3>2 DEF StackMade
    <3> QED BY <3>1, <3>2
  <2> QED BY <1>1, <1>7, <2>1 DEF StackMade
<1>12. Placed'
  <2>1. 1 \in 1 .. Len(stack)
    BY <1>5
  <2> QED BY <1>1, <1>8, <1>9, <2>1 DEF Placed
<1> QED BY <1>6, <1>10, <1>11, <1>12, <1>13

LEMMA TypeEvalReturn ==
  ASSUME TypeInv, EvalKeep \/ EvalGet \/ EvalRun
  PROVE  TypeInv'
<1>1. InEval /\ ~Building /\ stack' = Pop
      /\ UNCHANGED <<graphVars, listVars, mu, anyDirty, pc, op, next, upto,
                     pendVars>>
  BY DEF EvalKeep, EvalGet, EvalRun, Calling
<1>2. Top.cell \in made /\ Top.cell \in Derived
  BY <1>1, TopFacts
<1>3. DataType
  BY DEF TypeInv, TypeOK
<1>4. CASE EvalKeep
  <2>1. DataType'
    BY <1>1, <1>2, <1>3, <1>4 DEF EvalKeep, DataType, graphVars
  <2> QED BY <1>1, <2>1, TypePop
<1>5. CASE EvalGet
  <2>1. Top.cell \in Computeds /\ Top.cell \in Nodes
    BY <1>5 DEF EvalGet, Nodes
  <2>2. Apply(fn[Top.cell], cached[Top.cell]) \in Values
    BY <1>2, <2>1, ApplyType DEF TypeInv
  <2>3. DataType'
    BY <1>1, <1>2, <1>3, <1>5, <2>1, <2>2 DEF EvalGet, DataType, graphVars
  <2> QED BY <1>1, <2>3, TypePop
<1>6. CASE EvalRun
  <2>1. DataType'
    BY <1>1, <1>2, <1>3, <1>6 DEF EvalRun, DataType, graphVars
  <2> QED BY <1>1, <2>1, TypePop
<1> QED BY <1>4, <1>5, <1>6

LEMMA TypeBuildEnd ==
  ASSUME TypeInv, BuildEnd
  PROVE  TypeInv'
<1> DEFINE c == Top.cell
<1>1. /\ InEval /\ pc = "build" /\ Len(stack) = 1
      /\ val' = [val EXCEPT ![c] = Apply(fn[c], cached[c])]
      /\ seen' = [seen EXCEPT ![c] = cached[c]]
      /\ AppendAt(len, c) /\ pc' = "done" /\ stack' = <<>>
      /\ UNCHANGED <<graphVars, cached, state, mu, anyDirty, op, next, upto,
                     pendVars>>
  BY DEF BuildEnd, Calling, Building
<1>2. /\ c \in Computeds /\ c \in made /\ c \in Derived /\ c \in Cells
      /\ c \in Nodes
  BY <1>1, TopFacts DEF TypeInv, WellFormed, Placed, Top, Derived, Cells, Nodes
<1>3. Apply(fn[c], cached[c]) \in Values
  BY <1>2, ApplyType DEF TypeInv
<1> HIDE DEF c
<1>4. /\ slots' \in Seq(Cells) /\ len' \in 0 .. Len(slots')
      /\ Len(slots') >= Len(slots)
      /\ enrolled' = enrolled \cup {c}
      /\ SlotsMade'
  BY <1>1, <1>2, AppendType DEF TypeInv, TypeOK, ListType, graphVars
<1> USE DEF TypeInv, TypeOK, WellFormed, graphVars, pendVars
<1>5. DataType'
  BY <1>1, <1>2, <1>3 DEF DataType
<1>6. ListType' /\ GraphType' /\ PendType' /\ Wired' /\ PendMade' /\ OpType'
  BY <1>1, <1>2, <1>4 DEF ListType, GraphType, PendType, Wired, PendMade, OpType
<1>7. ControlType' /\ StackMade' /\ Placed'
  BY <1>1, EmptySeq DEF ControlType, StackMade, Placed
<1> QED BY <1>4, <1>5, <1>6, <1>7

(* Every step of the machine keeps the types. *)
LEMMA TypeStep ==
  ASSUME TypeInv, Step
  PROVE  TypeInv'
<1>1. CASE RemoveOverrun \/ CallbackPanic \/ CircularPanic
  <2>1. /\ Unlock
        /\ UNCHANGED <<graphVars, listVars, dataVars, anyDirty, pendVars>>
    BY <1>1 DEF RemoveOverrun, CallbackPanic, CircularPanic
  <2>2. held' \in SUBSET made /\ held \subseteq held'
    BY <2>1 DEF graphVars, TypeInv, TypeOK, GraphType
  <2> QED BY <2>1, <2>2, TypeUnlock DEF graphVars
<1>2. CASE Return
  <2>1. held' \in SUBSET made /\ held \subseteq held'
    BY <1>2 DEF Return, TypeInv, TypeOK, WellFormed, GraphType, Placed
  <2> QED BY <1>2, <2>1, TypeUnlock DEF Return
<1> QED BY <1>1, <1>2, TypeRemoveOne, TypeRemoveCut, TypeMark, TypeSweep,
           TypeEvalDep, TypeEvalArg, TypeEvalReturn, TypeBuildEnd DEF Step

LEMMA TypeNext == TypeInv /\ [Next]_vars => TypeInv'
<1> SUFFICES ASSUME TypeInv, [Next]_vars PROVE TypeInv'
  OBVIOUS
<1>1. CASE UNCHANGED vars
  <2> USE <1>1 DEF vars, graphVars, listVars, dataVars, ctrlVars, pendVars,
         TypeInv, TypeOK, WellFormed
  <2>1. /\ ListType' /\ GraphType' /\ DataType' /\ PendType' /\ SlotsMade'
        /\ Wired' /\ PendMade' /\ OpType'
    BY DEF ListType, GraphType, DataType, PendType, SlotsMade, Wired, PendMade,
       OpType
  <2>2. ControlType' /\ StackMade' /\ Placed'
    BY DEF ControlType, StackMade, Placed
  <2> QED BY <2>1, <2>2
<1>2. CASE Step
  BY <1>2, TypeStep
<1>3. ASSUME NEW g \in Goroutines, Call(g) PROVE TypeInv'
  <2>1. ASSUME NEW s \in Signals, NEW v \in Values, SignalRead(g, s,
            v) \/ SetValue(g, s, v)
        PROVE TypeInv'
    BY <2>1, TypeSignalRead, TypeSetValue
  <2>2. ASSUME NEW c \in Nodes, Value(g, c) PROVE TypeInv'
    BY <2>2, TypeValue
  <2>3. ASSUME NEW c \in Computeds, NEW ds \in Wirings, NEW f \in Getters,
            Computed(g, c, ds, f)
        PROVE TypeInv'
    BY <2>3, TypeComputed
  <2>4. ASSUME NEW e \in Effects, NEW ds \in Wirings, Effect(g, e, ds)
        PROVE TypeInv'
    BY <2>4, TypeEffect
  <2>5. ASSUME NEW cs \in UNION {[1 .. k -> Cells] : k \in 1 .. MaxRemove},
            Remove(g, cs)
        PROVE TypeInv'
    BY <2>5, TypeRemove, DataAssumption DEF DataAssumption
  <2>6. CASE Reset(g)
    BY <2>6, TypeReset
  <2> QED BY <1>3, <2>1, <2>2, <2>3, <2>4, <2>5, <2>6 DEF Call
<1>4. ASSUME NEW g \in Goroutines, SignalWrite(g) PROVE TypeInv'
  BY <1>4, TypeSignalWrite
<1> QED BY <1>1, <1>2, <1>3, <1>4 DEF Next

(* The variables keep their types and the machine only reaches allocated   *)
(* cells, whatever races, panics and removals occur.                       *)
THEOREM TypeCorrect == Spec => []TypeOK
<1>1. Init => TypeInv
  BY TypeInit
<1>2. TypeInv /\ [Next]_vars => TypeInv'
  BY TypeNext
<1>3. TypeInv => TypeOK
  BY DEF TypeInv
<1> QED BY <1>1, <1>2, <1>3, PTL DEF Spec
-----------------------------------------------------------------------------
(* The consistency of the values, when calls of Signal() do not overlap    *)
(* with others.                                                            *)

(* And when no callback panics. *)
Disciplined == SignalOverlaps = FALSE /\ Faulty = {}

(* The cells were made in some order that the dependencies follow, what is *)
(* not made depends on nothing, and the stack goes down that order.        *)
RankedGraph(rank, n) ==
  /\ \A c \in made : rank[c] < n
  /\ \A c \in Derived \ made : deps[c] = <<>>
  /\ \A c \in made \cap Derived : \A j \in 1 .. Len(deps[c]) :
       rank[deps[c][j]] < rank[c]

RankedStack(rank) ==
  \A i, k \in 1 .. Len(stack) :
    i < k => rank[stack[k].cell] < rank[stack[i].cell]

Ordered ==
  \E rank \in [Cells -> Nat], n \in Nat :
    RankedGraph(rank, n) /\ RankedStack(rank)

SInv == TypeOK /\ Consistent /\ Ordered

LEMMA SInvType == SInv => TypeInv
  BY DEF SInv, TypeInv, Consistent

(* Within(cs) is the largest closed part of cs. *)
LEMMA LargestPart ==
  ASSUME NEW cs, NEW ds, NEW W,
         W = UNION {w \in SUBSET cs :
                      \A c \in w \ Signals : \A j \in DOMAIN ds[c] : ds[c][j] \in w}
  PROVE  /\ W \subseteq cs
         /\ \A c \in W \ Signals : \A j \in DOMAIN ds[c] : ds[c][j] \in W
         /\ \A w \in SUBSET cs :
              (\A c \in w \ Signals : \A j \in DOMAIN ds[c] : ds[c][j] \in w) =>
                w \subseteq W
<1>1. ASSUME NEW c \in W \ Signals, NEW j \in DOMAIN ds[c]
      PROVE  ds[c][j] \in W
  <2>1. PICK w \in SUBSET cs :
          /\ c \in w
          /\ \A d \in w \ Signals : \A i \in DOMAIN ds[d] : ds[d][i] \in w
    BY <1>1
  <2>2. ds[c][j] \in w
    BY <1>1, <2>1
  <2> QED BY <2>1, <2>2
<1> QED BY <1>1

(* What does not depend on a cell whose callback may panic: neither do its *)
(* dependencies, and if none may panic, that is every cell.                *)
LEMMA UntaintedClosed ==
  /\ Untainted \subseteq Cells \ Faulty
  /\ \A c \in Untainted \ Signals : \A j \in DOMAIN deps[c] :
       deps[c][j] \in Untainted
  /\ \A cs \in SUBSET (Cells \ Faulty) : Closed(cs) => cs \subseteq Untainted
BY LargestPart DEF Untainted, Within, Closed

LEMMA NothingTainted ==
  ASSUME TypeOK, Faulty = {}
  PROVE  Cells \subseteq Untainted
<1>1. Closed(Cells)
  <2>1. \A c \in Cells \ Signals : c \in Derived
    BY DEF Cells
  <2> QED BY <2>1 DEF Closed, TypeOK, GraphType, Cells, Nodes, Derived
<1> QED BY <1>1, UntaintedClosed

LEMMA SameTaint ==
  ASSUME deps' = deps
  PROVE  Untainted' = Untainted
BY DEF Untainted, Within, Closed

(* Wiring a new cell may taint that cell only. *)
LEMMA TaintAllocate ==
  ASSUME SInv, NEW c \in Derived \ made,
         \A d \in Derived : d # c => deps'[d] = deps[d]
  PROVE  Untainted' \subseteq Untainted
<1>1. deps[c] = <<>>
  BY DEF SInv, Ordered, RankedGraph
<1>2. PICK cs : cs = Untainted'
  OBVIOUS
<1>3. /\ cs \subseteq Cells \ Faulty
      /\ \A d \in cs \ Signals : \A j \in DOMAIN deps'[d] : deps'[d][j] \in cs
  BY <1>2, LargestPart DEF Untainted, Within, Closed
<1>4. Closed(cs)
  <2>1. \A d \in cs \ Signals : d \in Derived
    BY <1>3 DEF Cells
  <2> QED BY <1>1, <1>3, <2>1, EmptySeq DEF Closed
<1> QED BY <1>2, <1>3, <1>4, UntaintedClosed

(* Allocating a cell: it comes after all others. *)
LEMMA OrderedAllocate ==
  ASSUME SInv, TypeInv', NEW c \in Cells \ made, made' = made \cup {c},
         \A d \in Derived : d # c => deps'[d] = deps[d],
         c \in Derived => \A j \in 1 .. Len(deps'[c]) : deps'[c][j] \in held,
         Len(stack') <= 1
  PROVE  Ordered'
<1>1. PICK rank \in [Cells -> Nat], n \in Nat : RankedGraph(rank, n)
  BY DEF SInv, Ordered
<1> DEFINE r == [rank EXCEPT ![c] = n]
<1>2. r \in [Cells -> Nat] /\ n + 1 \in Nat
  OBVIOUS
<1>3. \A d \in made : d \in Cells /\ d # c /\ r[d] = rank[d] /\ rank[d] \in Nat /\ rank[d] < n
  BY <1>1 DEF SInv, TypeOK, GraphType, RankedGraph
<1>4. r[c] = n
  OBVIOUS
<1> HIDE DEF r
<1>5. \A d \in made' : r[d] < n + 1
  BY <1>3, <1>4
<1>6. held \subseteq made
  BY DEF SInv, TypeOK, GraphType
<1>7. ASSUME NEW d \in made' \cap Derived, NEW j \in 1 .. Len(deps'[d])
      PROVE  r[deps'[d][j]] < r[d]
  <2>1. CASE d = c
    BY <1>3, <1>4, <1>6, <2>1
  <2>2. CASE d # c
    <3>1. deps'[d] = deps[d] /\ d \in made
      BY <2>2
    <3>2. deps[d][j] \in made
      BY <3>1, <1>6 DEF SInv, Consistent, WellFormed, Wired
    <3>3. rank[deps[d][j]] < rank[d]
      BY <1>1, <3>1 DEF RankedGraph
    <3> QED BY <1>3, <3>1, <3>2, <3>3
  <2> QED BY <2>1, <2>2
<1>8. (RankedGraph(r, n + 1))'
  BY <1>1, <1>5, <1>7 DEF RankedGraph
<1>9. Len(stack') \in Nat
  BY DEF TypeInv, TypeOK, ControlType
<1>10. (RankedStack(r))'
  BY <1>9 DEF RankedStack
<1> QED BY <1>2, <1>8, <1>10 DEF Ordered

(* Any other step between two operations. *)
LEMMA OrderedIdle ==
  ASSUME SInv, made' = made, deps' = deps, stack' = <<>>
  PROVE  Ordered'
<1>1. PICK rank \in [Cells -> Nat], n \in Nat : RankedGraph(rank, n)
  BY DEF SInv, Ordered
<1>2. (RankedGraph(rank, n))' /\ (RankedStack(rank))'
  BY <1>1 DEF RankedGraph, RankedStack
<1> QED BY <1>2 DEF Ordered

(* A frame is for a cell further down than all frames below it.            *)
LEMMA StackDistinct ==
  ASSUME SInv, NEW i \in 1 .. Len(stack), NEW k \in 1 .. Len(stack), i # k
  PROVE  stack[i].cell # stack[k].cell
<1>1. PICK rank \in [Cells -> Nat], n \in Nat : RankedStack(rank)
  BY DEF SInv, Ordered
<1>2. stack \in Seq(FrameSet) /\ Len(stack) \in Nat
  BY DEF SInv, TypeOK, ControlType
<1>3. \A m \in 1 .. Len(stack) : stack[m].cell \in Cells
  <2>1. \A m \in 1 .. Len(stack) : stack[m] \in FrameSet
    BY <1>2
  <2> QED BY <2>1 DEF FrameSet, Cells
<1>4. \A m \in 1 .. Len(stack) : rank[stack[m].cell] \in Nat
  BY <1>3
<1> QED BY <1>1, <1>2, <1>4 DEF RankedStack

(* eval() meets a cell in state computing only where a panic has left it.  *)
LEMMA LeftComputing ==
  ASSUME SInv, InEval, ~ArgsDone, ~Ready(Callee), state[Callee] = "computing"
  PROVE  Callee \notin Untainted
<1> SUFFICES ASSUME Callee \in Untainted PROVE FALSE
  OBVIOUS
<1>1. PICK rank \in [Cells -> Nat], n \in Nat :
        RankedGraph(rank, n) /\ RankedStack(rank)
  BY DEF SInv, Ordered
<1>2. /\ Len(stack) \in Nat \ {0} /\ Top = stack[Len(stack)]
      /\ Top.cell \in made /\ Top.cell \in Derived
      /\ Top.arg \in 1 .. Len(deps[Top.cell]) /\ Callee \in Nodes
  BY TopFacts, SInvType
<1>3. Callee \in Derived /\ Callee \in Cells /\ Top.cell \in Cells
  BY <1>2 DEF Ready, Nodes, Derived, Cells
<1>4. PICK k \in 1 .. Len(stack) : stack[k].cell = Callee
  BY <1>3 DEF SInv, Consistent, Computing, OnStack
<1>5. rank[Callee] < rank[Top.cell]
  BY <1>1, <1>2 DEF RankedGraph, Callee
<1>6. rank[Callee] \in Nat /\ rank[Top.cell] \in Nat
  BY <1>3
<1>7. CASE k = Len(stack)
  BY <1>2, <1>4, <1>5, <1>6, <1>7
<1>8. CASE k < Len(stack)
  <2>1. rank[stack[Len(stack)].cell] < rank[stack[k].cell]
    BY <1>1, <1>2, <1>8 DEF RankedStack
  <2> QED BY <2>1, <1>2, <1>4, <1>5, <1>6
<1> QED BY <1>2, <1>7, <1>8

(* The panic "circular dependency" is unreachable if no callback panics.   *)
LEMMA NoCircular ==
  ASSUME SInv, Faulty = {}
  PROVE  ~CircularCall
<1> SUFFICES ASSUME CircularCall PROVE FALSE
  OBVIOUS
<1>1. Cells \subseteq Untainted
  BY NothingTainted DEF SInv
<1>2. CASE InEval /\ ~ArgsDone /\ ~Ready(Callee) /\ state[Callee] = "computing"
  <2>1. Callee \in Cells
    BY <1>2, TopFacts, SInvType DEF Cells, Nodes, Derived
  <2> QED BY <1>1, <1>2, <2>1, LeftComputing
<1>3. CASE InLoop /\ ~Ready(slots[next]) /\ state[slots[next]] = "computing"
  <2>1. next \in 1 .. Len(slots) /\ slots[next] \in Cells
    BY <1>3 DEF InLoop, SInv, TypeOK, Consistent, WellFormed, ListType, Placed,
       ControlType
  <2>2. slots[next] \in Derived
    BY <1>3, <2>1 DEF Ready, Cells
  <2>3. OnStack(slots[next]) /\ stack = <<>>
    BY <1>1, <1>3, <2>1, <2>2 DEF SInv, Consistent, Computing, InLoop
  <2> QED BY <2>3, EmptySeq DEF OnStack
<1> QED BY <1>2, <1>3 DEF CircularCall

(* When a callback panics, or eval() meets what a panic has left, all that *)
(* is on the stack depends on a callback that may panic.                   *)
LEMMA StackTainted ==
  ASSUME SInv, InEval, Top.cell \notin Untainted
  PROVE  \A k \in 1 .. Len(stack) : stack[k].cell \notin Untainted
<1> DEFINE n == Len(stack)
           T == {i \in Nat : i < n => stack[n - i].cell \notin Untainted}
<1>1. n \in Nat \ {0} /\ Top = stack[n]
  BY TopFacts, SInvType
<1>2. 0 \in T
  BY <1>1
<1>3. ASSUME NEW i \in Nat, i \in T PROVE i + 1 \in T
  <2> SUFFICES ASSUME i + 1 < n PROVE stack[n - (i + 1)].cell \notin Untainted
    OBVIOUS
  <2> HIDE DEF n
  <2>a. n - (i + 1) \in 1 .. (n - 1) /\ (n - (i + 1)) + 1 = n - i
    BY <1>1
  <2>1. PICK k \in 1 .. (n - 1) : k = n - (i + 1) /\ k + 1 = n - i
    BY <2>a
  <2> USE DEF n
  <2>2. stack[k + 1].cell \notin Untainted
    BY <1>1, <1>3, <2>1
  <2>3. k \in 1 .. n /\ k < n
    BY <1>1
  <2>4. /\ stack[k].cell \in Derived /\ stack[k].arg \in Nat \ {0}
        /\ stack[k].arg <= Len(deps[stack[k].cell])
        /\ deps[stack[k].cell][stack[k].arg] = stack[k + 1].cell
    <3>1. stack[k] \in FrameSet
      BY <2>3 DEF SInv, TypeOK, ControlType
    <3> QED BY <2>3, <3>1 DEF SInv, Consistent, Frames, FrameSet
  <2>5. /\ DOMAIN deps[stack[k].cell] = 1 .. Len(deps[stack[k].cell])
        /\ Len(deps[stack[k].cell]) \in Nat /\ stack[k].cell \notin Signals
    BY <2>4, KindsAssumption
    DEF SInv, TypeOK, GraphType, KindsAssumption, Derived, Nodes
  <2> QED BY SMTT(30), <2>1, <2>2, <2>4, <2>5, UntaintedClosed
<1>4. Nat \subseteq T
  <2> HIDE DEF T
  <2> QED BY <1>2, <1>3, Count
<1> SUFFICES ASSUME NEW k \in 1 .. n PROVE stack[k].cell \notin Untainted
  OBVIOUS
<1>5. n - k \in Nat /\ n - k < n /\ n - (n - k) = k
  BY <1>1
<1> QED BY <1>4, <1>5

(* The parts of the invariant that TypeInv does not hold. *)
Parts ==
  /\ AppendsAlone /\ CleanAgree /\ Frames /\ BuilderApart
  /\ Computing /\ Memoised /\ Swept

LEMMA SInvParts == SInv <=> TypeInv /\ Parts /\ Ordered
  BY DEF SInv, TypeInv, Consistent, Parts

(* Between two operations no eval() is active. *)
LEMMA IdleStack ==
  ASSUME SInv, pc \notin {"sweep", "build"}
  PROVE  /\ stack = <<>> /\ Len(stack) = 0
         /\ \A c \in Derived \cap Untainted : state[c] # "computing"
<1>1. stack = <<>>
  BY DEF SInv, TypeOK, ControlType
<1>2. Len(stack) = 0
  BY <1>1, EmptySeq
<1> QED BY <1>1, <1>2 DEF SInv, Consistent, Computing, OnStack

(* Registered cells are allocated, and their dependencies are held. *)
LEMMA RegisteredMade ==
  ASSUME SInv
  PROVE  /\ Registered \subseteq made
         /\ held \subseteq made
         /\ \A c \in Registered \ Signals : c \in Derived
         /\ \A c \in made \cap Derived : \A j \in 1 .. Len(deps[c]) : deps[c][j] \in held
         /\ \A c \in made \cap Derived : \A j \in 1 .. Len(deps[c]) : deps[c][j] \in Nodes
<1>1. Registered \subseteq made
  BY DEF Registered, SInv, TypeOK, ListType, Consistent, WellFormed, SlotsMade
<1>2. held \subseteq made /\ made \subseteq Cells
  BY DEF SInv, TypeOK, GraphType
<1>3. \A c \in made \cap Derived : \A j \in 1 .. Len(deps[c]) : deps[c][j] \in held
  BY DEF SInv, Consistent, WellFormed, Wired
<1>4. \A c \in made \cap Derived : \A j \in 1 .. Len(deps[c]) : deps[c][j] \in Nodes
  BY DEF SInv, TypeOK, GraphType
<1> QED BY <1>1, <1>2, <1>3, <1>4 DEF Cells

LEMMA SafeInit == Init => SInv
<1> SUFFICES ASSUME Init PROVE SInv
  OBVIOUS
<1>1. TypeInv
  BY TypeInit
<1>2. /\ made = {} /\ len = 0 /\ stack = <<>> /\ Len(stack) = 0 /\ pc = "idle"
      /\ Registered = {} /\ op = NoOp /\ mu = None
      /\ \A c \in Derived : state[c] = "clean"
      /\ \A g \in Goroutines : pendCell[g] = None
      /\ \A c \in Derived : deps[c] = <<>>
  BY EmptySeq DEF Init, Registered
<1>3. AppendsAlone /\ CleanAgree /\ Frames /\ BuilderApart
  BY <1>2 DEF AppendsAlone, CleanAgree, Frames, BuilderApart
<1>4. Computing /\ Memoised /\ Swept
  BY <1>2 DEF Computing, Memoised, Swept, NoOp
<1>5. [c \in Cells |-> 0] \in [Cells -> Nat] /\ 0 \in Nat
  OBVIOUS
<1>6. RankedGraph([c \in Cells |-> 0], 0) /\ RankedStack([c \in Cells |-> 0])
  BY <1>2 DEF RankedGraph, RankedStack
<1>7. Ordered
  BY <1>5, <1>6 DEF Ordered
<1> QED BY <1>1, <1>3, <1>4, <1>7, SInvParts DEF Parts

LEMMA SafeSignalRead ==
  ASSUME SignalOverlaps = FALSE, SInv, TypeInv', NEW g \in Goroutines, NEW s \in Signals,
         NEW v \in Values, SignalRead(g, s, v)
  PROVE  SInv'
<1>1. /\ mu = None /\ NoPending /\ s \notin made /\ made' = made \cup {s}
      /\ val' = [val EXCEPT ![s] = v]
      /\ pendCell' = [pendCell EXCEPT ![g] = s]
      /\ pendLen' = [pendLen EXCEPT ![g] = len]
      /\ UNCHANGED <<held, deps, fn, listVars, cached, state, seen, ctrlVars>>
  BY DEF SignalRead
<1>2. pc = "idle"
  BY <1>1 DEF SInv, TypeOK, ControlType
<1>3. stack = <<>> /\ Len(stack) = 0
  BY <1>2, IdleStack
<1>4. \A c \in Nodes : c # s => val'[c] = val[c]
  BY <1>1 DEF SInv, TypeOK, DataType
<1>5. Registered' = Registered
  BY <1>1 DEF Registered, listVars
<1> USE DEF SInv, Consistent, listVars, ctrlVars
<1>6. AppendsAlone'
  BY <1>1 DEF AppendsAlone, NoPending, TypeOK, PendType
<1>7. CleanAgree'
  <2> SUFFICES ASSUME NEW c \in Registered \ Signals, state[c] = "clean"
               PROVE  Agrees(c)'
    BY <1>1, <1>5 DEF CleanAgree
  <2>1. Agrees(c)
    BY <1>2 DEF CleanAgree
  <2> QED BY <2>1, <1>1, <1>4, RegisteredMade DEF Agrees, Ready
<1>8. Frames' /\ BuilderApart' /\ Computing'
  BY <1>1, <1>2, <1>3, SameTaint DEF Frames, BuilderApart, Computing, OnStack
<1>9. Memoised'
  <2>1. s \notin Computeds /\ Computeds \subseteq Nodes
    BY KindsAssumption DEF KindsAssumption, Nodes
  <2> QED BY <2>1, <1>1, <1>3, <1>4, SameTaint DEF Memoised
<1>10. Swept'
  BY <1>1, <1>2, <1>5 DEF Swept, NoOp
<1>11. Ordered'
  <2>1. s \in Cells \ made /\ s \notin Derived
    BY <1>1, KindsAssumption DEF KindsAssumption, Cells, Derived, Nodes
  <2> QED BY <1>1, <1>3, <2>1, OrderedAllocate
<1> QED BY <1>6, <1>7, <1>8, <1>9, <1>10, <1>11 DEF TypeInv

(* An append at the end registers one more cell.                           *)
LEMMA AppendRegisters ==
  ASSUME SInv, NEW c \in Cells, c \in made', made \subseteq made',
         AppendAt(len, c)
  PROVE  /\ Registered' = Registered \cup {c}
         /\ len' = len + 1 /\ slots'[len + 1] = c
         /\ \A k \in 1 .. len : slots'[k] = slots[k]
<1>1. len \in 0 .. Len(slots) /\ len \in Nat
  BY DEF SInv, TypeOK, ListType
<1>2. /\ len' = len + 1 /\ slots'[len + 1] = c
      /\ \A k \in 1 .. len : slots'[k] = slots[k]
  BY <1>1, AppendType, SInvType
<1> QED BY <1>1, <1>2 DEF Registered

LEMMA SafeSignalWrite ==
  ASSUME SignalOverlaps = FALSE, SInv, TypeInv', NEW g \in Goroutines, SignalWrite(g)
  PROVE  SInv'
<1>1. /\ pendCell[g] # None
      /\ AppendAt(pendLen[g], pendCell[g])
      /\ held' = held \cup {pendCell[g]}
      /\ pendCell' = [pendCell EXCEPT ![g] = None]
      /\ UNCHANGED <<made, deps, fn, dataVars, ctrlVars>>
  BY DEF SignalWrite
<1>2. /\ mu = None /\ pendLen[g] = len /\ pendCell[g] \in Signals \cap made
      /\ \A h \in Goroutines : pendCell[h] # None => h = g
  BY <1>1 DEF SInv, Consistent, AppendsAlone, TypeOK, PendType, WellFormed,
     PendMade
<1>3. pc = "idle"
  BY <1>2 DEF SInv, TypeOK, ControlType
<1>4. stack = <<>> /\ Len(stack) = 0
  BY <1>3, IdleStack
<1>5. Registered' = Registered \cup {pendCell[g]}
  BY <1>1, <1>2, AppendRegisters DEF Cells
<1>6. TypeInv /\ Parts
  BY SInvParts
<1> USE DEF Parts, dataVars, ctrlVars
<1>7. AppendsAlone'
  BY <1>1, <1>2, <1>6 DEF AppendsAlone, TypeInv, TypeOK, PendType
<1>8. CleanAgree'
  BY <1>1, <1>2, <1>3, <1>5, <1>6 DEF CleanAgree, Agrees, Ready
<1>9. Frames' /\ BuilderApart' /\ Computing' /\ Memoised'
  BY <1>1, <1>3, <1>4, <1>6, SameTaint DEF Frames, BuilderApart, Computing, OnStack,
     Memoised
<1>10. Swept'
  BY <1>1, <1>2, <1>3, <1>5, <1>6 DEF Swept
<1>11. Ordered'
  BY <1>1, <1>4, OrderedIdle
<1> QED BY <1>7, <1>8, <1>9, <1>10, <1>11 DEF SInv, TypeInv, Consistent

(* What taking the mutex gives: the machine was idle, no append is under   *)
(* way.                                                                    *)
LEMMA LockFacts ==
  ASSUME SignalOverlaps = FALSE, SInv, NEW g \in Goroutines, NEW name, NEW c, NEW rest,
         Lock(g, name, c, rest)
  PROVE  /\ mu = None /\ mu' = g /\ mu' # None /\ NoPending /\ pc = "idle"
         /\ stack = <<>> /\ Len(stack) = 0
         /\ \A d \in Derived \cap Untainted : state[d] # "computing"
         /\ op'.name = name /\ op'.cell = c
<1>1. /\ mu = None /\ mu' = g /\ NoPending
      /\ op' = [name |-> name, cell |-> c, rest |-> rest, dropped |-> 0]
  BY DEF Lock
<1>2. pc = "idle"
  BY <1>1 DEF SInv, TypeOK, ControlType
<1>3. mu' # None
  BY <1>1, KindsAssumption DEF KindsAssumption
<1> QED BY <1>1, <1>2, <1>3, IdleStack

LEMMA SafeValue ==
  ASSUME SignalOverlaps = FALSE, SInv, TypeInv', NEW g \in Goroutines, NEW c \in Nodes,
         Value(g, c)
  PROVE  SInv'
<1>1. /\ mu = None /\ mu' # None /\ NoPending /\ pc = "idle"
      /\ stack = <<>> /\ Len(stack) = 0
      /\ \A d \in Derived \cap Untainted : state[d] # "computing"
      /\ op'.name = "Value"
  BY LockFacts DEF Value
<1>2. /\ pc' = IF anyDirty THEN "mark" ELSE "done"
      /\ UNCHANGED <<graphVars, listVars, val, cached, state, seen, anyDirty,
                     next, upto, stack, pendVars>>
  BY DEF Value
<1>3. TypeInv /\ Parts /\ Registered' = Registered
  BY <1>2, SInvParts DEF Registered, listVars
<1> USE DEF Parts, graphVars, listVars, pendVars
<1>4. AppendsAlone'
  BY <1>1, <1>2 DEF AppendsAlone, NoPending
<1>5. CleanAgree'
  BY <1>1, <1>2, <1>3 DEF CleanAgree, Agrees, Ready
<1>6. Frames' /\ BuilderApart' /\ Computing' /\ Memoised'
  BY <1>1, <1>2, <1>3, SameTaint DEF Frames, BuilderApart, Computing, OnStack, Memoised
<1>7. Swept'
  BY <1>1, <1>2, <1>3 DEF Swept, Ready
<1>8. Ordered'
  BY <1>1, <1>2, OrderedIdle
<1> QED BY <1>4, <1>5, <1>6, <1>7, <1>8 DEF SInv, TypeInv, Consistent

LEMMA SafeSetValue ==
  ASSUME SignalOverlaps = FALSE, SInv, TypeInv', NEW g \in Goroutines, NEW s \in Signals,
         NEW v \in Values, SetValue(g, s, v)
  PROVE  SInv'
<1>1. /\ mu = None /\ mu' # None /\ NoPending /\ pc = "idle"
      /\ stack = <<>> /\ Len(stack) = 0
      /\ \A d \in Derived \cap Untainted : state[d] # "computing"
      /\ op'.name = "SetValue"
  BY LockFacts DEF SetValue
<1>2. /\ anyDirty' = TRUE /\ val' = [val EXCEPT ![s] = v] /\ pc' = "mark"
      /\ UNCHANGED <<graphVars, listVars, cached, state, seen, next, upto,
          stack,
                     pendVars>>
  BY DEF SetValue
<1>3. TypeInv /\ Parts
  BY SInvParts
<1> USE DEF Parts, graphVars, listVars, pendVars
<1>4. AppendsAlone'
  BY <1>1, <1>2 DEF AppendsAlone, NoPending
<1>5. CleanAgree' /\ Frames' /\ BuilderApart' /\ Computing'
  BY <1>1, <1>2, <1>3, SameTaint DEF CleanAgree, Frames, BuilderApart, Computing, OnStack
<1>6. Memoised'
  <2>1. s \notin Computeds /\ Computeds \subseteq Nodes
    BY KindsAssumption DEF KindsAssumption, Nodes
  <2>2. \A c \in Computeds : val'[c] = val[c]
    BY <1>2, <1>3, <2>1 DEF TypeInv, TypeOK, DataType
  <2> QED BY <1>1, <1>2, <1>3, <2>2, SameTaint DEF Memoised
<1>7. Swept'
  BY <1>1, <1>2 DEF Swept
<1>8. Ordered'
  BY <1>1, <1>2, OrderedIdle
<1> QED BY <1>4, <1>5, <1>6, <1>7, <1>8 DEF SInv, TypeInv, Consistent

LEMMA SafeComputed ==
  ASSUME SignalOverlaps = FALSE, SInv, TypeInv', NEW g \in Goroutines, NEW c \in Computeds,
         NEW ds \in Wirings, NEW f \in Getters, Computed(g, c, ds, f)
  PROVE  SInv'
<1>0. c \in Derived /\ c \in Cells /\ c \in Nodes
  BY DEF Derived, Cells, Nodes
<1>1. /\ mu = None /\ mu' # None /\ NoPending /\ pc = "idle"
      /\ stack = <<>> /\ Len(stack) = 0
      /\ \A d \in Derived \cap Untainted : state[d] # "computing"
      /\ op'.name = "Computed" /\ op'.cell = c
  BY LockFacts DEF Computed
<1>2. /\ Allocate(c, ds)
      /\ fn' = [fn EXCEPT ![c] = f] /\ pc' = "build" /\ stack' = <<Frame(c)>>
      /\ UNCHANGED <<held, listVars, val, seen, next, upto, pendVars>>
  BY DEF Computed
<1>3. TypeInv /\ Parts /\ Registered' = Registered
  BY <1>2, SInvParts DEF Registered, listVars
<1>4. /\ c \notin made /\ made' = made \cup {c} /\ anyDirty'
      /\ deps'[c] = ds /\ state'[c] = "dirty"
      /\ \A j \in 1 .. Len(ds) : ds[j] \in held
      /\ \A d \in Derived : d # c =>
           deps'[d] = deps[d] /\ cached'[d] = cached[d] /\ state'[d] = state[d]
      /\ \A d \in Computeds : d # c => fn'[d] = fn[d]
  <2>1. DOMAIN ds = 1 .. Len(ds)
    BY DataAssumption DEF DataAssumption
  <2> QED BY <1>0, <1>2, <1>3, <2>1 DEF Allocate, TypeInv, TypeOK, DataType,
         GraphType
<1>5. /\ Len(stack') = 1 /\ stack'[1] = Frame(c) /\ Frame(c).cell = c
      /\ Frame(c).arg = 1 /\ stack' # <<>>
  BY <1>2 DEF Frame
<1>t. Untainted' \subseteq Untainted
  BY <1>0, <1>4, TaintAllocate
<1> USE DEF Parts, listVars, pendVars
<1>6. AppendsAlone'
  BY <1>1, <1>2 DEF AppendsAlone, NoPending
<1>7. CleanAgree'
  <2> SUFFICES ASSUME NEW d \in Registered \ Signals, state'[d] = "clean"
               PROVE  Agrees(d)'
    BY <1>3 DEF CleanAgree
  <2>1. d # c /\ d \in made /\ d \in Derived
    BY <1>4, RegisteredMade
  <2>2. Agrees(d)
    BY <1>1, <1>3, <1>4, <2>1 DEF CleanAgree
  <2>3. \A j \in 1 .. Len(deps[d]) : deps[d][j] # c /\ deps[d][j] \in Nodes
    BY <2>1, <1>4, RegisteredMade
  <2>4. \A j \in 1 .. Len(deps[d]) : Ready(deps[d][j])'
    BY <1>4, <2>1, <2>2, <2>3 DEF Agrees, Ready, Nodes, Derived
  <2> QED BY <1>2, <1>4, <2>1, <2>2, <2>4 DEF Agrees
<1>8. Frames'
  BY <1>2, <1>5 DEF Frames, IsBuilder
<1>9. BuilderApart'
  BY <1>1, <1>2, <1>3, <1>4, RegisteredMade DEF BuilderApart
<1>10. Computing'
  BY <1>1, <1>4, <1>t DEF Computing
<1>11. Memoised'
  <2> SUFFICES ASSUME NEW d \in made' \cap Computeds \cap Untainted',
                      \A k \in 1 .. Len(stack') :
                        stack'[k].cell = d => stack'[k].same /\ ~IsBuilder(k)'
               PROVE  val'[d] = Apply(fn'[d], cached'[d])
    BY DEF Memoised
  <2>1. d # c
    BY <1>2, <1>5 DEF IsBuilder
  <2>2. val[d] = Apply(fn[d], cached[d])
    BY <1>1, <1>3, <1>4, <1>t, <2>1 DEF Memoised
  <2> QED BY <1>2, <1>4, <2>1, <2>2 DEF Derived
<1>12. Swept'
  BY <1>2, <1>4 DEF Swept
<1>13. Ordered'
  BY <1>0, <1>4, <1>5, OrderedAllocate
<1> QED BY <1>6, <1>7, <1>8, <1>9, <1>10, <1>11, <1>12, <1>13 DEF SInv, TypeInv,
       Consistent

LEMMA SafeEffect ==
  ASSUME SignalOverlaps = FALSE, SInv, TypeInv', NEW g \in Goroutines, NEW e \in Effects,
         NEW ds \in Wirings, Effect(g, e, ds)
  PROVE  SInv'
<1>0. e \in Derived /\ e \in Cells /\ e \notin Nodes
  BY KindsAssumption DEF Derived, Cells, KindsAssumption
<1>1. /\ mu = None /\ mu' # None /\ NoPending /\ pc = "idle"
      /\ stack = <<>> /\ Len(stack) = 0
      /\ \A d \in Derived \cap Untainted : state[d] # "computing"
  BY LockFacts DEF Effect
<1>2. /\ Allocate(e, ds) /\ pc' = "mark"
      /\ UNCHANGED <<held, fn, val, seen, next, upto, stack, pendVars>>
  BY DEF Effect
<1>3. TypeInv /\ Parts
  BY SInvParts
<1>4. /\ e \notin made /\ made' = made \cup {e} /\ anyDirty'
      /\ deps'[e] = ds /\ state'[e] = "dirty"
      /\ \A j \in 1 .. Len(ds) : ds[j] \in held
      /\ \A d \in Derived : d # e =>
           deps'[d] = deps[d] /\ cached'[d] = cached[d] /\ state'[d] = state[d]
  <2>1. DOMAIN ds = 1 .. Len(ds)
    BY DataAssumption DEF DataAssumption
  <2> QED BY <1>0, <1>2, <1>3, <2>1 DEF Allocate, TypeInv, TypeOK, DataType,
         GraphType
<1>t. Untainted' \subseteq Untainted
  BY <1>0, <1>4, TaintAllocate
<1> USE DEF Parts, pendVars
<1>5. AppendsAlone'
  BY <1>1, <1>2 DEF AppendsAlone, NoPending
<1>6. CleanAgree' /\ Frames' /\ BuilderApart'
  BY <1>1, <1>2 DEF CleanAgree, Frames, BuilderApart
<1>7. Computing'
  BY <1>1, <1>4, <1>t DEF Computing
<1>8. Memoised'
  <2>1. \A d \in made' \cap Computeds : d \in made /\ d # e /\ d \in Derived
    BY <1>0, <1>4 DEF Nodes, Derived
  <2> QED BY <1>1, <1>2, <1>3, <1>4, <1>t, <2>1 DEF Memoised
<1>9. Swept'
  BY <1>1, <1>2, <1>4 DEF Swept
<1>10. Ordered'
  BY <1>0, <1>1, <1>2, <1>4, OrderedAllocate
<1> QED BY <1>5, <1>6, <1>7, <1>8, <1>9, <1>10 DEF SInv, TypeInv, Consistent

LEMMA SafeRemove ==
  ASSUME SignalOverlaps = FALSE, SInv, TypeInv', NEW g \in Goroutines, NEW cs,
         Remove(g, cs)
  PROVE  SInv'
<1>1. /\ mu = None /\ mu' # None /\ NoPending /\ pc = "idle"
      /\ stack = <<>> /\ Len(stack) = 0 /\ op'.name = "Remove"
  BY LockFacts DEF Remove
<1>2. /\ pc' = "remove"
      /\ UNCHANGED <<graphVars, slots, len, val, cached, state, seen, anyDirty,
                     next, upto, stack, pendVars>>
  BY DEF Remove
<1>3. TypeInv /\ Parts /\ Registered' = Registered
  BY <1>2, SInvParts DEF Registered
<1> USE DEF Parts, graphVars, pendVars
<1>4. AppendsAlone'
  BY <1>1, <1>2 DEF AppendsAlone, NoPending
<1>5. CleanAgree'
  BY <1>1, <1>2, <1>3 DEF CleanAgree, Agrees, Ready
<1>6. Frames' /\ BuilderApart' /\ Computing' /\ Memoised'
  BY <1>1, <1>2, <1>3, SameTaint DEF Frames, BuilderApart, Computing, OnStack, Memoised
<1>7. Swept'
  BY <1>1, <1>2, <1>3 DEF Swept
<1>8. Ordered'
  BY <1>1, <1>2, OrderedIdle
<1> QED BY <1>4, <1>5, <1>6, <1>7, <1>8 DEF SInv, TypeInv, Consistent

LEMMA SafeReset ==
  ASSUME SignalOverlaps = FALSE, SInv, TypeInv', NEW g \in Goroutines, Reset(g)
  PROVE  SInv'
<1>1. /\ mu = None /\ mu' # None /\ NoPending /\ pc = "idle"
      /\ stack = <<>> /\ Len(stack) = 0 /\ op'.name = "Reset"
  BY LockFacts DEF Reset
<1>2. /\ pc' = "done" /\ len' = 0
      /\ UNCHANGED <<graphVars, slots, val, cached, state, seen, next, upto,
                     stack, pendVars>>
  BY DEF Reset
<1>3. TypeInv /\ Parts /\ Registered' = {}
  BY <1>2, SInvParts DEF Registered
<1> USE DEF Parts, graphVars, pendVars
<1>4. AppendsAlone'
  BY <1>1, <1>2 DEF AppendsAlone, NoPending
<1>5. CleanAgree'
  BY <1>3 DEF CleanAgree
<1>6. Frames' /\ BuilderApart' /\ Computing' /\ Memoised'
  BY <1>1, <1>2, <1>3, SameTaint DEF Frames, BuilderApart, Computing, OnStack, Memoised
<1>7. Swept'
  BY <1>1, <1>2, <1>3 DEF Swept
<1>8. Ordered'
  BY <1>1, <1>2, OrderedIdle
<1> QED BY <1>4, <1>5, <1>6, <1>7, <1>8 DEF SInv, TypeInv, Consistent

(* remove() registers nothing. *)
LEMMA SafeRemoving ==
  ASSUME SInv, TypeInv', RemoveOne \/ RemoveCut
  PROVE  SInv'
<1>1. /\ pc = "remove" /\ pc' \in {"remove", "done"}
      /\ UNCHANGED <<graphVars, dataVars, mu, anyDirty, next, upto, stack,
                     pendVars>>
  BY DEF RemoveOne, RemoveCut
<1>2. stack = <<>> /\ Len(stack) = 0
  BY <1>1, IdleStack
<1>3. TypeInv /\ Parts
  BY SInvParts
<1>4. op.name = "Remove" /\ op'.name = op.name
  <2>1. op.name = "Remove"
    BY <1>1, <1>3 DEF Parts, Swept
  <2>2. RemoveOne => op' = [op EXCEPT !.rest = Tail(@),
                     !.dropped = @ + Cardinality({k \in 1 .. len : slots[k] = Head(op.rest)})]
    BY DEF RemoveOne
  <2>3. RemoveOne => op'.name = op.name
    BY <2>2, <1>3 DEF TypeInv, TypeOK, OpType
  <2>4. RemoveCut => op' = op
    BY DEF RemoveCut
  <2> QED BY <2>1, <2>3, <2>4
<1>5. /\ len \in 0 .. Len(slots) /\ Len(slots) \in Nat
      /\ DOMAIN slots = 1 .. Len(slots)
  BY <1>3 DEF TypeInv, TypeOK, ListType
<1>6. Registered' \subseteq Registered
  <2>1. CASE RemoveOne
    <3>1. len' = len /\ \A k \in 1 .. len : slots'[k] \in {slots[k], slots[len]}
      BY <2>1, <1>5 DEF RemoveOne
    <3>2. \A k \in 1 .. len : len \in 1 .. len
      BY <1>5
    <3> QED BY <3>1, <3>2 DEF Registered
  <2>2. CASE RemoveCut
    <3>1. slots' = slots /\ len' = len - op.dropped /\ op.dropped \in Nat
      BY <2>2, <1>3 DEF RemoveCut, TypeInv, TypeOK, OpType
    <3> QED BY <3>1, <1>5 DEF Registered
  <2> QED BY <2>1, <2>2, SInvParts DEF RemoveOne, RemoveCut
<1> USE DEF Parts, graphVars, pendVars, dataVars
<1>7. AppendsAlone'
  <2>1. mu # None
    BY <1>1, <1>3 DEF TypeInv, TypeOK, ControlType
  <2> QED BY <1>1, <1>3, <2>1 DEF AppendsAlone
<1>8. CleanAgree'
  BY <1>1, <1>3, <1>6 DEF CleanAgree, Agrees, Ready
<1>9. Frames' /\ BuilderApart' /\ Computing' /\ Memoised'
  BY <1>1, <1>2, <1>3, SameTaint DEF Frames, BuilderApart, Computing, OnStack, Memoised
<1>10. Swept'
  BY <1>1, <1>2, <1>3, <1>4, <1>6 DEF Swept
<1>11. Ordered'
  BY <1>1, <1>2, OrderedIdle
<1> QED BY <1>7, <1>8, <1>9, <1>10, <1>11 DEF SInv, TypeInv, Consistent

(* Leaving an operation from a point where no eval() is active, or from    *)
(* calls that all depend on a callback that may panic.                     *)
LEMMA SafeUnlock ==
  ASSUME SInv, TypeInv', Unlock, pc # "mark",
         \A k \in 1 .. Len(stack) : stack[k].cell \notin Untainted,
         UNCHANGED <<made, deps, fn, listVars, dataVars, anyDirty, pendVars>>
  PROVE  SInv'
<1>1. \A c \in Derived \cap Untainted : ~OnStack(c)
  BY DEF OnStack
<1>2. stack' = <<>> /\ Len(stack') = 0 /\ pc' = "idle" /\ op'.name = "none"
      /\ mu' = None
  BY EmptySeq DEF Unlock, NoOp
<1>3. TypeInv /\ Parts /\ Registered' = Registered
  BY SInvParts DEF Registered, listVars
<1> USE DEF Parts, listVars, dataVars, pendVars
<1>4. AppendsAlone'
  BY <1>2, <1>3 DEF AppendsAlone
<1>5. CleanAgree'
  BY <1>2, <1>3 DEF CleanAgree, Agrees, Ready
<1>6. Frames' /\ BuilderApart'
  BY <1>2 DEF Frames, BuilderApart
<1>7. Computing'
  BY <1>1, <1>3, SameTaint DEF Computing
<1>8. Memoised'
  BY <1>3, SameTaint DEF Memoised
<1>9. Swept'
  BY <1>2, <1>3 DEF Swept
<1>10. Ordered'
  BY <1>2, OrderedIdle
<1> QED BY <1>4, <1>5, <1>6, <1>7, <1>8, <1>9, <1>10
        DEF SInv, TypeInv, Consistent

(* A panic unwinds through calls that depend on the callback only.         *)
LEMMA SafePanic ==
  ASSUME SInv, TypeInv', CallbackPanic \/ CircularPanic
  PROVE  SInv'
<1>1. Unlock /\ UNCHANGED <<graphVars, listVars, dataVars, anyDirty, pendVars>>
  BY DEF CallbackPanic, CircularPanic
<1>2. CASE InEval /\ Top.cell \notin Untainted
  <2>1. \A k \in 1 .. Len(stack) : stack[k].cell \notin Untainted
    BY <1>2, StackTainted
  <2>2. pc # "mark"
    BY <1>2 DEF InEval, SInv, TypeOK, ControlType
  <2> QED BY <1>1, <2>1, <2>2, SafeUnlock DEF graphVars
<1>3. CASE CallbackPanic
  BY <1>2, <1>3, UntaintedClosed DEF CallbackPanic, Calling
<1>4. CASE InEval /\ ~ArgsDone /\ ~Ready(Callee) /\ state[Callee] = "computing"
  <2>1. Callee \notin Untainted
    BY <1>4, LeftComputing
  <2>2. /\ Top.cell \in Derived /\ Top.arg \in 1 .. Len(deps[Top.cell])
        /\ deps[Top.cell] \in Seq(Nodes) /\ Callee = deps[Top.cell][Top.arg]
    BY <1>4, TopFacts, SInvType DEF Callee
  <2>3. Top.cell \notin Signals /\ Top.arg \in DOMAIN deps[Top.cell]
    BY <2>2, KindsAssumption DEF KindsAssumption, Derived, Nodes
  <2> QED BY <1>2, <1>4, <2>1, <2>2, <2>3, UntaintedClosed
<1>5. CASE InLoop
  <2>1. pc = "sweep" /\ \A k \in 1 .. Len(stack) : FALSE
    BY <1>5, EmptySeq DEF InLoop
  <2> QED BY <1>1, <2>1, SafeUnlock DEF graphVars
<1> QED BY <1>3, <1>4, <1>5 DEF CircularPanic, CircularCall

LEMMA SafeMark ==
  ASSUME SInv, TypeInv', Mark
  PROVE  SInv'
<1>1. /\ pc = "mark" /\ pc' = "sweep" /\ next' = 1 /\ upto' = len
      /\ state' = [c \in Derived |-> IF c \in Registered THEN "dirty"
                                                         ELSE state[c]]
      /\ UNCHANGED <<graphVars, listVars, val, cached, seen, mu, anyDirty,
                     op, stack, pendVars>>
  BY DEF Mark
<1>2. /\ stack = <<>> /\ Len(stack) = 0
      /\ \A c \in Derived \cap Untainted : state[c] # "computing"
  BY <1>1, IdleStack
<1>3. TypeInv /\ Parts /\ Registered' = Registered
  BY <1>1, SInvParts DEF Registered, listVars
<1> USE DEF Parts, graphVars, listVars, pendVars
<1>4. AppendsAlone'
  BY <1>1, <1>3 DEF AppendsAlone
<1>5. CleanAgree'
  BY <1>1, <1>3, RegisteredMade DEF CleanAgree
<1>6. Frames' /\ BuilderApart' /\ Computing' /\ Memoised'
  BY <1>1, <1>2, <1>3, SameTaint DEF Frames, BuilderApart, Computing, OnStack, Memoised
<1>7. Swept'
  BY <1>1, <1>2, <1>3 DEF Swept
<1>8. Ordered'
  BY <1>1, <1>2, OrderedIdle
<1> QED BY <1>4, <1>5, <1>6, <1>7, <1>8 DEF SInv, TypeInv, Consistent

LEMMA SafeSweepSkip ==
  ASSUME SInv, TypeInv', SweepSkip
  PROVE  SInv'
<1>1. /\ pc = "sweep" /\ stack = <<>> /\ next <= upto /\ Ready(slots[next])
      /\ next' = next + 1
      /\ UNCHANGED <<graphVars, listVars, dataVars, mu, anyDirty, pc, op, upto,
                     stack, pendVars>>
  BY DEF SweepSkip, InLoop
<1>2. TypeInv /\ Parts /\ Registered' = Registered
  BY <1>1, SInvParts DEF Registered, listVars
<1> USE DEF Parts, graphVars, listVars, pendVars, dataVars
<1>3. AppendsAlone'
  BY <1>1, <1>2 DEF AppendsAlone
<1>4. CleanAgree'
  BY <1>1, <1>2 DEF CleanAgree, Agrees, Ready
<1>5. Frames' /\ BuilderApart' /\ Computing' /\ Memoised'
  BY <1>1, <1>2, EmptySeq, SameTaint DEF Frames, BuilderApart, Computing, OnStack,
     Memoised, IsBuilder
<1>6. next \in Nat /\ next >= 1
  BY <1>1, <1>2 DEF TypeInv, TypeOK, ControlType, WellFormed, Placed
<1>7. Swept'
  BY <1>1, <1>2, <1>6 DEF Swept, Ready
<1>8. Ordered'
  BY <1>1, OrderedIdle
<1> QED BY <1>3, <1>4, <1>5, <1>7, <1>8 DEF SInv, TypeInv, Consistent

LEMMA SafeSweepEnd ==
  ASSUME SInv, TypeInv', SweepEnd
  PROVE  SInv'
<1>1. /\ pc = "sweep" /\ stack = <<>> /\ next > upto /\ pc' = "done"
      /\ UNCHANGED <<graphVars, listVars, dataVars, mu, anyDirty, op, next,
          upto,
                     stack, pendVars>>
  BY DEF SweepEnd
<1>2. TypeInv /\ Parts /\ Registered' = Registered
  BY <1>1, SInvParts DEF Registered, listVars
<1> USE DEF Parts, graphVars, listVars, pendVars, dataVars
<1>3. AppendsAlone'
  BY <1>1, <1>2 DEF AppendsAlone
<1>4. CleanAgree'
  BY <1>1, <1>2 DEF CleanAgree, Agrees, Ready
<1>5. Frames' /\ BuilderApart' /\ Computing' /\ Memoised'
  BY <1>1, <1>2, EmptySeq, SameTaint DEF Frames, BuilderApart, Computing, OnStack,
     Memoised, IsBuilder
<1>6. \A c \in Registered : Ready(c)
  <2>1. upto = len /\ len \in Nat /\ next \in Nat
    BY <1>1, <1>2 DEF Swept, TypeInv, TypeOK, ListType, ControlType
  <2>2. \A k \in 1 .. len : Ready(slots[k])
    BY <1>1, <1>2, <2>1 DEF Swept
  <2> QED BY <2>2 DEF Registered
<1>7. Swept'
  BY <1>1, <1>2, <1>6 DEF Swept, Ready
<1>8. Ordered'
  BY <1>1, OrderedIdle
<1> QED BY <1>3, <1>4, <1>5, <1>7, <1>8 DEF SInv, TypeInv, Consistent

(* Entering eval() of a dirty cell below all those on the stack.           *)
LEMMA SafeEnter ==
  ASSUME SInv, TypeInv', NEW c \in Derived, c \in made, Enter(c),
         state[c] = "dirty", pc \in {"sweep", "build"},
         pc = "build" => stack # <<>> /\ c \in held,
         stack = <<>> => next' = next + 1 /\ slots[next] = c,
         stack # <<>> => /\ next' = next
                         /\ Top.arg <= Len(deps[Top.cell])
                         /\ deps[Top.cell][Top.arg] = c,
         UNCHANGED <<graphVars, listVars, val, cached, seen, mu, anyDirty, pc,
                     op, upto, pendVars>>
  PROVE  SInv'
<1> DEFINE n == Len(stack)
<1>1. TypeInv /\ Parts /\ Registered' = Registered
  BY SInvParts DEF Registered, listVars
<1>2. stack \in Seq(FrameSet) /\ n \in Nat
  BY <1>1 DEF TypeInv, TypeOK, ControlType
<1>3. Frame(c) \in FrameSet /\ Frame(c) = [cell |-> c, arg |-> 1, same |-> TRUE]
  BY DEF Frame, FrameSet
<1>4. /\ Len(stack') = n + 1 /\ stack' # <<>>
      /\ \A k \in 1 .. n : stack'[k] = stack[k]
      /\ stack'[n + 1].cell = c /\ stack'[n + 1].arg = 1 /\ stack'[n + 1].same
  BY <1>2, <1>3, Push DEF Enter
<1>5. /\ state'[c] = "computing"
      /\ \A d \in Derived : d # c => state'[d] = state[d]
  BY <1>1 DEF Enter, TypeInv, TypeOK, DataType
<1>6. \A d \in Cells : Ready(d) => Ready(d)'
  BY <1>5 DEF Ready, Cells
<1>7. stack # <<>> => n >= 1 /\ Top = stack[n]
  BY <1>2, EmptySeq DEF Top
<1>8. stack = <<>> => n = 0
  BY EmptySeq
<1> HIDE DEF n
<1> USE DEF Parts, graphVars, listVars, pendVars
<1>9. AppendsAlone'
  BY <1>1 DEF AppendsAlone
<1>10. \A d \in made \cap Derived : \A j \in 1 .. Len(deps[d]) : deps[d][j] \in Cells
  BY RegisteredMade DEF Cells, Nodes, Derived
<1>11. CleanAgree'
  <2> SUFFICES ASSUME NEW d \in Registered \ Signals, state'[d] = "clean"
               PROVE  Agrees(d)'
    BY <1>1 DEF CleanAgree
  <2>1. d \in made /\ d \in Derived
    BY RegisteredMade
  <2>2. Agrees(d)
    BY <1>1, <1>5, <2>1 DEF CleanAgree
  <2> QED BY <1>6, <1>10, <2>1, <2>2 DEF Agrees
<1>12. Frames'
  <2> SUFFICES ASSUME NEW k \in 1 .. Len(stack'), NEW d, d = stack'[k].cell
               PROVE  /\ \A j \in 1 .. (stack'[k].arg - 1) :
                           Ready(deps[d][j])' /\ cached[d][j] = val[deps[d][j]]
                      /\ k < Len(stack') =>
                           /\ stack'[k].arg <= Len(deps[d])
                           /\ deps[d][stack'[k].arg] = stack'[k + 1].cell
                      /\ ~(pc = "build" /\ k = 1) => state'[d] = "computing"
    BY DEF Frames, IsBuilder
  <2>1. CASE k = n + 1
    BY <1>2, <1>4, <1>5, <1>7, <1>8, <2>1
  <2>2. CASE k \in 1 .. n
    <3>1. /\ d = stack[k].cell /\ stack'[k] = stack[k] /\ d \in made
          /\ d \in Derived /\ stack[k].arg \in Nat
      <4>1. stack[k] \in FrameSet /\ stack'[k] = stack[k]
        BY <1>2, <1>4, <2>2 DEF n
      <4> QED BY <4>1, <1>1, <2>2 DEF FrameSet, TypeInv, WellFormed, StackMade,
             n
    <3>2. stack[k].arg <= Len(deps[d]) + 1 /\ Len(deps[d]) \in Nat
      BY <1>1, <2>2, <3>1 DEF TypeInv, TypeOK, GraphType, WellFormed, StackMade,
         n
    <3>3. /\ \A j \in 1 .. (stack[k].arg - 1) :
               Ready(deps[d][j]) /\ cached[d][j] = val[deps[d][j]]
          /\ k < n => /\ stack[k].arg <= Len(deps[d])
                      /\ deps[d][stack[k].arg] = stack[k + 1].cell
          /\ ~(pc = "build" /\ k = 1) => state[d] = "computing"
      BY <1>1, <2>2, <3>1 DEF Frames, IsBuilder, n
    <3>4. \A j \in 1 .. (stack[k].arg - 1) : j \in 1 .. Len(deps[d])
      BY <3>1, <3>2
    <3>5. \A j \in 1 .. (stack[k].arg - 1) :
             Ready(deps[d][j])' /\ cached[d][j] = val[deps[d][j]]
      BY <1>6, <1>10, <3>1, <3>3, <3>4
    <3>6. ~(pc = "build" /\ k = 1) => state'[d] = "computing"
      BY <1>5, <3>1, <3>3
    <3>7. k < n + 1 => /\ stack[k].arg <= Len(deps[d])
                       /\ deps[d][stack[k].arg] = stack'[k + 1].cell
      <4>1. CASE k < n
        <5>1. k + 1 \in 1 .. n
          BY <1>2, <2>2, <4>1 DEF n
        <5> QED BY <1>4, <3>3, <4>1, <5>1
      <4>2. CASE k = n
        BY <1>2, <1>4, <1>7, <2>2, <4>2, EmptySeq DEF n
      <4> QED BY <2>2, <4>1, <4>2, <1>2 DEF n
    <3> QED BY <1>4, <3>1, <3>5, <3>6, <3>7
  <2> QED BY <1>2, <1>4, <2>1, <2>2
<1>13. BuilderApart'
  BY <1>1, <1>5 DEF BuilderApart, TypeInv, WellFormed, Placed, Derived
<1>14. Computing'
  <2> SUFFICES ASSUME NEW d \in Derived \cap Untainted,
                      state'[d] = "computing"
               PROVE  \E k \in 1 .. Len(stack') : stack'[k].cell = d
    BY SameTaint DEF Computing, OnStack
  <2>1. CASE d = c
    BY <1>2, <1>4, <2>1
  <2>2. CASE d # c
    <3>1. PICK k \in 1 .. n : stack[k].cell = d
      BY <1>1, <1>5, <2>2 DEF Computing, OnStack, n
    <3> QED BY <1>2, <1>4, <3>1
  <2> QED BY <2>1, <2>2
<1>15. Memoised'
  <2> SUFFICES ASSUME NEW d \in made \cap Computeds \cap Untainted,
                      \A k \in 1 .. Len(stack') :
                        stack'[k].cell = d => stack'[k].same /\ ~IsBuilder(k)'
               PROVE  val[d] = Apply(fn[d], cached[d])
    BY SameTaint DEF Memoised
  <2>1. \A k \in 1 .. n : stack[k].cell = d => stack[k].same /\ ~IsBuilder(k)
    BY <1>2, <1>4 DEF IsBuilder
  <2> QED BY <1>1, <2>1 DEF Memoised, n
<1>16. Swept'
  <2>1. ASSUME pc = "sweep"
        PROVE  /\ upto = len
               /\ \A k \in 1 .. (next' - 1) : k <= len =>
                    Ready(slots[k])' \/ stack'[1].cell = slots[k]
    <3>1. upto = len /\ len \in 0 .. Len(slots) /\ next \in Nat /\ next >= 1
      BY <1>1, <2>1 DEF Swept, TypeInv, TypeOK, ListType, ControlType,
         WellFormed, Placed
    <3>2. \A k \in 1 .. len : slots[k] \in Cells
      BY <1>1, <3>1 DEF TypeInv, TypeOK, ListType
    <3>3. CASE stack = <<>>
      <4>1. stack'[1].cell = c /\ next' - 1 = next
        BY <1>4, <1>8, <3>1, <3>3
      <4>2. \A k \in 1 .. (next - 1) : k <= len => Ready(slots[k])
        BY <1>1, <2>1, <3>3 DEF Swept
      <4> QED BY <1>6, <3>1, <3>2, <3>3, <4>1, <4>2
    <3>4. CASE stack # <<>>
      <4>1. stack'[1] = stack[1] /\ next' = next
        BY <1>2, <1>4, <1>7, <3>4
      <4>2. \A k \in 1 .. (next - 1) : k <= len =>
              Ready(slots[k]) \/ stack[1].cell = slots[k]
        BY <1>1, <2>1, <3>4 DEF Swept
      <4> QED BY <1>6, <3>1, <3>2, <4>1, <4>2
    <3> QED BY <3>3, <3>4
  <2> QED BY <1>1, <1>4, <2>1 DEF Swept
<1>17. Ordered'
  <2>1. PICK rank \in [Cells -> Nat], m \in Nat : RankedGraph(rank,
            m) /\ RankedStack(rank)
    BY DEF SInv, Ordered
  <2>2. \A k \in 1 .. n : stack[k].cell \in Cells
    <3>1. \A k \in 1 .. n : stack[k] \in FrameSet
      BY <1>2 DEF n
    <3> QED BY <3>1 DEF FrameSet, Cells
  <2>3. c \in Cells
    BY DEF Cells
  <2>4. \A k \in 1 .. n : rank[c] < rank[stack[k].cell]
    <3> SUFFICES ASSUME NEW k \in 1 .. n PROVE rank[c] < rank[stack[k].cell]
      OBVIOUS
    <3>1. stack # <<>>
      BY <1>8
    <3>2. Top.cell \in made \cap Derived /\ Top.arg \in 1 .. Len(deps[Top.cell])
      BY <3>1, <1>1, TopFacts DEF InEval
    <3>3. rank[c] < rank[Top.cell]
      BY <2>1, <3>1, <3>2 DEF RankedGraph
    <3>4. k # n => rank[Top.cell] < rank[stack[k].cell]
      BY <1>2, <1>7, <2>1, <3>1 DEF RankedStack, n
    <3>5. /\ rank[Top.cell] \in Nat /\ rank[c] \in Nat
          /\ rank[stack[k].cell] \in Nat
      BY <2>2, <2>3, <1>7, <3>1, <1>2
    <3> QED BY <1>7, <3>1, <3>3, <3>4, <3>5
  <2>5. (RankedGraph(rank, m))'
    BY <2>1 DEF RankedGraph
  <2>6. (RankedStack(rank))'
    <3> SUFFICES ASSUME NEW i \in 1 .. (n + 1), NEW k \in 1 .. (n + 1), i < k
                 PROVE  rank[stack'[k].cell] < rank[stack'[i].cell]
      BY <1>4 DEF RankedStack
    <3>1. i \in 1 .. n /\ stack'[i] = stack[i]
      BY <1>2, <1>4
    <3>2. CASE k = n + 1
      BY <1>4, <2>4, <3>1, <3>2
    <3>3. CASE k # n + 1
      <4>1. k \in 1 .. n /\ stack'[k] = stack[k]
        BY <1>2, <1>4, <3>3
      <4> QED BY <2>1, <3>1, <4>1 DEF RankedStack, n
    <3> QED BY <3>2, <3>3
  <2> QED BY <2>5, <2>6 DEF Ordered
<1> QED BY <1>9, <1>11, <1>12, <1>13, <1>14, <1>15, <1>16, <1>17 DEF SInv,
       TypeInv, Consistent

LEMMA SafeSweepEval ==
  ASSUME SInv, TypeInv', SweepEval
  PROVE  SInv'
<1>1. next \in 1 .. Len(slots) /\ slots[next] \in made /\ slots[next] \in Cells
  BY DEF SweepEval, InLoop, SInv, Consistent, TypeOK, WellFormed, ListType,
     SlotsMade, Placed, ControlType
<1>2. slots[next] \in Derived
  BY <1>1 DEF SweepEval, Ready, Cells
<1> QED BY <1>1, <1>2, SafeEnter DEF SweepEval, InLoop

LEMMA SafeEvalDep ==
  ASSUME SInv, TypeInv', EvalDep
  PROVE  SInv'
<1>1. /\ Callee \in held /\ Callee \in Nodes /\ stack # <<>>
      /\ Top.arg <= Len(deps[Top.cell])
  BY TopFacts, SInvType DEF EvalDep, InEval
<1>2. Callee \in Derived /\ Callee \in made
  BY <1>1 DEF EvalDep, Ready, Nodes, Derived, SInv, TypeOK, GraphType
<1>3. pc \in {"sweep", "build"}
  BY <1>1 DEF SInv, TypeOK, ControlType
<1> QED BY <1>1, <1>2, <1>3, SafeEnter DEF EvalDep, Callee

(* An argument that has been evaluated is compared with the cache and      *)
(* replaces it there.                                                      *)
LEMMA SafeEvalArg ==
  ASSUME SInv, TypeInv', EvalArg
  PROVE  SInv'
<1> DEFINE n == Len(stack)
<1>1. PICK c, j, f :
        /\ c = Top.cell /\ j = Top.arg
        /\ f = [cell |-> c, arg |-> j + 1,
                same |-> Top.same /\ cached[c][j] = val[Callee]]
  OBVIOUS
<1>2. /\ InEval /\ ~ArgsDone /\ Ready(Callee)
      /\ cached' = [cached EXCEPT ![c] = [cached[c] EXCEPT ![j] = val[Callee]]]
      /\ stack' = [stack EXCEPT ![n] = f]
      /\ UNCHANGED <<graphVars, listVars, val, state, seen, mu, anyDirty,
                     pc, op, next, upto, pendVars>>
  BY <1>1 DEF EvalArg
<1>3. TypeInv /\ Parts /\ Registered' = Registered
  BY <1>2, SInvParts DEF Registered, listVars
<1>4. /\ n \in Nat \ {0} /\ c \in Derived /\ c \in made
      /\ j \in 1 .. Len(deps[c]) /\ Len(deps[c]) \in Nat
      /\ Callee \in Nodes /\ Top \in FrameSet /\ Top = stack[n]
      /\ Callee = deps[c][j]
  BY <1>1, <1>2, <1>3, TopFacts DEF Callee
<1>5. /\ stack \in Seq(FrameSet) /\ n \in 1 .. n /\ stack[n].cell = c
      /\ stack[n].arg = j
  BY <1>1, <1>3, <1>4 DEF TypeInv, TypeOK, ControlType
<1>6. f \in FrameSet /\ f.cell = c /\ f.arg = j + 1
      /\ (f.same => stack[n].same /\ cached[c][j] = val[Callee])
  <2>1. (Top.same /\ cached[c][j] = val[Callee]) \in BOOLEAN
    OBVIOUS
  <2>2. c \in Derived /\ j + 1 \in Nat \ {0}
    BY <1>4
  <2>3. f \in FrameSet
    BY <1>1, <2>1, <2>2 DEF FrameSet
  <2>4. /\ f.cell = c /\ f.arg = j + 1
        /\ f.same = (Top.same /\ cached[c][j] = val[Callee])
    BY <1>1
  <2> QED BY <1>4, <2>3, <2>4
<1>7. /\ stack' \in Seq(FrameSet) /\ Len(stack') = n
      /\ stack'[n] = f
      /\ \A k \in 1 .. n : k # n => stack'[k] = stack[k]
      /\ \A k \in 1 .. n : stack'[k].cell = stack[k].cell
  <2>1. /\ stack' \in Seq(FrameSet) /\ Len(stack') = n
        /\ \A k \in 1 .. n : stack'[k] = IF k = n THEN f ELSE stack[k]
    BY <1>2, <1>5, <1>6, ExceptSeq
  <2> QED BY <2>1, <1>4, <1>5, <1>6
<1>8. /\ \A d \in Derived : d # c => cached'[d] = cached[d]
      /\ cached'[c] = [cached[c] EXCEPT ![j] = val[Callee]]
  BY <1>2, <1>3, <1>4 DEF TypeInv, TypeOK, DataType
<1>9. /\ cached[c] \in Seq(Values) /\ Len(cached[c]) = Len(deps[c])
      /\ DOMAIN cached[c] = 1 .. Len(deps[c])
  BY <1>3, <1>4 DEF TypeInv, TypeOK, DataType
<1>10. /\ cached'[c][j] = val[Callee]
       /\ \A i \in 1 .. Len(deps[c]) : i # j => cached'[c][i] = cached[c][i]
  BY <1>4, <1>8, <1>9
<1>11. ~IsBuilder(n) => state[c] = "computing"
  BY <1>3, <1>4, <1>5 DEF Parts, Frames
<1>12. stack # <<>> /\ stack' # <<>>
  BY <1>2, <1>7, <1>4, EmptySeq DEF InEval
<1>13. \A k \in 1 .. n : k # n => stack[k].cell # c
  BY <1>5, StackDistinct
<1> HIDE DEF n
<1> USE DEF Parts, graphVars, listVars, pendVars
<1>14. AppendsAlone'
  BY <1>2, <1>3 DEF AppendsAlone
<1>15. CleanAgree'
  <2> SUFFICES ASSUME pc # "mark", NEW d \in Registered \ Signals,
          state[d] = "clean"
               PROVE  Agrees(d)'
    BY <1>2, <1>3 DEF CleanAgree
  <2>1. d \in made /\ d \in Derived /\ Agrees(d)
    BY <1>3, RegisteredMade DEF CleanAgree
  <2>2. d # c
    <3>1. CASE IsBuilder(n)
      <4>1. c = op.cell
        BY <1>3, <1>5, <3>1 DEF IsBuilder, TypeInv, WellFormed, Placed
      <4> QED BY <4>1, <3>1, <1>3 DEF IsBuilder, BuilderApart
    <3>2. CASE ~IsBuilder(n)
      BY <1>11, <3>2
    <3> QED BY <3>1, <3>2
  <2> QED BY <1>2, <1>8, <2>1, <2>2 DEF Agrees, Ready
<1>16. Frames'
  <2> SUFFICES ASSUME NEW k \in 1 .. n, NEW d, d = stack[k].cell
               PROVE  /\ \A i \in 1 .. (stack'[k].arg - 1) :
                           Ready(deps[d][i]) /\ cached'[d][i] = val[deps[d][i]]
                      /\ k < n =>
                           /\ stack'[k].arg <= Len(deps[d])
                           /\ deps[d][stack'[k].arg] = stack[k + 1].cell
                      /\ ~IsBuilder(k) => state[d] = "computing"
    <3>1. \A k \in 1 .. n : k < n => stack'[k + 1].cell = stack[k + 1].cell
      BY <1>4, <1>7
    <3> QED BY SMTT(30), <1>2, <1>7, <3>1 DEF Frames, IsBuilder, Ready
  <2>1. /\ \A i \in 1 .. (stack[k].arg - 1) :
             Ready(deps[d][i]) /\ cached[d][i] = val[deps[d][i]]
        /\ k < n => /\ stack[k].arg <= Len(deps[d])
                    /\ deps[d][stack[k].arg] = stack[k + 1].cell
        /\ ~IsBuilder(k) => state[d] = "computing"
    BY <1>3 DEF Frames, n
  <2>2. CASE k = n
    <3>1. d = c /\ stack'[k].arg - 1 = j /\ stack[k].arg = j
      BY <1>4, <1>5, <1>6, <1>7, <2>2
    <3>2. ASSUME NEW i \in 1 .. j
          PROVE  Ready(deps[c][i]) /\ cached'[c][i] = val[deps[c][i]]
      <4>1. CASE i = j
        BY <1>2, <1>4, <1>10, <4>1
      <4>2. CASE i # j
        <5>1. i \in 1 .. (j - 1) /\ i \in 1 .. Len(deps[c])
          BY <1>4, <4>2
        <5> QED BY <1>10, <2>1, <3>1, <4>2, <5>1
      <4> QED BY <4>1, <4>2
    <3> QED BY <1>4, <2>1, <2>2, <3>1, <3>2
  <2>3. CASE k # n
    <3>1. d # c /\ stack'[k] = stack[k]
      BY <1>7, <1>13, <2>3
    <3>2. d \in Derived
      <4>1. stack[k] \in FrameSet
        BY <1>5 DEF n
      <4> QED BY <4>1 DEF FrameSet
    <3> QED BY <1>8, <2>1, <3>1, <3>2
  <2> QED BY <2>2, <2>3
<1>17. BuilderApart'
  BY <1>2, <1>3 DEF BuilderApart
<1>18. Computing'
  BY <1>2, <1>3, <1>7, SameTaint DEF Computing, OnStack, n
<1>19. Memoised'
  <2> SUFFICES ASSUME NEW d \in made \cap Computeds \cap Untainted,
                      \A k \in 1 .. n :
                        stack'[k].cell = d => stack'[k].same /\ ~IsBuilder(k)
               PROVE  val[d] = Apply(fn[d], cached'[d])
    BY <1>2, <1>7, SameTaint DEF Memoised, IsBuilder
  <2>1. d \in Derived
    BY DEF Derived
  <2>2. \A k \in 1 .. n : stack[k].cell = d => stack[k].same /\ ~IsBuilder(k)
    BY <1>4, <1>5, <1>6, <1>7
  <2>3. val[d] = Apply(fn[d], cached[d])
    BY <1>3, <2>2 DEF Memoised, n
  <2>4. cached'[d] = cached[d]
    <3>1. CASE d = c
      <4>1. f.same
        BY <1>5, <1>6, <1>7, <3>1, <1>4
      <4>2. cached[c][j] = val[Callee]
        BY <4>1, <1>6
      <4> QED BY <1>8, <1>9, <3>1, <4>2
    <3>2. CASE d # c
      BY <1>8, <2>1, <3>2
    <3> QED BY <3>1, <3>2
  <2> QED BY <2>3, <2>4
<1>20. Swept'
  <2>1. stack'[1].cell = stack[1].cell
    BY <1>4, <1>7
  <2> QED BY <1>2, <1>3, <1>12, <2>1 DEF Swept, Ready
<1>21. Ordered'
  <2>1. PICK rank \in [Cells -> Nat], m \in Nat : RankedGraph(rank,
            m) /\ RankedStack(rank)
    BY DEF SInv, Ordered
  <2>2. (RankedGraph(rank, m))' /\ (RankedStack(rank))'
    BY <1>2, <1>7, <2>1 DEF RankedGraph, RankedStack, n
  <2> QED BY <2>2 DEF Ordered
<1> QED BY <1>14, <1>15, <1>16, <1>17, <1>18, <1>19, <1>20, <1>21 DEF SInv,
       TypeInv, Consistent

(* Leaving eval() with the arguments read, the cell clean and its value    *)
(* that of its cache.                                                      *)
LEMMA SafePop ==
  ASSUME SInv, TypeInv', InEval, ~Building, ArgsDone, stack' = Pop,
         state' = [state EXCEPT ![Top.cell] = "clean"],
         \A d \in Nodes : d # Top.cell => val'[d] = val[d],
         Top.cell \in Computeds \cap Untainted =>
           val'[Top.cell] = Apply(fn[Top.cell], cached[Top.cell]),
         UNCHANGED <<graphVars, listVars, cached, mu, anyDirty, pc, op, next,
                     upto, pendVars>>
  PROVE  SInv'
<1> DEFINE n == Len(stack)
<1>1. PICK c : c = Top.cell
  OBVIOUS
<1>2. TypeInv /\ Parts /\ Registered' = Registered
  BY SInvParts DEF Registered, listVars
<1>3. /\ n \in Nat \ {0} /\ c \in Derived /\ c \in made /\ Top = stack[n]
      /\ Len(deps[c]) \in Nat /\ Top.arg = Len(deps[c]) + 1
  BY <1>1, <1>2, TopFacts
<1>4. stack \in Seq(FrameSet) /\ n \in 1 .. n /\ stack[n].cell = c
      /\ stack[n].arg - 1 = Len(deps[c])
  BY <1>1, <1>2, <1>3 DEF TypeInv, TypeOK, ControlType
<1>5. /\ Len(stack') = n - 1
      /\ \A k \in 1 .. (n - 1) : stack'[k] = stack[k]
  BY <1>4, Shrink DEF Pop, InEval
<1>6. /\ state'[c] = "clean"
      /\ \A d \in Derived : d # c => state'[d] = state[d]
  BY <1>1, <1>2, <1>3 DEF TypeInv, TypeOK, DataType
<1>7. ~IsBuilder(n)
  <2>1. ASSUME IsBuilder(n) PROVE FALSE
    BY <2>1 DEF IsBuilder, Building
  <2> QED BY <2>1
<1>8. state[c] = "computing" /\ Agrees(c)
  BY <1>2, <1>4, <1>7 DEF Parts, Frames, Agrees
<1>9. \A k \in 1 .. (n - 1) : stack[k].cell # c
  <2>1. \A k \in 1 .. (n - 1) : k \in 1 .. n /\ k # n
    BY <1>3
  <2> QED BY <1>4, <2>1, StackDistinct
<1>10. \A d \in Nodes : Ready(d) => d # c /\ Ready(d)' /\ val'[d] = val[d]
  <2>1. \A d \in Nodes : Ready(d) => d # c
    <3>1. c \notin Signals
      BY <1>3, KindsAssumption DEF KindsAssumption, Derived, Nodes
    <3> QED BY <1>8, <3>1 DEF Ready
  <2>2. \A d \in Nodes : Ready(d) => Ready(d)'
    BY <1>6, <2>1 DEF Ready, Nodes, Derived
  <2> QED BY <1>1, <2>1, <2>2
<1>11. \A d \in made \cap Derived : \A j \in 1 .. Len(deps[d]) : deps[d][j] \in Nodes
  BY RegisteredMade
<1>13. \A d \in Registered : d \in Cells
  BY RegisteredMade, <1>2 DEF TypeInv, TypeOK, GraphType
<1> HIDE DEF n
<1> USE DEF Parts, graphVars, listVars, pendVars
<1>14. AppendsAlone'
  BY <1>2 DEF AppendsAlone
<1>15. CleanAgree'
  <2> SUFFICES ASSUME pc # "mark", NEW d \in Registered \ Signals,
          state'[d] = "clean"
               PROVE  Agrees(d)'
    BY <1>2 DEF CleanAgree
  <2>1. d \in made /\ d \in Derived
    BY RegisteredMade
  <2>2. Agrees(d)
    BY <1>2, <1>6, <1>8, <2>1 DEF CleanAgree
  <2> QED BY <1>10, <1>11, <2>1, <2>2 DEF Agrees
<1>16. Frames'
  <2> SUFFICES ASSUME NEW k \in 1 .. Len(stack'), NEW d, d = stack'[k].cell
               PROVE  /\ \A j \in 1 .. (stack'[k].arg - 1) :
                           Ready(deps[d][j])' /\ cached[d][j] = val'[deps[d][j]]
                      /\ k < Len(stack') =>
                           /\ stack'[k].arg <= Len(deps[d])
                           /\ deps[d][stack'[k].arg] = stack'[k + 1].cell
                      /\ ~(pc = "build" /\ k = 1) => state'[d] = "computing"
    BY DEF Frames, IsBuilder
  <2>1. /\ k \in 1 .. n /\ k \in 1 .. (n - 1) /\ d = stack[k].cell
        /\ stack'[k] = stack[k]
        /\ k < Len(stack') => k < n /\ stack'[k + 1] = stack[k + 1]
    BY SMTT(30), <1>3, <1>5 DEF n
  <2>2. /\ \A j \in 1 .. (stack[k].arg - 1) :
             Ready(deps[d][j]) /\ cached[d][j] = val[deps[d][j]]
        /\ k < n => /\ stack[k].arg <= Len(deps[d])
                    /\ deps[d][stack[k].arg] = stack[k + 1].cell
        /\ ~(pc = "build" /\ k = 1) => state[d] = "computing"
    BY <1>2, <2>1 DEF Frames, IsBuilder, n
  <2>3. d # c /\ d \in Derived /\ d \in made /\ stack[k].arg \in Nat
    <3>1. stack[k] \in FrameSet
      BY <1>4, <2>1 DEF n
    <3> QED BY <1>2, <1>9, <2>1, <3>1 DEF FrameSet, TypeInv, WellFormed,
           StackMade, n
  <2>4. \A j \in 1 .. (stack[k].arg - 1) : j \in 1 .. Len(deps[d])
    <3>1. stack[k].arg <= Len(deps[d]) + 1 /\ Len(deps[d]) \in Nat
      BY <1>2, <2>1, <2>3 DEF TypeInv, TypeOK, GraphType, WellFormed, StackMade,
         n
    <3> QED BY <2>3, <3>1
  <2>5. \A j \in 1 .. (stack[k].arg - 1) :
             Ready(deps[d][j])' /\ cached[d][j] = val'[deps[d][j]]
    BY <1>10, <1>11, <2>2, <2>3, <2>4
  <2> QED BY <1>6, <2>1, <2>2, <2>3, <2>5
<1>17. BuilderApart'
  BY <1>2, <1>6, <1>8 DEF BuilderApart, TypeInv, WellFormed, Placed, Derived
<1>18. Computing'
  <2> SUFFICES ASSUME NEW d \in Derived \cap Untainted,
                      state'[d] = "computing"
               PROVE  \E k \in 1 .. Len(stack') : stack'[k].cell = d
    BY SameTaint DEF Computing, OnStack
  <2>1. d # c /\ state[d] = "computing"
    BY <1>6
  <2>2. PICK k \in 1 .. n : stack[k].cell = d
    BY <1>2, <2>1 DEF Computing, OnStack, n
  <2>3. k \in 1 .. (n - 1)
    BY <1>3, <1>4, <2>1, <2>2 DEF n
  <2> QED BY <1>5, <2>2, <2>3
<1>19. Memoised'
  <2> SUFFICES ASSUME NEW d \in made \cap Computeds \cap Untainted,
                      \A k \in 1 .. (n - 1) :
                        stack[k].cell = d => stack[k].same /\ ~IsBuilder(k)
               PROVE  val'[d] = Apply(fn[d], cached[d])
    BY <1>5, SameTaint DEF Memoised, IsBuilder
  <2>1. CASE d = c
    BY <1>1, <2>1
  <2>2. CASE d # c
    <3>1. \A k \in 1 .. n : stack[k].cell = d => stack[k].same /\ ~IsBuilder(k)
      <4>1. \A k \in 1 .. n : k # n => k \in 1 .. (n - 1)
        BY <1>3 DEF n
      <4> QED BY <1>4, <2>2, <4>1
    <3>2. val[d] = Apply(fn[d], cached[d])
      BY <1>2, <3>1 DEF Memoised, n
    <3> QED BY <1>1, <2>2, <3>2 DEF Nodes
  <2> QED BY <2>1, <2>2
<1>20. \A d \in Cells : Ready(d) => Ready(d)'
  BY <1>6 DEF Ready, Cells
<1>21. Swept'
  <2>1. ASSUME pc = "sweep", NEW k \in 1 .. (next - 1), k <= len
        PROVE  Ready(slots[k])' \/ (stack' # <<>> /\ stack'[1].cell = slots[k])
    <3>1. Ready(slots[k]) \/ stack[1].cell = slots[k]
      BY <1>2, <2>1 DEF Swept
    <3>2. slots[k] \in Registered
      BY <1>2, <2>1 DEF Registered, TypeInv, TypeOK, ListType, ControlType
    <3>3. CASE n = 1 /\ stack[1].cell = slots[k]
      <4>1. slots[k] = c
        BY <1>4, <3>3
      <4> QED BY <1>3, <1>6, <4>1 DEF Ready
    <3>4. CASE n # 1
      <4>1. Len(stack') # 0 /\ stack'[1] = stack[1]
        BY <1>3, <1>5, <3>4
      <4>2. stack' # <<>>
        BY <4>1, EmptySeq
      <4> QED BY <1>13, <1>20, <3>1, <3>2, <4>1, <4>2
    <3> QED BY <1>13, <1>20, <3>1, <3>2, <3>3, <3>4
  <2>2. pc \in {"sweep", "build"}
    BY <1>2 DEF TypeInv, TypeOK, ControlType, InEval
  <2> QED BY <1>2, <2>1, <2>2 DEF Swept
<1>22. Ordered'
  <2>1. PICK rank \in [Cells -> Nat], m \in Nat : RankedGraph(rank,
            m) /\ RankedStack(rank)
    BY DEF SInv, Ordered
  <2>2. \A k \in 1 .. (n - 1) : k \in 1 .. n
    BY <1>3 DEF n
  <2>3. made' = made /\ deps' = deps
    OBVIOUS
  <2>4. RankedGraph(rank, m)'
    BY <2>1, <2>3 DEF RankedGraph
  <2>5. RankedStack(rank)'
    <3>1. \A i, k \in 1 .. (n - 1) :
            i < k => rank[stack'[k].cell] < rank[stack'[i].cell]
      BY <1>5, <2>1, <2>2 DEF RankedStack, n
    <3> QED BY <1>5, <3>1 DEF RankedStack
  <2> QED BY <2>4, <2>5 DEF Ordered
<1> QED BY <1>14, <1>15, <1>16, <1>17, <1>18, <1>19, <1>21, <1>22 DEF SInv,
       TypeInv, Consistent

LEMMA SafeEvalReturn ==
  ASSUME SInv, TypeInv', EvalKeep \/ EvalGet \/ EvalRun
  PROVE  SInv'
<1>1. /\ InEval /\ ~Building /\ ArgsDone /\ stack' = Pop
      /\ state' = [state EXCEPT ![Top.cell] = "clean"]
      /\ UNCHANGED <<graphVars, listVars, cached, mu, anyDirty, pc, op, next,
                     upto, pendVars>>
  BY DEF EvalKeep, EvalGet, EvalRun, Calling
<1>2. TypeInv /\ Parts
  BY SInvParts
<1>3. /\ Len(stack) \in Nat \ {0} /\ Top = stack[Len(stack)]
      /\ Top.cell \in made /\ Top.cell \in Derived
  BY <1>1, <1>2, TopFacts
<1>4. CASE EvalKeep
  <2>1. Top.same /\ val' = val
    BY <1>4 DEF EvalKeep
  <2>2. ~IsBuilder(Len(stack))
    <3>1. ASSUME IsBuilder(Len(stack)) PROVE FALSE
      BY <1>1, <3>1 DEF IsBuilder, Building
    <3> QED BY <3>1
  <2>3. \A k \in 1 .. Len(stack) : stack[k].cell = Top.cell => k = Len(stack)
    BY <1>3, StackDistinct
  <2>4. Top.cell \in Computeds \cap Untainted =>
          val[Top.cell] = Apply(fn[Top.cell], cached[Top.cell])
    BY <1>2, <1>3, <2>1, <2>2, <2>3 DEF Parts, Memoised
  <2> QED BY <1>1, <2>1, <2>4, SafePop
<1>5. CASE EvalGet
  <2>1. /\ Top.cell \in Computeds /\ Top.cell \in Nodes
        /\ val' = [val EXCEPT ![Top.cell] = Apply(fn[Top.cell],
            cached[Top.cell])]
    BY <1>5 DEF EvalGet, Nodes
  <2>2. /\ val'[Top.cell] = Apply(fn[Top.cell], cached[Top.cell])
        /\ \A d \in Nodes : d # Top.cell => val'[d] = val[d]
    BY <1>2, <2>1 DEF TypeInv, TypeOK, DataType
  <2> QED BY <1>1, <2>2, SafePop
<1>6. CASE EvalRun
  <2>1. Top.cell \notin Computeds /\ val' = val
    BY <1>6, KindsAssumption DEF EvalRun, KindsAssumption, Nodes
  <2> QED BY <1>1, <2>1, SafePop
<1> QED BY <1>4, <1>5, <1>6

LEMMA SafeBuildEnd ==
  ASSUME SInv, TypeInv', BuildEnd
  PROVE  SInv'
<1>1. PICK c : c = Top.cell
  OBVIOUS
<1>2. /\ InEval /\ pc = "build" /\ Len(stack) = 1
      /\ val' = [val EXCEPT ![c] = Apply(fn[c], cached[c])]
      /\ AppendAt(len, c) /\ pc' = "done" /\ stack' = <<>>
      /\ UNCHANGED <<graphVars, cached, state, mu, anyDirty, op, next, upto,
                     pendVars>>
  BY <1>1 DEF BuildEnd, Calling, Building
<1>3. TypeInv /\ Parts
  BY SInvParts
<1>4. /\ stack[1].cell = c /\ c = op.cell /\ c \in Computeds /\ c \in made
      /\ c \in Derived /\ c \in Cells /\ c \in Nodes /\ op.name = "Computed"
  BY <1>1, <1>2, <1>3, TopFacts DEF TypeInv, WellFormed, Placed, Top, Derived,
     Cells, Nodes
<1>5. c \notin held /\ c \notin Registered /\ state[c] = "dirty" /\ anyDirty
  BY <1>2, <1>3, <1>4 DEF Parts, BuilderApart
<1>6. Registered' = Registered \cup {c}
  BY <1>2, <1>4, AppendRegisters DEF graphVars
<1>7. /\ val'[c] = Apply(fn[c], cached[c])
      /\ \A d \in Nodes : d # c => val'[d] = val[d]
  BY <1>2, <1>3, <1>4 DEF TypeInv, TypeOK, DataType
<1>8. \A d \in Derived \cap Untainted : state[d] # "computing"
  BY <1>2, <1>3, <1>4, <1>5 DEF Parts, Computing, OnStack
<1>9. Len(stack') = 0
  BY <1>2, EmptySeq
<1> USE DEF Parts, graphVars, pendVars
<1>10. AppendsAlone'
  <2>1. mu # None
    BY <1>2, <1>3 DEF TypeInv, TypeOK, ControlType
  <2> QED BY <1>2, <1>3, <2>1 DEF AppendsAlone
<1>11. CleanAgree'
  <2> SUFFICES ASSUME NEW d \in Registered \ Signals, d # c, state[d] = "clean"
               PROVE  Agrees(d)'
    BY <1>2, <1>5, <1>6 DEF CleanAgree
  <2>1. d \in made /\ d \in Derived /\ Agrees(d)
    BY <1>2, <1>3, RegisteredMade DEF CleanAgree
  <2>2. \A j \in 1 .. Len(deps[d]) : deps[d][j] # c /\ deps[d][j] \in Nodes
    BY <1>5, <2>1, RegisteredMade
  <2> QED BY <1>2, <1>7, <2>1, <2>2 DEF Agrees, Ready
<1>12. Frames' /\ BuilderApart' /\ Computing'
  BY <1>2, <1>8, <1>9, SameTaint DEF Frames, BuilderApart, Computing
<1>13. Memoised'
  <2> SUFFICES ASSUME NEW d \in made \cap Computeds \cap Untainted
               PROVE  val'[d] = Apply(fn[d], cached[d])
    BY <1>2, SameTaint DEF Memoised
  <2>1. CASE d # c
    <3>1. \A k \in 1 .. Len(stack) : stack[k].cell # d
      BY <1>2, <1>4, <2>1
    <3> QED BY <1>3, <1>7, <2>1, <3>1 DEF Memoised, Nodes
  <2> QED BY <1>7, <2>1
<1>14. Swept'
  BY <1>2, <1>4, <1>5 DEF Swept
<1>15. Ordered'
  BY <1>2, OrderedIdle
<1> QED BY <1>10, <1>11, <1>12, <1>13, <1>14, <1>15 DEF SInv, TypeInv,
       Consistent

LEMMA SafeStep ==
  ASSUME SInv, TypeInv', Step
  PROVE  SInv'
<1>1. CASE RemoveOverrun \/ Return
  <2>1. Unlock /\ UNCHANGED <<made, deps, fn, listVars, dataVars, anyDirty, pendVars>>
    BY <1>1 DEF RemoveOverrun, Return, graphVars
  <2>2. pc \in {"remove", "done"}
    BY <1>1 DEF RemoveOverrun, Return
  <2>3. \A k \in 1 .. Len(stack) : FALSE
    BY <2>2, IdleStack, EmptySeq
  <2> QED BY <2>1, <2>2, <2>3, SafeUnlock
<1> QED BY <1>1, SafePanic, SafeRemoving, SafeMark, SafeSweepSkip,
           SafeSweepEval, SafeSweepEnd, SafeEvalArg, SafeEvalDep,
           SafeEvalReturn, SafeBuildEnd DEF Step

LEMMA SafeNext == SignalOverlaps = FALSE /\ SInv /\ [Next]_vars => SInv'
<1> SUFFICES ASSUME SignalOverlaps = FALSE, SInv, [Next]_vars PROVE SInv'
  OBVIOUS
<1>0. TypeInv'
  BY TypeNext, SInvType
<1>1. CASE UNCHANGED vars
  <2>1. TypeInv /\ Parts /\ Registered' = Registered
    BY <1>1, SInvParts DEF Registered, vars, listVars
  <2> USE <1>1, <2>1 DEF vars, graphVars, listVars, dataVars, ctrlVars,
         pendVars, Parts
  <2>2. AppendsAlone' /\ CleanAgree' /\ BuilderApart'
    BY DEF AppendsAlone, CleanAgree, Agrees, Ready, BuilderApart
  <2>3. Frames' /\ Computing' /\ Memoised'
    BY SameTaint DEF Frames, IsBuilder, Ready, Computing, OnStack, Memoised
  <2>4. Swept'
    BY DEF Swept, Ready
  <2>5. Ordered'
    BY DEF SInv, Ordered, RankedGraph, RankedStack
  <2> QED BY <1>0, <2>2, <2>3, <2>4, <2>5 DEF SInv, TypeInv, Consistent
<1>2. CASE Step
  BY <1>0, <1>2, SafeStep
<1>3. ASSUME NEW g \in Goroutines, Call(g) PROVE SInv'
  <2>1. ASSUME NEW s \in Signals, NEW v \in Values, SignalRead(g, s,
            v) \/ SetValue(g, s, v)
        PROVE SInv'
    BY <1>0, <2>1, SafeSignalRead, SafeSetValue
  <2>2. ASSUME NEW c \in Nodes, Value(g, c) PROVE SInv'
    BY <1>0, <2>2, SafeValue
  <2>3. ASSUME NEW c \in Computeds, NEW ds \in Wirings, NEW f \in Getters,
            Computed(g, c, ds, f)
        PROVE SInv'
    BY <1>0, <2>3, SafeComputed
  <2>4. ASSUME NEW e \in Effects, NEW ds \in Wirings, Effect(g, e, ds)
        PROVE SInv'
    BY <1>0, <2>4, SafeEffect
  <2>5. ASSUME NEW cs, Remove(g, cs)
        PROVE SInv'
    BY <1>0, <2>5, SafeRemove
  <2>6. CASE Reset(g)
    BY <1>0, <2>6, SafeReset
  <2> QED BY <1>3, <2>1, <2>2, <2>3, <2>4, <2>5, <2>6 DEF Call
<1>4. ASSUME NEW g \in Goroutines, SignalWrite(g) PROVE SInv'
  BY <1>0, <1>4, SafeSignalWrite
<1> QED BY <1>1, <1>2, <1>3, <1>4 DEF Next

LEMMA SafeSpec ==
  ASSUME SignalOverlaps = FALSE
  PROVE  Spec => []SInv
<1>1. Init => SInv
  BY SafeInit
<1>2. SInv /\ [Next]_vars => SInv'
  BY SafeNext
<1> QED BY <1>1, <1>2, PTL DEF Spec

(* The steps of evalAll() keep a consistent list: whatever is clean is     *)
(* final, and every value is that of its cache or about to be recomputed.  *)
THEOREM ConsistentAlways ==
  ASSUME SignalOverlaps = FALSE
  PROVE  Spec => []Consistent
<1>1. SInv => Consistent
  BY DEF SInv
<1> QED BY <1>1, SafeSpec, PTL

(* "circular dependency" is never raised, whatever the wiring.             *)
THEOREM NoFalseCycleAlways ==
  ASSUME Disciplined
  PROVE  Spec => []NoFalseCycle
<1>1. SInv => NoFalseCycle
  BY NoCircular DEF NoFalseCycle, Disciplined
<1>2. Spec => []SInv
  BY SafeSpec DEF Disciplined
<1> QED BY <1>1, <1>2, PTL

(* When Value(), SetValue() or EffectN returns, the registered cells solve *)
(* the equations of the graph.                                             *)
THEOREM SettledAlways ==
  ASSUME Disciplined
  PROVE  Spec => []Settled
<1>1. SInv => Settled
  <2> SUFFICES ASSUME SInv, pc = "done", op.name \in {"Value", "SetValue",
          "Effect"},
                      NEW c \in Registered \ Signals
               PROVE  /\ state[c] = "clean" /\ cached[c] = DepVals(c)
                      /\ c \in Computeds => val[c] = Apply(fn[c], DepVals(c))
    BY DEF Settled
  <2>1. c \in made /\ c \in Derived
    BY RegisteredMade
  <2>2. stack = <<>> /\ Len(stack) = 0
    BY IdleStack
  <2>3. state[c] = "clean"
    BY DEF SInv, Consistent, Swept, Ready
  <2>4. Agrees(c)
    BY <2>3 DEF SInv, Consistent, CleanAgree
  <2>5. cached[c] = DepVals(c)
    <3>1. /\ cached[c] \in Seq(Values) /\ deps[c] \in Seq(Nodes)
          /\ Len(cached[c]) = Len(deps[c])
      BY <2>1 DEF SInv, TypeOK, DataType, GraphType
    <3>2. cached[c] = [j \in 1 .. Len(deps[c]) |-> cached[c][j]]
      BY <3>1
    <3>3. DepVals(c) = [j \in 1 .. Len(deps[c]) |-> val[deps[c][j]]]
      BY <3>1 DEF DepVals
    <3> QED BY <2>4, <3>2, <3>3 DEF Agrees
  <2>6. c \in Computeds => val[c] = Apply(fn[c], cached[c])
    <3>1. c \in Computeds => c \in Untainted
      BY NothingTainted DEF SInv, Disciplined, Cells, Nodes, Derived
    <3> QED BY <2>1, <2>2, <3>1 DEF SInv, Consistent, Memoised
  <2> QED BY <2>3, <2>5, <2>6
<1>2. Spec => []SInv
  BY SafeSpec DEF Disciplined
<1> QED BY <1>1, <1>2, PTL

(* Once eval() has read every argument, its cache holds what these are.    *)
LEMMA ArgsRead ==
  ASSUME SInv, InEval, ArgsDone, NEW c, c = Top.cell
  PROVE  /\ c \in Derived /\ cached[c] = DepVals(c)
         /\ \A j \in DOMAIN deps[c] : Ready(deps[c][j])
<1>1. /\ c \in Derived /\ Top = stack[Len(stack)] /\ Len(stack) \in Nat \ {0}
      /\ Top.arg = Len(deps[c]) + 1 /\ Len(deps[c]) \in Nat
      /\ deps[c] \in Seq(Nodes)
  BY TopFacts, SInvType
<1>2. Agrees(c)
  <2>1. /\ Len(stack) \in 1 .. Len(stack)
        /\ stack[Len(stack)].cell = c
        /\ stack[Len(stack)].arg - 1 = Len(deps[c])
    BY <1>1
  <2> QED BY <2>1 DEF SInv, Consistent, Frames, Agrees
<1>3. cached[c] \in Seq(Values) /\ Len(cached[c]) = Len(deps[c])
  BY <1>1 DEF SInv, TypeOK, DataType
<1>4. cached[c] = [j \in 1 .. Len(deps[c]) |-> cached[c][j]]
  BY <1>3
<1>5. DepVals(c) = [j \in 1 .. Len(deps[c]) |-> val[deps[c][j]]]
  BY <1>1 DEF DepVals
<1>6. cached[c] = DepVals(c)
  BY <1>2, <1>4, <1>5 DEF Agrees
<1>7. DOMAIN deps[c] = 1 .. Len(deps[c])
  BY <1>1
<1> QED BY <1>1, <1>2, <1>6, <1>7 DEF Agrees

(* Every call of a getter or of an effect's fn, the one in a constructor   *)
(* included, is made on the values its dependencies have now, and none of  *)
(* these will change before the operation returns.                         *)
ArgsFinal ==
  [][EvalGet \/ EvalRun \/ BuildEnd =>
       /\ cached[Top.cell] = DepVals(Top.cell)
       /\ \A j \in DOMAIN deps[Top.cell] : Ready(deps[Top.cell][j])]_vars

(* Glitch freedom, in the form that does not unfold the graph: no callback *)
(* runs before all that it depends on is up to date.                       *)
THEOREM ArgsFinalAlways ==
  ASSUME SignalOverlaps = FALSE
  PROVE  Spec => ArgsFinal
<1>1. SInv /\ [Next]_vars =>
        [EvalGet \/ EvalRun \/ BuildEnd =>
           /\ cached[Top.cell] = DepVals(Top.cell)
           /\ \A j \in DOMAIN deps[Top.cell] : Ready(deps[Top.cell][j])]_vars
  <2> SUFFICES ASSUME SInv, EvalGet \/ EvalRun \/ BuildEnd
               PROVE  /\ cached[Top.cell] = DepVals(Top.cell)
                      /\ \A j \in DOMAIN deps[Top.cell] : Ready(deps[Top.cell][j])
    OBVIOUS
  <2>1. InEval /\ ArgsDone
    BY DEF EvalGet, EvalRun, BuildEnd, Calling
  <2>2. PICK c : c = Top.cell
    OBVIOUS
  <2> QED BY <2>1, <2>2, ArgsRead
<1> QED BY <1>1, SafeSpec, PTL DEF ArgsFinal, Spec
=============================================================================
