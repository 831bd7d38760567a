---------------------------- MODULE RocketProofs ----------------------------
(* Proofs about Rocket, for any cells and values, any wiring, any getters, *)
(* and callbacks that may panic.  With any number of goroutines the types  *)
(* and the mutex; with one goroutine, its own callbacks do not make it     *)
(* wait for itself, and what was stopped stays stopped.                    *)
EXTENDS Rocket, TLAPS, SequenceTheorems, FiniteSetTheorems,
        WellFoundedInduction

-----------------------------------------------------------------------------
(* Stacks. *)

(* Pushing a call leaves the calls below as they are. *)
LEMMA Push ==
  ASSUME NEW S, NEW s \in Seq(S), NEW e \in S
  PROVE  /\ Append(s, e) \in Seq(S)
         /\ Len(Append(s, e)) = Len(s) + 1
         /\ Append(s, e) # <<>>
         /\ \A k \in 1 .. Len(s) : Append(s, e)[k] = s[k]
         /\ Append(s, e)[Len(s) + 1] = e
OBVIOUS

(* So does popping one. *)
LEMMA Shrink ==
  ASSUME NEW S, NEW s \in Seq(S), s # <<>>
  PROVE  /\ SubSeq(s, 1, Len(s) - 1) \in Seq(S)
         /\ Len(SubSeq(s, 1, Len(s) - 1)) = Len(s) - 1
         /\ \A k \in 1 .. (Len(s) - 1) : SubSeq(s, 1, Len(s) - 1)[k] = s[k]
<1> DEFINE n == Len(s) - 1
<1>1. n \in Nat /\ Len(s) \in Nat /\ 1 \in Int /\ n \in Int
  BY EmptySeq, LenProperties
<1>2. \A k \in 1 .. n : s[k] \in S
  BY <1>1, ElementOfSeq
<1>3. /\ SubSeq(s, 1, n) \in Seq(S)
      /\ Len(SubSeq(s, 1, n)) = IF 1 <= n THEN n - 1 + 1 ELSE 0
      /\ \A k \in 1 .. n - 1 + 1 : SubSeq(s, 1, n)[k] = s[1 + k - 1]
  <2> HIDE DEF n
  <2> QED BY <1>1, <1>2, SubSeqProperties
<1> HIDE DEF n
<1>4. n - 1 + 1 = n /\ \A k \in 1 .. n : 1 + k - 1 = k
  BY <1>1
<1>5. Len(SubSeq(s, 1, n)) = n
  BY <1>1, <1>3, <1>4
<1>6. \A k \in 1 .. n : SubSeq(s, 1, n)[k] = s[k]
  BY <1>1, <1>3, <1>4
<1> QED BY <1>3, <1>5, <1>6 DEF n

(* The call on top is one of the calls. *)
LEMMA TopFrame ==
  ASSUME StackType, StackFormed, NEW g \in Goroutines, ~Idle(g)
  PROVE  /\ stack[g] \in Seq(FrameSet) /\ stack[g] # <<>>
         /\ Len(stack[g]) \in Nat \ {0}
         /\ Top(g) \in FrameSet
         /\ Formed(Top(g), made, deps)
<1>1. stack[g] \in Seq(FrameSet) /\ stack[g] # <<>>
  BY DEF StackType, Idle
<1>2. Len(stack[g]) \in Nat \ {0}
  BY <1>1, EmptySeq, LenProperties
<1>3. Len(stack[g]) \in 1 .. Len(stack[g])
  BY <1>2
<1> QED BY <1>1, <1>2, <1>3, ElementOfSeq DEF Top, StackFormed

(* What the actions say of the stack of g, in terms of the calls in it.    *)
LEMMA Moving ==
  ASSUME StackType, NEW g \in Goroutines, stack[g] # <<>>,
         NEW f \in FrameSet, stack' = Moved(g, f)
  PROVE  /\ stack' \in [Goroutines -> Seq(FrameSet)]
         /\ Len(stack'[g]) = Len(stack[g])
         /\ stack'[g][Len(stack[g])] = f
         /\ \A k \in 1 .. (Len(stack[g]) - 1) : stack'[g][k] = stack[g][k]
         /\ \A h \in Goroutines \ {g} : stack'[h] = stack[h]
<1>1. /\ stack[g] \in Seq(FrameSet)
      /\ stack' = [stack EXCEPT ![g] =
                     [stack[g] EXCEPT ![Len(stack[g])] = f]]
  BY DEF StackType, Moved
<1>2. Len(stack[g]) \in 1 .. Len(stack[g])
  BY <1>1, EmptySeq, LenProperties
<1>3. /\ [stack[g] EXCEPT ![Len(stack[g])] = f] \in Seq(FrameSet)
      /\ Len([stack[g] EXCEPT ![Len(stack[g])] = f]) = Len(stack[g])
      /\ [stack[g] EXCEPT ![Len(stack[g])] = f][Len(stack[g])] = f
      /\ \A k \in 1 .. (Len(stack[g]) - 1) :
           [stack[g] EXCEPT ![Len(stack[g])] = f][k] = stack[g][k]
  BY <1>1, <1>2, ExceptSeq
<1>4. /\ stack'[g] = [stack[g] EXCEPT ![Len(stack[g])] = f]
      /\ \A h \in Goroutines \ {g} : stack'[h] = stack[h]
  BY <1>1 DEF StackType
<1>5. stack' \in [Goroutines -> Seq(FrameSet)]
  BY <1>1, <1>3 DEF StackType
<1> QED BY <1>3, <1>4, <1>5

LEMMA Pushing ==
  ASSUME StackType, NEW g \in Goroutines, NEW f \in FrameSet,
         stack' = Pushed(g, f)
  PROVE  /\ stack' \in [Goroutines -> Seq(FrameSet)]
         /\ Len(stack'[g]) = Len(stack[g]) + 1
         /\ stack'[g][Len(stack[g]) + 1] = f
         /\ \A k \in 1 .. Len(stack[g]) : stack'[g][k] = stack[g][k]
         /\ \A h \in Goroutines \ {g} : stack'[h] = stack[h]
<1>1. /\ stack[g] \in Seq(FrameSet)
      /\ stack'[g] = Append(stack[g], f)
      /\ stack' = [stack EXCEPT ![g] = Append(stack[g], f)]
      /\ \A h \in Goroutines \ {g} : stack'[h] = stack[h]
  BY DEF StackType, Pushed
<1>2. Append(stack[g], f) \in Seq(FrameSet)
  BY <1>1, Push
<1>3. stack' \in [Goroutines -> Seq(FrameSet)]
  BY <1>1, <1>2 DEF StackType
<1> QED BY <1>1, <1>3, Push

LEMMA Popping ==
  ASSUME StackType, NEW g \in Goroutines, stack[g] # <<>>,
         stack' = Popped(g)
  PROVE  /\ stack' \in [Goroutines -> Seq(FrameSet)]
         /\ Len(stack'[g]) = Len(stack[g]) - 1
         /\ \A k \in 1 .. (Len(stack[g]) - 1) : stack'[g][k] = stack[g][k]
         /\ \A h \in Goroutines \ {g} : stack'[h] = stack[h]
<1> DEFINE short == SubSeq(stack[g], 1, Len(stack[g]) - 1)
<1>1. /\ stack[g] \in Seq(FrameSet)
      /\ stack'[g] = short
      /\ stack' = [stack EXCEPT ![g] = short]
      /\ \A h \in Goroutines \ {g} : stack'[h] = stack[h]
  BY DEF StackType, Popped
<1>2. /\ short \in Seq(FrameSet) /\ Len(short) = Len(stack[g]) - 1
      /\ \A k \in 1 .. (Len(stack[g]) - 1) : short[k] = stack[g][k]
  BY <1>1, Shrink
<1> HIDE DEF short
<1>3. stack' \in [Goroutines -> Seq(FrameSet)]
  BY <1>1, <1>2 DEF StackType
<1> QED BY <1>1, <1>2, <1>3

(* f replaces the call on top, and e goes above it. *)
LEMMA Calling2 ==
  ASSUME StackType, NEW g \in Goroutines, stack[g] # <<>>,
         NEW f \in FrameSet, NEW e \in FrameSet, NEW t,
         t = [stack EXCEPT ![g][Len(stack[g])] = f],
         stack' = [stack EXCEPT ![g] = Append(t[g], e)]
  PROVE  /\ stack' \in [Goroutines -> Seq(FrameSet)]
         /\ Len(stack'[g]) = Len(stack[g]) + 1
         /\ stack'[g][Len(stack[g]) + 1] = e
         /\ stack'[g][Len(stack[g])] = f
         /\ \A k \in 1 .. (Len(stack[g]) - 1) : stack'[g][k] = stack[g][k]
         /\ \A h \in Goroutines \ {g} : stack'[h] = stack[h]
<1> DEFINE s == [stack[g] EXCEPT ![Len(stack[g])] = f]
<1>1. stack[g] \in Seq(FrameSet) /\ t[g] = s
  BY DEF StackType
<1>2. Len(stack[g]) \in 1 .. Len(stack[g])
  BY <1>1, EmptySeq, LenProperties
<1>3. /\ s \in Seq(FrameSet) /\ Len(s) = Len(stack[g])
      /\ s[Len(stack[g])] = f
      /\ \A k \in 1 .. (Len(stack[g]) - 1) : s[k] = stack[g][k]
  BY <1>1, <1>2, ExceptSeq
<1> HIDE DEF s
<1>4. /\ stack'[g] = Append(s, e)
      /\ stack' = [stack EXCEPT ![g] = Append(s, e)]
      /\ \A h \in Goroutines \ {g} : stack'[h] = stack[h]
  BY <1>1 DEF StackType
<1>5. /\ Append(s, e) \in Seq(FrameSet)
      /\ Len(Append(s, e)) = Len(stack[g]) + 1
      /\ \A k \in 1 .. Len(s) : Append(s, e)[k] = s[k]
      /\ Append(s, e)[Len(s) + 1] = e
  BY <1>3, Push
<1>6. stack' \in [Goroutines -> Seq(FrameSet)]
  BY <1>4, <1>5 DEF StackType
<1> QED BY <1>2, <1>3, <1>4, <1>5, <1>6

-----------------------------------------------------------------------------
(* Steps that keep the calls formed and the mutex with its holder. *)

SInv == StackType /\ StackFormed /\ WellLocked

(* No cell is forgotten or rewired. *)
GraphGrows ==
  made \subseteq made' /\ \A c \in made \cap Derived : deps'[c] = deps[c]

LEMMA FormedStays ==
  ASSUME NEW m, NEW ds, NEW n, NEW es, NEW f, Formed(f, m, ds),
         m \subseteq n, \A c \in m \cap Derived : es[c] = ds[c]
  PROVE  Formed(f, n, es)
<1>1. f.op = "value" => f.cell \in m \cap Derived /\ es[f.cell] = ds[f.cell]
  BY DEF Formed
<1> QED BY <1>1 DEF Formed

(* A goroutine that does nothing is as it was. *)
LEMMA OthersFormed ==
  ASSUME SInv, GraphGrows, NEW h \in Goroutines, NEW k \in 1 .. Len(stack[h])
  PROVE  Formed(stack[h][k], made', deps')
<1>1. Formed(stack[h][k], made, deps)
  BY DEF SInv, StackFormed
<1> QED BY <1>1, FormedStays DEF GraphGrows

(* The call on top goes on. *)
LEMMA MoveKeeps ==
  ASSUME SInv, GraphGrows, NEW g \in Goroutines, ~Idle(g),
         NEW f \in FrameSet, stack' = Moved(g, f), mu' = mu,
         inEffect' \in BOOLEAN,
         Formed(f, made', deps'), f.locked = Top(g).locked
  PROVE  SInv'
<1> DEFINE n == Len(stack[g])
<1>1. stack[g] # <<>> /\ n \in Nat \ {0} /\ Top(g) = stack[g][n]
  BY TopFrame DEF SInv, Top
<1>2. /\ stack' \in [Goroutines -> Seq(FrameSet)]
      /\ Len(stack'[g]) = n /\ stack'[g][n] = f
      /\ \A k \in 1 .. (n - 1) : stack'[g][k] = stack[g][k]
      /\ \A h \in Goroutines \ {g} : stack'[h] = stack[h]
  BY <1>1, Moving DEF SInv
<1> HIDE DEF n
<1>3. StackType'
  BY <1>2 DEF SInv, StackType
<1>4. \A k \in 1 .. n : k = n \/ k \in 1 .. (n - 1)
  BY <1>1
<1>5. ASSUME NEW h \in Goroutines, NEW k \in 1 .. Len(stack'[h])
      PROVE  Formed(stack'[h][k], made', deps')
  <2>1. CASE h = g
    BY <1>1, <1>2, <1>4, <2>1, OthersFormed DEF n
  <2>2. CASE h # g
    BY <1>2, <2>2, OthersFormed
  <2> QED BY <2>1, <2>2
<1>6. \A h \in Goroutines :
        /\ Len(stack'[h]) = Len(stack[h])
        /\ \A k \in 1 .. Len(stack[h]) :
             stack'[h][k].locked = stack[h][k].locked
  BY <1>1, <1>2, <1>4 DEF n
<1>7. WellLocked'
  BY SMTT(30), <1>6 DEF SInv, WellLocked
<1> QED BY <1>3, <1>5, <1>7 DEF SInv, StackFormed

(* A call that has not locked is made. *)
LEMMA PushKeeps ==
  ASSUME SInv, GraphGrows, NEW g \in Goroutines,
         NEW f \in FrameSet, stack' = Pushed(g, f), mu' = mu,
         inEffect' \in BOOLEAN, Formed(f, made', deps'), ~f.locked
  PROVE  SInv'
<1> DEFINE n == Len(stack[g])
<1>1. n \in Nat
  BY DEF SInv, StackType
<1>2. /\ stack' \in [Goroutines -> Seq(FrameSet)]
      /\ Len(stack'[g]) = n + 1 /\ stack'[g][n + 1] = f
      /\ \A k \in 1 .. n : stack'[g][k] = stack[g][k]
      /\ \A h \in Goroutines \ {g} : stack'[h] = stack[h]
  BY Pushing DEF SInv
<1> HIDE DEF n
<1>3. StackType'
  BY <1>2 DEF SInv, StackType
<1>4. \A k \in 1 .. (n + 1) : k = n + 1 \/ k \in 1 .. n
  BY <1>1
<1>5. ASSUME NEW h \in Goroutines, NEW k \in 1 .. Len(stack'[h])
      PROVE  Formed(stack'[h][k], made', deps')
  <2>1. CASE h = g
    BY <1>1, <1>2, <1>4, <2>1, OthersFormed DEF n
  <2>2. CASE h # g
    BY <1>2, <2>2, OthersFormed
  <2> QED BY <2>1, <2>2
<1>6. \A h \in Goroutines :
        /\ \A k \in 1 .. Len(stack'[h]) :
             stack'[h][k].locked =>
               k \in 1 .. Len(stack[h]) /\ stack[h][k].locked
        /\ \A k \in 1 .. Len(stack[h]) :
             stack[h][k].locked =>
               k \in 1 .. Len(stack'[h]) /\ stack'[h][k].locked
  <2> TAKE h \in Goroutines
  <2>1. CASE h = g
    BY <1>1, <1>2, <1>4, <2>1 DEF n
  <2>2. CASE h # g
    BY <1>2, <2>2
  <2> QED BY <2>1, <2>2
<1>7. WellLocked'
  BY <1>6 DEF SInv, WellLocked
<1> QED BY <1>3, <1>5, <1>7 DEF SInv, StackFormed

(* A call that has not locked ends. *)
LEMMA PopKeeps ==
  ASSUME SInv, GraphGrows, NEW g \in Goroutines, ~Idle(g),
         stack' = Popped(g), mu' = mu, inEffect' \in BOOLEAN, ~Top(g).locked
  PROVE  SInv'
<1> DEFINE n == Len(stack[g])
<1>1. stack[g] # <<>> /\ n \in Nat \ {0} /\ Top(g) = stack[g][n]
  BY TopFrame DEF SInv, Top
<1>2. /\ stack' \in [Goroutines -> Seq(FrameSet)]
      /\ Len(stack'[g]) = n - 1
      /\ \A k \in 1 .. (n - 1) : stack'[g][k] = stack[g][k]
      /\ \A h \in Goroutines \ {g} : stack'[h] = stack[h]
  BY <1>1, Popping DEF SInv
<1> HIDE DEF n
<1>3. StackType'
  BY <1>2 DEF SInv, StackType
<1>4. \A k \in 1 .. n : k = n \/ k \in 1 .. (n - 1)
  BY <1>1
<1>5. ASSUME NEW h \in Goroutines, NEW k \in 1 .. Len(stack'[h])
      PROVE  Formed(stack'[h][k], made', deps')
  <2>1. CASE h = g
    BY <1>1, <1>2, <2>1, OthersFormed DEF n
  <2>2. CASE h # g
    BY <1>2, <2>2, OthersFormed
  <2> QED BY <2>1, <2>2
<1>6. \A h \in Goroutines :
        /\ \A k \in 1 .. Len(stack'[h]) :
             stack'[h][k].locked =>
               k \in 1 .. Len(stack[h]) /\ stack[h][k].locked
        /\ \A k \in 1 .. Len(stack[h]) :
             stack[h][k].locked =>
               k \in 1 .. Len(stack'[h]) /\ stack'[h][k].locked
  <2> TAKE h \in Goroutines
  <2>1. CASE h = g
    BY <1>1, <1>2, <1>4, <2>1 DEF n
  <2>2. CASE h # g
    BY <1>2, <2>2
  <2> QED BY <2>1, <2>2
<1>7. WellLocked'
  BY <1>6 DEF SInv, WellLocked
<1> QED BY <1>3, <1>5, <1>7 DEF SInv, StackFormed

(* The call on top goes on and makes another, which has not locked. *)
LEMMA CallKeeps ==
  ASSUME SInv, GraphGrows, NEW g \in Goroutines, ~Idle(g),
         NEW f \in FrameSet, NEW e \in FrameSet,
         stack' = [stack EXCEPT ![g] = Append(Moved(g, f)[g], e)], mu' = mu,
         inEffect' \in BOOLEAN,
         Formed(f, made', deps'), f.locked = Top(g).locked,
         Formed(e, made', deps'), ~e.locked
  PROVE  SInv'
<1> DEFINE n == Len(stack[g])
<1>1. stack[g] # <<>> /\ n \in Nat \ {0} /\ Top(g) = stack[g][n]
  BY TopFrame DEF SInv, Top
<1>2. /\ stack' \in [Goroutines -> Seq(FrameSet)]
      /\ Len(stack'[g]) = n + 1 /\ stack'[g][n + 1] = e /\ stack'[g][n] = f
      /\ \A k \in 1 .. (n - 1) : stack'[g][k] = stack[g][k]
      /\ \A h \in Goroutines \ {g} : stack'[h] = stack[h]
  BY <1>1, Calling2 DEF SInv, Moved
<1> HIDE DEF n
<1>3. StackType'
  BY <1>2 DEF SInv, StackType
<1>4. /\ \A k \in 1 .. n : k = n \/ k \in 1 .. (n - 1)
      /\ \A k \in 1 .. (n + 1) : k = n + 1 \/ k \in 1 .. n
  BY <1>1
<1>5. ASSUME NEW h \in Goroutines, NEW k \in 1 .. Len(stack'[h])
      PROVE  Formed(stack'[h][k], made', deps')
  <2>1. CASE h = g
    BY <1>1, <1>2, <1>4, <2>1, OthersFormed DEF n
  <2>2. CASE h # g
    BY <1>2, <2>2, OthersFormed
  <2> QED BY <2>1, <2>2
<1>6. \A h \in Goroutines :
        /\ \A k \in 1 .. Len(stack'[h]) :
             stack'[h][k].locked =>
               k \in 1 .. Len(stack[h]) /\ stack[h][k].locked
        /\ \A k \in 1 .. Len(stack[h]) :
             stack[h][k].locked =>
               k \in 1 .. Len(stack'[h]) /\ stack'[h][k].locked
  <2> TAKE h \in Goroutines
  <2>1. CASE h = g
    BY <1>1, <1>2, <1>4, <2>1 DEF n
  <2>2. CASE h # g
    BY <1>2, <2>2
  <2> QED BY <2>1, <2>2
<1>7. WellLocked'
  BY <1>6 DEF SInv, WellLocked
<1> QED BY <1>3, <1>5, <1>7 DEF SInv, StackFormed

(* A panic leaves all calls of g. *)
LEMMA UnwindKeeps ==
  ASSUME SInv, GraphGrows, NEW g \in Goroutines, Unwind(g),
         inEffect' \in BOOLEAN
  PROVE  SInv'
<1>1. /\ stack' = [stack EXCEPT ![g] = <<>>]
      /\ mu' = IF mu = g THEN None ELSE mu
  BY DEF Unwind
<1>2. /\ stack' \in [Goroutines -> Seq(FrameSet)]
      /\ stack'[g] = <<>> /\ Len(stack'[g]) = 0
      /\ \A h \in Goroutines \ {g} : stack'[h] = stack[h]
  BY <1>1, EmptySeq DEF SInv, StackType
<1>3. StackType'
  BY <1>1, <1>2 DEF SInv, StackType
<1>4. ASSUME NEW h \in Goroutines, NEW k \in 1 .. Len(stack'[h])
      PROVE  Formed(stack'[h][k], made', deps')
  <2>1. h # g
    BY <1>2
  <2> QED BY <1>2, <2>1, OthersFormed
<1>5. \A h \in Goroutines : mu' = h => h # g /\ mu = h
  BY <1>1, KindsAssumption DEF KindsAssumption
<1>6. WellLocked'
  BY <1>1, <1>2, <1>5 DEF SInv, WellLocked
<1> QED BY <1>3, <1>4, <1>6 DEF SInv, StackFormed

-----------------------------------------------------------------------------
(* Type correctness and the mutex, step by step. *)

TInv == SInv /\ GraphType /\ DataType /\ HistType /\ Wired /\ SubsMade

Ats == {"lock", "body", "end", "mark", "pull", "first", "call", "nil"}
Ops == {"Value", "SetValue", "Computed", "Effect", "Stop", "markDirty",
        "value"}

(* The call on top, of a goroutine that is at a given place. *)
LEMMA AtTop ==
  ASSUME TInv, NEW g \in Goroutines, NEW at, Is(g, at)
  PROVE  /\ ~Idle(g) /\ Top(g).at = at
         /\ Top(g) \in FrameSet /\ Formed(Top(g), made, deps)
BY TopFrame DEF TInv, SInv, Is

LEMMA FrameType ==
  ASSUME NEW op \in Ops, NEW at \in Ats, NEW c \in Cells,
         NEW args \in Seq(Values)
  PROVE  Frame(op, at, c, args) \in FrameSet
BY BoundsAssumption DEF BoundsAssumption, Frame, FrameSet, Ops, Ats

LEMMA GotoType ==
  ASSUME NEW f \in FrameSet, NEW at \in Ats
  PROVE  /\ [f EXCEPT !.at = at] \in FrameSet
         /\ [f EXCEPT !.at = at].at = at
         /\ [f EXCEPT !.at = at].op = f.op
         /\ [f EXCEPT !.at = at].cell = f.cell
         /\ [f EXCEPT !.at = at].arg = f.arg
         /\ [f EXCEPT !.at = at].args = f.args
         /\ [f EXCEPT !.at = at].locked = f.locked
         /\ [f EXCEPT !.at = at].over = f.over
BY DEF FrameSet, Ats

(* A write on its way to the subscribers, and the mark of a computed. *)
LEMMA RangingType ==
  ASSUME TInv, NEW g \in Goroutines, ~Idle(g), Top(g).cell \in Nodes
  PROVE  /\ Ranging(g) \in FrameSet /\ Ranging(g).at = "mark"
         /\ Ranging(g).over = subs[Top(g).cell]
         /\ Ranging(g).op = Top(g).op /\ Ranging(g).cell = Top(g).cell
         /\ Ranging(g).arg = Top(g).arg /\ Ranging(g).args = Top(g).args
         /\ Ranging(g).locked = Top(g).locked
<1>1. Top(g) \in FrameSet /\ subs[Top(g).cell] \in Seq(Derived)
  BY TopFrame DEF TInv, SInv, GraphType
<1> QED BY <1>1 DEF Ranging, FrameSet

LEMMA MarkFrameType ==
  ASSUME TInv, NEW c \in Computeds
  PROVE  /\ MarkFrame(c) \in FrameSet /\ MarkFrame(c).op = "markDirty"
         /\ MarkFrame(c).at = "mark" /\ MarkFrame(c).cell = c
         /\ MarkFrame(c).arg = 1 /\ MarkFrame(c).over = subs[c]
         /\ ~MarkFrame(c).locked
<1> DEFINE e == Frame("markDirty", "mark", c, <<>>)
<1>1. c \in Cells /\ c \in Nodes
  BY DEF Cells, Derived, Nodes
<1>2. e \in FrameSet
  BY <1>1, FrameType, EmptySeq DEF Ops, Ats
<1>3. /\ e.op = "markDirty" /\ e.at = "mark" /\ e.cell = c /\ e.arg = 1
      /\ ~e.locked
  BY DEF Frame
<1>4. subs[c] \in Seq(Derived)
  BY <1>1 DEF TInv, GraphType
<1> HIDE DEF e
<1>5. MarkFrame(c) = [e EXCEPT !.over = subs[c]]
  BY DEF MarkFrame, e
<1> QED BY <1>2, <1>3, <1>4, <1>5 DEF FrameSet

(* A call that moves within its code. *)
LEMMA GoKeeps ==
  ASSUME TInv, NEW g \in Goroutines, ~Idle(g), NEW at \in Ats, Goto(g, at),
         UNCHANGED <<made, deps, mu>>, inEffect' \in BOOLEAN,
         at = "mark" => Top(g).op \in {"SetValue", "markDirty"},
         at \in {"pull", "first", "call"} => Top(g).op = "value",
         at \in {"first", "call"} => Top(g).cell \in Effects,
         at \in {"lock", "body", "end", "nil"} => Top(g).op \notin Inner,
         at \notin {"lock", "nil"}
  PROVE  SInv'
<1> DEFINE f == [Top(g) EXCEPT !.at = at]
<1>1. Top(g) \in FrameSet /\ Formed(Top(g), made, deps)
  BY TopFrame DEF TInv, SInv
<1>2. /\ f \in FrameSet /\ f.at = at /\ f.op = Top(g).op
      /\ f.cell = Top(g).cell /\ f.arg = Top(g).arg /\ f.args = Top(g).args
      /\ f.locked = Top(g).locked
  BY <1>1, GotoType
<1>3. stack' = Moved(g, f)
  BY DEF Goto
<1> HIDE DEF f
<1>4. Formed(f, made, deps)
  BY <1>1, <1>2 DEF Formed
<1>5. GraphGrows /\ Formed(f, made', deps')
  BY <1>4 DEF GraphGrows
<1> QED BY <1>2, <1>3, <1>5, MoveKeeps DEF TInv

(* The parts that a step which leaves graph and data alone keeps. *)
LEMMA Rest ==
  ASSUME TInv, UNCHANGED <<graphVars, dataVars, active, seen>>,
         ran' \in SUBSET Derived
  PROVE  GraphType' /\ DataType' /\ HistType' /\ Wired' /\ SubsMade'
         /\ GraphGrows
BY DEF TInv, graphVars, dataVars, GraphType, DataType, HistType, Wired,
     SubsMade, GraphGrows

LEMMA TypeInit == Init => TInv
<1> SUFFICES ASSUME Init PROVE TInv
  OBVIOUS
<1> USE DEF Init, Cells, Derived, Nodes
<1>1. GraphType /\ HistType
  BY EmptySeq DEF GraphType, HistType
<1>2. DataType
  BY DataAssumption, BoundsAssumption
  DEF DataType, DataAssumption, BoundsAssumption
<1>3. SInv
  <2>1. \A g \in Goroutines : stack[g] = <<>> /\ Len(stack[g]) = 0
    BY EmptySeq
  <2>2. \A g \in Goroutines : mu # g
    BY KindsAssumption DEF KindsAssumption
  <2>3. StackType
    <3>1. <<>> \in Seq(FrameSet)
      BY EmptySeq
    <3> QED BY <3>1 DEF StackType
  <2>4. StackFormed /\ WellLocked
    <3> HIDE DEF Init
    <3> QED BY <2>1, <2>2 DEF StackFormed, WellLocked
  <2> QED BY <2>3, <2>4 DEF SInv
<1>4. Wired /\ SubsMade
  BY EmptySeq DEF Wired, SubsMade
<1> QED BY <1>1, <1>2, <1>3, <1>4 DEF TInv

LEMMA TypeSignal ==
  ASSUME NEW g \in Goroutines, NEW s \in Signals, NEW v \in Values, TInv,
         Signal(g, s, v)
  PROVE  TInv'
<1> USE DEF Signal, TInv
<1>1. s \in Cells /\ s \in Nodes /\ s \notin Derived
  BY KindsAssumption DEF KindsAssumption, Cells, Nodes, Derived
<1>2. GraphType' /\ DataType' /\ HistType'
  BY <1>1 DEF GraphType, DataType, HistType, histVars
<1>3. Wired' /\ SubsMade'
  BY <1>1 DEF Wired, SubsMade
<1>4. GraphGrows
  BY DEF GraphGrows
<1>5. SInv'
  BY <1>4, OthersFormed
  DEF SInv, StackType, StackFormed, WellLocked, lockVars
<1> QED BY <1>2, <1>3, <1>5

(* A call that neither locks nor changes anything yet. *)
LEMMA CallStarts ==
  ASSUME NEW g \in Goroutines, NEW c \in Cells, NEW op \in Ops \ Inner,
         NEW at \in {"lock", "body", "nil"}, NEW args \in Seq(Values), TInv,
         op = "SetValue" => c \in Signals /\ Len(args) = 1,
         op = "Computed" => c \in Computeds \cap made',
         op \in {"Effect", "Stop"} => c \in Effects \cap made',
         Calls(g, Frame(op, at, c, args)), GraphGrows, UNCHANGED lockVars
  PROVE  SInv'
<1> DEFINE f == Frame(op, at, c, args)
<1>1. f \in FrameSet
  BY FrameType DEF Ats
<1>2. Formed(f, made', deps') /\ ~f.locked
  BY DEF Frame, Formed, Inner, Ops
<1>3. stack' = Pushed(g, f)
  BY DEF Calls
<1>4. inEffect' \in BOOLEAN /\ mu' = mu
  BY DEF lockVars, TInv, SInv, StackType
<1> HIDE DEF f
<1> QED BY <1>1, <1>2, <1>3, <1>4, PushKeeps DEF TInv

LEMMA TypeCallValue ==
  ASSUME NEW g \in Goroutines, NEW s \in Signals, TInv, CallValue(g, s)
  PROVE  TInv'
<1>1. GraphType' /\ DataType' /\ HistType' /\ Wired' /\ SubsMade' /\ GraphGrows
  BY Rest DEF CallValue, histVars, TInv, HistType
<1>2. SInv'
  BY <1>1, CallStarts, EmptySeq DEF CallValue, Gate, Ops, Inner, Cells
<1> QED BY <1>1, <1>2 DEF TInv

LEMMA TypeCallSetValue ==
  ASSUME NEW g \in Goroutines, NEW s \in Signals, NEW v \in Values, TInv,
         CallSetValue(g, s, v)
  PROVE  TInv'
<1>1. GraphType' /\ DataType' /\ HistType' /\ Wired' /\ SubsMade' /\ GraphGrows
  BY Rest DEF CallSetValue, histVars, TInv, HistType
<1>2. <<v>> \in Seq(Values) /\ Len(<<v>>) = 1
  OBVIOUS
<1>3. SInv'
  BY <1>1, <1>2, CallStarts DEF CallSetValue, Gate, Ops, Inner, Cells
<1> QED BY <1>1, <1>3 DEF TInv

LEMMA TypeCallComputedValue ==
  ASSUME NEW g \in Goroutines, NEW c \in Computeds, TInv,
         CallComputedValue(g, c)
  PROVE  TInv'
<1>1. GraphType' /\ DataType' /\ HistType' /\ Wired' /\ SubsMade' /\ GraphGrows
  BY Rest DEF CallComputedValue, histVars, TInv, HistType
<1>2. SInv'
  BY <1>1, CallStarts, EmptySeq
  DEF CallComputedValue, Ops, Inner, Cells, Derived
<1> QED BY <1>1, <1>2 DEF TInv

LEMMA TypeCallStop ==
  ASSUME NEW g \in Goroutines, NEW e \in Effects, TInv, CallStop(g, e)
  PROVE  TInv'
<1>1. GraphType' /\ DataType' /\ HistType' /\ Wired' /\ SubsMade' /\ GraphGrows
  BY Rest DEF CallStop, histVars, TInv, HistType
<1>2. e \in made'
  BY DEF CallStop, graphVars, TInv, GraphType
<1>3. SInv'
  BY <1>1, <1>2, CallStarts, EmptySeq
  DEF CallStop, Ops, Inner, Cells, Derived
<1> QED BY <1>1, <1>3 DEF TInv

LEMMA TypeCallComputed ==
  ASSUME NEW g \in Goroutines, NEW c \in Computeds, NEW ds \in Wirings,
         NEW f \in Getters, TInv, CallComputed(g, c, ds, f)
  PROVE  TInv'
<1> USE DEF CallComputed, TInv
<1>0. c \in Derived /\ c \in Cells /\ c \notin Effects
  BY KindsAssumption DEF KindsAssumption, Cells, Derived, Nodes
<1>1. ds \in Seq(Nodes) /\ DOMAIN ds = 1 .. Len(ds)
  BY DataAssumption DEF DataAssumption
<1>2. GraphType' /\ DataType' /\ HistType'
  BY <1>0, <1>1 DEF GraphType, DataType, HistType, dataVars, histVars
<1>3. GraphGrows
  BY DEF GraphGrows, GraphType
<1>4. Wired' /\ SubsMade'
  BY <1>0, <1>1 DEF Wired, SubsMade, GraphType
<1>5. SInv'
  BY <1>0, <1>3, CallStarts, EmptySeq DEF Ops, Inner
<1> QED BY <1>2, <1>4, <1>5

LEMMA TypeCallEffect ==
  ASSUME NEW g \in Goroutines, NEW e \in Effects, NEW ds \in Wirings,
         TInv, CallEffect(g, e, ds)
  PROVE  TInv'
<1> USE DEF CallEffect, TInv
<1>0. e \in Derived /\ e \in Cells /\ e \notin Computeds
  BY KindsAssumption DEF KindsAssumption, Cells, Derived, Nodes
<1>1. ds \in Seq(Nodes) /\ DOMAIN ds = 1 .. Len(ds)
  BY DataAssumption DEF DataAssumption
<1>2. GraphType' /\ DataType' /\ HistType'
  BY <1>0, <1>1 DEF GraphType, DataType, HistType, dataVars, histVars
<1>3. GraphGrows
  BY DEF GraphGrows, GraphType
<1>4. Wired' /\ SubsMade'
  BY <1>0, <1>1 DEF Wired, SubsMade, GraphType
<1>5. SInv'
  BY <1>0, <1>3, CallStarts, EmptySeq DEF Ops, Inner
<1> QED BY <1>2, <1>4, <1>5

(* The mutex is taken by a goroutine whose call on top has not locked, and *)
(* nobody else has a call that did. *)
LEMMA TypeAcquire ==
  ASSUME NEW g \in Goroutines, TInv, Acquire(g)
  PROVE  TInv'
<1> DEFINE n == Len(stack[g])
           f == [Top(g) EXCEPT !.at = "body", !.locked = TRUE]
<1>1. /\ ~Idle(g) /\ Top(g).at = "lock"
      /\ Top(g) \in FrameSet /\ Formed(Top(g), made, deps)
  BY AtTop DEF Acquire
<1>2. GraphType' /\ DataType' /\ HistType' /\ Wired' /\ SubsMade' /\ GraphGrows
  BY Rest DEF Acquire, histVars, TInv, HistType
<1>3. /\ stack[g] # <<>> /\ n \in Nat \ {0} /\ Top(g) = stack[g][n]
  BY <1>1, TopFrame DEF TInv, SInv, Top
<1>4. /\ f \in FrameSet /\ f.locked /\ f.at = "body" /\ f.op = Top(g).op
      /\ f.cell = Top(g).cell /\ f.arg = Top(g).arg /\ f.args = Top(g).args
  BY <1>1 DEF FrameSet
<1>5. Formed(f, made, deps)
  BY <1>1, <1>4 DEF Formed
<1> HIDE DEF f
<1>6. /\ stack' \in [Goroutines -> Seq(FrameSet)]
      /\ Len(stack'[g]) = n /\ stack'[g][n] = f
      /\ \A k \in 1 .. (n - 1) : stack'[g][k] = stack[g][k]
      /\ \A h \in Goroutines \ {g} : stack'[h] = stack[h]
  BY <1>3, <1>4, Moving DEF TInv, SInv, Acquire, f
<1> HIDE DEF n
<1>7. \A k \in 1 .. n : k = n \/ k \in 1 .. (n - 1)
  BY <1>3
<1>8. StackFormed'
  <2> SUFFICES ASSUME NEW h \in Goroutines, NEW k \in 1 .. Len(stack'[h])
               PROVE  Formed(stack'[h][k], made', deps')
    BY DEF StackFormed
  <2>1. CASE h = g
    BY <1>2, <1>3, <1>5, <1>6, <1>7, <2>1, OthersFormed
    DEF n, TInv, Acquire, graphVars
  <2>2. CASE h # g
    BY <1>2, <1>6, <2>2, OthersFormed DEF TInv
  <2> QED BY <2>1, <2>2
<1>9. \A h \in Goroutines : \A k \in 1 .. Len(stack[h]) : ~stack[h][k].locked
  BY KindsAssumption DEF KindsAssumption, TInv, SInv, WellLocked, Acquire
<1>10. \A h \in Goroutines : \A k \in 1 .. Len(stack'[h]) :
         stack'[h][k].locked <=> h = g /\ k = n
  <2> TAKE h \in Goroutines
  <2> TAKE k \in 1 .. Len(stack'[h])
  <2>1. CASE h = g
    BY <1>3, <1>4, <1>6, <1>7, <1>9, <2>1 DEF n
  <2>2. CASE h # g
    BY <1>6, <1>9, <2>2
  <2> QED BY <2>1, <2>2
<1>11. WellLocked'
  <2>1. mu' = g /\ n \in 1 .. Len(stack'[g])
    BY <1>3, <1>6 DEF Acquire
  <2> QED BY <1>10, <2>1 DEF WellLocked
<1>12. StackType'
  BY <1>6 DEF StackType, TInv, SInv, Acquire
<1> QED BY <1>2, <1>8, <1>11, <1>12 DEF TInv, SInv

LEMMA TypeReturn ==
  ASSUME NEW g \in Goroutines, TInv, Return(g)
  PROVE  TInv'
<1> DEFINE n == Len(stack[g])
<1>1. /\ ~Idle(g) /\ Top(g).at = "end"
      /\ Top(g) \in FrameSet /\ Formed(Top(g), made, deps)
  BY AtTop DEF Return
<1>2. stack[g] # <<>> /\ n \in Nat \ {0} /\ Top(g) = stack[g][n]
  BY <1>1, TopFrame DEF TInv, SInv, Top
<1>3. GraphType' /\ DataType' /\ HistType' /\ Wired' /\ SubsMade' /\ GraphGrows
  <2>1. held' \in SUBSET made
    BY <1>1 DEF Return, Formed, TInv, GraphType
  <2> QED BY <2>1 DEF Return, TInv, GraphType, DataType, HistType, dataVars,
             Wired, SubsMade, GraphGrows
<1>4. /\ stack' \in [Goroutines -> Seq(FrameSet)]
      /\ Len(stack'[g]) = n - 1
      /\ \A k \in 1 .. (n - 1) : stack'[g][k] = stack[g][k]
      /\ \A h \in Goroutines \ {g} : stack'[h] = stack[h]
  BY <1>2, Popping DEF TInv, SInv, Return
<1> HIDE DEF n
<1>5. StackFormed'
  <2> SUFFICES ASSUME NEW h \in Goroutines, NEW k \in 1 .. Len(stack'[h])
               PROVE  Formed(stack'[h][k], made', deps')
    BY DEF StackFormed
  <2>1. CASE h = g
    <3>1. k \in 1 .. (n - 1) /\ k \in 1 .. Len(stack[g])
      BY <1>2, <1>4, <2>1 DEF n
    <3> QED BY <1>3, <1>4, <2>1, <3>1, OthersFormed DEF TInv
  <2>2. CASE h # g
    BY <1>3, <1>4, <2>2, OthersFormed DEF TInv
  <2> QED BY <2>1, <2>2
<1>6. WellLocked'
  <2>1. n \in 1 .. Len(stack[g]) /\ \A k \in 1 .. n : k = n \/ k \in 1 .. (n - 1)
    BY <1>2 DEF n
  <2>2. CASE Top(g).locked
    <3>1. mu = g /\ mu' = None
      BY <1>2, <2>1, <2>2 DEF Return, TInv, SInv, WellLocked
    <3>2. \A h \in Goroutines : \A k \in 1 .. Len(stack'[h]) :
            ~stack'[h][k].locked
      <4> TAKE h \in Goroutines
      <4> TAKE k \in 1 .. Len(stack'[h])
      <4>1. CASE h = g
        <5>1. k \in 1 .. Len(stack[g]) /\ k # n /\ k \in 1 .. (n - 1)
          BY <1>2, <1>4, <4>1 DEF n
        <5>2. ~stack[g][k].locked
          BY <1>2, <2>1, <2>2, <5>1 DEF TInv, SInv, WellLocked
        <5> QED BY <1>4, <4>1, <5>1, <5>2
      <4>2. CASE h # g
        BY <1>4, <3>1, <4>2 DEF TInv, SInv, WellLocked
      <4> QED BY <4>1, <4>2
    <3> QED BY <3>1, <3>2, KindsAssumption DEF WellLocked, KindsAssumption
  <2>3. CASE ~Top(g).locked
    <3>1. mu' = mu
      BY <2>3 DEF Return
    <3>2. \A h \in Goroutines :
            /\ \A k \in 1 .. Len(stack'[h]) :
                 stack'[h][k].locked =>
                   k \in 1 .. Len(stack[h]) /\ stack[h][k].locked
            /\ \A k \in 1 .. Len(stack[h]) :
                 stack[h][k].locked =>
                   k \in 1 .. Len(stack'[h]) /\ stack'[h][k].locked
      <4> TAKE h \in Goroutines
      <4>1. CASE h = g
        BY <1>2, <1>4, <2>1, <2>3, <4>1 DEF n
      <4>2. CASE h # g
        BY <1>4, <4>2
      <4> QED BY <4>1, <4>2
    <3> QED BY <3>1, <3>2 DEF TInv, SInv, WellLocked
  <2> QED BY <2>2, <2>3
<1>7. StackType'
  BY <1>4 DEF StackType, TInv, SInv, Return
<1> QED BY <1>3, <1>5, <1>6, <1>7 DEF TInv, SInv

LEMMA TypeNilPanic ==
  ASSUME NEW g \in Goroutines, TInv, NilPanic(g)
  PROVE  TInv'
<1>1. GraphType' /\ DataType' /\ HistType' /\ Wired' /\ SubsMade' /\ GraphGrows
  BY Rest DEF NilPanic, Unwind
<1>2. SInv'
  BY <1>1, UnwindKeeps DEF NilPanic, TInv, SInv, StackType
<1> QED BY <1>1, <1>2 DEF TInv

(* ReadBody and WriteSame change nothing. *)
LEMMA TypeNoWrite ==
  ASSUME NEW g \in Goroutines, TInv, ReadBody(g) \/ WriteSame(g)
  PROVE  TInv'
<1>1. /\ Is(g, "body") /\ Top(g).op \in {"Value", "SetValue"}
      /\ Goto(g, "end")
      /\ UNCHANGED <<graphVars, dataVars, lockVars, histVars>>
  BY DEF ReadBody, WriteSame, At
<1>2. GraphType' /\ DataType' /\ HistType' /\ Wired' /\ SubsMade' /\ GraphGrows
  BY <1>1, Rest DEF histVars, TInv, HistType
<1>3. SInv'
  BY <1>1, AtTop, GoKeeps
  DEF Ats, Inner, lockVars, graphVars, TInv, SInv, StackType
<1> QED BY <1>2, <1>3 DEF TInv

LEMMA PlusType ==
  ASSUME NEW m \in Nat, NEW n \in Nat
  PROVE  Plus(m, n) \in 0 .. (VersionModulus - 1)
BY BoundsAssumption DEF BoundsAssumption, Plus

(* WriteQuiet and WriteMark store the value. *)
LEMMA TypeWrite ==
  ASSUME NEW g \in Goroutines, TInv, WriteQuiet(g) \/ WriteMark(g)
  PROVE  TInv'
<1> DEFINE s == Top(g).cell
<1>1. /\ Is(g, "body") /\ Top(g).op = "SetValue"
      /\ Goto(g, "end") \/ stack' = Moved(g, Ranging(g))
      /\ val' = [val EXCEPT ![s] = Top(g).args[1]]
      /\ ver' = ver \/ ver' = [ver EXCEPT ![s] = Plus(@, 1)]
      /\ UNCHANGED <<graphVars, isDirty, vsum, lockVars, histVars>>
  BY DEF WriteQuiet, WriteMark, At
<1>2. /\ ~Idle(g) /\ Top(g) \in FrameSet
      /\ s \in Signals /\ s \in Nodes /\ Len(Top(g).args) = 1
  BY <1>1, AtTop DEF Formed, Nodes
<1>3. Top(g).args[1] \in Values
  BY <1>2, ElementOfSeq DEF FrameSet
<1> HIDE DEF s
<1>4. ver' \in [Nodes -> 0 .. (VersionModulus - 1)]
  <2>1. ver[s] \in Nat
    BY <1>2, BoundsAssumption DEF TInv, DataType, BoundsAssumption
  <2>2. Plus(ver[s], 1) \in 0 .. (VersionModulus - 1)
    BY <2>1, PlusType
  <2> QED BY <1>1, <1>2, <2>2 DEF TInv, DataType
<1>5. DataType'
  BY <1>1, <1>2, <1>3, <1>4 DEF TInv, DataType
<1>6. GraphType' /\ HistType' /\ Wired' /\ SubsMade'
  BY <1>1 DEF TInv, GraphType, HistType, Wired, SubsMade, graphVars, histVars
<1>7. /\ mu' = mu /\ made' = made /\ deps' = deps /\ inEffect' \in BOOLEAN
      /\ Top(g).op \notin Inner
  BY <1>1 DEF Inner, lockVars, graphVars, TInv, SInv, StackType
<1>8. CASE Goto(g, "end")
  <2>1. SInv'
    BY <1>2, <1>7, <1>8, GoKeeps DEF Ats
  <2> QED BY <1>5, <1>6, <2>1 DEF TInv
<1>9. CASE stack' = Moved(g, Ranging(g))
  <2>1. /\ Top(g).cell \in Nodes /\ Formed(Top(g), made, deps)
    BY <1>1, <1>2, AtTop DEF s
  <2>2. /\ Ranging(g) \in FrameSet /\ Formed(Ranging(g), made, deps)
        /\ Ranging(g).locked = Top(g).locked
    BY <1>1, <1>2, <2>1, RangingType DEF Formed, Inner
  <2>3. GraphGrows
    BY <1>7 DEF GraphGrows, TInv, GraphType
  <2>4. SInv'
    BY <1>2, <1>7, <1>9, <2>2, <2>3, MoveKeeps DEF TInv
  <2> QED BY <1>5, <1>6, <2>4 DEF TInv
<1> QED BY <1>1, <1>8, <1>9

(* Appending n times the same element. *)
LEMMA Extend ==
  ASSUME NEW S, NEW s \in Seq(S), NEW n \in Nat, NEW c \in S
  PROVE  /\ s \o Copies(n, c) \in Seq(S)
         /\ \A k \in 1 .. Len(s \o Copies(n, c)) :
              \/ (s \o Copies(n, c))[k] = c
              \/ k \in 1 .. Len(s) /\ (s \o Copies(n, c))[k] = s[k]
<1> DEFINE t == Copies(n, c)
           u == s \o t
<1>1. t \in Seq(S) /\ Len(t) = n /\ \A k \in 1 .. n : t[k] = c
  BY DEF Copies
<1>2. Len(s) \in Nat
  BY LenProperties
<1>3. /\ u \in Seq(S) /\ Len(u) = Len(s) + Len(t)
      /\ \A k \in 1 .. Len(s) + Len(t) :
           u[k] = IF k <= Len(s) THEN s[k] ELSE t[k - Len(s)]
  <2> HIDE DEF t
  <2> QED BY <1>1, ConcatProperties
<1> HIDE DEF t, u
<1>4. ASSUME NEW k \in 1 .. Len(u)
      PROVE  u[k] = c \/ (k \in 1 .. Len(s) /\ u[k] = s[k])
  <2>1. CASE k <= Len(s)
    BY <1>1, <1>2, <1>3, <2>1
  <2>2. CASE ~(k <= Len(s))
    <3>1. k - Len(s) \in 1 .. n
      BY <1>1, <1>2, <1>3, <2>2
    <3> QED BY <1>1, <1>2, <1>3, <2>2, <3>1
  <2> QED BY <2>1, <2>2
<1> QED BY <1>3, <1>4 DEF u, t

(* Subscribing a cell that exists. *)
LEMMA SubscribedType ==
  ASSUME TInv, NEW c \in Derived, c \in made, subs' = Subscribed(c),
         UNCHANGED <<made, held, deps, fn>>
  PROVE  GraphType' /\ SubsMade' /\ Wired' /\ GraphGrows
<1>1. ASSUME NEW d \in Nodes
      PROVE  /\ subs'[d] \in Seq(Derived)
             /\ \A k \in 1 .. Len(subs'[d]) : subs'[d][k] \in made
  <2>1. Cardinality(Uses(c, d)) \in Nat
    <3>1. deps[c] \in Seq(Nodes) /\ Uses(c, d) \subseteq 1 .. Len(deps[c])
      BY DEF TInv, GraphType, Uses
    <3>2. IsFiniteSet(1 .. Len(deps[c]))
      BY <3>1, FS_Interval, LenProperties
    <3> QED BY <3>1, <3>2, FS_Subset, FS_CardinalityType
  <2>2. /\ subs'[d] = subs[d] \o Copies(Cardinality(Uses(c, d)), c)
        /\ subs[d] \in Seq(Derived)
    BY DEF Subscribed, TInv, GraphType
  <2>3. /\ subs'[d] \in Seq(Derived)
        /\ \A k \in 1 .. Len(subs'[d]) :
             \/ subs'[d][k] = c
             \/ k \in 1 .. Len(subs[d]) /\ subs'[d][k] = subs[d][k]
    <3>1. PICK n \in Nat : n = Cardinality(Uses(c, d))
      BY <2>1
    <3>2. PICK s \in Seq(Derived) : s = subs[d]
      BY <2>2
    <3>3. /\ s \o Copies(n, c) \in Seq(Derived)
          /\ \A k \in 1 .. Len(s \o Copies(n, c)) :
               \/ (s \o Copies(n, c))[k] = c
               \/ k \in 1 .. Len(s) /\ (s \o Copies(n, c))[k] = s[k]
      BY Extend
    <3>4. subs'[d] = s \o Copies(n, c)
      BY <2>2, <3>1, <3>2
    <3> QED BY <3>2, <3>3, <3>4
  <2> QED BY <2>3 DEF TInv, SubsMade
<1>2. subs' = [d \in Nodes |-> subs'[d]]
  BY DEF Subscribed
<1>3. subs' \in [Nodes -> Seq(Derived)]
  BY <1>1, <1>2
<1> QED BY <1>1, <1>3 DEF TInv, GraphType, SubsMade, Wired, GraphGrows

LEMMA TypeComputedBody ==
  ASSUME NEW g \in Goroutines, TInv, ComputedBody(g)
  PROVE  TInv'
<1>1. /\ Is(g, "body") /\ Top(g).op = "Computed"
      /\ ~Idle(g) /\ Formed(Top(g), made, deps)
  BY AtTop DEF ComputedBody, At
<1>2. Top(g).cell \in Derived /\ Top(g).cell \in made
  BY <1>1 DEF Formed, Derived
<1>3. GraphType' /\ SubsMade' /\ Wired' /\ GraphGrows
  BY <1>2, SubscribedType DEF ComputedBody
<1>4. DataType' /\ HistType'
  BY DEF ComputedBody, TInv, DataType, HistType, dataVars, histVars
<1>5. SInv'
  BY <1>1, GoKeeps
  DEF Ats, Inner, ComputedBody, lockVars, TInv, SInv, StackType
<1> QED BY <1>3, <1>4, <1>5 DEF TInv

LEMMA TypeEffectBody ==
  ASSUME NEW g \in Goroutines, TInv, EffectBody(g)
  PROVE  TInv'
<1> DEFINE f == [Top(g) EXCEPT !.at = "end"]
           e == Frame("value", "first", Top(g).cell, <<>>)
<1>1. /\ Is(g, "body") /\ Top(g).op = "Effect" /\ ~Idle(g)
      /\ Top(g) \in FrameSet /\ Formed(Top(g), made, deps)
  BY AtTop DEF EffectBody, At
<1>2. Top(g).cell \in Effects /\ Top(g).cell \in Derived /\ Top(g).cell \in made
  BY <1>1 DEF Formed, Derived
<1>3. GraphType' /\ SubsMade' /\ Wired' /\ GraphGrows
  BY <1>2, SubscribedType DEF EffectBody
<1>4. DataType' /\ HistType'
  BY <1>2 DEF EffectBody, TInv, DataType, HistType, dataVars
<1>5. /\ f \in FrameSet /\ f.at = "end" /\ f.op = Top(g).op
      /\ f.cell = Top(g).cell /\ f.locked = Top(g).locked
  BY <1>1, GotoType DEF Ats
<1>6. /\ e.op = "value" /\ e.at = "first" /\ e.cell = Top(g).cell
      /\ e.arg = 1 /\ e.args = <<>> /\ ~e.locked
  BY DEF Frame
<1>7. e \in FrameSet
  BY <1>2, FrameType, EmptySeq DEF Ops, Ats, Cells
<1>8. stack' = [stack EXCEPT ![g] = Append(Moved(g, f)[g], e)]
  BY DEF EffectBody
<1>9. made' = made /\ deps' = deps /\ mu' = mu /\ inEffect' \in BOOLEAN
  BY DEF EffectBody
<1> HIDE DEF f, e
<1>10. Formed(f, made, deps)
  BY <1>1, <1>2, <1>5 DEF Formed, Inner
<1>11. Formed(e, made, deps)
  <2>1. Len(deps[Top(g).cell]) \in Nat /\ Len(e.args) = 0
    BY <1>2, <1>6, EmptySeq DEF TInv, GraphType
  <2> QED BY <1>2, <1>6, <2>1 DEF Formed, Inner
<1>12. SInv'
  BY <1>1, <1>3, <1>5, <1>6, <1>7, <1>8, <1>9, <1>10, <1>11, CallKeeps DEF TInv
<1> QED BY <1>3, <1>4, <1>12 DEF TInv

(* Removing one subscriber adds none. *)
LEMMA WithoutType ==
  ASSUME NEW S, NEW s \in Seq(S), NEW c
  PROVE  /\ Without(s, c) \in Seq(S)
         /\ \A k \in 1 .. Len(Without(s, c)) :
              \E l \in 1 .. Len(s) : Without(s, c)[k] = s[l]
<1> DEFINE Found == \E k \in DOMAIN s : First(s, c, k)
           i == CHOOSE k \in DOMAIN s : First(s, c, k)
           n == Len(s)
           t == SubSeq(s, 1, i - 1)
           u == SubSeq(s, i + 1, n)
<1>1. CASE ~Found
  BY <1>1 DEF Without
<1>2. CASE Found
  <2>1. Without(s, c) = t \o u
    BY <1>2 DEF Without
  <2>2. i \in 1 .. n /\ n \in Nat
    BY <1>2, LenProperties
  <2>3. \A k \in 1 .. n : s[k] \in S
    BY ElementOfSeq
  <2> HIDE DEF i, n
  <2>4. /\ t \in Seq(S) /\ Len(t) = i - 1
        /\ \A k \in 1 .. (i - 1) : t[k] = s[k]
    <3>1. \A k \in 1 .. (i - 1) : s[k] \in S
      BY <2>2, <2>3
    <3>2. i - 1 \in Int /\ 1 \in Int
      BY <2>2
    <3>3. /\ t \in Seq(S)
          /\ Len(t) = IF 1 <= i - 1 THEN i - 1 - 1 + 1 ELSE 0
          /\ \A k \in 1 .. i - 1 - 1 + 1 : t[k] = s[1 + k - 1]
      BY <3>1, <3>2, SubSeqProperties
    <3> HIDE DEF t
    <3> QED BY <2>2, <3>3
  <2>5. /\ u \in Seq(S) /\ Len(u) = n - i
        /\ \A k \in 1 .. (n - i) : u[k] = s[i + k]
    <3>1. \A k \in (i + 1) .. n : s[k] \in S
      BY <2>2, <2>3
    <3>2. i + 1 \in Int /\ n \in Int
      BY <2>2
    <3>3. /\ u \in Seq(S)
          /\ Len(u) = IF i + 1 <= n THEN n - (i + 1) + 1 ELSE 0
          /\ \A k \in 1 .. n - (i + 1) + 1 : u[k] = s[i + 1 + k - 1]
      BY <3>1, <3>2, SubSeqProperties
    <3> HIDE DEF u
    <3>4. n - (i + 1) + 1 = n - i /\ \A k \in 1 .. (n - i) : i + 1 + k - 1 = i + k
      BY <2>2
    <3> QED BY <2>2, <3>3, <3>4
  <2> HIDE DEF t, u
  <2>6. /\ t \o u \in Seq(S) /\ Len(t \o u) = Len(t) + Len(u)
        /\ \A k \in 1 .. Len(t) + Len(u) :
             (t \o u)[k] = IF k <= Len(t) THEN t[k] ELSE u[k - Len(t)]
    BY <2>4, <2>5, ConcatProperties
  <2>7. ASSUME NEW k \in 1 .. Len(t \o u)
        PROVE  \E l \in 1 .. n : (t \o u)[k] = s[l]
    <3>0. k \in 1 .. (n - 1) /\ Len(t) = i - 1
      BY <2>2, <2>4, <2>5, <2>6
    <3>1. CASE k <= i - 1
      <4>1. k \in 1 .. n /\ k \in 1 .. (i - 1)
        BY <2>2, <3>0, <3>1
      <4> QED BY <2>4, <2>6, <3>0, <3>1, <4>1
    <3>2. CASE ~(k <= i - 1)
      <4>1. /\ k - (i - 1) \in 1 .. (n - i) /\ k + 1 \in 1 .. n
            /\ i + (k - (i - 1)) = k + 1
        BY <2>2, <3>0, <3>2
      <4>2. (t \o u)[k] = u[k - (i - 1)]
        BY <2>6, <3>0, <3>2
      <4> QED BY <2>5, <4>1, <4>2
    <3> QED BY <3>1, <3>2
  <2> QED BY <2>1, <2>6, <2>7 DEF n
<1> QED BY <1>1, <1>2

(* A loop that goes to its next round. *)
LEMMA AdvanceType ==
  ASSUME TInv, NEW g \in Goroutines, ~Idle(g), Top(g).op # "value"
  PROVE  /\ Advanced(g) \in FrameSet
         /\ Formed(Advanced(g), made, deps)
         /\ Advanced(g).locked = Top(g).locked
<1>1. Top(g) \in FrameSet /\ Formed(Top(g), made, deps)
  BY TopFrame DEF TInv, SInv
<1>2. /\ Advanced(g) \in FrameSet /\ Advanced(g).op = Top(g).op
      /\ Advanced(g).at = Top(g).at /\ Advanced(g).cell = Top(g).cell
      /\ Advanced(g).args = Top(g).args
      /\ Advanced(g).locked = Top(g).locked
  BY <1>1 DEF Advanced, FrameSet
<1> QED BY <1>1, <1>2 DEF Formed

LEMMA TypeStopSub ==
  ASSUME NEW g \in Goroutines, TInv, StopSub(g)
  PROVE  TInv'
<1> DEFINE c == Top(g).cell
           d == deps[Top(g).cell][Top(g).arg]
<1>1. /\ Is(g, "body") /\ Top(g).op = "Stop" /\ ~Idle(g)
      /\ Top(g) \in FrameSet /\ Formed(Top(g), made, deps)
  BY AtTop DEF StopSub, At
<1>2. c \in Effects /\ c \in Derived
  BY <1>1 DEF Formed, Derived
<1>3. d \in Nodes
  <2>1. deps[c] \in Seq(Nodes) /\ Top(g).arg \in 1 .. Len(deps[c])
    BY <1>1, <1>2 DEF TInv, GraphType, StopSub, FrameSet
  <2> QED BY <2>1, ElementOfSeq
<1>4. subs' = [subs EXCEPT ![d] = Without(@, c)]
  BY DEF StopSub
<1> HIDE DEF c, d
<1>5. subs[d] \in Seq(Derived)
  BY <1>3 DEF TInv, GraphType
<1>6. /\ Without(subs[d], c) \in Seq(Derived)
      /\ \A k \in 1 .. Len(Without(subs[d], c)) :
           \E l \in 1 .. Len(subs[d]) : Without(subs[d], c)[k] = subs[d][l]
  BY <1>5, WithoutType
<1>7. /\ subs'[d] = Without(subs[d], c)
      /\ \A b \in Nodes \ {d} : subs'[b] = subs[b]
      /\ subs' \in [Nodes -> Seq(Derived)]
  BY <1>3, <1>4, <1>6 DEF TInv, GraphType
<1>8. SubsMade'
  <2> SUFFICES ASSUME NEW b \in Nodes, NEW k \in 1 .. Len(subs'[b])
               PROVE  subs'[b][k] \in made
    BY DEF SubsMade, StopSub
  <2>1. CASE b = d
    BY <1>3, <1>6, <1>7, <2>1 DEF TInv, SubsMade
  <2>2. CASE b # d
    BY <1>7, <2>2 DEF TInv, SubsMade
  <2> QED BY <2>1, <2>2
<1>9. GraphType' /\ Wired' /\ GraphGrows
  BY <1>7 DEF StopSub, TInv, GraphType, Wired, GraphGrows
<1>10. DataType' /\ HistType'
  BY DEF StopSub, TInv, DataType, HistType, dataVars, histVars
<1>11. SInv'
  <2>1. stack' = Moved(g, Advanced(g)) /\ mu' = mu
        /\ made' = made /\ deps' = deps
        /\ inEffect' \in BOOLEAN
    BY DEF StopSub, Advanced, lockVars, TInv, SInv, StackType
  <2> QED BY <1>1, <1>9, <2>1, AdvanceType, MoveKeeps DEF TInv
<1> QED BY <1>8, <1>9, <1>10, <1>11 DEF TInv

LEMMA TypeStopEnd ==
  ASSUME NEW g \in Goroutines, TInv, StopEnd(g)
  PROVE  TInv'
<1>1. Is(g, "body") /\ Top(g).op = "Stop" /\ ~Idle(g)
  BY AtTop DEF StopEnd, At
<1>2. GraphType' /\ DataType' /\ HistType' /\ Wired' /\ SubsMade'
  BY DEF StopEnd, TInv, GraphType, DataType, HistType, Wired, SubsMade,
         graphVars, dataVars
<1>3. SInv'
  BY <1>1, GoKeeps
  DEF Ats, Inner, StopEnd, lockVars, graphVars, TInv, SInv, StackType
<1> QED BY <1>2, <1>3 DEF TInv

(* The subscriber that markDirty() has come to. *)
LEMMA SubType ==
  ASSUME TInv, NEW g \in Goroutines, Marking(g), NEW c \in Reached(g)
  PROVE  /\ ~Idle(g) /\ Top(g).op # "value"
         /\ c \in Derived /\ c \in made
<1>1. /\ ~Idle(g) /\ Top(g).at = "mark"
      /\ Top(g) \in FrameSet /\ Formed(Top(g), made, deps)
  BY AtTop DEF Marking
<1>2. Top(g).cell \in Nodes /\ Top(g).op # "value"
  BY <1>1 DEF Formed, Nodes
<1>3. subs[Top(g).cell] \in Seq(Derived)
  BY <1>2 DEF TInv, GraphType
<1>4. CASE Top(g).over = subs[Top(g).cell]
  <2>1. Top(g).arg \in 1 .. Len(subs[Top(g).cell])
    BY <1>1, <1>3, <1>4, LenProperties DEF Marking, FrameSet
  <2>2. c = Sub(g)
    BY <1>4 DEF Reached
  <2>3. Sub(g) \in Derived /\ Sub(g) \in made
    BY <1>2, <1>3, <2>1, ElementOfSeq DEF Sub, TInv, SubsMade
  <2> QED BY <1>1, <1>2, <2>2, <2>3
<1>5. CASE Top(g).over # subs[Top(g).cell]
  BY <1>1, <1>2, <1>5 DEF Reached, Subscribers
<1> QED BY <1>4, <1>5

LEMMA TypeMarkComputed ==
  ASSUME NEW g \in Goroutines, TInv, MarkComputed(g)
  PROVE  TInv'
<1>1. PICK c \in Reached(g) \cap Computeds :
        /\ isDirty' = [isDirty EXCEPT ![c] = TRUE]
        /\ stack' = [stack EXCEPT ![g] =
                      Append(Moved(g, Advanced(g))[g], MarkFrame(c))]
  BY DEF MarkComputed
<1> DEFINE f == Advanced(g)
           e == MarkFrame(c)
<1>2. ~Idle(g) /\ Top(g).op # "value"
  BY <1>1, SubType DEF MarkComputed
<1>3. /\ f \in FrameSet /\ Formed(f, made, deps)
      /\ f.locked = Top(g).locked
  BY <1>2, AdvanceType
<1>4. /\ e \in FrameSet /\ ~e.locked /\ e.op = "markDirty" /\ e.at = "mark"
      /\ e.cell = c
  BY MarkFrameType
<1>5. GraphType' /\ DataType' /\ HistType' /\ Wired' /\ SubsMade' /\ GraphGrows
  BY <1>1 DEF MarkComputed, TInv, GraphType, DataType, HistType, Wired,
              SubsMade, GraphGrows, graphVars, histVars
<1>6. stack' = [stack EXCEPT ![g] = Append(Moved(g, f)[g], e)]
  BY <1>1
<1>7. /\ made' = made /\ deps' = deps /\ mu' = mu /\ inEffect' \in BOOLEAN
  BY DEF MarkComputed, graphVars, lockVars, TInv, SInv, StackType
<1> HIDE DEF f, e
<1>8. Formed(e, made, deps)
  BY <1>4 DEF Formed, Inner
<1>9. SInv'
  BY <1>2, <1>3, <1>4, <1>5, <1>6, <1>7, <1>8, CallKeeps DEF TInv
<1> QED BY <1>5, <1>9 DEF TInv

(* A call of value() that has just begun. *)
LEMMA ValueCall ==
  ASSUME TInv, NEW c \in Derived, c \in made, NEW at \in {"pull", "first"},
         at = "first" => c \in Effects
  PROVE  LET e == Frame("value", at, c, <<>>)
         IN  e \in FrameSet /\ Formed(e, made, deps) /\ ~e.locked
<1> DEFINE e == Frame("value", at, c, <<>>)
<1>1. e \in FrameSet
  BY FrameType, EmptySeq DEF Ops, Ats, Cells
<1>2. /\ e.op = "value" /\ e.at = at /\ e.cell = c /\ e.arg = 1
      /\ e.args = <<>> /\ ~e.locked
  BY DEF Frame
<1> HIDE DEF e
<1>3. Len(deps[c]) \in Nat /\ Len(e.args) = 0
  BY <1>2, EmptySeq DEF TInv, GraphType
<1>4. Formed(e, made, deps)
  BY <1>2, <1>3 DEF Formed, Inner
<1> QED BY <1>1, <1>2, <1>4 DEF e

LEMMA TypeMarkEffect ==
  ASSUME NEW g \in Goroutines, TInv, MarkEffect(g)
  PROVE  TInv'
<1>0. PICK c \in Reached(g) \cap Effects :
        stack' = [stack EXCEPT ![g] = Append(Moved(g, Advanced(g))[g],
                                             Frame("value", "pull", c, <<>>))]
  BY DEF MarkEffect
<1> DEFINE f == Advanced(g)
           e == Frame("value", "pull", c, <<>>)
<1>1. /\ ~Idle(g) /\ Top(g).op # "value"
      /\ c \in Derived /\ c \in made
  BY SubType DEF MarkEffect
<1>2. /\ f \in FrameSet /\ Formed(f, made, deps)
      /\ f.locked = Top(g).locked
  BY <1>1, AdvanceType
<1>3. e \in FrameSet /\ Formed(e, made, deps) /\ ~e.locked
  BY <1>1, ValueCall
<1>4. GraphType' /\ DataType' /\ HistType' /\ Wired' /\ SubsMade' /\ GraphGrows
  BY Rest DEF MarkEffect, histVars, TInv, HistType
<1>5. stack' = [stack EXCEPT ![g] = Append(Moved(g, f)[g], e)]
  BY <1>0
<1>6. made' = made /\ deps' = deps /\ mu' = mu /\ inEffect' \in BOOLEAN
  BY DEF MarkEffect, graphVars, lockVars, TInv, SInv, StackType
<1> HIDE DEF f, e
<1>7. SInv'
  BY <1>1, <1>2, <1>3, <1>4, <1>5, <1>6, CallKeeps DEF TInv
<1> QED BY <1>4, <1>7 DEF TInv

LEMMA TypeMarkEnd ==
  ASSUME NEW g \in Goroutines, TInv, MarkEnd(g)
  PROVE  TInv'
<1>1. /\ Top(g).at = "mark" /\ ~Idle(g) /\ Formed(Top(g), made, deps)
  BY AtTop DEF MarkEnd
<1>2. GraphType' /\ DataType' /\ HistType' /\ Wired' /\ SubsMade' /\ GraphGrows
  BY Rest DEF MarkEnd, histVars, TInv, HistType
<1>3. mu' = mu /\ made' = made /\ deps' = deps /\ inEffect' \in BOOLEAN
  BY DEF MarkEnd, graphVars, lockVars, TInv, SInv, StackType
<1>4. CASE Top(g).op = "SetValue"
  <2>1. Goto(g, "end")
    BY <1>4 DEF MarkEnd
  <2>2. SInv'
    BY <1>1, <1>3, <1>4, <2>1, GoKeeps DEF Ats, Inner
  <2> QED BY <1>2, <2>2 DEF TInv
<1>5. CASE Top(g).op # "SetValue"
  <2>1. ~Top(g).locked /\ stack' = Popped(g)
    BY <1>1, <1>5 DEF Formed, Inner, MarkEnd
  <2>2. SInv'
    BY <1>1, <1>2, <1>3, <2>1, PopKeeps DEF TInv
  <2> QED BY <1>2, <2>2 DEF TInv
<1> QED BY <1>4, <1>5

(* The argument that value() has come to. *)
LEMMA DepType ==
  ASSUME TInv, NEW g \in Goroutines, Collecting(g)
  PROVE  /\ ~Idle(g) /\ Top(g) \in FrameSet /\ Formed(Top(g), made, deps)
         /\ Top(g).op = "value" /\ Top(g).at \in {"pull", "first"}
         /\ Top(g).cell \in Derived /\ Top(g).cell \in made
         /\ Top(g).arg \in 1 .. Len(deps[Top(g).cell])
         /\ Len(deps[Top(g).cell]) \in Nat
         /\ Dep(g) \in Nodes /\ Dep(g) \in made
<1>1. /\ ~Idle(g) /\ Top(g) \in FrameSet /\ Formed(Top(g), made, deps)
      /\ Top(g).at \in {"pull", "first"}
  BY AtTop DEF Collecting
<1>2. /\ Top(g).op = "value" /\ Top(g).cell \in Derived
      /\ Top(g).cell \in made
  BY <1>1 DEF Formed
<1>3. deps[Top(g).cell] \in Seq(Nodes)
  BY <1>2 DEF TInv, GraphType
<1>4. /\ Top(g).arg \in 1 .. Len(deps[Top(g).cell])
      /\ Len(deps[Top(g).cell]) \in Nat
  BY <1>1, <1>3, LenProperties DEF Collecting, FrameSet
<1>5. Dep(g) \in Nodes /\ Dep(g) \in made
  BY <1>2, <1>3, <1>4, ElementOfSeq DEF Dep, TInv, Wired
<1> QED BY <1>1, <1>2, <1>4, <1>5

LEMMA TypePullArg ==
  ASSUME NEW g \in Goroutines, TInv, PullArg(g)
  PROVE  TInv'
<1> DEFINE v == val[Dep(g)]
           f == [Advanced(g) EXCEPT !.args = Append(@, v),
                                    !.sum = Plus(@, ver[Dep(g)])]
<1>1. /\ ~Idle(g) /\ Top(g) \in FrameSet /\ Formed(Top(g), made, deps)
      /\ Top(g).op = "value" /\ Top(g).at \in {"pull", "first"}
      /\ Top(g).cell \in Derived /\ Top(g).cell \in made
      /\ Top(g).arg \in 1 .. Len(deps[Top(g).cell])
      /\ Len(deps[Top(g).cell]) \in Nat
      /\ Dep(g) \in Nodes
  BY DepType DEF PullArg
<1>2. v \in Values /\ Plus(Top(g).sum, ver[Dep(g)]) \in 0 .. (VersionModulus - 1)
  <2>1. val[Dep(g)] \in Values /\ ver[Dep(g)] \in 0 .. (VersionModulus - 1)
    BY <1>1 DEF TInv, DataType
  <2>2. Top(g).sum \in Nat /\ ver[Dep(g)] \in Nat
    BY <1>1, <2>1, BoundsAssumption DEF BoundsAssumption, FrameSet
  <2>3. Top(g).sum + ver[Dep(g)] \in Nat
    BY <2>2
  <2> QED BY <2>1, <2>3, BoundsAssumption DEF Plus, BoundsAssumption
<1>3. /\ Append(Top(g).args, v) \in Seq(Values)
      /\ Len(Append(Top(g).args, v)) = Len(Top(g).args) + 1
  <2>1. Top(g).args \in Seq(Values)
    BY <1>1 DEF FrameSet
  <2> HIDE DEF v
  <2> QED BY <1>2, <2>1, Push
<1>4. f = [Top(g) EXCEPT !.arg = @ + 1, !.args = Append(@, v),
                         !.sum = Plus(@, ver[Dep(g)])]
  BY DEF Advanced
<1>5. stack' = Moved(g, f)
  BY DEF PullArg
<1> HIDE DEF f, v
<1>6. /\ f \in FrameSet /\ f.op = Top(g).op /\ f.at = Top(g).at
      /\ f.cell = Top(g).cell /\ f.arg = Top(g).arg + 1
      /\ f.args = Append(Top(g).args, v) /\ f.locked = Top(g).locked
  <2>1. PICK as \in Seq(Values), m \in 0 .. (VersionModulus - 1) :
          as = Append(Top(g).args, v) /\ m = Plus(Top(g).sum, ver[Dep(g)])
    BY <1>2, <1>3
  <2>2. PICK t \in FrameSet : t = Top(g)
    BY <1>1
  <2>3. f = [t EXCEPT !.arg = @ + 1, !.args = as, !.sum = m]
    BY <1>4, <2>1, <2>2 DEF FrameSet
  <2> DEFINE a == [t EXCEPT !.arg = @ + 1]
             b == [a EXCEPT !.args = as]
  <2>4. /\ a \in FrameSet /\ a.op = t.op /\ a.at = t.at /\ a.cell = t.cell
        /\ a.arg = t.arg + 1 /\ a.args = t.args /\ a.sum = t.sum
        /\ a.locked = t.locked
    BY DEF FrameSet
  <2> HIDE DEF a
  <2>5. /\ b \in FrameSet /\ b.op = a.op /\ b.at = a.at /\ b.cell = a.cell
        /\ b.arg = a.arg /\ b.args = as /\ b.sum = a.sum
        /\ b.locked = a.locked
    BY <2>4 DEF FrameSet
  <2> HIDE DEF b
  <2>6. f = [b EXCEPT !.sum = m]
    BY <2>3 DEF a, b, FrameSet
  <2>7. /\ f \in FrameSet /\ f.op = b.op /\ f.at = b.at /\ f.cell = b.cell
        /\ f.arg = b.arg /\ f.args = b.args /\ f.locked = b.locked
    BY <2>5, <2>6 DEF FrameSet
  <2> QED BY <2>1, <2>2, <2>4, <2>5, <2>7
<1>7. Formed(f, made, deps)
  <2>1. /\ Len(Top(g).args) = Top(g).arg - 1
        /\ Top(g).arg <= Len(deps[Top(g).cell])
    BY <1>1 DEF Formed
  <2>2. Len(f.args) = f.arg - 1 /\ f.arg <= Len(deps[f.cell]) + 1
    BY <1>1, <1>3, <1>6, <2>1
  <2> QED BY <1>1, <1>6, <2>2 DEF Formed, Inner
<1>8. GraphType' /\ DataType' /\ HistType' /\ Wired' /\ SubsMade' /\ GraphGrows
  BY Rest DEF PullArg, histVars, TInv, HistType
<1>9. made' = made /\ deps' = deps /\ mu' = mu /\ inEffect' \in BOOLEAN
  BY DEF PullArg, graphVars, lockVars, TInv, SInv, StackType
<1>10. SInv'
  BY <1>1, <1>5, <1>6, <1>7, <1>8, <1>9, MoveKeeps DEF TInv
<1> QED BY <1>8, <1>10 DEF TInv

LEMMA TypePullDep ==
  ASSUME NEW g \in Goroutines, TInv, PullDep(g)
  PROVE  TInv'
<1> DEFINE e == Frame("value", "pull", Dep(g), <<>>)
<1>1. Dep(g) \in Computeds /\ Dep(g) \in Derived /\ Dep(g) \in made
  BY DepType DEF PullDep, Stale, Derived
<1>2. e \in FrameSet /\ Formed(e, made, deps) /\ ~e.locked
  BY <1>1, ValueCall
<1>3. GraphType' /\ DataType' /\ HistType' /\ Wired' /\ SubsMade' /\ GraphGrows
  BY <1>1 DEF PullDep, TInv, GraphType, DataType, HistType, Wired,
              SubsMade, GraphGrows, graphVars, histVars
<1>4. stack' = Pushed(g, e) /\ mu' = mu /\ made' = made /\ deps' = deps
      /\ inEffect' \in BOOLEAN
  BY DEF PullDep, graphVars, lockVars, TInv, SInv, StackType
<1> HIDE DEF e
<1>5. SInv'
  BY <1>2, <1>3, <1>4, PushKeeps DEF TInv
<1> QED BY <1>3, <1>5 DEF TInv

(* A call of value() that has all arguments. *)
LEMMA CollectedType ==
  ASSUME TInv, NEW g \in Goroutines, Is(g, "pull") \/ Is(g, "first"),
         Top(g).arg > Len(deps[Top(g).cell])
  PROVE  /\ ~Idle(g) /\ Top(g) \in FrameSet /\ Formed(Top(g), made, deps)
         /\ Top(g).op = "value" /\ ~Top(g).locked
         /\ Top(g).cell \in Derived /\ Top(g).cell \in made
         /\ Top(g).sum \in 0 .. (VersionModulus - 1)
         /\ Top(g).args \in Seq(Values)
         /\ Len(Top(g).args) = Len(deps[Top(g).cell])
<1>1. /\ ~Idle(g) /\ Top(g) \in FrameSet /\ Formed(Top(g), made, deps)
      /\ Top(g).at \in {"pull", "first"}
  BY AtTop
<1>2. /\ Top(g).op = "value" /\ ~Top(g).locked
      /\ Top(g).cell \in Derived /\ Top(g).cell \in made
      /\ Len(Top(g).args) = Top(g).arg - 1
      /\ Top(g).arg <= Len(deps[Top(g).cell]) + 1
  BY <1>1 DEF Formed, Inner
<1>3. /\ Top(g).sum \in 0 .. (VersionModulus - 1)
      /\ Top(g).args \in Seq(Values) /\ Top(g).arg \in Nat
  BY <1>1 DEF FrameSet
<1>4. Len(deps[Top(g).cell]) \in Nat
  BY <1>2 DEF TInv, GraphType
<1>5. Len(Top(g).args) = Len(deps[Top(g).cell])
  <2>1. PICK n \in Nat : n = Top(g).arg
    BY <1>3
  <2>2. PICK m \in Nat : m = Len(deps[Top(g).cell])
    BY <1>4
  <2>3. n = m + 1
    BY <1>2, <2>1, <2>2
  <2> QED BY <1>2, <2>1, <2>2, <2>3
<1> QED BY <1>1, <1>2, <1>3, <1>5

LEMMA TypePullSkip ==
  ASSUME NEW g \in Goroutines, TInv, PullSkip(g)
  PROVE  TInv'
<1>1. ~Idle(g) /\ ~Top(g).locked /\ stack' = Popped(g)
  BY CollectedType DEF PullSkip, Collected
<1>2. GraphType' /\ DataType' /\ HistType' /\ Wired' /\ SubsMade' /\ GraphGrows
  BY Rest DEF PullSkip, histVars, TInv, HistType
<1>3. mu' = mu /\ inEffect' \in BOOLEAN
  BY DEF PullSkip, lockVars, TInv, SInv, StackType
<1>4. SInv'
  BY <1>1, <1>2, <1>3, PopKeeps DEF TInv
<1> QED BY <1>2, <1>4 DEF TInv

LEMMA TypePullGet ==
  ASSUME NEW g \in Goroutines, TInv, PullGet(g)
  PROVE  TInv'
<1> DEFINE c == Top(g).cell
           v == Apply(fn[c], Top(g).args)
<1>1. /\ ~Idle(g) /\ ~Top(g).locked /\ c \in Computeds
      /\ c \in Derived /\ c \in made /\ c \in Nodes
      /\ Top(g).sum \in 0 .. (VersionModulus - 1)
      /\ Top(g).args \in Seq(Values)
      /\ Len(Top(g).args) = Len(deps[c])
  BY CollectedType DEF PullGet, Calling, Collected, Nodes
<1>2. v \in Values
  <2>1. deps[c] \in Wirings /\ fn[c] \in Getters /\ deps[c] \in Seq(Nodes)
    BY <1>1 DEF TInv, Wired, GraphType
  <2>2. Top(g).args \in [DOMAIN deps[c] -> Values]
    BY <1>1, <2>1
  <2> QED BY <2>1, <2>2, DataAssumption DEF DataAssumption
<1>3. /\ vsum' = [vsum EXCEPT ![c] = Top(g).sum]
      /\ val' = [val EXCEPT ![c] = v]
      /\ ver' = ver \/ ver' = [ver EXCEPT ![c] = Plus(@, 1)]
      /\ seen' = [seen EXCEPT ![c] = Top(g).args]
      /\ ran' = ran \cup {c}
      /\ isDirty' = isDirty /\ active' = active
  BY DEF PullGet, Noted
<1>4. /\ stack' = Popped(g) /\ mu' = mu /\ inEffect' = inEffect
      /\ made' = made /\ held' = held /\ deps' = deps /\ fn' = fn
      /\ subs' = subs
  BY DEF PullGet, graphVars, lockVars
<1> HIDE DEF c, v
<1>5. ver' \in [Nodes -> 0 .. (VersionModulus - 1)]
  <2>1. ver[c] \in Nat
    BY <1>1, BoundsAssumption DEF TInv, DataType, BoundsAssumption
  <2>2. Plus(ver[c], 1) \in 0 .. (VersionModulus - 1)
    BY <2>1, PlusType
  <2> QED BY <1>1, <1>3, <2>2 DEF TInv, DataType
<1>6. DataType'
  BY <1>1, <1>2, <1>3, <1>5 DEF TInv, DataType
<1>7. HistType'
  BY <1>1, <1>3, <1>4 DEF TInv, HistType
<1>8. GraphType' /\ Wired' /\ SubsMade' /\ GraphGrows
  BY <1>4 DEF TInv, GraphType, Wired, SubsMade, GraphGrows
<1>9. SInv'
  <2>1. inEffect' \in BOOLEAN
    BY <1>4 DEF TInv, SInv, StackType
  <2> QED BY <1>1, <1>4, <1>8, <2>1, PopKeeps DEF TInv
<1> QED BY <1>6, <1>7, <1>8, <1>9 DEF TInv

LEMMA TypeGetPanic ==
  ASSUME NEW g \in Goroutines, TInv, GetPanic(g)
  PROVE  TInv'
<1>1. Top(g).cell \in Derived /\ Top(g).sum \in 0 .. (VersionModulus - 1)
  BY CollectedType DEF GetPanic, Calling, Collected
<1>2. DataType'
  BY <1>1 DEF GetPanic, TInv, DataType
<1>3. GraphType' /\ HistType' /\ Wired' /\ SubsMade' /\ GraphGrows
  BY DEF GetPanic, Unwind, TInv, GraphType, HistType, Wired, SubsMade,
         GraphGrows, graphVars
<1>4. SInv'
  BY <1>3, UnwindKeeps DEF GetPanic, TInv, SInv, StackType
<1> QED BY <1>2, <1>3, <1>4 DEF TInv

(* The callback of an effect is called by value() or by the constructor.   *)
LEMMA TypeRun ==
  ASSUME NEW g \in Goroutines, TInv, PullRun(g) \/ FirstRun(g)
  PROVE  TInv'
<1>1. /\ ~Idle(g) /\ Top(g).op = "value" /\ Top(g).cell \in Effects
      /\ Top(g).cell \in Derived
      /\ Top(g).sum \in 0 .. (VersionModulus - 1)
      /\ Top(g).args \in Seq(Values)
  <2>1. CASE PullRun(g)
    BY <2>1, CollectedType DEF PullRun, Calling, Collected
  <2>2. CASE FirstRun(g)
    <3>1. Top(g).at = "first"
      BY <2>2 DEF FirstRun, Is
    <3> QED BY <2>2, <3>1, CollectedType DEF FirstRun, Formed
  <2> QED BY <2>1, <2>2
<1>2. /\ Goto(g, "call") /\ mu' = mu /\ inEffect' \in {TRUE, inEffect}
      /\ vsum' = vsum \/ vsum' = [vsum EXCEPT ![Top(g).cell] = Top(g).sum]
      /\ val' = val /\ ver' = ver /\ isDirty' = isDirty
      /\ Noted(Top(g).cell, Top(g).args) /\ active' = active
      /\ UNCHANGED graphVars
  BY DEF PullRun, FirstRun, lockVars, dataVars
<1>3. DataType'
  BY <1>1, <1>2 DEF TInv, DataType
<1>4. GraphType' /\ HistType' /\ Wired' /\ SubsMade'
  BY <1>1, <1>2 DEF Noted, TInv, GraphType, HistType, Wired, SubsMade, graphVars
<1>5. inEffect' \in BOOLEAN /\ made' = made /\ deps' = deps
  BY <1>2 DEF TInv, SInv, StackType, graphVars
<1>6. SInv'
  BY <1>1, <1>2, <1>5, GoKeeps DEF Ats, Inner
<1> QED BY <1>3, <1>4, <1>6 DEF TInv

LEMMA TypeCallReturn ==
  ASSUME NEW g \in Goroutines, TInv, CallReturn(g)
  PROVE  TInv'
<1>1. ~Idle(g) /\ Top(g).at = "call" /\ Formed(Top(g), made, deps)
  BY AtTop DEF CallReturn
<1>2. ~Top(g).locked
  BY <1>1 DEF Formed, Inner
<1>3. GraphType' /\ DataType' /\ HistType' /\ Wired' /\ SubsMade' /\ GraphGrows
  BY Rest DEF CallReturn, histVars, TInv, HistType
<1>4. SInv'
  BY <1>1, <1>2, <1>3, PopKeeps DEF CallReturn, TInv
<1> QED BY <1>3, <1>4 DEF TInv

LEMMA TypeCallPanic ==
  ASSUME NEW g \in Goroutines, TInv, CallPanic(g)
  PROVE  TInv'
<1>1. GraphType' /\ DataType' /\ HistType' /\ Wired' /\ SubsMade' /\ GraphGrows
  BY Rest DEF CallPanic, Unwind
<1>2. SInv'
  BY <1>1, UnwindKeeps DEF CallPanic, TInv, SInv, StackType
<1> QED BY <1>1, <1>2 DEF TInv

LEMMA TypeCall ==
  ASSUME NEW g \in Goroutines, TInv, Call(g)
  PROVE  TInv'
BY TypeSignal, TypeCallValue, TypeCallSetValue, TypeCallComputedValue,
   TypeCallStop, TypeCallComputed, TypeCallEffect
DEF Call

LEMMA TypeStep ==
  ASSUME NEW g \in Goroutines, TInv, Step(g)
  PROVE  TInv'
BY TypeNilPanic, TypeReturn, TypeNoWrite, TypeWrite, TypeComputedBody,
   TypeEffectBody, TypeStopSub, TypeStopEnd, TypeMarkComputed,
   TypeMarkEffect, TypeMarkEnd, TypePullArg, TypePullDep, TypePullSkip,
   TypePullGet, TypeGetPanic, TypeRun, TypeCallReturn, TypeCallPanic
DEF Step

LEMMA TypeNext == TInv /\ [Next]_vars => TInv'
<1> SUFFICES ASSUME TInv, [Next]_vars PROVE TInv'
  OBVIOUS
<1>1. CASE Next
  BY <1>1, TypeCall, TypeAcquire, TypeStep DEF Next
<1>2. CASE UNCHANGED vars
  BY <1>2 DEF vars, graphVars, dataVars, lockVars, histVars, TInv, SInv,
     StackType, StackFormed, WellLocked, GraphType, DataType, HistType,
     Wired, SubsMade
<1> QED BY <1>1, <1>2

LEMMA TypeSpec == Spec => []TInv
BY TypeInit, TypeNext, PTL DEF Spec

(* All variables stay of their types, with any number of goroutines, any   *)
(* wiring and callbacks that panic: no call is ever at a place that its    *)
(* operation does not have, and value() never leaves the argument list of  *)
(* its cell, nor markDirty() that of its subscribers. *)
THEOREM TypeCorrect == Spec => []TypeOK
<1>1. TInv => TypeOK
  BY DEF TInv, SInv, TypeOK
<1> QED BY <1>1, TypeSpec, PTL

(* The mutex is held by the goroutine of the one call that locked it: no   *)
(* return, panic or nil pointer leaves it locked behind, whichever of the  *)
(* nested calls it comes from. *)
THEOREM NoLeakedLockAlways == Spec => []NoLeakedLock
<1>1. TInv => NoLeakedLock
  <2> SUFFICES ASSUME TInv, NEW g \in Goroutines, Idle(g) PROVE mu # g
    BY DEF NoLeakedLock
  <2>1. Len(stack[g]) = 0
    BY EmptySeq DEF Idle
  <2> QED BY <2>1 DEF TInv, SInv, WellLocked
<1> QED BY <1>1, TypeSpec, PTL

-----------------------------------------------------------------------------
(* One goroutine. *)

(* The program uses the system from one goroutine, and callbacks neither   *)
(* create cells nor stop effects.                                          *)
Alone == ~Restructures /\ \A g \in Goroutines : \A h \in Goroutines : g = h

(* The entries of e among the subscribers of d, and the arguments of e     *)
(* from the i-th on that are d.                                            *)
Entries(sb, d, e) == {k \in 1 .. Len(sb[d]) : sb[d][k] = e}
Left(ds, e, i, d) == {j \in i .. Len(ds[e]) : ds[e][j] = d}

(* The nodes on which no active effect depends. *)
Unwatched == {d \in Nodes : active \cap Above(d) = {}}

(* A call that is alone on the stack: a constructor that has not           *)
(* subscribed its cell, a stop function and, unless effects are nested,    *)
(* whatever waits for the mutex.                                           *)
Early(f) == f.op = "Effect" /\ f.at \in {"lock", "body"}
Solo(f) ==
  Early(f) \/ f.op \in {"Computed", "Stop"} \/ (f.at = "lock" /\ ~Nests)

(* Only effects that are active are evaluated; a new effect is nowhere     *)
(* subscribed; an effect that is being stopped is subscribed at most once  *)
(* for each argument that is still to be visited; callbacks find inEffect  *)
(* set; a mark ranges over the subscribers as they are.                    *)
Good(f, ac, sb, ds, ie) ==
  /\ f.op = "value" /\ f.cell \in Effects => f.cell \in ac
  /\ Early(f) => \A d \in Nodes : Entries(sb, d, f.cell) = {}
  /\ f.op = "Stop" /\ f.at # "end" =>
       \A d \in Nodes : Cardinality(Entries(sb, d, f.cell)) <=
                          Cardinality(Left(ds, f.cell, f.arg, d))
  /\ f.at \in {"first", "call"} /\ ~Nests => ie
  /\ f.at = "mark" => f.over = sb[f.cell]

(* What e may be when f is in progress below it: a new effect only has     *)
(* computeds evaluated, and the operations of a callback stay where no     *)
(* effect looks.                                                           *)
Under(f, e, un) ==
  /\ f.at = "first" => e.op = "value" /\ e.cell \in Computeds
  /\ f.at = "call" /\ ~Nests =>
       /\ e.op \in {"Value", "SetValue", "markDirty"}
       /\ e.op # "Value" => e.cell \in un

Fits(s, ac, sb, ds, ie, un) ==
  \A k \in 1 .. Len(s) :
    /\ Good(s[k], ac, sb, ds, ie)
    /\ Solo(s[k]) => Len(s) = 1
    /\ \A l \in (k + 1) .. Len(s) : Under(s[k], s[l], un)

CallsFit ==
  \A g \in Goroutines :
    Fits(stack[g], active, subs, deps, inEffect, Unwatched)

(* Whoever subscribes has an argument for it, and if it is an effect it is *)
(* active and has at most as many entries as arguments.                    *)
SubsWired ==
  \A d \in Nodes : \A k \in 1 .. Len(subs[d]) :
    /\ \E j \in DOMAIN deps[subs[d][k]] : deps[subs[d][k]][j] = d
    /\ subs[d][k] \in Effects => subs[d][k] \in active

Enough ==
  \A e \in Effects : \A d \in Nodes :
    Cardinality(Entries(subs, d, e)) <= Cardinality(Uses(e, d))

AInv == CallsFit /\ SubsWired /\ Enough

-----------------------------------------------------------------------------
(* Stacks.  Here sb, ds and the rest stand for the variables, before or    *)
(* after a step.                                                           *)

(* The last element is an element. *)
LEMMA Last ==
  ASSUME NEW S, NEW s \in Seq(S), s # <<>>
  PROVE  /\ Len(s) \in Nat \ {0} /\ Len(s) \in 1 .. Len(s)
         /\ s[Len(s)] \in S
         /\ \A k \in 1 .. Len(s) : k = Len(s) \/ k \in 1 .. (Len(s) - 1)
<1>1. Len(s) \in Nat \ {0}
  BY EmptySeq, LenProperties
<1>2. Len(s) \in 1 .. Len(s)
  BY <1>1
<1>3. s[Len(s)] \in S
  BY <1>2, ElementOfSeq
<1>4. \A k \in 1 .. Len(s) : k = Len(s) \/ k \in 1 .. (Len(s) - 1)
  BY <1>1
<1> QED BY <1>1, <1>2, <1>3, <1>4

(* Nothing, or one call, is in progress. *)
LEMMA FitsNone ==
  ASSUME NEW ac, NEW sb, NEW ds, NEW ie, NEW un
  PROVE  Fits(<<>>, ac, sb, ds, ie, un)
<1>1. \A k \in 1 .. Len(<<>>) : FALSE
  BY EmptySeq
<1> QED BY <1>1 DEF Fits

LEMMA FitsOne ==
  ASSUME NEW ac, NEW sb, NEW ds, NEW ie, NEW un,
         NEW f \in FrameSet, Good(f, ac, sb, ds, ie)
  PROVE  Fits(<<f>>, ac, sb, ds, ie, un)
<1>1. Len(<<f>>) = 1 /\ <<f>>[1] = f
  OBVIOUS
<1>2. ASSUME NEW k \in 1 .. 1
      PROVE  /\ Good(<<f>>[k], ac, sb, ds, ie)
             /\ \A l \in (k + 1) .. 1 : Under(<<f>>[k], <<f>>[l], un)
  <2>1. k = 1 /\ \A l \in (k + 1) .. 1 : FALSE
    OBVIOUS
  <2> QED BY <1>1, <2>1
<1> QED BY <1>1, <1>2 DEF Fits

(* A call is made by one that is not alone; what is below the caller must  *)
(* allow the new call as well.                                             *)
LEMMA FitsPush ==
  ASSUME NEW ac, NEW sb, NEW ds, NEW ie, NEW un,
         NEW s \in Seq(FrameSet), s # <<>>, Fits(s, ac, sb, ds, ie, un),
         NEW e \in FrameSet, Good(e, ac, sb, ds, ie), ~Solo(e),
         ~Solo(s[Len(s)]), Under(s[Len(s)], e, un),
         \A f \in FrameSet : Under(f, s[Len(s)], un) => Under(f, e, un)
  PROVE  Fits(Append(s, e), ac, sb, ds, ie, un)
<1> DEFINE r == Append(s, e)
           n == Len(s)
<1>1. /\ n \in Nat \ {0} /\ Len(r) = n + 1
      /\ \A k \in 1 .. n : r[k] = s[k] /\ s[k] \in FrameSet
      /\ r[n + 1] = e
      /\ \A k \in 1 .. n : k = n \/ k \in 1 .. (n - 1)
  BY Push, Last, ElementOfSeq
<1> HIDE DEF r
<1>2. \A k \in 1 .. n : ~Solo(s[k])
  <2> TAKE k \in 1 .. n
  <2>1. CASE k = n
    BY <2>1
  <2>2. CASE k # n
    <3>1. n # 1
      BY <1>1, <2>2
    <3> QED BY <3>1 DEF Fits
  <2> QED BY <2>1, <2>2
<1>3. \A k \in 1 .. n : Under(s[k], e, un)
  <2> TAKE k \in 1 .. n
  <2>1. CASE k = n
    BY <2>1
  <2>2. CASE k # n
    <3>1. n \in (k + 1) .. n
      BY <1>1, <2>2
    <3>2. Under(s[k], s[n], un) /\ s[k] \in FrameSet
      BY <1>1, <3>1 DEF Fits
    <3> QED BY <3>2
  <2> QED BY <2>1, <2>2
<1>4. ASSUME NEW k \in 1 .. Len(r)
      PROVE  /\ Good(r[k], ac, sb, ds, ie)
             /\ ~Solo(r[k])
             /\ \A l \in (k + 1) .. Len(r) : Under(r[k], r[l], un)
  <2>1. CASE k = n + 1
    <3>1. \A l \in (k + 1) .. Len(r) : FALSE
      BY <1>1, <2>1
    <3> QED BY <1>1, <2>1, <3>1
  <2>2. CASE k # n + 1
    <3>1. k \in 1 .. n /\ r[k] = s[k]
      BY <1>1, <2>2
    <3>2. Good(r[k], ac, sb, ds, ie) /\ ~Solo(r[k])
      BY <1>2, <3>1 DEF Fits
    <3>3. ASSUME NEW l \in (k + 1) .. Len(r)
          PROVE  Under(r[k], r[l], un)
      <4>1. l = n + 1 \/ (l \in (k + 1) .. n /\ l \in 1 .. n)
        BY <1>1
      <4>2. CASE l = n + 1
        BY <1>1, <1>3, <3>1, <4>2
      <4>3. CASE l \in (k + 1) .. n /\ l \in 1 .. n
        <5>1. Under(s[k], s[l], un)
          BY <3>1, <4>3 DEF Fits
        <5> QED BY <1>1, <3>1, <4>3, <5>1
      <4> QED BY <4>1, <4>2, <4>3
    <3> QED BY <3>2, <3>3
  <2> QED BY <2>1, <2>2
<1> QED BY <1>4 DEF Fits, r

(* The call on top goes on. *)
LEMMA FitsTop ==
  ASSUME NEW ac, NEW sb, NEW ds, NEW ie, NEW un,
         NEW s \in Seq(FrameSet), s # <<>>, Fits(s, ac, sb, ds, ie, un),
         NEW f \in FrameSet, Good(f, ac, sb, ds, ie),
         Solo(f) => Solo(s[Len(s)]),
         f.op = s[Len(s)].op, f.cell = s[Len(s)].cell
  PROVE  Fits([s EXCEPT ![Len(s)] = f], ac, sb, ds, ie, un)
<1> DEFINE r == [s EXCEPT ![Len(s)] = f]
           n == Len(s)
<1>1. n \in Nat \ {0} /\ n \in 1 .. n
  BY Last
<1>2. /\ Len(r) = n /\ r[n] = f
      /\ \A k \in 1 .. (n - 1) : r[k] = s[k]
  BY <1>1, ExceptSeq
<1> HIDE DEF r, n
<1>3. ASSUME NEW k \in 1 .. n
      PROVE  /\ Good(r[k], ac, sb, ds, ie)
             /\ Solo(r[k]) => n = 1
             /\ \A l \in (k + 1) .. n : Under(r[k], r[l], un)
  <2>1. CASE k = n
    <3>1. \A l \in (k + 1) .. n : FALSE
      BY <1>1, <2>1
    <3>2. Solo(s[n]) => n = 1
      BY <1>1 DEF Fits, n
    <3> QED BY <1>2, <2>1, <3>1, <3>2 DEF n
  <2>2. CASE k # n
    <3>1. k \in 1 .. (n - 1) /\ r[k] = s[k]
      BY <1>1, <1>2, <2>2
    <3>2. Good(r[k], ac, sb, ds, ie) /\ (Solo(r[k]) => n = 1)
      BY <3>1 DEF Fits, n
    <3>3. ASSUME NEW l \in (k + 1) .. n
          PROVE  Under(r[k], r[l], un)
      <4>1. l \in 1 .. n /\ (l = n \/ l \in 1 .. (n - 1))
        BY <1>1
      <4>2. Under(s[k], s[l], un)
        BY <3>1 DEF Fits, n
      <4>3. r[l].op = s[l].op /\ r[l].cell = s[l].cell
        BY <1>2, <4>1 DEF n
      <4> QED BY <3>1, <4>2, <4>3 DEF Under
    <3> QED BY <3>2, <3>3
  <2> QED BY <2>1, <2>2
<1> QED BY <1>2, <1>3 DEF Fits, r

(* The call on top returns. *)
LEMMA FitsPop ==
  ASSUME NEW ac, NEW sb, NEW ds, NEW ie, NEW un,
         NEW s \in Seq(FrameSet), s # <<>>, Fits(s, ac, sb, ds, ie, un)
  PROVE  Fits(SubSeq(s, 1, Len(s) - 1), ac, sb, ds, ie, un)
<1> DEFINE r == SubSeq(s, 1, Len(s) - 1)
           n == Len(s)
<1>1. /\ n \in Nat \ {0} /\ Len(r) = n - 1
      /\ \A k \in 1 .. (n - 1) : r[k] = s[k]
  BY Last, Shrink
<1> HIDE DEF r, n
<1>2. ASSUME NEW k \in 1 .. (n - 1)
      PROVE  /\ Good(r[k], ac, sb, ds, ie)
             /\ Solo(r[k]) => n - 1 = 1
             /\ \A l \in (k + 1) .. (n - 1) : Under(r[k], r[l], un)
  <2>1. k \in 1 .. n /\ n # 1
    BY <1>1
  <2>2. Good(s[k], ac, sb, ds, ie) /\ ~Solo(s[k])
    BY <2>1 DEF Fits, n
  <2>3. \A l \in (k + 1) .. (n - 1) :
          l \in (k + 1) .. n /\ r[l] = s[l] /\ Under(s[k], s[l], un)
    BY <1>1, <2>1 DEF Fits, n
  <2> QED BY <1>1, <2>2, <2>3
<1> QED BY <1>1, <1>2 DEF Fits, r

(* A callback that begins disturbs no call.                                *)
LEMMA FitsElse ==
  ASSUME NEW ac, NEW sb, NEW ds, NEW ie, NEW un,
         NEW s \in Seq(FrameSet), Fits(s, ac, sb, ds, ie, un), NEW je, je
  PROVE  Fits(s, ac, sb, ds, je, un)
BY DEF Fits, Good

-----------------------------------------------------------------------------
(* Entries of a list of subscribers. *)

(* Where s has e. *)
Places(s, e) == {k \in 1 .. Len(s) : s[k] = e}

LEMMA PlacesFinite ==
  ASSUME NEW S, NEW s \in Seq(S), NEW e
  PROVE  /\ IsFiniteSet(Places(s, e)) /\ Cardinality(Places(s, e)) \in Nat
         /\ Cardinality(Places(s, e)) = 0 <=> Places(s, e) = {}
<1>1. Len(s) \in Nat /\ IsFiniteSet(1 .. Len(s))
  BY LenProperties, FS_Interval
<1>2. Places(s, e) \in SUBSET (1 .. Len(s))
  BY DEF Places
<1>3. IsFiniteSet(Places(s, e))
  BY <1>1, <1>2, FS_Subset
<1> HIDE DEF Places
<1> QED BY <1>3, FS_CardinalityType, FS_EmptySet

(* What is in a sequence is there a first time. *)
LEMMA FirstPlace ==
  ASSUME NEW S, NEW s \in Seq(S), NEW c, Places(s, c) # {}
  PROVE  \E k \in 1 .. Len(s) : First(s, c, k)
<1> DEFINE T == Places(s, c)
<1>1. T \subseteq Nat /\ T # {}
  BY DEF Places
<1> HIDE DEF T
<1> DEFINE less == OpToRel(<, Nat)
<1>a. less = {p \in Nat \X Nat : p[1] < p[2]}
  BY Zenon DEF OpToRel
<1>b. IsWellFoundedOn(less, Nat)
  BY NatLessThanWellFounded, Zenon
<1> HIDE DEF less
<1>2. PICK k \in T : \A l \in T : <<l, k>> \notin less
  BY <1>1, <1>b, WFMin
<1>3. \A l \in T : ~(l < k)
  BY <1>1, <1>2, <1>a
<1>4. k \in 1 .. Len(s) /\ s[k] = c /\ Len(s) \in Nat
  BY LenProperties DEF T, Places
<1>5. ASSUME NEW l \in 1 .. (k - 1)
      PROVE  s[l] # c
  <2>1. l \in 1 .. Len(s) /\ l < k
    BY <1>4
  <2>2. l \notin T
    BY <1>3, <2>1
  <2> QED BY <2>1, <2>2 DEF T, Places
<1> QED BY <1>4, <1>5 DEF First

(* Without() takes out the i-th element, the first c. *)
LEMMA WithoutPlace ==
  ASSUME NEW S, NEW s \in Seq(S), NEW c, Places(s, c) # {}
  PROVE  \E i \in Places(s, c) :
           /\ Len(Without(s, c)) = Len(s) - 1
           /\ \A k \in 1 .. (Len(s) - 1) :
                Without(s, c)[k] = s[IF k < i THEN k ELSE k + 1]
<1> DEFINE i == CHOOSE k \in DOMAIN s : First(s, c, k)
           n == Len(s)
           t == SubSeq(s, 1, i - 1)
           u == SubSeq(s, i + 1, n)
<1>1. DOMAIN s = 1 .. n /\ n \in Nat
  BY LenProperties
<1>2. i \in 1 .. n /\ First(s, c, i) /\ \E k \in DOMAIN s : First(s, c, k)
  BY <1>1, FirstPlace
<1>3. i \in Places(s, c)
  BY <1>2 DEF First, Places
<1>4. Without(s, c) = t \o u
  BY <1>2 DEF Without
<1>5. \A k \in 1 .. n : s[k] \in S
  BY ElementOfSeq
<1> HIDE DEF i, n
<1>6. /\ t \in Seq(S) /\ Len(t) = i - 1
      /\ \A k \in 1 .. (i - 1) : t[k] = s[k]
  <2>1. i - 1 \in Int /\ 1 \in Int /\ \A k \in 1 .. (i - 1) : s[k] \in S
    BY <1>1, <1>2, <1>5
  <2>2. /\ t \in Seq(S)
        /\ Len(t) = IF 1 <= i - 1 THEN i - 1 - 1 + 1 ELSE 0
        /\ \A k \in 1 .. i - 1 - 1 + 1 : t[k] = s[1 + k - 1]
    BY <2>1, SubSeqProperties
  <2> HIDE DEF t
  <2> QED BY <1>1, <1>2, <2>2
<1>7. /\ u \in Seq(S) /\ Len(u) = n - i
      /\ \A k \in 1 .. (n - i) : u[k] = s[i + k]
  <2>1. i + 1 \in Int /\ n \in Int /\ \A k \in (i + 1) .. n : s[k] \in S
    BY <1>1, <1>2, <1>5
  <2>2. /\ u \in Seq(S)
        /\ Len(u) = IF i + 1 <= n THEN n - (i + 1) + 1 ELSE 0
        /\ \A k \in 1 .. n - (i + 1) + 1 : u[k] = s[i + 1 + k - 1]
    BY <2>1, SubSeqProperties
  <2> HIDE DEF u
  <2>3. n - (i + 1) + 1 = n - i /\ \A k \in 1 .. (n - i) : i + 1 + k - 1 = i + k
    BY <1>1, <1>2
  <2> QED BY <1>1, <1>2, <2>2, <2>3
<1> HIDE DEF t, u
<1>8. /\ Len(t \o u) = Len(t) + Len(u)
      /\ \A k \in 1 .. Len(t) + Len(u) :
           (t \o u)[k] = IF k <= Len(t) THEN t[k] ELSE u[k - Len(t)]
  BY <1>6, <1>7, ConcatProperties
<1>9. Len(t \o u) = n - 1
  BY <1>1, <1>2, <1>6, <1>7, <1>8
<1>10. ASSUME NEW k \in 1 .. (n - 1)
       PROVE  (t \o u)[k] = s[IF k < i THEN k ELSE k + 1]
  <2>1. CASE k < i
    <3>1. k \in 1 .. (i - 1) /\ k <= Len(t)
      BY <1>1, <1>2, <1>6, <2>1
    <3> QED BY <1>1, <1>2, <1>6, <1>7, <1>8, <2>1, <3>1
  <2>2. CASE ~(k < i)
    <3>1. /\ k - (i - 1) \in 1 .. (n - i) /\ ~(k <= Len(t))
          /\ i + (k - (i - 1)) = k + 1
      BY <1>1, <1>2, <1>6, <2>2
    <3>2. (t \o u)[k] = u[k - (i - 1)]
      BY <1>1, <1>2, <1>6, <1>7, <1>8, <3>1
    <3> QED BY <1>7, <2>2, <3>1, <3>2
  <2> QED BY <2>1, <2>2
<1> QED BY <1>3, <1>4, <1>9, <1>10 DEF n

(* So nobody gains an entry, and c loses one if it has any. *)
LEMMA WithoutPlaces ==
  ASSUME NEW S, NEW s \in Seq(S), NEW c
  PROVE  /\ Without(s, c) \in Seq(S)
         /\ \A e : Cardinality(Places(Without(s, c), e)) <=
                     Cardinality(Places(s, e))
         /\ Places(s, c) # {} =>
              Cardinality(Places(Without(s, c), c)) <=
                Cardinality(Places(s, c)) - 1
<1> DEFINE r == Without(s, c)
<1>1. r \in Seq(S)
  BY WithoutType
<1>2. CASE Places(s, c) = {}
  <2>1. r = s
    <3>1. \A k \in 1 .. Len(s) : ~First(s, c, k)
      BY <1>2 DEF Places, First
    <3>2. DOMAIN s = 1 .. Len(s)
      BY LenProperties
    <3> QED BY <3>1, <3>2 DEF Without
  <2>2. \A e : Cardinality(Places(s, e)) \in Nat
    BY PlacesFinite
  <2> QED BY <1>1, <1>2, <2>1, <2>2
<1>3. CASE Places(s, c) # {}
  <2>1. PICK i \in Places(s, c) :
          /\ Len(r) = Len(s) - 1
          /\ \A k \in 1 .. (Len(s) - 1) :
               r[k] = s[IF k < i THEN k ELSE k + 1]
    BY <1>3, WithoutPlace
  <2> HIDE DEF r
  <2>2. Len(s) \in Nat /\ i \in 1 .. Len(s) /\ s[i] = c
    BY LenProperties DEF Places
  <2>3. ASSUME NEW e
        PROVE  Cardinality(Places(r, e)) <= Cardinality(Places(s, e) \ {i})
    <3> DEFINE f == [k \in Places(r, e) |-> IF k < i THEN k ELSE k + 1]
    <3>1. \A k \in Places(r, e) : f[k] \in Places(s, e) \ {i}
      <4> TAKE k \in Places(r, e)
      <4>1. k \in 1 .. (Len(s) - 1) /\ r[k] = e
        BY <2>1 DEF Places
      <4>2. f[k] \in 1 .. Len(s) /\ f[k] # i /\ f[k] = IF k < i THEN k ELSE k + 1
        BY <2>2, <4>1
      <4>3. s[f[k]] = e
        BY <2>1, <4>1, <4>2
      <4> QED BY <4>2, <4>3 DEF Places
    <3>2. \A k, l \in Places(r, e) : f[k] = f[l] => k = l
      <4> TAKE k, l \in Places(r, e)
      <4>1. k \in Nat /\ l \in Nat /\ i \in Nat
        BY <2>1, <2>2 DEF Places
      <4> QED BY <4>1
    <3>3. f \in [Places(r, e) -> Places(s, e) \ {i}] /\ DOMAIN f = Places(r, e)
      BY <3>1
    <3> HIDE DEF f
    <3>4. f \in Injection(Places(r, e), Places(s, e) \ {i})
      BY <3>2, <3>3 DEF Injection, IsInjective
    <3>5. IsFiniteSet(Places(s, e) \ {i})
      BY PlacesFinite, FS_Difference
    <3> QED BY <3>4, <3>5, FS_Injection
  <2>4. \A e : /\ Cardinality(Places(s, e)) \in Nat
               /\ Cardinality(Places(r, e)) \in Nat
               /\ Cardinality(Places(s, e) \ {i}) =
                    IF i \in Places(s, e) THEN Cardinality(Places(s, e)) - 1
                    ELSE Cardinality(Places(s, e))
    BY <1>1, PlacesFinite, FS_RemoveElement DEF r
  <2>5. ASSUME NEW e
        PROVE  Cardinality(Places(r, e)) <= Cardinality(Places(s, e))
    <3>1. PICK m \in Nat : m = Cardinality(Places(s, e))
      BY <2>4
    <3>2. PICK n \in Nat : n = Cardinality(Places(r, e))
      BY <2>4
    <3>3. n <= IF i \in Places(s, e) THEN m - 1 ELSE m
      BY <2>3, <2>4, <3>1, <3>2
    <3> QED BY <3>1, <3>2, <3>3
  <2>6. Cardinality(Places(r, c)) <= Cardinality(Places(s, c)) - 1
    BY <2>1, <2>3, <2>4
  <2> QED BY <1>1, <2>5, <2>6 DEF r
<1> QED BY <1>2, <1>3

(* Appending c some times. *)
LEMMA ExtendPlaces ==
  ASSUME NEW S, NEW s \in Seq(S), NEW n \in Nat, NEW c \in S
  PROVE  /\ \A e : e # c => Places(s \o Copies(n, c), e) = Places(s, e)
         /\ Places(s, c) = {} =>
              Cardinality(Places(s \o Copies(n, c), c)) = n
         /\ \A k \in 1 .. Len(s \o Copies(n, c)) :
              \/ k \in 1 .. Len(s) /\ (s \o Copies(n, c))[k] = s[k]
              \/ n # 0 /\ (s \o Copies(n, c))[k] = c
<1> DEFINE t == Copies(n, c)
           u == s \o t
           m == Len(s)
<1>1. t \in Seq(S) /\ Len(t) = n /\ \A k \in 1 .. n : t[k] = c
  BY DEF Copies
<1>2. m \in Nat
  BY LenProperties
<1>3. /\ Len(u) = m + n
      /\ \A k \in 1 .. m + n : u[k] = IF k <= m THEN s[k] ELSE t[k - m]
  <2> HIDE DEF t
  <2> QED BY <1>1, ConcatProperties
<1> HIDE DEF t, u, m
<1>4. /\ \A k \in 1 .. m : k \in 1 .. Len(u) /\ u[k] = s[k]
      /\ \A k \in 1 .. Len(u) :
           k \in 1 .. m \/ (k \in (m + 1) .. (m + n) /\ u[k] = c)
  <2>1. \A k \in (m + 1) .. (m + n) : k \in 1 .. m + n /\ k - m \in 1 .. n /\ ~(k <= m)
    BY <1>2
  <2>2. \A k \in (m + 1) .. (m + n) : u[k] = c
    BY <1>1, <1>3, <2>1
  <2>3. \A k \in 1 .. m + n : k \in 1 .. m \/ k \in (m + 1) .. (m + n)
    BY <1>2
  <2>4. \A k \in 1 .. m : k \in 1 .. m + n /\ k <= m
    BY <1>2
  <2> QED BY <1>3, <2>2, <2>3, <2>4
<1>5. \A k \in (m + 1) .. (m + n) : k \in 1 .. Len(u) /\ u[k] = c
  <2>1. \A k \in (m + 1) .. (m + n) : k \in 1 .. m + n /\ k \notin 1 .. m
    BY <1>2
  <2> QED BY <1>3, <1>4, <2>1
<1>6. ASSUME NEW e, e # c
      PROVE  Places(u, e) = Places(s, e)
  BY <1>4, <1>6 DEF Places, m
<1>7. ASSUME Places(s, c) = {}
      PROVE  Cardinality(Places(u, c)) = n
  <2>1. Places(u, c) = (m + 1) .. (m + n)
    BY <1>4, <1>5, <1>7 DEF Places, m
  <2>2. Cardinality((m + 1) .. (m + n)) =
          IF m + 1 > m + n THEN 0 ELSE (m + n) - (m + 1) + 1
    BY <1>2, FS_Interval
  <2> QED BY <1>2, <2>1, <2>2
<1>8. ASSUME NEW k \in 1 .. Len(u)
      PROVE  \/ k \in 1 .. Len(s) /\ u[k] = s[k]
             \/ n # 0 /\ u[k] = c
  <2>1. CASE k \in 1 .. m
    BY <1>4, <2>1 DEF m
  <2>2. CASE k \in (m + 1) .. (m + n) /\ u[k] = c
    <3>1. n # 0
      BY <1>2, <2>2
    <3> QED BY <2>2, <3>1
  <2> QED BY <1>4, <2>1, <2>2
<1> QED BY <1>6, <1>7, <1>8 DEF u, t

-----------------------------------------------------------------------------
(* Subscriptions. *)

LEMMA EntriesPlaces == \A sb, d, e : Entries(sb, d, e) = Places(sb[d], e)
BY DEF Entries, Places

LEMMA EntriesFinite ==
  ASSUME TInv, NEW d \in Nodes, NEW e
  PROVE  /\ subs[d] \in Seq(Derived)
         /\ Cardinality(Entries(subs, d, e)) \in Nat
         /\ Cardinality(Entries(subs, d, e)) = 0 <=> Entries(subs, d, e) = {}
<1>1. subs[d] \in Seq(Derived)
  BY DEF TInv, GraphType
<1> QED BY <1>1, EntriesPlaces, PlacesFinite

(* The arguments that are d. *)
LEMMA UsesFinite ==
  ASSUME TInv, NEW c \in Derived, NEW d
  PROVE  /\ deps[c] \in Seq(Nodes) /\ DOMAIN deps[c] = 1 .. Len(deps[c])
         /\ Uses(c, d) = Left(deps, c, 1, d)
         /\ IsFiniteSet(Uses(c, d)) /\ Cardinality(Uses(c, d)) \in Nat
         /\ Cardinality(Uses(c, d)) = 0 <=> Uses(c, d) = {}
<1>1. /\ deps[c] \in Seq(Nodes) /\ Len(deps[c]) \in Nat
      /\ DOMAIN deps[c] = 1 .. Len(deps[c])
  BY LenProperties DEF TInv, GraphType
<1>2. Uses(c, d) = Left(deps, c, 1, d)
  BY <1>1 DEF Uses, Left
<1>3. IsFiniteSet(Uses(c, d))
  <2>1. IsFiniteSet(1 .. Len(deps[c])) /\ Uses(c, d) \in SUBSET (1 .. Len(deps[c]))
    BY <1>1, FS_Interval DEF Uses
  <2> QED BY <2>1, FS_Subset
<1> QED BY <1>1, <1>2, <1>3, FS_CardinalityType, FS_EmptySet

(* What addSubs() does to the entries. *)
LEMMA SubscribedEntries ==
  ASSUME TInv, NEW c \in Derived, subs' = Subscribed(c), NEW d \in Nodes
  PROVE  /\ \A e : e # c => Entries(subs', d, e) = Entries(subs, d, e)
         /\ Entries(subs, d, c) = {} =>
              Cardinality(Entries(subs', d, c)) = Cardinality(Uses(c, d))
         /\ \A k \in 1 .. Len(subs'[d]) :
              \/ k \in 1 .. Len(subs[d]) /\ subs'[d][k] = subs[d][k]
              \/ Uses(c, d) # {} /\ subs'[d][k] = c
<1>1. PICK n \in Nat : n = Cardinality(Uses(c, d)) /\ (n = 0 <=> Uses(c, d) = {})
  BY UsesFinite
<1>2. PICK s \in Seq(Derived) : s = subs[d]
  BY EntriesFinite
<1>3. subs'[d] = s \o Copies(n, c)
  BY <1>1, <1>2 DEF Subscribed
<1>4. /\ \A e : e # c => Places(s \o Copies(n, c), e) = Places(s, e)
      /\ Places(s, c) = {} =>
           Cardinality(Places(s \o Copies(n, c), c)) = n
      /\ \A k \in 1 .. Len(s \o Copies(n, c)) :
           \/ k \in 1 .. Len(s) /\ (s \o Copies(n, c))[k] = s[k]
           \/ n # 0 /\ (s \o Copies(n, c))[k] = c
  BY ExtendPlaces
<1> QED BY <1>1, <1>2, <1>3, <1>4, EntriesPlaces

(* A new subscriber is wired to what it subscribes to. *)
LEMMA SubscribedWired ==
  ASSUME TInv, SubsWired, Enough, NEW c \in Derived, subs' = Subscribed(c),
         deps' = deps, active \subseteq active', c \in Effects => c \in active',
         c \in Effects => \A d \in Nodes : Entries(subs, d, c) = {}
  PROVE  SubsWired' /\ Enough'
<1>1. ASSUME NEW d \in Nodes, NEW k \in 1 .. Len(subs'[d])
      PROVE  /\ \E j \in DOMAIN deps'[subs'[d][k]] : deps'[subs'[d][k]][j] = d
             /\ subs'[d][k] \in Effects => subs'[d][k] \in active'
  <2>1. CASE k \in 1 .. Len(subs[d]) /\ subs'[d][k] = subs[d][k]
    BY <2>1 DEF SubsWired
  <2>2. CASE Uses(c, d) # {} /\ subs'[d][k] = c
    BY <2>2 DEF Uses
  <2> QED BY <2>1, <2>2, SubscribedEntries
<1>2. ASSUME NEW e \in Effects, NEW d \in Nodes
      PROVE  Cardinality(Entries(subs', d, e)) <= Cardinality(Uses(e, d)')
  <2>1. Uses(e, d)' = Uses(e, d)
    BY DEF Uses
  <2>2. CASE e # c
    BY <2>1, <2>2, SubscribedEntries DEF Enough
  <2>3. CASE e = c
    <3>1. Cardinality(Entries(subs', d, c)) = Cardinality(Uses(c, d))
      BY <2>3, SubscribedEntries
    <3>2. Cardinality(Uses(c, d)) \in Nat
      BY UsesFinite
    <3> QED BY <2>1, <2>3, <3>1, <3>2
  <2> QED BY <2>2, <2>3
<1> QED BY <1>1, <1>2 DEF SubsWired, Enough

(* What depends on c depends on what c depends on. *)
LEMMA AboveStep ==
  ASSUME NEW d, NEW c \in made \cap Derived,
         \E j \in DOMAIN deps[c] : deps[c][j] = d
  PROVE  c \in Above(d) /\ Above(c) \subseteq Above(d)
<1>1. ASSUME NEW cs \in SUBSET made, d \in cs, Closed(cs)
      PROVE  c \in cs
  BY <1>1 DEF Closed
<1> QED BY <1>1 DEF Above

-----------------------------------------------------------------------------
(* Steps.  With one goroutine, only its stack matters. *)

LEMMA StackSeq ==
  ASSUME TInv, NEW g \in Goroutines
  PROVE  /\ stack[g] \in Seq(FrameSet) /\ stack \in [Goroutines -> Seq(FrameSet)]
         /\ Idle(g) <=> stack[g] = <<>>
         /\ Top(g) = stack[g][Len(stack[g])]
         /\ \A f : stack' = Moved(g, f) =>
              stack'[g] = [stack[g] EXCEPT ![Len(stack[g])] = f]
         /\ \A f : stack' = Pushed(g, f) => stack'[g] = Append(stack[g], f)
         /\ stack' = Popped(g) =>
              stack'[g] = SubSeq(stack[g], 1, Len(stack[g]) - 1)
BY DEF TInv, SInv, StackType, Idle, Top, Moved, Pushed, Popped

LEMMA OnlyOne ==
  ASSUME Alone, NEW g \in Goroutines,
         Fits(stack'[g], active', subs', deps', inEffect', Unwatched')
  PROVE  CallsFit'
BY DEF Alone, CallsFit

(* Neither the graph nor the effects change. *)
Same == UNCHANGED <<made, deps, subs, active>>

LEMMA SameRest ==
  ASSUME AInv, Same
  PROVE  SubsWired' /\ Enough' /\ Unwatched' = Unwatched
<1>1. SubsWired' /\ Enough'
  BY DEF AInv, Same, SubsWired, Enough, Entries, Uses
<1>2. Unwatched' = Unwatched
  BY DEF Same, Unwatched, Above, Closed
<1> QED BY <1>1, <1>2

(* What the calls below allow the call on top to be. *)
LEMMA TopGood ==
  ASSUME TInv, AInv, NEW g \in Goroutines, ~Idle(g)
  PROVE  /\ Good(Top(g), active, subs, deps, inEffect)
         /\ Solo(Top(g)) => Len(stack[g]) = 1
         /\ \A k \in 1 .. (Len(stack[g]) - 1) :
              Under(stack[g][k], Top(g), Unwatched)
<1>1. /\ stack[g] \in Seq(FrameSet) /\ stack[g] # <<>>
      /\ Top(g) = stack[g][Len(stack[g])]
      /\ Fits(stack[g], active, subs, deps, inEffect, Unwatched)
  BY StackSeq DEF AInv, CallsFit
<1>2. /\ Len(stack[g]) \in 1 .. Len(stack[g]) /\ Len(stack[g]) \in Nat
      /\ \A k \in 1 .. (Len(stack[g]) - 1) :
           k \in 1 .. Len(stack[g]) /\ Len(stack[g]) \in (k + 1) .. Len(stack[g])
  <2>1. Len(stack[g]) \in Nat \ {0}
    BY <1>1, Last
  <2> QED BY <2>1
<1> QED BY <1>1, <1>2 DEF Fits

(* A mark visits the subscribers, entry by entry.                          *)
LEMMA SubEntry ==
  ASSUME TInv, AInv, NEW g \in Goroutines, Marking(g)
  PROVE  /\ Top(g).cell \in Nodes /\ Top(g).over = subs[Top(g).cell]
         /\ Top(g).arg \in 1 .. Len(subs[Top(g).cell])
         /\ Reached(g) = {Sub(g)}
<1>1. /\ ~Idle(g) /\ Top(g).at = "mark"
      /\ Top(g) \in FrameSet /\ Formed(Top(g), made, deps)
  BY AtTop DEF Marking
<1>2. Top(g).cell \in Nodes
  BY <1>1 DEF Formed, Nodes
<1>3. subs[Top(g).cell] \in Seq(Derived)
  BY <1>2 DEF TInv, GraphType
<1>4. Top(g).over = subs[Top(g).cell]
  BY <1>1, TopGood DEF Good
<1>5. Top(g).arg \in 1 .. Len(subs[Top(g).cell])
  BY <1>1, <1>3, <1>4, LenProperties DEF Marking, FrameSet
<1> QED BY <1>2, <1>4, <1>5 DEF Reached

(* A subscriber of an unwatched node is an unwatched computed. *)
LEMMA SubUnwatched ==
  ASSUME TInv, AInv, NEW g \in Goroutines, Marking(g), NEW c \in Reached(g),
         Top(g).cell \in Unwatched
  PROVE  c \in Unwatched /\ c \notin Effects
<1> DEFINE d == Top(g).cell
<1>1. c \in Derived /\ c \in made
  BY SubType
<1>2. d \in Nodes /\ active \cap Above(d) = {}
  BY DEF Unwatched
<1>3. Top(g).arg \in 1 .. Len(subs[d]) /\ c = subs[d][Top(g).arg]
  BY SubEntry DEF Sub
<1>4. /\ \E j \in DOMAIN deps[c] : deps[c][j] = d
      /\ c \in Effects => c \in active
  BY <1>2, <1>3 DEF AInv, SubsWired
<1> HIDE DEF d
<1>5. c \in Above(d) /\ Above(c) \subseteq Above(d)
  BY <1>1, <1>4, AboveStep
<1>6. c \notin Effects
  BY <1>2, <1>4, <1>5
<1>7. c \in Nodes
  BY <1>1, <1>6 DEF Derived, Nodes
<1> QED BY <1>2, <1>5, <1>6, <1>7 DEF Unwatched

LEMMA MoveStep ==
  ASSUME Alone, TInv, AInv, NEW g \in Goroutines, ~Idle(g),
         NEW f \in FrameSet, stack' = Moved(g, f), Same, inEffect' = inEffect,
         Good(f, active, subs, deps, inEffect), Solo(f) => Solo(Top(g)),
         f.op = Top(g).op, f.cell = Top(g).cell
  PROVE  AInv'
<1>1. /\ stack[g] \in Seq(FrameSet) /\ stack[g] # <<>>
      /\ Top(g) = stack[g][Len(stack[g])]
      /\ stack'[g] = [stack[g] EXCEPT ![Len(stack[g])] = f]
      /\ Fits(stack[g], active, subs, deps, inEffect, Unwatched)
  BY StackSeq DEF AInv, CallsFit
<1>2. Fits(stack'[g], active, subs, deps, inEffect, Unwatched)
  BY <1>1, FitsTop
<1> QED BY <1>2, SameRest, OnlyOne DEF AInv, Same

LEMMA PushStep ==
  ASSUME Alone, TInv, AInv, NEW g \in Goroutines, ~Idle(g),
         NEW e \in FrameSet, stack' = Pushed(g, e), Same, inEffect' = inEffect,
         Good(e, active, subs, deps, inEffect), ~Solo(e), ~Solo(Top(g)),
         Under(Top(g), e, Unwatched),
         \A h \in FrameSet : Under(h, Top(g), Unwatched) => Under(h, e, Unwatched)
  PROVE  AInv'
<1>1. /\ stack[g] \in Seq(FrameSet) /\ stack[g] # <<>>
      /\ Top(g) = stack[g][Len(stack[g])]
      /\ stack'[g] = Append(stack[g], e)
      /\ Fits(stack[g], active, subs, deps, inEffect, Unwatched)
  BY StackSeq DEF AInv, CallsFit
<1>2. Fits(stack'[g], active, subs, deps, inEffect, Unwatched)
  BY <1>1, FitsPush
<1> QED BY <1>2, SameRest, OnlyOne DEF AInv, Same

LEMMA CallStep ==
  ASSUME Alone, TInv, AInv, NEW g \in Goroutines, ~Idle(g),
         NEW f \in FrameSet, NEW e \in FrameSet,
         stack' = [stack EXCEPT ![g] = Append(Moved(g, f)[g], e)],
         Same, inEffect' = inEffect,
         Good(f, active, subs, deps, inEffect), ~Solo(f),
         f.op = Top(g).op, f.cell = Top(g).cell,
         Good(e, active, subs, deps, inEffect), ~Solo(e),
         Under(f, e, Unwatched),
         \A h \in FrameSet : Under(h, f, Unwatched) => Under(h, e, Unwatched)
  PROVE  AInv'
<1> DEFINE s == [stack[g] EXCEPT ![Len(stack[g])] = f]
<1>1. /\ stack[g] \in Seq(FrameSet) /\ stack[g] # <<>>
      /\ Top(g) = stack[g][Len(stack[g])]
      /\ stack \in [Goroutines -> Seq(FrameSet)]
      /\ Fits(stack[g], active, subs, deps, inEffect, Unwatched)
  BY StackSeq DEF AInv, CallsFit
<1>2. stack'[g] = Append(s, e)
  BY <1>1 DEF Moved
<1>3. Len(stack[g]) \in 1 .. Len(stack[g])
  BY <1>1, Last
<1>4. s \in Seq(FrameSet) /\ Len(s) = Len(stack[g]) /\ s[Len(stack[g])] = f
  BY <1>1, <1>3, ExceptSeq
<1>5. Fits(s, active, subs, deps, inEffect, Unwatched)
  BY <1>1, FitsTop
<1> HIDE DEF s
<1>6. s # <<>> /\ s[Len(s)] = f
  BY <1>3, <1>4, EmptySeq
<1>7. Fits(stack'[g], active, subs, deps, inEffect, Unwatched)
  BY <1>2, <1>4, <1>5, <1>6, FitsPush
<1> QED BY <1>7, SameRest, OnlyOne DEF AInv, Same

LEMMA PopStep ==
  ASSUME Alone, TInv, AInv, NEW g \in Goroutines, ~Idle(g),
         stack' = Popped(g), Same, inEffect' = inEffect
  PROVE  AInv'
<1>1. /\ stack[g] \in Seq(FrameSet) /\ stack[g] # <<>>
      /\ stack'[g] = SubSeq(stack[g], 1, Len(stack[g]) - 1)
      /\ Fits(stack[g], active, subs, deps, inEffect, Unwatched)
  BY StackSeq DEF AInv, CallsFit
<1>2. Fits(stack'[g], active, subs, deps, inEffect, Unwatched)
  BY <1>1, FitsPop
<1> QED BY <1>2, SameRest, OnlyOne DEF AInv, Same

LEMMA UnwindStep ==
  ASSUME Alone, TInv, AInv, NEW g \in Goroutines, Unwind(g), Same
  PROVE  AInv'
<1>1. stack'[g] = <<>>
  BY StackSeq DEF Unwind
<1> QED BY <1>1, SameRest, OnlyOne, FitsNone DEF AInv

(* The program makes a call. *)
LEMMA NewStep ==
  ASSUME Alone, TInv, NEW g \in Goroutines, Idle(g), NEW f \in FrameSet,
         stack' = Pushed(g, f), Good(f, active', subs', deps', inEffect')
  PROVE  CallsFit'
<1>1. stack'[g] = Append(<<>>, f) /\ Append(<<>>, f) = <<f>>
  BY StackSeq
<1>2. Fits(stack'[g], active', subs', deps', inEffect', Unwatched')
  BY <1>1, FitsOne
<1> QED BY <1>2, OnlyOne

(* A callback makes a call: nothing below waits for its turn, and inEffect *)
(* is set unless effects are nested. *)
LEMMA BackStep ==
  ASSUME Alone, TInv, AInv, NEW g \in Goroutines, Is(g, "call"),
         NEW c \in Cells, NEW op \in {"Value", "SetValue"},
         NEW at \in {"lock", "body", "nil"}, NEW args \in Seq(Values),
         at = "lock" => ~inEffect,
         op = "SetValue" /\ ~Nests => c \in Unwatched,
         stack' = Pushed(g, Frame(op, at, c, args)), Same, inEffect' = inEffect
  PROVE  AInv'
<1> DEFINE e == Frame(op, at, c, args)
<1>1. /\ ~Idle(g) /\ Top(g).at = "call" /\ Formed(Top(g), made, deps)
      /\ Top(g).op = "value" /\ Top(g).cell \in Effects
      /\ Top(g).cell \notin Computeds
  BY AtTop, KindsAssumption DEF Formed, KindsAssumption, Nodes
<1>2. ~Nests => inEffect
  BY <1>1, TopGood DEF Good
<1>3. /\ e \in FrameSet /\ e.op = op /\ e.at = at /\ e.cell = c
  BY FrameType DEF Ops, Ats, Frame
<1>4. stack' = Pushed(g, e)
  OBVIOUS
<1> HIDE DEF e
<1>5. Good(e, active, subs, deps, inEffect) /\ ~Solo(e)
  BY <1>2, <1>3 DEF Good, Solo, Early
<1>6. ~Solo(Top(g)) /\ Under(Top(g), e, Unwatched)
  BY <1>1, <1>3 DEF Solo, Early, Under
<1>7. \A h \in FrameSet : Under(h, Top(g), Unwatched) => Under(h, e, Unwatched)
  BY <1>1 DEF Under
<1> QED BY <1>1, <1>3, <1>4, <1>5, <1>6, <1>7, PushStep

-----------------------------------------------------------------------------
(* The calls of the program and of callbacks. *)

LEMMA AloneSignal ==
  ASSUME Alone, TInv, AInv, NEW g \in Goroutines,
         NEW s \in Signals, NEW v \in Values, Signal(g, s, v)
  PROVE  AInv'
<1>1. /\ stack'[g] = <<>> /\ UNCHANGED <<deps, subs, active>>
  <2>1. Idle(g) /\ stack' = stack
    BY DEF Signal, Alone
  <2>2. UNCHANGED <<deps, subs, active>>
    BY DEF Signal, histVars
  <2> QED BY <2>1, <2>2 DEF Idle
<1>2. SubsWired' /\ Enough'
  BY <1>1 DEF AInv, SubsWired, Enough, Entries, Uses
<1> QED BY <1>1, <1>2, OnlyOne, FitsNone DEF AInv

LEMMA AloneCallValue ==
  ASSUME Alone, TInv, AInv, NEW g \in Goroutines,
         NEW s \in Signals, CallValue(g, s)
  PROVE  AInv'
<1> DEFINE f == Frame("Value", Gate, s, <<>>)
<1>1. /\ Same /\ inEffect' = inEffect /\ stack' = Pushed(g, f)
      /\ Idle(g) \/ Is(g, "call")
  BY DEF CallValue, Calls, Same, graphVars, lockVars, histVars
<1>2. /\ Gate \in {"lock", "body", "nil"} /\ Gate \in Ats
      /\ Gate = "lock" => ~inEffect
      /\ s \in Cells /\ <<>> \in Seq(Values)
  BY EmptySeq DEF Gate, Cells, Ats
<1>3. CASE Is(g, "call")
  BY <1>1, <1>2, <1>3, BackStep
<1>4. CASE Idle(g)
  <2>1. f \in FrameSet /\ f.op = "Value" /\ f.at = Gate
    BY <1>2, FrameType DEF Ops, Frame
  <2>2. Good(f, active', subs', deps', inEffect')
    BY <1>2, <2>1 DEF Good, Early
  <2> HIDE DEF f
  <2> QED BY <1>1, <1>4, <2>1, <2>2, NewStep, SameRest DEF AInv
<1> QED BY <1>1, <1>3, <1>4

LEMMA AloneCallSetValue ==
  ASSUME Alone, TInv, AInv, NEW g \in Goroutines,
         NEW s \in Signals, NEW v \in Values, CallSetValue(g, s, v)
  PROVE  AInv'
<1> DEFINE f == Frame("SetValue", Gate, s, <<v>>)
<1>1. /\ Same /\ inEffect' = inEffect /\ stack' = Pushed(g, f)
      /\ Idle(g) \/ Is(g, "call")
      /\ ~Idle(g) /\ ~Nests => active \cap Above(s) = {}
  BY DEF CallSetValue, Calls, Same, graphVars, lockVars, histVars
<1>2. /\ Gate \in {"lock", "body", "nil"} /\ Gate \in Ats
      /\ Gate = "lock" => ~inEffect
      /\ s \in Cells /\ s \in Nodes /\ <<v>> \in Seq(Values)
  BY DEF Gate, Cells, Nodes, Ats
<1>3. CASE Is(g, "call")
  <2>1. ~Nests => s \in Unwatched
    BY <1>1, <1>2, <1>3 DEF Is, Unwatched
  <2> QED BY <1>1, <1>2, <1>3, <2>1, BackStep
<1>4. CASE Idle(g)
  <2>1. f \in FrameSet /\ f.op = "SetValue" /\ f.at = Gate
    BY <1>2, FrameType DEF Ops, Frame
  <2>2. Good(f, active', subs', deps', inEffect')
    BY <1>2, <2>1 DEF Good, Early
  <2> HIDE DEF f
  <2> QED BY <1>1, <1>4, <2>1, <2>2, NewStep, SameRest DEF AInv
<1> QED BY <1>1, <1>3, <1>4

LEMMA AloneCallComputedValue ==
  ASSUME Alone, TInv, AInv, NEW g \in Goroutines,
         NEW c \in Computeds, CallComputedValue(g, c)
  PROVE  AInv'
<1> DEFINE f == Frame("Value", "nil", c, <<>>)
<1>1. /\ Same /\ inEffect' = inEffect /\ stack' = Pushed(g, f)
      /\ Idle(g) \/ Is(g, "call")
  BY DEF CallComputedValue, Calls, Same, graphVars, lockVars, histVars
<1>2. c \in Cells /\ <<>> \in Seq(Values)
  BY EmptySeq DEF Cells, Derived
<1>3. CASE Is(g, "call")
  BY <1>1, <1>2, <1>3, BackStep
<1>4. CASE Idle(g)
  <2>1. f \in FrameSet /\ f.op = "Value" /\ f.at = "nil"
    BY <1>2, FrameType DEF Ops, Ats, Frame
  <2>2. Good(f, active', subs', deps', inEffect')
    BY <2>1 DEF Good, Early
  <2> HIDE DEF f
  <2> QED BY <1>1, <1>4, <2>1, <2>2, NewStep, SameRest DEF AInv
<1> QED BY <1>1, <1>3, <1>4

(* A new cell has no subscriptions yet, so its wiring is free. *)
LEMMA Rewired ==
  ASSUME TInv, AInv, NEW c \in Derived, c \notin made, NEW ds \in Wirings,
         deps' = [deps EXCEPT ![c] = ds], UNCHANGED <<subs, active>>
  PROVE  /\ SubsWired' /\ Enough'
         /\ \A d \in Nodes : Entries(subs, d, c) = {}
<1>1. \A d \in Nodes : Entries(subs, d, c) = {}
  BY DEF Entries, TInv, SubsMade
<1>2. \A b \in Derived \ {c} : deps'[b] = deps[b]
  BY DEF TInv, GraphType
<1>3. SubsWired'
  <2> SUFFICES ASSUME NEW d \in Nodes, NEW k \in 1 .. Len(subs[d])
               PROVE  /\ \E j \in DOMAIN deps'[subs[d][k]] :
                           deps'[subs[d][k]][j] = d
                      /\ subs[d][k] \in Effects => subs[d][k] \in active
    BY DEF SubsWired
  <2>1. subs[d] \in Seq(Derived)
    BY DEF TInv, GraphType
  <2>2. subs[d][k] \in Derived \ {c}
    BY <1>1, <2>1, ElementOfSeq DEF Entries
  <2> QED BY <1>2, <2>2 DEF AInv, SubsWired
<1>4. ASSUME NEW e \in Effects, NEW d \in Nodes
      PROVE  Cardinality(Entries(subs, d, e)) <= Cardinality(Uses(e, d)')
  <2>1. e \in Derived
    BY DEF Derived
  <2>2. CASE e = c
    <3>1. Cardinality(Entries(subs, d, e)) = 0
      BY <1>1, <2>2, EntriesFinite
    <3>2. Cardinality(Uses(e, d)') \in Nat
      <4>1. ds \in Seq(Nodes) /\ deps'[e] = ds
        BY <2>1, <2>2, DataAssumption DEF DataAssumption, TInv, GraphType
      <4>2. Uses(e, d)' = {j \in DOMAIN ds : ds[j] = d}
        BY <4>1 DEF Uses
      <4>3. DOMAIN ds = 1 .. Len(ds) /\ Len(ds) \in Nat
        BY <4>1, LenProperties
      <4>4. IsFiniteSet(1 .. Len(ds)) /\ Uses(e, d)' \in SUBSET (1 .. Len(ds))
        BY <4>2, <4>3, FS_Interval
      <4> QED BY <4>4, FS_Subset, FS_CardinalityType
    <3> QED BY <3>1, <3>2
  <2>3. CASE e # c
    <3>1. Uses(e, d)' = Uses(e, d)
      BY <1>2, <2>1, <2>3 DEF Uses
    <3> QED BY <3>1 DEF AInv, Enough
  <2> QED BY <2>2, <2>3
<1>5. Enough'
  BY <1>4 DEF Enough, Entries
<1> QED BY <1>1, <1>3, <1>5

LEMMA AloneCallComputed ==
  ASSUME Alone, TInv, AInv, NEW g \in Goroutines, NEW c \in Computeds,
         NEW ds \in Wirings, NEW getter \in Getters,
         CallComputed(g, c, ds, getter)
  PROVE  AInv'
<1> DEFINE f == Frame("Computed", "lock", c, <<>>)
<1>1. /\ Idle(g) /\ stack' = Pushed(g, f) /\ c \notin made
      /\ deps' = [deps EXCEPT ![c] = ds] /\ UNCHANGED <<subs, active>>
  BY DEF CallComputed, Calls, Alone, histVars
<1>2. c \in Derived /\ c \in Cells
  BY DEF Derived, Cells
<1>3. f \in FrameSet /\ f.op = "Computed" /\ f.at = "lock"
  BY <1>2, FrameType, EmptySeq DEF Ops, Ats, Frame
<1>4. Good(f, active', subs', deps', inEffect')
  BY <1>3 DEF Good, Early
<1> HIDE DEF f
<1> QED BY <1>1, <1>2, <1>3, <1>4, Rewired, NewStep DEF AInv

LEMMA AloneCallEffect ==
  ASSUME Alone, TInv, AInv, NEW g \in Goroutines, NEW e \in Effects,
         NEW ds \in Wirings, CallEffect(g, e, ds)
  PROVE  AInv'
<1> DEFINE f == Frame("Effect", "lock", e, <<>>)
<1>1. /\ Idle(g) /\ stack' = Pushed(g, f) /\ e \notin made
      /\ deps' = [deps EXCEPT ![e] = ds] /\ UNCHANGED <<subs, active>>
  BY DEF CallEffect, Calls, Alone, histVars
<1>2. e \in Derived /\ e \in Cells
  BY DEF Derived, Cells
<1>3. f \in FrameSet /\ f.op = "Effect" /\ f.at = "lock" /\ f.cell = e
  BY <1>2, FrameType, EmptySeq DEF Ops, Ats, Frame
<1>4. \A d \in Nodes : Entries(subs, d, e) = {}
  BY <1>1, <1>2, Rewired
<1>5. Good(f, active', subs', deps', inEffect')
  BY <1>1, <1>3, <1>4 DEF Good, Early
<1> HIDE DEF f
<1> QED BY <1>1, <1>2, <1>3, <1>5, Rewired, NewStep DEF AInv

LEMMA AloneCallStop ==
  ASSUME Alone, TInv, AInv, NEW g \in Goroutines, NEW e \in Effects,
         CallStop(g, e)
  PROVE  AInv'
<1> DEFINE f == Frame("Stop", "lock", e, <<>>)
<1>1. /\ Idle(g) /\ stack' = Pushed(g, f) /\ Same
  BY DEF CallStop, Calls, Alone, Same, graphVars, histVars
<1>2. e \in Derived /\ e \in Cells
  BY DEF Derived, Cells
<1>3. /\ f \in FrameSet /\ f.op = "Stop" /\ f.at = "lock" /\ f.cell = e
      /\ f.arg = 1
  BY <1>2, FrameType, EmptySeq DEF Ops, Ats, Frame
<1>4. \A d \in Nodes : Cardinality(Entries(subs, d, e)) <=
                         Cardinality(Left(deps, e, 1, d))
  BY <1>2, UsesFinite DEF AInv, Enough
<1>5. Good(f, active', subs', deps', inEffect')
  BY <1>1, <1>3, <1>4 DEF Good, Early, Same
<1> HIDE DEF f
<1> QED BY <1>1, <1>3, <1>5, NewStep, SameRest DEF AInv

LEMMA AloneCall ==
  ASSUME Alone, TInv, AInv, NEW g \in Goroutines, Call(g)
  PROVE  AInv'
BY AloneSignal, AloneCallValue, AloneCallSetValue, AloneCallComputedValue,
   AloneCallComputed, AloneCallEffect, AloneCallStop
DEF Call

-----------------------------------------------------------------------------
(* The steps of a call. *)

(* A call of neither a constructor nor stop comes to its end. *)
LEMMA GotoStep ==
  ASSUME Alone, TInv, AInv, NEW g \in Goroutines, ~Idle(g), Goto(g, "end"),
         Top(g).op \notin {"Computed", "Effect", "Stop"}, Same,
         inEffect' = inEffect
  PROVE  AInv'
<1> DEFINE f == [Top(g) EXCEPT !.at = "end"]
<1>1. Top(g) \in FrameSet
  BY TopFrame DEF TInv, SInv
<1>2. /\ f \in FrameSet /\ f.at = "end" /\ f.op = Top(g).op
      /\ f.cell = Top(g).cell
  BY <1>1, GotoType DEF Ats
<1>3. stack' = Moved(g, f)
  BY DEF Goto
<1> HIDE DEF f
<1>4. Good(f, active, subs, deps, inEffect) /\ ~Solo(f)
  BY <1>2, TopGood DEF Good, Solo, Early
<1> QED BY <1>2, <1>3, <1>4, MoveStep

LEMMA AloneAcquire ==
  ASSUME Alone, TInv, AInv, NEW g \in Goroutines, Acquire(g)
  PROVE  AInv'
<1> DEFINE f == [Top(g) EXCEPT !.at = "body", !.locked = TRUE]
<1>1. /\ ~Idle(g) /\ Top(g) \in FrameSet /\ Top(g).at = "lock"
  BY AtTop DEF Acquire
<1>2. /\ f \in FrameSet /\ f.at = "body" /\ f.op = Top(g).op
      /\ f.cell = Top(g).cell /\ f.arg = Top(g).arg
  BY <1>1 DEF FrameSet
<1>3. stack' = Moved(g, f) /\ Same /\ inEffect' = inEffect
  BY DEF Acquire, Same, graphVars, histVars
<1> HIDE DEF f
<1>4. /\ Good(f, active, subs, deps, inEffect)
      /\ Solo(f) => Solo(Top(g))
  BY <1>1, <1>2, TopGood DEF Good, Solo, Early
<1> QED BY <1>1, <1>2, <1>3, <1>4, MoveStep

LEMMA AloneReturn ==
  ASSUME Alone, TInv, AInv, NEW g \in Goroutines, Return(g)
  PROVE  AInv'
<1>1. /\ ~Idle(g) /\ stack' = Popped(g) /\ Same /\ inEffect' = inEffect
  BY AtTop DEF Return, Same
<1> QED BY <1>1, PopStep

(* A panic. *)
LEMMA AlonePanic ==
  ASSUME Alone, TInv, AInv, NEW g \in Goroutines,
         NilPanic(g) \/ GetPanic(g) \/ CallPanic(g)
  PROVE  AInv'
<1>1. Unwind(g) /\ Same
  BY DEF NilPanic, GetPanic, CallPanic, Same, graphVars
<1> QED BY <1>1, UnwindStep

LEMMA AloneBody ==
  ASSUME Alone, TInv, AInv, NEW g \in Goroutines,
         ReadBody(g) \/ WriteSame(g) \/ WriteQuiet(g) \/ WriteMark(g)
  PROVE  AInv'
<1>1. /\ ~Idle(g) /\ Top(g).op \in {"Value", "SetValue"}
      /\ Same /\ inEffect' = inEffect
  BY AtTop DEF ReadBody, WriteSame, WriteQuiet, WriteMark, At, Same,
     graphVars, lockVars, histVars
<1>2. CASE Goto(g, "end")
  BY <1>1, <1>2, GotoStep
<1>3. CASE WriteMark(g)
  <2>1. Top(g).op = "SetValue" /\ Formed(Top(g), made, deps)
    BY <1>3, AtTop DEF WriteMark, At
  <2>2. Top(g).cell \in Nodes
    BY <2>1 DEF Formed, Nodes
  <2>3. /\ Ranging(g) \in FrameSet /\ Ranging(g).at = "mark"
        /\ Ranging(g).over = subs[Top(g).cell]
        /\ Ranging(g).op = Top(g).op /\ Ranging(g).cell = Top(g).cell
    BY <1>1, <2>2, RangingType
  <2>4. /\ Good(Ranging(g), active, subs, deps, inEffect)
        /\ ~Solo(Ranging(g))
    BY <2>1, <2>3 DEF Good, Solo, Early
  <2>5. stack' = Moved(g, Ranging(g))
    BY <1>3 DEF WriteMark
  <2> QED BY <1>1, <2>3, <2>4, <2>5, MoveStep
<1> QED BY <1>2, <1>3 DEF ReadBody, WriteSame, WriteQuiet

LEMMA AloneMarkEnd ==
  ASSUME Alone, TInv, AInv, NEW g \in Goroutines, MarkEnd(g)
  PROVE  AInv'
<1>1. /\ ~Idle(g) /\ Same /\ inEffect' = inEffect
  BY AtTop DEF MarkEnd, Same, graphVars, lockVars, histVars
<1>2. CASE Top(g).op = "SetValue"
  BY <1>1, <1>2, GotoStep DEF MarkEnd
<1>3. CASE Top(g).op # "SetValue"
  BY <1>1, <1>3, PopStep DEF MarkEnd
<1> QED BY <1>2, <1>3

(* The arguments of value(). *)
LEMMA AlonePullArg ==
  ASSUME Alone, TInv, AInv, NEW g \in Goroutines, PullArg(g)
  PROVE  AInv'
<1> DEFINE f == [Advanced(g) EXCEPT !.args = Append(@, val[Dep(g)]),
                                    !.sum = Plus(@, ver[Dep(g)])]
<1>1. /\ ~Idle(g) /\ Top(g) \in FrameSet /\ Top(g).op = "value"
      /\ Top(g).at \in {"pull", "first"} /\ Dep(g) \in Nodes
  BY DepType DEF PullArg
<1>2. /\ stack' = Moved(g, f) /\ Same /\ inEffect' = inEffect
  BY DEF PullArg, Same, graphVars, lockVars, histVars
<1>3. /\ f \in FrameSet /\ f.op = Top(g).op /\ f.at = Top(g).at
      /\ f.cell = Top(g).cell
  <2>1. PICK t \in FrameSet : t = Top(g)
    BY <1>1
  <2>2. val[Dep(g)] \in Values /\ ver[Dep(g)] \in 0 .. (VersionModulus - 1)
    BY <1>1 DEF TInv, DataType
  <2>3. t.sum \in Nat /\ ver[Dep(g)] \in Nat /\ t.args \in Seq(Values)
    BY <2>2, BoundsAssumption DEF BoundsAssumption, FrameSet
  <2>4. PICK as \in Seq(Values), m \in 0 .. (VersionModulus - 1) :
          as = Append(t.args, val[Dep(g)]) /\ m = Plus(t.sum, ver[Dep(g)])
    BY <2>2, <2>3, PlusType, Push
  <2> DEFINE a == [t EXCEPT !.arg = @ + 1]
             b == [a EXCEPT !.args = as]
  <2>5. /\ a \in FrameSet /\ a.op = t.op /\ a.at = t.at /\ a.cell = t.cell
        /\ a.args = t.args /\ a.sum = t.sum /\ a = Advanced(g)
    BY <2>1 DEF FrameSet, Advanced
  <2> HIDE DEF a
  <2>6. f = [a EXCEPT !.args = as, !.sum = m]
    BY <2>4, <2>5 DEF FrameSet
  <2>7. /\ b \in FrameSet /\ b.op = a.op /\ b.at = a.at /\ b.cell = a.cell
    BY <2>5 DEF FrameSet
  <2>8. f = [b EXCEPT !.sum = m]
    BY <2>5, <2>6 DEF FrameSet
  <2> HIDE DEF b, f
  <2>9. /\ f \in FrameSet /\ f.op = b.op /\ f.at = b.at /\ f.cell = b.cell
    BY <2>7, <2>8 DEF FrameSet
  <2> QED BY <2>1, <2>5, <2>7, <2>9
<1> HIDE DEF f
<1>4. Good(f, active, subs, deps, inEffect) /\ ~Solo(f)
  BY <1>1, <1>3, TopGood DEF Good, Solo, Early
<1> QED BY <1>1, <1>2, <1>3, <1>4, MoveStep

(* What is dirty is a computed, which may be evaluated wherever its caller *)
(* may be. *)
LEMMA AlonePullDep ==
  ASSUME Alone, TInv, AInv, NEW g \in Goroutines, PullDep(g)
  PROVE  AInv'
<1> DEFINE e == Frame("value", "pull", Dep(g), <<>>)
<1>1. /\ ~Idle(g) /\ Top(g) \in FrameSet /\ Top(g).op = "value"
      /\ Top(g).at \in {"pull", "first"}
      /\ Dep(g) \in Computeds /\ Dep(g) \in Derived /\ Dep(g) \in made
  BY DepType DEF PullDep, Stale, Derived
<1>2. Dep(g) \notin Effects
  BY <1>1, KindsAssumption DEF KindsAssumption, Nodes
<1>3. e \in FrameSet /\ e.op = "value" /\ e.at = "pull" /\ e.cell = Dep(g)
  BY <1>1, ValueCall DEF Frame
<1>4. stack' = Pushed(g, e) /\ Same /\ inEffect' = inEffect
  BY DEF PullDep, Same, graphVars, lockVars, histVars
<1> HIDE DEF e
<1>5. Good(e, active, subs, deps, inEffect) /\ ~Solo(e) /\ ~Solo(Top(g))
  BY <1>1, <1>2, <1>3 DEF Good, Solo, Early
<1>6. Under(Top(g), e, Unwatched)
  BY <1>1, <1>3 DEF Under
<1>7. \A h \in FrameSet : Under(h, Top(g), Unwatched) => Under(h, e, Unwatched)
  BY <1>1, <1>3 DEF Under
<1> QED BY <1>1, <1>3, <1>4, <1>5, <1>6, <1>7, PushStep

LEMMA AlonePullEnd ==
  ASSUME Alone, TInv, AInv, NEW g \in Goroutines, PullSkip(g) \/ PullGet(g)
  PROVE  AInv'
<1>1. /\ ~Idle(g) /\ stack' = Popped(g) /\ Same /\ inEffect' = inEffect
  BY CollectedType DEF PullSkip, PullGet, Calling, Collected, Same,
     graphVars, lockVars, histVars
<1> QED BY <1>1, PopStep

(* A callback starts with inEffect set, by value() or by the constructor. *)
LEMMA AloneFirstRun ==
  ASSUME Alone, TInv, AInv, NEW g \in Goroutines, FirstRun(g)
  PROVE  AInv'
<1> DEFINE f == [Top(g) EXCEPT !.at = "call"]
<1>1. /\ ~Idle(g) /\ Top(g) \in FrameSet /\ Top(g).at = "first"
      /\ Top(g).op = "value"
  BY AtTop, CollectedType DEF FirstRun
<1>2. f \in FrameSet /\ f.at = "call" /\ f.op = Top(g).op /\ f.cell = Top(g).cell
  BY <1>1, GotoType DEF Ats
<1>3. stack' = Moved(g, f) /\ Same /\ inEffect' = inEffect
  BY DEF FirstRun, Goto, Same, graphVars, lockVars
<1> HIDE DEF f
<1>4. Good(f, active, subs, deps, inEffect) /\ ~Solo(f)
  BY <1>1, <1>2, TopGood DEF Good, Solo, Early
<1> QED BY <1>1, <1>2, <1>3, <1>4, MoveStep

LEMMA AlonePullRun ==
  ASSUME Alone, TInv, AInv, NEW g \in Goroutines, PullRun(g)
  PROVE  AInv'
<1> DEFINE f == [Top(g) EXCEPT !.at = "call"]
<1>1. /\ ~Idle(g) /\ Top(g) \in FrameSet /\ Top(g).op = "value"
      /\ Good(Top(g), active, subs, deps, inEffect)
  BY CollectedType, TopGood DEF PullRun, Calling, Collected
<1>2. f \in FrameSet /\ f.at = "call" /\ f.op = Top(g).op /\ f.cell = Top(g).cell
  BY <1>1, GotoType DEF Ats
<1>3. stack' = Moved(g, f) /\ Same /\ inEffect'
  BY DEF PullRun, Goto, Same, graphVars
<1> HIDE DEF f
<1>4. Good(f, active, subs, deps, inEffect') /\ ~Solo(f)
  BY <1>1, <1>2, <1>3 DEF Good, Solo, Early
<1>5. /\ stack[g] \in Seq(FrameSet) /\ stack[g] # <<>>
      /\ Top(g) = stack[g][Len(stack[g])]
      /\ stack'[g] = [stack[g] EXCEPT ![Len(stack[g])] = f]
      /\ Fits(stack[g], active, subs, deps, inEffect, Unwatched)
  BY <1>1, <1>3, StackSeq DEF AInv, CallsFit
<1>6. Fits(stack[g], active, subs, deps, inEffect', Unwatched)
  BY <1>3, <1>5, FitsElse
<1>7. Fits(stack'[g], active, subs, deps, inEffect', Unwatched)
  BY <1>2, <1>4, <1>5, <1>6, FitsTop
<1> QED BY <1>3, <1>7, SameRest, OnlyOne DEF AInv, Same

(* The end of a callback clears inEffect; unless effects are nested, no    *)
(* other callback is below. *)
LEMMA AloneCallReturn ==
  ASSUME Alone, TInv, AInv, NEW g \in Goroutines, CallReturn(g)
  PROVE  AInv'
<1> DEFINE r == SubSeq(stack[g], 1, Len(stack[g]) - 1)
           n == Len(stack[g])
<1>1. /\ ~Idle(g) /\ Top(g).at = "call" /\ Top(g).op = "value"
      /\ Top(g).cell \in Effects /\ Top(g).cell \notin Computeds
  BY AtTop, KindsAssumption DEF CallReturn, Formed, KindsAssumption, Nodes
<1>2. /\ stack[g] \in Seq(FrameSet) /\ stack[g] # <<>>
      /\ stack'[g] = r /\ Same
      /\ Fits(stack[g], active, subs, deps, inEffect, Unwatched)
  BY <1>1, StackSeq DEF CallReturn, AInv, CallsFit, Same, graphVars, histVars
<1>3. Fits(r, active, subs, deps, inEffect, Unwatched)
  BY <1>2, FitsPop
<1>4. /\ n \in Nat \ {0} /\ Len(r) = n - 1
      /\ \A k \in 1 .. (n - 1) : r[k] = stack[g][k]
  BY <1>2, Last, Shrink
<1> HIDE DEF r, n
<1>5. ASSUME NEW k \in 1 .. Len(r)
      PROVE  Good(r[k], active, subs, deps, inEffect')
  <2>1. Under(r[k], Top(g), Unwatched)
    BY <1>1, <1>4, TopGood DEF n
  <2>2. r[k].at \notin {"first", "call"} \/ Nests
    BY <1>1, <2>1 DEF Under
  <2>3. Good(r[k], active, subs, deps, inEffect)
    BY <1>3 DEF Fits
  <2> QED BY <2>2, <2>3 DEF Good
<1>6. Fits(stack'[g], active, subs, deps, inEffect', Unwatched)
  BY <1>2, <1>3, <1>5 DEF Fits
<1> QED BY <1>2, <1>6, SameRest, OnlyOne DEF AInv, Same

(* A mark that has visited a subscriber. *)
LEMMA AdvanceGood ==
  ASSUME TInv, AInv, NEW g \in Goroutines, Marking(g)
  PROVE  /\ ~Idle(g) /\ Top(g).at = "mark"
         /\ Top(g).op \in {"SetValue", "markDirty"}
         /\ Advanced(g) \in FrameSet /\ Advanced(g).op = Top(g).op
         /\ Advanced(g).at = "mark" /\ Advanced(g).cell = Top(g).cell
         /\ Good(Advanced(g), active, subs, deps, inEffect)
         /\ ~Solo(Advanced(g))
<1>1. /\ ~Idle(g) /\ Top(g).at = "mark" /\ Top(g) \in FrameSet
      /\ Top(g).op \in {"SetValue", "markDirty"}
  BY AtTop DEF Marking, Formed
<1>2. /\ Advanced(g) \in FrameSet /\ Advanced(g).op = Top(g).op
      /\ Advanced(g).at = "mark" /\ Advanced(g).cell = Top(g).cell
      /\ Advanced(g).over = Top(g).over
  BY <1>1 DEF Advanced, FrameSet
<1>3. Top(g).over = subs[Top(g).cell]
  BY SubEntry
<1>4. /\ Good(Advanced(g), active, subs, deps, inEffect)
      /\ ~Solo(Advanced(g))
  BY <1>1, <1>2, <1>3 DEF Good, Solo, Early
<1> QED BY <1>1, <1>2, <1>4

(* A mark goes on to a computed. *)
LEMMA AloneMarkComputed ==
  ASSUME Alone, TInv, AInv, NEW g \in Goroutines, MarkComputed(g)
  PROVE  AInv'
<1>1. PICK c \in Reached(g) \cap Computeds :
        stack' = [stack EXCEPT ![g] =
                   Append(Moved(g, Advanced(g))[g], MarkFrame(c))]
  BY DEF MarkComputed
<1>2. Marking(g) /\ Same /\ inEffect' = inEffect
  BY DEF MarkComputed, Same, graphVars, lockVars, histVars
<1> DEFINE f == Advanced(g)
           e == MarkFrame(c)
<1>3. /\ ~Idle(g) /\ Top(g).op \in {"SetValue", "markDirty"}
      /\ f \in FrameSet /\ f.op = Top(g).op /\ f.at = "mark"
      /\ f.cell = Top(g).cell
      /\ Good(f, active, subs, deps, inEffect) /\ ~Solo(f)
  BY <1>2, AdvanceGood
<1>4. /\ e \in FrameSet /\ e.op = "markDirty" /\ e.at = "mark"
      /\ e.cell = c /\ e.over = subs[c]
  BY MarkFrameType
<1> HIDE DEF f, e
<1>5. /\ Good(e, active, subs, deps, inEffect) /\ ~Solo(e)
      /\ Under(f, e, Unwatched)
  BY <1>3, <1>4 DEF Good, Solo, Early, Under
<1>6. Top(g).cell \in Unwatched => c \in Unwatched
  BY <1>2, SubUnwatched
<1>7. \A h \in FrameSet : Under(h, f, Unwatched) => Under(h, e, Unwatched)
  BY <1>3, <1>4, <1>6 DEF Under
<1> QED BY <1>1, <1>2, <1>3, <1>4, <1>5, <1>7, CallStep DEF f, e

(* A mark reaches an effect, which is active: no callback has made it,     *)
(* unless effects are nested. *)
LEMMA AloneMarkEffect ==
  ASSUME Alone, TInv, AInv, NEW g \in Goroutines, MarkEffect(g)
  PROVE  AInv'
<1>1. PICK c \in Reached(g) \cap Effects :
        stack' = [stack EXCEPT ![g] = Append(Moved(g, Advanced(g))[g],
                                             Frame("value", "pull", c, <<>>))]
  BY DEF MarkEffect
<1>2. Marking(g) /\ Same /\ inEffect' = inEffect
  BY DEF MarkEffect, Same, graphVars, lockVars, histVars
<1> DEFINE f == Advanced(g)
           e == Frame("value", "pull", c, <<>>)
<1>3. /\ ~Idle(g) /\ Top(g).op \in {"SetValue", "markDirty"}
      /\ f \in FrameSet /\ f.op = Top(g).op /\ f.at = "mark"
      /\ f.cell = Top(g).cell
      /\ Good(f, active, subs, deps, inEffect) /\ ~Solo(f)
  BY <1>2, AdvanceGood
<1>4. c \in Derived /\ c \in made
  BY <1>2, SubType
<1>5. e \in FrameSet /\ e.op = "value" /\ e.at = "pull" /\ e.cell = c
  BY <1>4, ValueCall DEF Frame
<1>6. c \in active
  BY <1>2, SubEntry DEF AInv, SubsWired, Sub
<1> HIDE DEF f, e
<1>7. /\ Good(e, active, subs, deps, inEffect) /\ ~Solo(e)
      /\ Under(f, e, Unwatched)
  BY <1>3, <1>5, <1>6 DEF Good, Solo, Early, Under
<1>8. Top(g).cell \notin Unwatched
  BY <1>2, SubUnwatched
<1>9. \A h \in FrameSet : Under(h, f, Unwatched) => Under(h, e, Unwatched)
  BY <1>3, <1>5, <1>8 DEF Under
<1> QED BY <1>1, <1>2, <1>3, <1>5, <1>7, <1>9, CallStep DEF f, e

(* The only call in progress. *)
LEMMA FitsSingle ==
  ASSUME NEW ac, NEW sb, NEW ds, NEW ie, NEW un, NEW s \in Seq(FrameSet),
         Len(s) = 1, Good(s[1], ac, sb, ds, ie)
  PROVE  Fits(s, ac, sb, ds, ie, un)
<1>1. ASSUME NEW k \in 1 .. Len(s)
      PROVE  k = 1 /\ \A l \in (k + 1) .. Len(s) : FALSE
  OBVIOUS
<1> QED BY <1>1 DEF Fits

(* A call that is alone goes on as f. *)
LEMMA SoloTop ==
  ASSUME TInv, AInv, NEW g \in Goroutines, ~Idle(g), Solo(Top(g)),
         NEW f \in FrameSet
  PROVE  LET s == [stack[g] EXCEPT ![Len(stack[g])] = f]
         IN  s \in Seq(FrameSet) /\ Len(s) = 1 /\ s[1] = f
<1>1. /\ stack[g] \in Seq(FrameSet) /\ Len(stack[g]) = 1
  BY StackSeq, TopGood
<1>2. 1 \in 1 .. Len(stack[g])
  BY <1>1
<1> QED BY <1>1, <1>2, ExceptSeq

(* A new computed subscribes. *)
LEMMA AloneComputedBody ==
  ASSUME Alone, TInv, AInv, NEW g \in Goroutines, ComputedBody(g)
  PROVE  AInv'
<1> DEFINE f == [Top(g) EXCEPT !.at = "end"]
           c == Top(g).cell
           s == [stack[g] EXCEPT ![Len(stack[g])] = f]
<1>1. /\ ~Idle(g) /\ Top(g) \in FrameSet /\ Top(g).op = "Computed"
      /\ c \in Computeds /\ c \in Derived /\ c \notin Effects
  BY AtTop, KindsAssumption
  DEF ComputedBody, At, Formed, Derived, KindsAssumption, Nodes
<1>2. f \in FrameSet /\ f.at = "end" /\ f.op = Top(g).op /\ f.cell = Top(g).cell
  BY <1>1, GotoType DEF Ats
<1>3. /\ stack' = Moved(g, f) /\ subs' = Subscribed(c)
      /\ UNCHANGED <<made, deps, active, inEffect>>
  BY DEF ComputedBody, Goto, lockVars, histVars
<1> HIDE DEF f, c
<1>4. SubsWired' /\ Enough' /\ Unwatched' = Unwatched
  <2>1. SubsWired' /\ Enough'
    BY <1>1, <1>3, SubscribedWired DEF AInv
  <2>2. Unwatched' = Unwatched
    BY <1>3 DEF Unwatched, Above, Closed
  <2> QED BY <2>1, <2>2
<1>5. Solo(Top(g)) /\ Good(f, active, subs', deps, inEffect)
  BY <1>1, <1>2 DEF Good, Solo, Early
<1>6. s \in Seq(FrameSet) /\ Len(s) = 1 /\ s[1] = f
  BY <1>1, <1>2, <1>5, SoloTop
<1>7. Fits(stack'[g], active, subs', deps, inEffect, Unwatched)
  <2>1. stack'[g] = s
    BY <1>3, StackSeq
  <2> HIDE DEF s
  <2> QED BY <1>5, <1>6, <2>1, FitsSingle
<1> QED BY <1>3, <1>4, <1>7, OnlyOne DEF AInv

(* A new effect subscribes and is called. *)
LEMMA AloneEffectBody ==
  ASSUME Alone, TInv, AInv, NEW g \in Goroutines, EffectBody(g)
  PROVE  AInv'
<1> DEFINE f == [Top(g) EXCEPT !.at = "end"]
           c == Top(g).cell
           e == Frame("value", "first", c, <<>>)
           s == [stack[g] EXCEPT ![Len(stack[g])] = f]
<1>1. /\ ~Idle(g) /\ Top(g) \in FrameSet /\ Top(g).op = "Effect"
      /\ Top(g).at = "body" /\ c \in Effects /\ c \in Derived /\ c \in made
      /\ c \notin Computeds
  BY AtTop, KindsAssumption
  DEF EffectBody, At, Formed, Derived, KindsAssumption, Nodes
<1>2. f \in FrameSet /\ f.at = "end" /\ f.op = "Effect"
  BY <1>1, GotoType DEF Ats
<1>3. /\ e \in FrameSet /\ e.op = "value" /\ e.at = "first" /\ e.cell = c
  BY <1>1, ValueCall DEF Frame
<1>4. /\ subs' = Subscribed(c) /\ active' = active \cup {c} /\ inEffect'
      /\ made' = made /\ deps' = deps
  BY DEF EffectBody
<1>5. stack'[g] = Append(s, e)
  <2>1. stack' = [stack EXCEPT ![g] = Append(Moved(g, f)[g], e)]
    BY DEF EffectBody
  <2>2. stack \in [Goroutines -> Seq(FrameSet)]
    BY StackSeq
  <2> HIDE DEF f, e
  <2> QED BY <2>1, <2>2 DEF Moved
<1>6. /\ \A d \in Nodes : Entries(subs, d, c) = {}
      /\ Solo(Top(g))
  BY <1>1, TopGood DEF Good, Solo, Early
<1> HIDE DEF f, c, e
<1>7. s \in Seq(FrameSet) /\ Len(s) = 1 /\ s[1] = f
  BY <1>1, <1>2, <1>6, SoloTop
<1> HIDE DEF s
<1>8. SubsWired' /\ Enough'
  BY <1>1, <1>4, <1>6, SubscribedWired DEF AInv
<1>9. /\ Good(f, active', subs', deps', inEffect') /\ ~Solo(f)
      /\ Good(e, active', subs', deps', inEffect') /\ ~Solo(e)
      /\ Under(f, e, Unwatched')
      /\ \A h \in FrameSet :
           Under(h, f, Unwatched') => Under(h, e, Unwatched')
  BY <1>2, <1>3, <1>4 DEF Good, Solo, Early, Under
<1>10. Fits(s, active', subs', deps', inEffect', Unwatched')
  BY <1>7, <1>9, FitsSingle
<1>11. s # <<>> /\ s[Len(s)] = f
  BY <1>7, EmptySeq
<1>12. Fits(stack'[g], active', subs', deps', inEffect', Unwatched')
  <2>1. /\ ~Solo(s[Len(s)]) /\ Under(s[Len(s)], e, Unwatched')
        /\ \A h \in FrameSet :
             Under(h, s[Len(s)], Unwatched') => Under(h, e, Unwatched')
    BY <1>9, <1>11
  <2>2. Fits(Append(s, e), active', subs', deps', inEffect', Unwatched')
    BY <1>3, <1>7, <1>9, <1>10, <1>11, <2>1, FitsPush
  <2> QED BY <1>5, <2>2
<1> QED BY <1>8, <1>12, OnlyOne DEF AInv

(* What removeSub() does to the entries. *)
LEMMA RemovedEntries ==
  ASSUME TInv, NEW d \in Nodes, NEW c, subs' = [subs EXCEPT ![d] = Without(@, c)]
  PROVE  /\ \A b \in Nodes \ {d} : subs'[b] = subs[b]
         /\ \A b \in Nodes : \A e :
              Cardinality(Entries(subs', b, e)) <= Cardinality(Entries(subs, b, e))
         /\ Entries(subs, d, c) # {} =>
              Cardinality(Entries(subs', d, c)) <=
                Cardinality(Entries(subs, d, c)) - 1
         /\ \A b \in Nodes : \A k \in 1 .. Len(subs'[b]) :
              \E l \in 1 .. Len(subs[b]) : subs'[b][k] = subs[b][l]
<1>1. /\ subs'[d] = Without(subs[d], c)
      /\ \A b \in Nodes \ {d} : subs'[b] = subs[b]
      /\ subs[d] \in Seq(Derived)
  BY DEF TInv, GraphType
<1>2. /\ \A e : Cardinality(Places(subs'[d], e)) <=
                  Cardinality(Places(subs[d], e))
      /\ Places(subs[d], c) # {} =>
           Cardinality(Places(subs'[d], c)) <= Cardinality(Places(subs[d], c)) - 1
  BY <1>1, WithoutPlaces
<1>3. ASSUME NEW b \in Nodes, NEW e
      PROVE  Cardinality(Entries(subs', b, e)) <= Cardinality(Entries(subs, b, e))
  <2>1. CASE b = d
    BY <1>2, <2>1, EntriesPlaces
  <2>2. CASE b # d
    <3>1. Entries(subs', b, e) = Entries(subs, b, e)
      BY <1>1, <2>2 DEF Entries
    <3>2. Cardinality(Entries(subs, b, e)) \in Nat
      BY EntriesFinite
    <3> QED BY <3>1, <3>2
  <2> QED BY <2>1, <2>2
<1>4. ASSUME NEW b \in Nodes, NEW k \in 1 .. Len(subs'[b])
      PROVE  \E l \in 1 .. Len(subs[b]) : subs'[b][k] = subs[b][l]
  <2>1. CASE b = d
    BY <1>1, <2>1, WithoutType
  <2>2. CASE b # d
    BY <1>1, <2>2
  <2> QED BY <2>1, <2>2
<1> QED BY <1>1, <1>2, <1>3, <1>4, EntriesPlaces

(* One argument fewer is left. *)
LEMMA LeftNext ==
  ASSUME TInv, NEW c \in Derived, NEW i \in 1 .. Len(deps[c]), NEW b
  PROVE  /\ Cardinality(Left(deps, c, i + 1, b)) \in Nat
         /\ Cardinality(Left(deps, c, i, b)) =
              IF deps[c][i] = b THEN Cardinality(Left(deps, c, i + 1, b)) + 1
              ELSE Cardinality(Left(deps, c, i + 1, b))
<1> DEFINE T == Left(deps, c, i + 1, b)
<1>1. Len(deps[c]) \in Nat
  BY UsesFinite, LenProperties
<1>2. T \in SUBSET (1 .. Len(deps[c])) /\ i \notin T
  BY <1>1 DEF Left
<1>3. IsFiniteSet(T)
  <2>1. IsFiniteSet(1 .. Len(deps[c]))
    BY <1>1, FS_Interval
  <2> HIDE DEF T
  <2> QED BY <1>2, <2>1, FS_Subset
<1>4. Left(deps, c, i, b) = IF deps[c][i] = b THEN T \cup {i} ELSE T
  <2>1. \A j : j \in i .. Len(deps[c]) <=> j = i \/ j \in (i + 1) .. Len(deps[c])
    BY <1>1
  <2>2. \A j : j \in Left(deps, c, i, b) <=>
                 j \in i .. Len(deps[c]) /\ deps[c][j] = b
    BY DEF Left
  <2>3. \A j : j \in T <=> j \in (i + 1) .. Len(deps[c]) /\ deps[c][j] = b
    BY DEF Left
  <2> HIDE DEF T
  <2>4. CASE deps[c][i] = b
    BY <2>1, <2>2, <2>3, <2>4
  <2>5. CASE deps[c][i] # b
    BY <2>1, <2>2, <2>3, <2>5
  <2> QED BY <2>4, <2>5
<1> HIDE DEF T
<1>5. Cardinality(T) \in Nat /\ Cardinality(T \cup {i}) = Cardinality(T) + 1
  BY <1>2, <1>3, FS_CardinalityType, FS_AddElement
<1> QED BY <1>4, <1>5 DEF T

(* stop removes an entry for the next argument. *)
LEMMA AloneStopSub ==
  ASSUME Alone, TInv, AInv, NEW g \in Goroutines, StopSub(g)
  PROVE  AInv'
<1> DEFINE f == Advanced(g)
           c == Top(g).cell
           i == Top(g).arg
           d == deps[c][i]
           s == [stack[g] EXCEPT ![Len(stack[g])] = f]
<1>1. /\ ~Idle(g) /\ Top(g) \in FrameSet /\ Top(g).op = "Stop"
      /\ Top(g).at = "body" /\ c \in Effects /\ c \in Derived
  BY AtTop DEF StopSub, At, Formed, Derived
<1>2. i \in 1 .. Len(deps[c]) /\ d \in Nodes /\ i \in Nat
  <2>1. deps[c] \in Seq(Nodes) /\ i \in 1 .. Len(deps[c]) /\ i \in Nat
    BY <1>1 DEF TInv, GraphType, StopSub, FrameSet
  <2> QED BY <2>1, ElementOfSeq
<1>3. /\ f \in FrameSet /\ f.op = "Stop" /\ f.at = "body" /\ f.cell = c
      /\ f.arg = i + 1
  BY <1>1 DEF Advanced, FrameSet
<1>4. /\ subs' = [subs EXCEPT ![d] = Without(@, c)] /\ stack' = Moved(g, f)
      /\ made' = made /\ deps' = deps /\ active' = active
  BY DEF StopSub, Advanced, histVars
<1>5. /\ \A b \in Nodes : Cardinality(Entries(subs, b, c)) <=
                            Cardinality(Left(deps, c, i, b))
      /\ Solo(Top(g))
  BY <1>1, TopGood DEF Good, Solo
<1> HIDE DEF f, c, d, i
<1>6. s \in Seq(FrameSet) /\ Len(s) = 1 /\ s[1] = f
  BY <1>1, <1>3, <1>5, SoloTop
<1>7. /\ \A b \in Nodes : \A e :
           Cardinality(Entries(subs', b, e)) <= Cardinality(Entries(subs, b, e))
      /\ Entries(subs, d, c) # {} =>
           Cardinality(Entries(subs', d, c)) <=
             Cardinality(Entries(subs, d, c)) - 1
      /\ \A b \in Nodes : \A k \in 1 .. Len(subs'[b]) :
           \E l \in 1 .. Len(subs[b]) : subs'[b][k] = subs[b][l]
  BY <1>2, <1>4, RemovedEntries
<1>8. subs' \in [Nodes -> Seq(Derived)]
  <2>1. Without(subs[d], c) \in Seq(Derived)
    BY <1>2, WithoutType DEF TInv, GraphType
  <2> QED BY <1>2, <1>4, <2>1 DEF TInv, GraphType
<1>9. ASSUME NEW b \in Nodes, NEW e
      PROVE  /\ Cardinality(Entries(subs, b, e)) \in Nat
             /\ Cardinality(Entries(subs', b, e)) \in Nat
  BY <1>8, EntriesFinite, EntriesPlaces, PlacesFinite
<1>10. ASSUME NEW b \in Nodes
       PROVE  Cardinality(Entries(subs', b, c)) <=
                Cardinality(Left(deps, c, i + 1, b))
  <2>1. PICK m \in Nat : m = Cardinality(Entries(subs, b, c))
    BY <1>9
  <2>2. PICK n \in Nat : n = Cardinality(Entries(subs', b, c))
    BY <1>9
  <2>3. PICK l \in Nat : l = Cardinality(Left(deps, c, i + 1, b))
    BY <1>1, <1>2, LeftNext
  <2>4. m <= IF d = b THEN l + 1 ELSE l
    BY <1>1, <1>2, <1>5, <2>1, <2>3, LeftNext DEF d
  <2>5. n <= m
    BY <1>7, <2>1, <2>2
  <2>6. CASE b = d
    <3>1. m = 0 \/ n <= m - 1
      BY <1>7, <2>1, <2>2, <2>6, EntriesFinite
    <3> QED BY <2>2, <2>3, <2>4, <2>5, <2>6, <3>1
  <2>7. CASE b # d
    BY <2>2, <2>3, <2>4, <2>5, <2>7
  <2> QED BY <2>6, <2>7
<1>11. Good(f, active', subs', deps', inEffect')
  BY <1>3, <1>4, <1>10 DEF Good, Early
<1>12. Fits(stack'[g], active', subs', deps', inEffect', Unwatched')
  <2>1. stack'[g] = s
    BY <1>4, StackSeq
  <2> HIDE DEF s
  <2> QED BY <1>6, <1>11, <2>1, FitsSingle
<1>13. SubsWired'
  <2> SUFFICES ASSUME NEW b \in Nodes, NEW k \in 1 .. Len(subs'[b])
               PROVE  /\ \E j \in DOMAIN deps[subs'[b][k]] :
                           deps[subs'[b][k]][j] = b
                      /\ subs'[b][k] \in Effects => subs'[b][k] \in active
    BY <1>4 DEF SubsWired
  <2>1. PICK l \in 1 .. Len(subs[b]) : subs'[b][k] = subs[b][l]
    BY <1>7
  <2> QED BY <2>1 DEF AInv, SubsWired
<1>14. ASSUME NEW e \in Effects, NEW b \in Nodes
       PROVE  Cardinality(Entries(subs', b, e)) <= Cardinality(Uses(e, b)')
  <2>1. /\ Uses(e, b)' = Uses(e, b)
        /\ Cardinality(Uses(e, b)) \in Nat
        /\ Cardinality(Entries(subs, b, e)) <= Cardinality(Uses(e, b))
    BY <1>4, UsesFinite DEF Uses, Derived, AInv, Enough
  <2>2. /\ Cardinality(Entries(subs, b, e)) \in Nat
        /\ Cardinality(Entries(subs', b, e)) \in Nat
        /\ Cardinality(Entries(subs', b, e)) <= Cardinality(Entries(subs, b, e))
    BY <1>7, <1>9
  <2> QED BY <2>1, <2>2
<1> QED BY <1>12, <1>13, <1>14, OnlyOne DEF AInv, Enough

(* What has been stopped is nowhere subscribed. *)
LEMMA AloneStopEnd ==
  ASSUME Alone, TInv, AInv, NEW g \in Goroutines, StopEnd(g)
  PROVE  AInv'
<1> DEFINE f == [Top(g) EXCEPT !.at = "end"]
           c == Top(g).cell
           s == [stack[g] EXCEPT ![Len(stack[g])] = f]
<1>1. /\ ~Idle(g) /\ Top(g) \in FrameSet /\ Top(g).op = "Stop"
      /\ Top(g).at = "body" /\ c \in Effects /\ c \in Derived
  BY AtTop DEF StopEnd, At, Formed, Derived
<1>2. f \in FrameSet /\ f.op = "Stop" /\ f.at = "end"
  BY <1>1, GotoType DEF Ats
<1>3. /\ stack' = Moved(g, f) /\ active' = active \ {c}
      /\ made' = made /\ deps' = deps /\ subs' = subs
  BY DEF StopEnd, Goto, graphVars
<1>4. \A d \in Nodes : Entries(subs, d, c) = {}
  <2> TAKE d \in Nodes
  <2>1. Left(deps, c, Top(g).arg, d) = {}
    <3>1. Top(g).arg \in Nat /\ Top(g).arg > Len(deps[c]) /\ Len(deps[c]) \in Nat
      BY <1>1, UsesFinite, LenProperties DEF StopEnd, FrameSet
    <3> QED BY <3>1 DEF Left
  <2>2. Cardinality(Entries(subs, d, c)) <= 0
    BY <1>1, <2>1, TopGood, FS_EmptySet DEF Good
  <2> QED BY <2>2, EntriesFinite
<1>5. Solo(Top(g))
  BY <1>1 DEF Solo
<1> HIDE DEF f, c
<1>6. s \in Seq(FrameSet) /\ Len(s) = 1 /\ s[1] = f
  BY <1>1, <1>2, <1>5, SoloTop
<1>7. Fits(stack'[g], active', subs', deps', inEffect', Unwatched')
  <2>1. stack'[g] = s
    BY <1>3, StackSeq
  <2>2. Good(f, active', subs', deps', inEffect')
    BY <1>2 DEF Good, Early
  <2> HIDE DEF s
  <2> QED BY <1>6, <2>1, <2>2, FitsSingle
<1>8. SubsWired'
  <2> SUFFICES ASSUME NEW d \in Nodes, NEW k \in 1 .. Len(subs[d])
               PROVE  /\ \E j \in DOMAIN deps[subs[d][k]] :
                           deps[subs[d][k]][j] = d
                      /\ subs[d][k] \in Effects => subs[d][k] \in active \ {c}
    BY <1>3 DEF SubsWired
  <2>1. subs[d][k] # c
    BY <1>4 DEF Entries
  <2> QED BY <2>1 DEF AInv, SubsWired
<1>9. Enough'
  BY <1>3 DEF AInv, Enough, Entries, Uses
<1> QED BY <1>7, <1>8, <1>9, OnlyOne DEF AInv
-----------------------------------------------------------------------------
(* The theorems. *)

LEMMA AloneStep ==
  ASSUME Alone, TInv, AInv, NEW g \in Goroutines, Step(g)
  PROVE  AInv'
BY AlonePanic, AloneReturn, AloneBody, AloneComputedBody, AloneEffectBody,
   AloneStopSub, AloneStopEnd, AloneMarkComputed, AloneMarkEffect,
   AloneMarkEnd, AlonePullArg, AlonePullDep, AlonePullEnd, AlonePullRun,
   AloneFirstRun, AloneCallReturn
DEF Step

LEMMA AloneNext == Alone /\ TInv /\ AInv /\ [Next]_vars => AInv'
<1> SUFFICES ASSUME Alone, TInv, AInv, [Next]_vars PROVE AInv'
  OBVIOUS
<1>1. CASE Next
  BY <1>1, AloneCall, AloneAcquire, AloneStep DEF Next
<1>2. CASE UNCHANGED vars
  <2>1. Same /\ stack' = stack /\ inEffect' = inEffect
    BY <1>2 DEF vars, Same, graphVars, lockVars, histVars
  <2> QED BY <2>1, SameRest DEF AInv, CallsFit, Same
<1> QED BY <1>1, <1>2

LEMMA AloneInit == Init => AInv
<1> SUFFICES ASSUME Init PROVE AInv
  OBVIOUS
<1>1. /\ \A g \in Goroutines : stack[g] = <<>>
      /\ \A d \in Nodes : subs[d] = <<>> /\ Len(subs[d]) = 0
  BY EmptySeq DEF Init
<1>2. CallsFit
  BY <1>1, FitsNone DEF CallsFit
<1>3. \A d \in Nodes : \A e : Entries(subs, d, e) = {}
  BY <1>1 DEF Entries
<1>4. SubsWired
  BY <1>1 DEF SubsWired
<1>5. Enough
  <2> SUFFICES ASSUME NEW e \in Effects, NEW d \in Nodes
               PROVE  Cardinality(Entries(subs, d, e)) <= Cardinality(Uses(e, d))
    BY DEF Enough
  <2>1. Cardinality(Entries(subs, d, e)) = 0
    BY <1>3, FS_EmptySet
  <2>2. Cardinality(Uses(e, d)) \in Nat
    BY TypeInit, UsesFinite DEF Derived
  <2> QED BY <2>1, <2>2
<1> QED BY <1>2, <1>4, <1>5 DEF AInv

LEMMA AloneSpec == ASSUME Alone PROVE Spec => [](TInv /\ AInv)
<1>1. Init => TInv /\ AInv
  BY TypeInit, AloneInit
<1>2. TInv /\ AInv /\ [Next]_vars => (TInv /\ AInv)'
  BY TypeNext, AloneNext
<1> QED BY <1>1, <1>2, PTL DEF Spec

(* With one goroutine whose callbacks stop and create nothing, value()     *)
(* never calls the callback of an effect that was stopped                  *)
(* (signals_test.go:68-70), whatever the wiring, with an argument list     *)
(* that names a node twice, callbacks that write and callbacks that panic: *)
(* the loop of stop over the arguments takes out every entry that          *)
(* addSubs() made. *)
THEOREM StoppedStaysStoppedAlways ==
  ASSUME Alone
  PROVE  Spec => StoppedStaysStopped
<1>1. TInv /\ AInv /\ [Next]_vars =>
        [\A g \in Goroutines : PullRun(g) => Top(g).cell \in active]_vars
  <2> SUFFICES ASSUME TInv, AInv, NEW g \in Goroutines, PullRun(g)
               PROVE  Top(g).cell \in active
    OBVIOUS
  <2>1. ~Idle(g) /\ Top(g).op = "value" /\ Top(g).cell \in Effects
    BY CollectedType DEF PullRun, Calling, Collected
  <2> QED BY <2>1, TopGood DEF Good
<1> QED BY <1>1, AloneSpec, PTL DEF Spec, StoppedStaysStopped

(* With one goroutine whose callbacks write nothing that an active effect  *)
(* depends on, and create and stop nothing, no call waits for the mutex    *)
(* that an outer call holds:                                               *)
(* whenever a callback is in progress, at any depth, inEffect is set. *)
THEOREM NoSelfDeadlockAlways ==
  ASSUME Alone, ~Nests
  PROVE  Spec => []NoSelfDeadlock
<1>1. TInv /\ AInv => NoSelfDeadlock
  <2> SUFFICES ASSUME TInv, AInv, NEW g \in Goroutines, Is(g, "lock"), mu = g
               PROVE  FALSE
    BY DEF NoSelfDeadlock
  <2>1. /\ ~Idle(g) /\ Top(g).at = "lock" /\ ~Top(g).locked
    BY AtTop DEF Formed
  <2>2. Len(stack[g]) = 1 /\ Top(g) = stack[g][1]
    BY <2>1, TopGood DEF Solo, Top
  <2>3. PICK k \in 1 .. Len(stack[g]) : stack[g][k].locked
    BY DEF TInv, SInv, WellLocked
  <2>4. k = 1
    BY <2>2
  <2> QED BY <2>1, <2>2, <2>3, <2>4
<1> QED BY <1>1, AloneSpec, PTL
=============================================================================
