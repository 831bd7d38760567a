----------------------------- MODULE FooProofs -----------------------------
(* Proofs about Foo, for any cells, levels, values, wirings and getters,   *)
(* with callbacks that call back and panic.                                *)
EXTENDS Foo, TLAPS, SequenceTheorems, FiniteSetTheorems, GraphRecursion

-----------------------------------------------------------------------------
(* Stacks, as sequences. *)

(* Pushing a call leaves the calls below as they are. *)
LEMMA Push ==
  ASSUME NEW S, NEW s \in Seq(S), NEW e \in S
  PROVE  /\ Append(s, e) \in Seq(S)
         /\ Len(s) \in Nat /\ Len(Append(s, e)) = Len(s) + 1
         /\ Append(s, e) # <<>>
         /\ \A k \in 1 .. Len(s) : Append(s, e)[k] = s[k]
         /\ Append(s, e)[Len(s) + 1] = e
OBVIOUS

(* The last element is an element. *)
LEMMA Last ==
  ASSUME NEW S, NEW s \in Seq(S), s # <<>>
  PROVE  /\ Len(s) \in Nat \ {0} /\ Len(s) \in 1 .. Len(s)
         /\ s[Len(s)] \in S
         /\ \A k \in 1 .. Len(s) : k = Len(s) \/ k \in 1 .. (Len(s) - 1)
<1>1. Len(s) \in Nat \ {0}
  BY EmptySeq, LenProperties
<1>2. Len(s) \in 1 .. Len(s)
  BY <1>1
<1>3. s[Len(s)] \in S
  BY <1>2, ElementOfSeq
<1>4. \A k \in 1 .. Len(s) : k = Len(s) \/ k \in 1 .. (Len(s) - 1)
  BY <1>1
<1> QED BY <1>1, <1>2, <1>3, <1>4

(* A part of a sequence. *)
LEMMA Part ==
  ASSUME NEW S, NEW s \in Seq(S), NEW m \in Nat \ {0}, NEW n \in Nat,
         n <= Len(s)
  PROVE  /\ SubSeq(s, m, n) \in Seq(S)
         /\ Len(SubSeq(s, m, n)) = IF m <= n THEN n - m + 1 ELSE 0
         /\ \A k \in 1 .. Len(SubSeq(s, m, n)) :
              SubSeq(s, m, n)[k] = s[m + k - 1]
<1>1. Len(s) \in Nat /\ m \in Int /\ n \in Int
  BY LenProperties
<1>2. \A k \in m .. n : s[k] \in S
  <2> TAKE k \in m .. n
  <2>1. k \in 1 .. Len(s)
    BY <1>1
  <2> QED BY <2>1, ElementOfSeq
<1>3. /\ SubSeq(s, m, n) \in Seq(S)
      /\ Len(SubSeq(s, m, n)) = IF m <= n THEN n - m + 1 ELSE 0
      /\ \A k \in 1 .. n - m + 1 : SubSeq(s, m, n)[k] = s[m + k - 1]
  BY <1>1, <1>2, SubSeqProperties
<1>4. \A k \in 1 .. Len(SubSeq(s, m, n)) : k \in 1 .. n - m + 1
  BY <1>1, <1>3
<1> QED BY <1>3, <1>4

(* Popping a call leaves the calls below as they are. *)
LEMMA Shrink ==
  ASSUME NEW S, NEW s \in Seq(S), s # <<>>
  PROVE  /\ SubSeq(s, 1, Len(s) - 1) \in Seq(S)
         /\ Len(SubSeq(s, 1, Len(s) - 1)) = Len(s) - 1
         /\ \A k \in 1 .. (Len(s) - 1) : SubSeq(s, 1, Len(s) - 1)[k] = s[k]
<1> DEFINE n == Len(s) - 1
           t == SubSeq(s, 1, n)
<1>1. n \in Nat /\ Len(s) \in Nat /\ n <= Len(s)
  BY EmptySeq, LenProperties
<1>2. /\ t \in Seq(S) /\ Len(t) = IF 1 <= n THEN n - 1 + 1 ELSE 0
      /\ \A k \in 1 .. Len(t) : t[k] = s[1 + k - 1]
  BY <1>1, Part
<1> HIDE DEF n, t
<1>3. Len(t) = n /\ \A k \in 1 .. n : 1 + k - 1 = k
  BY <1>1, <1>2
<1>4. \A k \in 1 .. n : t[k] = s[k]
  BY <1>2, <1>3
<1> QED BY <1>2, <1>3, <1>4 DEF n, t

(* The call on top goes on. *)
LEMMA Exchange ==
  ASSUME NEW S, NEW s \in Seq(S), s # <<>>, NEW f \in S
  PROVE  /\ [s EXCEPT ![Len(s)] = f] \in Seq(S)
         /\ Len([s EXCEPT ![Len(s)] = f]) = Len(s)
         /\ [s EXCEPT ![Len(s)] = f] # <<>>
         /\ [s EXCEPT ![Len(s)] = f][Len(s)] = f
         /\ \A k \in 1 .. (Len(s) - 1) : [s EXCEPT ![Len(s)] = f][k] = s[k]
<1>1. Len(s) \in 1 .. Len(s)
  BY Last
<1>2. /\ [s EXCEPT ![Len(s)] = f] \in Seq(S)
      /\ Len([s EXCEPT ![Len(s)] = f]) = Len(s)
      /\ [s EXCEPT ![Len(s)] = f][Len(s)] = f
      /\ \A k \in 1 .. (Len(s) - 1) : [s EXCEPT ![Len(s)] = f][k] = s[k]
  BY <1>1, ExceptSeq
<1> QED BY <1>1, <1>2, EmptySeq
-----------------------------------------------------------------------------
(* Calls. *)

(* e may be made by the call t. *)
Makes(t, e) ==
  /\ t.at # "lock"
  /\ t.op = "Value" \/ (t.op = "value" /\ t.cell \in Computeds) =>
       e.op = "value" /\ e.cell \in Computeds
  /\ Orderly /\ Upward(e) =>
       /\ Upward(t) /\ Level[t.cell] <= Level[e.cell]
       /\ e.op \in {"Value", "SetValue"} => Level[t.cell] < Level[e.cell]

(* Whatever has led to t leads to what t calls. *)
LEMMA LeadsOn ==
  ASSUME NEW h \in FrameSet, NEW t \in FrameSet, NEW e \in FrameSet,
         Leads(h, t), Makes(t, e)
  PROVE  Leads(h, e)
<1>1. /\ Level[h.cell] \in Nat /\ Level[t.cell] \in Nat
      /\ Level[e.cell] \in Nat
  BY BoundsAssumption DEF FrameSet
<1>2. h.op = "Value" => e.op = "value" /\ e.cell \in Computeds
  BY DEF Leads, Makes
<1>3. ASSUME Orderly, h.op = "SetValue", Upward(e)
      PROVE  /\ Level[h.cell] <= Level[e.cell]
             /\ e.op \in {"Value", "SetValue"} => Level[h.cell] < Level[e.cell]
  <2>1. /\ Upward(t) /\ Level[t.cell] <= Level[e.cell]
        /\ e.op \in {"Value", "SetValue"} => Level[t.cell] < Level[e.cell]
    BY <1>3 DEF Makes
  <2>2. Level[h.cell] <= Level[t.cell]
    BY <1>3, <2>1 DEF Leads
  <2> QED BY <1>1, <2>1, <2>2
<1> QED BY <1>2, <1>3 DEF Leads

LEMMA MakesLeads ==
  ASSUME NEW t \in FrameSet, NEW e \in FrameSet, Makes(t, e)
  PROVE  Leads(t, e)
BY DEF Makes, Leads

(* A call that fits is made. *)
LEMMA GoodPush ==
  ASSUME NEW m, NEW ds, NEW sb, NEW s, Good(s, m, ds, sb),
         NEW e \in FrameSet, Formed(e, m, ds, sb),
         s # <<>> => Makes(s[Len(s)], e)
  PROVE  Good(Append(s, e), m, ds, sb)
<1> DEFINE r == Append(s, e)
<1>1. /\ s \in Seq(FrameSet)
      /\ r \in Seq(FrameSet) /\ Len(s) \in Nat /\ Len(r) = Len(s) + 1
      /\ \A k \in 1 .. Len(s) : r[k] = s[k]
      /\ r[Len(s) + 1] = e
  BY Push DEF Good
<1> HIDE DEF r
<1>2. \A k \in 1 .. Len(r) : k = Len(s) + 1 \/ k \in 1 .. Len(s)
  BY <1>1
<1>3. \A k \in 1 .. Len(r) : Formed(r[k], m, ds, sb)
  BY <1>1, <1>2 DEF Good
<1>4. \A k \in 1 .. Len(s) : Leads(s[k], e)
  <2> TAKE k \in 1 .. Len(s)
  <2>1. s # <<>> /\ s[k] \in FrameSet /\ s[Len(s)] \in FrameSet
        /\ (k = Len(s) \/ k \in 1 .. (Len(s) - 1)) /\ Len(s) \in 1 .. Len(s)
    <3>1. s # <<>>
      BY <1>1
    <3> QED BY <1>1, <3>1, Last, ElementOfSeq
  <2>2. Makes(s[Len(s)], e)
    BY <2>1
  <2>3. CASE k = Len(s)
    BY <2>1, <2>2, <2>3, MakesLeads
  <2>4. CASE k \in 1 .. (Len(s) - 1)
    <3>1. k < Len(s)
      BY <1>1, <2>4
    <3>2. Leads(s[k], s[Len(s)])
      BY <2>1, <3>1 DEF Good
    <3> QED BY <2>1, <2>2, <3>2, LeadsOn
  <2> QED BY <2>1, <2>3, <2>4
<1>5. ASSUME NEW k \in 1 .. Len(r), NEW l \in 1 .. Len(r), k < l
      PROVE  Leads(r[k], r[l])
  <2>1. k \in 1 .. Len(s) /\ r[k] = s[k]
    BY <1>1, <1>2, <1>5
  <2>2. CASE l = Len(s) + 1
    BY <1>1, <1>4, <2>1, <2>2
  <2>3. CASE l \in 1 .. Len(s)
    <3>1. Leads(s[k], s[l])
      BY <1>5, <2>1, <2>3 DEF Good
    <3> QED BY <1>1, <2>1, <2>3, <3>1
  <2> QED BY <1>2, <2>2, <2>3
<1> QED BY <1>1, <1>3, <1>5 DEF Good, r

(* The call on top goes on with the same operation on the same cell. *)
LEMMA GoodTop ==
  ASSUME NEW m, NEW ds, NEW sb, NEW s, Good(s, m, ds, sb), s # <<>>,
         NEW f \in FrameSet, Formed(f, m, ds, sb),
         f.op = s[Len(s)].op, f.cell = s[Len(s)].cell
  PROVE  Good([s EXCEPT ![Len(s)] = f], m, ds, sb)
<1> DEFINE r == [s EXCEPT ![Len(s)] = f]
<1>1. /\ s \in Seq(FrameSet)
      /\ r \in Seq(FrameSet) /\ Len(r) = Len(s) /\ r[Len(s)] = f
      /\ \A k \in 1 .. (Len(s) - 1) : r[k] = s[k]
  BY Exchange DEF Good
<1> HIDE DEF r
<1>2. /\ Len(s) \in Nat \ {0}
      /\ \A k \in 1 .. Len(s) : k = Len(s) \/ k \in 1 .. (Len(s) - 1)
  BY <1>1, Last
<1>3. \A k \in 1 .. Len(r) : Formed(r[k], m, ds, sb)
  BY <1>1, <1>2 DEF Good
<1>4. ASSUME NEW k \in 1 .. Len(r), NEW l \in 1 .. Len(r), k < l
      PROVE  Leads(r[k], r[l])
  <2>1. /\ k \in 1 .. (Len(s) - 1) /\ r[k] = s[k]
        /\ k \in 1 .. Len(s) /\ l \in 1 .. Len(s)
    BY <1>1, <1>2, <1>4
  <2>2. Leads(s[k], s[l])
    BY <1>4, <2>1 DEF Good
  <2>3. r[l].op = s[l].op /\ r[l].cell = s[l].cell
    BY <1>1, <1>2, <2>1
  <2> QED BY <2>1, <2>2, <2>3 DEF Leads, Upward
<1> QED BY <1>1, <1>3, <1>4 DEF Good, r

(* The call on top returns. *)
LEMMA GoodPop ==
  ASSUME NEW m, NEW ds, NEW sb, NEW s, Good(s, m, ds, sb), s # <<>>
  PROVE  Good(SubSeq(s, 1, Len(s) - 1), m, ds, sb)
<1> DEFINE r == SubSeq(s, 1, Len(s) - 1)
<1>1. /\ s \in Seq(FrameSet) /\ Len(s) \in Nat
      /\ r \in Seq(FrameSet) /\ Len(r) = Len(s) - 1
      /\ \A k \in 1 .. (Len(s) - 1) : r[k] = s[k]
  BY Shrink, LenProperties DEF Good
<1> HIDE DEF r
<1>2. \A k \in 1 .. Len(r) : k \in 1 .. Len(s) /\ r[k] = s[k]
  BY <1>1
<1> QED BY <1>1, <1>2 DEF Good, r

(* New cells and subscriptions disturb no call. *)
LEMMA GoodGrows ==
  ASSUME NEW m, NEW ds, NEW sb, NEW s, Good(s, m, ds, sb),
         NEW n, NEW es, NEW sc, m \subseteq n,
         \A c \in m \cap Derived : es[c] = ds[c],
         \A d \in Nodes : Len(sb[d]) \in Nat /\ Len(sc[d]) \in Nat
                            /\ Len(sb[d]) <= Len(sc[d])
  PROVE  Good(s, n, es, sc)
<1>1. ASSUME NEW k \in 1 .. Len(s)
      PROVE  Formed(s[k], n, es, sc)
  <2>1. s[k] \in FrameSet /\ Formed(s[k], m, ds, sb)
    BY ElementOfSeq DEF Good
  <2>2. s[k].op = "value" => es[s[k].cell] = ds[s[k].cell]
    BY <2>1 DEF Formed
  <2>3. s[k].at = "mark" => /\ s[k].op \in {"SetValue", "markDirty"}
                            /\ s[k].last <= Len(sc[s[k].cell])
    <3> HAVE s[k].at = "mark"
    <3>1. s[k].cell \in Nodes
      BY <2>1 DEF Formed, Nodes
    <3>2. s[k].last \in Nat /\ s[k].last <= Len(sb[s[k].cell])
      BY <2>1 DEF Formed, FrameSet
    <3> QED BY <2>1, <3>1, <3>2 DEF Formed
  <2> QED BY <2>1, <2>2, <2>3 DEF Formed
<1> QED BY <1>1 DEF Good

LEMMA HeldPush ==
  ASSUME NEW s \in Seq(FrameSet), NEW cs, Held(s, cs), NEW e \in FrameSet
  PROVE  Held(Append(s, e), cs)
<1>1. /\ Len(s) \in Nat /\ Len(Append(s, e)) = Len(s) + 1
      /\ \A k \in 1 .. Len(s) : Append(s, e)[k] = s[k]
  BY Push
<1>2. \A k \in 1 .. Len(s) : k \in 1 .. Len(Append(s, e))
  BY <1>1
<1> QED BY <1>1, <1>2 DEF Held

(* The call on top may have locked its cell. *)
LEMMA HeldTop ==
  ASSUME NEW s \in Seq(FrameSet), s # <<>>, NEW cs, Held(s, cs),
         NEW f \in FrameSet, f.cell = s[Len(s)].cell,
         Holds(s[Len(s)]) => Holds(f),
         NEW ct, \A c \in ct : c \in cs \/ (c = f.cell /\ Holds(f))
  PROVE  Held([s EXCEPT ![Len(s)] = f], ct)
<1> DEFINE r == [s EXCEPT ![Len(s)] = f]
<1>1. /\ Len(r) = Len(s) /\ r[Len(s)] = f
      /\ \A k \in 1 .. (Len(s) - 1) : r[k] = s[k]
  BY Exchange
<1> HIDE DEF r
<1>2. /\ Len(s) \in 1 .. Len(s)
      /\ \A k \in 1 .. Len(s) : k = Len(s) \/ k \in 1 .. (Len(s) - 1)
  BY Last
<1>3. ASSUME NEW c \in ct
      PROVE  \E k \in 1 .. Len(r) : r[k].cell = c /\ Holds(r[k])
  <2>1. CASE c = f.cell /\ Holds(f)
    BY <1>1, <1>2, <2>1
  <2>2. CASE c \in cs
    <3>1. PICK k \in 1 .. Len(s) : s[k].cell = c /\ Holds(s[k])
      BY <2>2 DEF Held
    <3> QED BY <1>1, <1>2, <3>1
  <2> QED BY <2>1, <2>2
<1> QED BY <1>3 DEF Held, r

(* The call on top ends and unlocks its cell. *)
LEMMA HeldPop ==
  ASSUME NEW s \in Seq(FrameSet), s # <<>>, NEW cs, Held(s, cs),
         NEW ct, \A c \in ct : c \in cs,
         Holds(s[Len(s)]) => s[Len(s)].cell \notin ct
  PROVE  Held(SubSeq(s, 1, Len(s) - 1), ct)
<1> DEFINE r == SubSeq(s, 1, Len(s) - 1)
<1>1. /\ Len(r) = Len(s) - 1
      /\ \A k \in 1 .. (Len(s) - 1) : r[k] = s[k]
  BY Shrink
<1> HIDE DEF r
<1>2. \A k \in 1 .. Len(s) : k = Len(s) \/ k \in 1 .. (Len(s) - 1)
  BY Last
<1>3. ASSUME NEW c \in ct
      PROVE  \E k \in 1 .. Len(r) : r[k].cell = c /\ Holds(r[k])
  <2>1. PICK k \in 1 .. Len(s) : s[k].cell = c /\ Holds(s[k])
    BY DEF Held
  <2>2. k # Len(s)
    BY <2>1
  <2> QED BY <1>1, <1>2, <2>1, <2>2
<1> QED BY <1>3 DEF Held, r
-----------------------------------------------------------------------------
(* The invariant, and how steps that leave the graph alone preserve it.    *)

IInv == TypeOK /\ Wired /\ SubsMade /\ CallsGood

(* Nothing is in progress and nothing is locked. *)
LEMMA Empty ==
  ASSUME NEW m, NEW ds, NEW sb
  PROVE  Good(<<>>, m, ds, sb) /\ Held(<<>>, {})
<1>1. <<>> \in Seq(FrameSet) /\ Len(<<>>) = 0
  BY EmptySeq
<1>2. \A k \in 1 .. Len(<<>>) : FALSE
  BY <1>1
<1> QED BY <1>1, <1>2 DEF Good, Held

(* Only the calls, the values and what was observed have changed. *)
LEMMA Quiet ==
  ASSUME IInv, UNCHANGED graphVars, DataType', HistType',
         locked' \in SUBSET Nodes,
         Good(stack', made, deps, subs), Held(stack', locked')
  PROVE  IInv'
<1>1. made' = made /\ deps' = deps /\ fn' = fn /\ subs' = subs
  BY DEF graphVars
<1>2. GraphType'
  BY <1>1 DEF IInv, TypeOK, GraphType
<1>3. Wired' /\ SubsMade'
  BY <1>1 DEF IInv, Wired, SubsMade
<1>4. stack' \in Seq(FrameSet)
  BY DEF Good
<1> QED BY <1>1, <1>2, <1>3, <1>4 DEF IInv, TypeOK, CallType, CallsGood

(* The innermost call. *)
LEMMA TheTop ==
  ASSUME IInv, ~Idle
  PROVE  /\ stack # <<>> /\ Top \in FrameSet
         /\ Formed(Top, made, deps, subs)
<1>1. stack \in Seq(FrameSet) /\ stack # <<>>
  BY DEF IInv, CallsGood, Good, Idle
<1>2. Top \in FrameSet /\ Len(stack) \in 1 .. Len(stack)
  BY <1>1, Last DEF Top
<1> QED BY <1>1, <1>2 DEF IInv, CallsGood, Good, Top

(* The innermost call returns. *)
LEMMA Pops ==
  ASSUME IInv, ~Idle, UNCHANGED graphVars, stack' = Popped,
         DataType', HistType', \A c \in locked' : c \in locked,
         Holds(Top) => Top.cell \notin locked'
  PROVE  IInv'
<1>1. stack # <<>> /\ stack \in Seq(FrameSet)
  BY TheTop DEF IInv, CallsGood, Good
<1>2. Good(stack', made, deps, subs)
  BY <1>1, GoodPop DEF IInv, CallsGood, Popped
<1>3. Held(stack', locked')
  BY <1>1, HeldPop DEF IInv, CallsGood, Popped, Top
<1>4. locked' \in SUBSET Nodes
  BY DEF IInv, TypeOK, CallType
<1> QED BY <1>2, <1>3, <1>4, Quiet

(* The innermost call goes on. *)
LEMMA Tops ==
  ASSUME IInv, ~Idle, UNCHANGED graphVars,
         NEW f \in FrameSet, stack' = Moved(f), Formed(f, made, deps, subs),
         f.op = Top.op, f.cell = Top.cell, Holds(Top) => Holds(f),
         DataType', HistType', locked' \in SUBSET Nodes,
         \A c \in locked' : c \in locked \/ (c = f.cell /\ Holds(f))
  PROVE  IInv'
<1>1. stack # <<>> /\ stack \in Seq(FrameSet)
  BY TheTop DEF IInv, CallsGood, Good
<1>2. Good(stack', made, deps, subs)
  BY <1>1, GoodTop DEF IInv, CallsGood, Moved, Top
<1>3. Held(stack', locked')
  BY <1>1, HeldTop DEF IInv, CallsGood, Moved, Top
<1> QED BY <1>2, <1>3, Quiet

(* A call is made. *)
LEMMA Pushes ==
  ASSUME IInv, UNCHANGED graphVars,
         NEW e \in FrameSet, stack' = Append(stack, e),
         Formed(e, made, deps, subs), ~Idle => Makes(Top, e),
         DataType', HistType', locked' = locked
  PROVE  IInv'
<1>1. stack \in Seq(FrameSet)
  BY DEF IInv, CallsGood, Good
<1>2. Good(stack', made, deps, subs)
  BY <1>1, GoodPush DEF IInv, CallsGood, Top, Idle
<1>3. Held(stack', locked')
  BY <1>1, HeldPush DEF IInv, CallsGood
<1>4. locked' \in SUBSET Nodes
  BY DEF IInv, TypeOK, CallType
<1> QED BY <1>2, <1>3, <1>4, Quiet

(* The innermost call goes on, and makes a call. *)
LEMMA TopsPushes ==
  ASSUME IInv, ~Idle, UNCHANGED graphVars,
         NEW f \in FrameSet, Formed(f, made, deps, subs),
         f.op = Top.op, f.cell = Top.cell, Holds(Top) => Holds(f),
         NEW e \in FrameSet, Formed(e, made, deps, subs), Makes(f, e),
         stack' = Append(Moved(f), e),
         DataType', HistType', locked' \in SUBSET Nodes,
         \A c \in locked' : c \in locked \/ (c = f.cell /\ Holds(f))
  PROVE  IInv'
<1>1. stack # <<>> /\ stack \in Seq(FrameSet)
  BY TheTop DEF IInv, CallsGood, Good
<1> DEFINE r == Moved(f)
<1>2. r \in Seq(FrameSet) /\ r[Len(r)] = f
  BY <1>1, Exchange DEF Moved
<1>3. Good(r, made, deps, subs)
  BY <1>1, GoodTop DEF IInv, CallsGood, Moved, Top
<1>4. Held(r, locked')
  BY <1>1, HeldTop DEF IInv, CallsGood, Moved, Top
<1> HIDE DEF r
<1>5. Good(Append(r, e), made, deps, subs)
  BY <1>2, <1>3, GoodPush
<1>6. Held(Append(r, e), locked')
  BY <1>2, <1>4, HeldPush
<1> QED BY <1>5, <1>6, Quiet DEF r

(* A panic leaves every call. *)
LEMMA Unwinds ==
  ASSUME IInv, UNCHANGED graphVars, Unwind, DataType',
         active' = active, seen' = seen
  PROVE  IInv'
<1>1. Good(stack', made, deps, subs) /\ Held(stack', locked')
  BY Empty DEF Unwind
<1>2. HistType'
  BY DEF IInv, TypeOK, HistType, Unwind, graphVars
<1> QED BY <1>1, <1>2, Quiet DEF Unwind
-----------------------------------------------------------------------------
(* The kinds of cells, and the calls of the code. *)

LEMMA Kinds ==
  /\ Signals \cap Computeds = {} /\ Signals \cap Effects = {}
  /\ Computeds \cap Effects = {}
  /\ 0 \in 0 .. (VersionModulus - 1)
BY KindsAssumption, BoundsAssumption DEF Nodes

LEMMA Frames ==
  ASSUME NEW op \in {"Value", "SetValue", "markDirty", "value"},
         NEW at \in {"lock", "mark", "pull", "call", "end"}, NEW c \in Cells
  PROVE  /\ Frame(op, at, c) \in FrameSet
         /\ Frame(op, at, c).op = op /\ Frame(op, at, c).at = at
         /\ Frame(op, at, c).cell = c /\ Frame(op, at, c).args = <<>>
         /\ Frame(op, at, c).arg = 1 /\ Frame(op, at, c).last = 0
<1>1. <<>> \in Seq(Values)
  BY EmptySeq
<1> QED BY <1>1, Kinds DEF Frame, FrameSet

LEMMA PlusType ==
  ASSUME NEW m \in Nat, NEW n \in Nat
  PROVE  Plus(m, n) \in 0 .. (VersionModulus - 1)
BY BoundsAssumption DEF Plus

LEMMA DepsLen ==
  ASSUME IInv, NEW c \in Derived
  PROVE  Len(deps[c]) \in Nat
BY LenProperties DEF IInv, TypeOK, GraphType

(* An evaluation that begins. *)
LEMMA ValueFits ==
  ASSUME IInv, NEW c \in Derived \cap made
  PROVE  /\ Frame("value", "pull", c) \in FrameSet
         /\ Formed(Frame("value", "pull", c), made, deps, subs)
<1>1. c \in Cells
  BY DEF Cells
<1>2. Len(<<>>) = 0 /\ Len(deps[c]) \in Nat
  BY DepsLen, EmptySeq
<1> QED BY <1>1, <1>2, Frames DEF Formed

(* What is unchanged keeps its type. *)
LEMMA SameData ==
  ASSUME IInv, UNCHANGED dataVars
  PROVE  DataType'
BY DEF IInv, TypeOK, DataType, dataVars

LEMMA SameHist ==
  ASSUME IInv, UNCHANGED histVars, made' = made
  PROVE  HistType'
BY DEF IInv, TypeOK, HistType, histVars
-----------------------------------------------------------------------------
(* The steps of Value() and SetValue(). *)

LEMMA MayMake ==
  ASSUME IInv, Running, ~Idle, NEW e \in FrameSet, e.cell \in Nodes,
         e.op \in {"Value", "SetValue"},
         e.op = "SetValue" => e.cell \in Signals,
         e.cell \in Signals => MayUse(e.cell)
  PROVE  Makes(Top, e)
<1>1. /\ Top \in FrameSet /\ Top.at = "call" /\ Top.op = "value"
      /\ Top.cell \in Effects
  BY TheTop DEF Running, Is, Formed
<1>2. Level[Top.cell] \in Nat /\ Level[e.cell] \in Nat
  BY <1>1, BoundsAssumption DEF FrameSet
<1>3. Top.cell \notin Computeds
  BY <1>1, Kinds
<1>4. Orderly /\ Upward(e) => Level[Top.cell] < Level[e.cell]
  BY <1>2 DEF Upward, MayUse
<1> QED BY <1>1, <1>2, <1>3, <1>4 DEF Makes, Upward

LEMMA CallValueGood ==
  ASSUME IInv, NEW c \in Nodes, CallValue(c)
  PROVE  IInv'
<1> DEFINE e == Frame("Value", "lock", c)
<1>1. c \in Cells
  BY DEF Nodes, Cells, Derived
<1>2. e \in FrameSet /\ e.op = "Value" /\ e.at = "lock" /\ e.cell = c
  BY <1>1, Frames
<1>3. UNCHANGED graphVars /\ stack' = Append(stack, e) /\ locked' = locked
      /\ DataType' /\ HistType' /\ c \in made
  BY SameData, SameHist DEF CallValue, graphVars
<1> HIDE DEF e
<1>4. Formed(e, made, deps, subs)
  BY <1>2, <1>3 DEF Formed
<1>5. ~Idle => Makes(Top, e)
  BY <1>2, MayMake DEF CallValue
<1> QED BY <1>2, <1>3, <1>4, <1>5, Pushes

LEMMA CallSetValueGood ==
  ASSUME IInv, NEW s \in Signals, NEW v \in Values, CallSetValue(s, v)
  PROVE  IInv'
<1> DEFINE g == Frame("SetValue", "lock", s)
           e == [g EXCEPT !.args = <<v>>]
<1>1. s \in Cells /\ s \in Nodes
  BY DEF Nodes, Cells
<1>2. <<v>> \in Seq(Values) /\ Len(<<v>>) = 1
  OBVIOUS
<1>3. /\ e \in FrameSet /\ e.op = "SetValue" /\ e.at = "lock" /\ e.cell = s
      /\ e.args = <<v>>
  <2>1. g \in FrameSet /\ g.op = "SetValue" /\ g.at = "lock" /\ g.cell = s
    BY <1>1, Frames
  <2> HIDE DEF g
  <2> QED BY <1>2, <2>1 DEF FrameSet
<1>4. UNCHANGED graphVars /\ stack' = Append(stack, e) /\ locked' = locked
      /\ DataType' /\ HistType'
  BY SameData, SameHist DEF CallSetValue, graphVars
<1> HIDE DEF e
<1>5. Formed(e, made, deps, subs)
  BY <1>2, <1>3 DEF Formed
<1>6. ~Idle => Makes(Top, e)
  BY <1>1, <1>3, MayMake DEF CallSetValue
<1> QED BY <1>3, <1>4, <1>5, <1>6, Pushes

LEMMA ReadCleanGood ==
  ASSUME IInv, ReadClean
  PROVE  IInv'
<1>1. /\ ~Idle /\ Top.at = "lock" /\ UNCHANGED graphVars /\ stack' = Popped
      /\ locked' = locked
      /\ DataType' /\ HistType'
  BY SameData, SameHist DEF ReadClean, Locks, Is, graphVars
<1>2. ~Holds(Top)
  BY <1>1 DEF Holds
<1> QED BY <1>1, <1>2, Pops

LEMMA WriteSameGood ==
  ASSUME IInv, WriteSame
  PROVE  IInv'
<1>1. /\ ~Idle /\ Top.at = "lock" /\ UNCHANGED graphVars /\ stack' = Popped
      /\ locked' = locked
      /\ DataType' /\ HistType'
  BY SameData, SameHist DEF WriteSame, Locks, Is, graphVars
<1>2. ~Holds(Top)
  BY <1>1 DEF Holds
<1> QED BY <1>1, <1>2, Pops

(* A mark in isDirty leaves the types as they are. *)
LEMMA Marked ==
  ASSUME IInv, NEW c \in Computeds, NEW b \in BOOLEAN,
         isDirty' = [isDirty EXCEPT ![c] = b], UNCHANGED <<val, ver, vsum>>
  PROVE  DataType'
BY DEF IInv, TypeOK, DataType

LEMMA ReadDirtyGood ==
  ASSUME IInv, ReadDirty
  PROVE  IInv'
<1> DEFINE c == Top.cell
           f == [Top EXCEPT !.at = "end"]
           e == Frame("value", "pull", c)
<1>1. /\ ~Idle /\ Top.at = "lock" /\ Top.op = "Value" /\ Stale(c)
      /\ UNCHANGED graphVars /\ HistType' /\ locked' = locked \cup {c}
      /\ stack' = Append(Moved(f), e)
      /\ isDirty' = [isDirty EXCEPT ![c] = FALSE]
      /\ UNCHANGED <<val, ver, vsum>>
  BY SameHist DEF ReadDirty, Locks, Is, EnterValue, graphVars
<1>2. Top \in FrameSet /\ Formed(Top, made, deps, subs)
  BY <1>1, TheTop
<1>3. c \in Computeds /\ c \in made /\ c \in Nodes /\ c \in Derived
  BY <1>1, <1>2 DEF Stale, Formed, Derived
<1>4. f \in FrameSet /\ f.op = "Value" /\ f.at = "end" /\ f.cell = c
  BY <1>1, <1>2 DEF FrameSet
<1>5. e \in FrameSet /\ Formed(e, made, deps, subs)
  BY <1>3, ValueFits
<1>6. e.op = "value" /\ e.cell = c
  BY DEF Frame
<1>7. DataType'
  BY <1>1, <1>3, Marked
<1> HIDE DEF f, e
<1>8. Formed(f, made, deps, subs) /\ Holds(f)
  BY <1>3, <1>4 DEF Formed, Holds
<1>9. Makes(f, e)
  BY <1>3, <1>4, <1>6, Kinds DEF Makes, Upward
<1>10. locked' \in SUBSET Nodes
  BY <1>1, <1>3 DEF IInv, TypeOK, CallType
<1> QED BY <1>1, <1>4, <1>5, <1>7, <1>8, <1>9, <1>10, TopsPushes

LEMMA ReturnGood ==
  ASSUME IInv, Return
  PROVE  IInv'
<1>1. /\ ~Idle /\ UNCHANGED graphVars /\ stack' = Popped
      /\ locked' = locked \ {Top.cell}
      /\ DataType' /\ HistType'
  BY SameData, SameHist DEF Return, Is, graphVars
<1> QED BY <1>1, Pops

LEMMA WriteGood ==
  ASSUME IInv, Write
  PROVE  IInv'
<1> DEFINE s == Top.cell
           f == [Top EXCEPT !.at = "mark", !.last = Len(subs[s])]
<1>1. /\ ~Idle /\ Top.at = "lock" /\ Top.op = "SetValue"
      /\ UNCHANGED graphVars /\ HistType' /\ locked' = locked \cup {s}
      /\ stack' = Moved(f)
      /\ val' = [val EXCEPT ![s] = Top.args[1]]
      /\ ver' = [ver EXCEPT ![s] = Plus(@, 1)]
      /\ UNCHANGED <<isDirty, vsum>>
  BY SameHist DEF Write, Locks, Is, graphVars
<1>2. Top \in FrameSet /\ Formed(Top, made, deps, subs)
  BY <1>1, TheTop
<1>3. s \in Signals /\ s \in Nodes /\ Len(Top.args) = 1
      /\ Top.args \in Seq(Values)
  BY <1>1, <1>2 DEF Formed, Nodes, FrameSet
<1>4. Top.args[1] \in Values
  BY <1>3, ElementOfSeq
<1>5. Len(subs[s]) \in Nat
  BY <1>3, LenProperties DEF IInv, TypeOK, GraphType
<1>6. /\ f \in FrameSet /\ f.op = "SetValue" /\ f.at = "mark" /\ f.cell = s
      /\ f.last = Len(subs[s]) /\ f.args = Top.args
  BY <1>1, <1>2, <1>5 DEF FrameSet
<1> HIDE DEF f
<1>7. Formed(f, made, deps, subs) /\ Holds(f)
  BY <1>3, <1>5, <1>6 DEF Formed, Holds
<1>8. DataType'
  <2>1. ver[s] \in Nat
    BY <1>3 DEF IInv, TypeOK, DataType
  <2>2. Plus(ver[s], 1) \in 0 .. (VersionModulus - 1)
    BY <2>1, PlusType
  <2> QED BY <1>1, <1>3, <1>4, <2>2 DEF IInv, TypeOK, DataType
<1>9. locked' \in SUBSET Nodes
  BY <1>1, <1>3 DEF IInv, TypeOK, CallType
<1> QED BY <1>1, <1>6, <1>7, <1>8, <1>9, Tops
-----------------------------------------------------------------------------
(* The steps of markDirty(). *)

(* The subscriber that is reached exists and is of no lower level. *)
LEMMA Reached ==
  ASSUME IInv, Marking
  PROVE  /\ ~Idle /\ Top.at = "mark" /\ Top.cell \in Nodes
         /\ Sub \in Derived /\ Sub \in made
         /\ Level[Top.cell] <= Level[Sub]
         /\ Len(subs[Sub]) \in Nat \/ Sub \in Effects
<1>1. ~Idle /\ Top.at = "mark" /\ Top.arg <= Top.last
  BY DEF Marking, Is
<1>2. Top \in FrameSet /\ Formed(Top, made, deps, subs)
  BY <1>1, TheTop
<1>3. Top.cell \in Nodes /\ Top.last <= Len(subs[Top.cell])
  BY <1>1, <1>2 DEF Formed, Nodes
<1>4. subs[Top.cell] \in Seq(Derived)
  BY <1>3 DEF IInv, TypeOK, GraphType
<1>5. Len(subs[Top.cell]) \in Nat
  BY <1>4, LenProperties
<1>6. Top.arg \in 1 .. Len(subs[Top.cell])
  BY <1>1, <1>2, <1>3, <1>5 DEF FrameSet
<1>7. Sub \in Derived
  BY <1>4, <1>6, ElementOfSeq DEF Sub
<1>8. Sub \in made /\ Level[Top.cell] <= Level[Sub]
  BY <1>3, <1>6 DEF IInv, SubsMade, Sub
<1>9. Sub \in Computeds => Len(subs[Sub]) \in Nat
  BY LenProperties DEF IInv, TypeOK, GraphType, Nodes
<1> QED BY <1>1, <1>3, <1>7, <1>8, <1>9 DEF Derived

(* The loop goes on. *)
LEMMA NextOne ==
  ASSUME IInv, ~Idle, Top.at = "mark"
  PROVE  /\ Advanced \in FrameSet /\ Formed(Advanced, made, deps, subs)
         /\ Advanced.op = Top.op /\ Advanced.cell = Top.cell
         /\ Advanced.at = "mark" /\ Advanced.op \in {"SetValue", "markDirty"}
         /\ Holds(Top) => Holds(Advanced)
<1>1. Top \in FrameSet /\ Formed(Top, made, deps, subs)
  BY TheTop
<1>2. /\ Advanced \in FrameSet /\ Advanced.op = Top.op
      /\ Advanced.at = Top.at /\ Advanced.cell = Top.cell
      /\ Advanced.args = Top.args /\ Advanced.last = Top.last
  BY <1>1 DEF Advanced, FrameSet
<1>3. Top.op \in {"SetValue", "markDirty"}
  BY <1>1 DEF Formed
<1>4. Formed(Advanced, made, deps, subs)
  BY <1>1, <1>2, <1>3 DEF Formed
<1> QED BY <1>2, <1>3, <1>4 DEF Holds

LEMMA MarkComputedGood ==
  ASSUME IInv, MarkComputed
  PROVE  IInv'
<1> DEFINE g == Frame("markDirty", "mark", Sub)
           e == [g EXCEPT !.last = Len(subs[Sub])]
<1>1. /\ Marking /\ Sub \in Computeds /\ UNCHANGED graphVars
      /\ isDirty' = [isDirty EXCEPT ![Sub] = TRUE]
      /\ UNCHANGED <<val, ver, vsum>>
      /\ stack' = Append(Moved(Advanced), e) /\ locked' = locked
      /\ HistType'
  BY SameHist DEF MarkComputed, graphVars
<1>2. /\ ~Idle /\ Sub \in made /\ Level[Top.cell] <= Level[Sub]
      /\ Sub \in Cells /\ Len(subs[Sub]) \in Nat
  BY <1>1, Reached, Kinds DEF Cells
<1>3. g \in FrameSet /\ g.op = "markDirty" /\ g.at = "mark" /\ g.cell = Sub
  BY <1>2, Frames
<1>4. /\ e \in FrameSet /\ e.op = "markDirty" /\ e.at = "mark" /\ e.cell = Sub
      /\ e.last = Len(subs[Sub])
  <2> HIDE DEF g
  <2> QED BY <1>2, <1>3 DEF FrameSet
<1> HIDE DEF e
<1>5. Formed(e, made, deps, subs)
  BY <1>1, <1>2, <1>4 DEF Formed
<1>6. Makes(Advanced, e)
  BY <1>1, <1>2, <1>4, NextOne, Reached DEF Makes, Upward
<1>7. DataType'
  BY <1>1, Marked
<1>8. locked' \in SUBSET Nodes
  BY <1>1 DEF IInv, TypeOK, CallType
<1>9. Advanced \in FrameSet /\ Formed(Advanced, made, deps, subs)
      /\ Advanced.op = Top.op /\ Advanced.cell = Top.cell
      /\ (Holds(Top) => Holds(Advanced))
  BY <1>1, <1>2, NextOne, Reached
<1> QED BY <1>1, <1>2, <1>4, <1>5, <1>6, <1>7, <1>8, <1>9, TopsPushes

LEMMA MarkEffectGood ==
  ASSUME IInv, MarkEffect
  PROVE  IInv'
<1> DEFINE e == Frame("value", "pull", Sub)
<1>1. /\ Marking /\ Sub \in Effects /\ UNCHANGED graphVars
      /\ stack' = Append(Moved(Advanced), e) /\ locked' = locked
      /\ DataType' /\ HistType'
  BY SameData, SameHist DEF MarkEffect, graphVars
<1>2. /\ ~Idle /\ Sub \in made /\ Level[Top.cell] <= Level[Sub]
      /\ Sub \in Derived
  BY <1>1, Reached
<1>3. e \in FrameSet /\ Formed(e, made, deps, subs)
  BY <1>2, ValueFits
<1>4. e.op = "value" /\ e.cell = Sub
  BY DEF Frame
<1> HIDE DEF e
<1>5. Makes(Advanced, e)
  BY <1>1, <1>2, <1>4, NextOne, Reached DEF Makes, Upward
<1>6. locked' \in SUBSET Nodes
  BY <1>1 DEF IInv, TypeOK, CallType
<1>7. Advanced \in FrameSet /\ Formed(Advanced, made, deps, subs)
      /\ Advanced.op = Top.op /\ Advanced.cell = Top.cell
      /\ (Holds(Top) => Holds(Advanced))
  BY <1>1, <1>2, NextOne, Reached
<1> QED BY <1>1, <1>2, <1>3, <1>5, <1>6, <1>7, TopsPushes

LEMMA MarkEndGood ==
  ASSUME IInv, MarkEnd
  PROVE  IInv'
<1>1. /\ ~Idle /\ Top.op = "markDirty" /\ UNCHANGED graphVars
      /\ stack' = Popped /\ locked' = locked
      /\ DataType' /\ HistType'
  BY SameData, SameHist DEF MarkEnd, Is, graphVars
<1>2. ~Holds(Top)
  BY <1>1 DEF Holds
<1> QED BY <1>1, <1>2, Pops

LEMMA WriteEndGood ==
  ASSUME IInv, WriteEnd
  PROVE  IInv'
<1>1. /\ ~Idle /\ UNCHANGED graphVars /\ stack' = Popped
      /\ locked' = locked \ {Top.cell}
      /\ DataType' /\ HistType'
  BY SameData, SameHist DEF WriteEnd, Is, graphVars
<1> QED BY <1>1, Pops
-----------------------------------------------------------------------------
(* The steps of value(). *)

LEMMA PullArgGood ==
  ASSUME IInv, PullArg
  PROVE  IInv'
<1> DEFINE c == Top.cell
           f == [Advanced EXCEPT !.args = Append(@, val[Dep]),
                                 !.sum = Plus(@, ver[Dep])]
<1>1. /\ ~Idle /\ Top.at = "pull" /\ Top.arg <= Len(deps[c])
      /\ UNCHANGED graphVars /\ stack' = Moved(f) /\ locked' = locked
      /\ DataType' /\ HistType'
  BY SameData, SameHist DEF PullArg, Collecting, Is, graphVars
<1>2. Top \in FrameSet /\ Formed(Top, made, deps, subs)
  BY <1>1, TheTop
<1>3. c \in Derived /\ Top.op = "value" /\ Len(Top.args) = Top.arg - 1
  BY <1>1, <1>2 DEF Formed
<1>4. deps[c] \in Seq(Nodes) /\ Len(deps[c]) \in Nat
  BY <1>3, DepsLen DEF IInv, TypeOK, GraphType
<1>5. Dep \in Nodes
  BY <1>1, <1>2, <1>4, ElementOfSeq DEF Dep, FrameSet
<1>6. val[Dep] \in Values /\ ver[Dep] \in Nat
  BY <1>5 DEF IInv, TypeOK, DataType
<1>7. Top.sum \in Nat /\ Top.arg \in Nat \ {0} /\ Top.args \in Seq(Values)
  BY <1>2 DEF FrameSet
<1>8. Plus(Top.sum, ver[Dep]) \in 0 .. (VersionModulus - 1)
  BY <1>6, <1>7, PlusType
<1>9. /\ Append(Top.args, val[Dep]) \in Seq(Values)
      /\ Len(Append(Top.args, val[Dep])) = Len(Top.args) + 1
  BY <1>6, <1>7, Push
<1>10. /\ Advanced \in FrameSet /\ Advanced.op = Top.op
       /\ Advanced.at = Top.at /\ Advanced.cell = Top.cell
       /\ Advanced.args = Top.args /\ Advanced.arg = Top.arg + 1
       /\ Advanced.sum = Top.sum
  BY <1>2 DEF Advanced, FrameSet
<1>11. /\ f \in FrameSet /\ f.op = "value" /\ f.at = "pull" /\ f.cell = c
       /\ f.args = Append(Top.args, val[Dep]) /\ f.arg = Top.arg + 1
  BY <1>1, <1>3, <1>8, <1>9, <1>10 DEF FrameSet
<1> HIDE DEF f
<1>12. Formed(f, made, deps, subs)
  BY <1>1, <1>2, <1>3, <1>4, <1>7, <1>9, <1>11 DEF Formed
<1>13. ~Holds(Top) /\ locked' \in SUBSET Nodes
  BY <1>1, <1>3 DEF Holds, IInv, TypeOK, CallType
<1> QED BY <1>1, <1>3, <1>11, <1>12, <1>13, Tops

LEMMA PullDepGood ==
  ASSUME IInv, PullDep
  PROVE  IInv'
<1> DEFINE c == Top.cell
           e == Frame("value", "pull", Dep)
<1>1. /\ ~Idle /\ Top.at = "pull" /\ Top.arg <= Len(deps[c]) /\ Stale(Dep)
      /\ UNCHANGED graphVars /\ stack' = Append(stack, e) /\ locked' = locked
      /\ isDirty' = [isDirty EXCEPT ![Dep] = FALSE]
      /\ UNCHANGED <<val, ver, vsum>>
      /\ HistType'
  BY SameHist DEF PullDep, EnterValue, Collecting, Is, graphVars
<1>2. Top \in FrameSet /\ Formed(Top, made, deps, subs)
  BY <1>1, TheTop
<1>3. c \in Derived \cap made /\ Top.op = "value"
  BY <1>1, <1>2 DEF Formed
<1>4. Top.arg \in 1 .. Len(deps[c])
  BY <1>1, <1>2, <1>3, DepsLen DEF FrameSet
<1>5. Dep \in made
  BY <1>3, <1>4 DEF IInv, Wired, Dep
<1>6. Dep \in Computeds /\ Dep \in Derived
  BY <1>1 DEF Stale, Derived
<1>7. e \in FrameSet /\ Formed(e, made, deps, subs)
  BY <1>5, <1>6, ValueFits
<1>8. e.op = "value" /\ e.cell = Dep
  BY DEF Frame
<1>9. DataType'
  BY <1>1, <1>6, Marked
<1> HIDE DEF e
<1>10. Makes(Top, e)
  BY <1>1, <1>6, <1>8, Kinds DEF Makes, Upward
<1> QED BY <1>1, <1>7, <1>9, <1>10, Pushes

LEMMA PullSameGood ==
  ASSUME IInv, PullSame
  PROVE  IInv'
<1>1. /\ ~Idle /\ Top.at = "pull" /\ UNCHANGED graphVars /\ stack' = Popped
      /\ locked' = locked
      /\ DataType' /\ HistType'
  BY SameData, SameHist DEF PullSame, Collected, Is, graphVars
<1>2. ~Holds(Top)
  BY <1>1 DEF Holds
<1> QED BY <1>1, <1>2, Pops

(* The call of a getter or of an effect: its arguments are complete. *)
LEMMA TheCall ==
  ASSUME IInv, Calling
  PROVE  /\ ~Idle /\ Top.at = "pull" /\ Top.op = "value" /\ ~Holds(Top)
         /\ Top \in FrameSet /\ Formed(Top, made, deps, subs)
         /\ Top.cell \in Derived \cap made
         /\ Top.args \in [DOMAIN deps[Top.cell] -> Values]
<1> DEFINE c == Top.cell
<1>1. ~Idle /\ Top.at = "pull" /\ Top.arg > Len(deps[c])
  BY DEF Calling, Collected, Is
<1>2. Top \in FrameSet /\ Formed(Top, made, deps, subs)
  BY <1>1, TheTop
<1>3. /\ c \in Derived \cap made /\ Top.op = "value"
      /\ Len(Top.args) = Top.arg - 1 /\ Top.arg <= Len(deps[c]) + 1
  BY <1>1, <1>2 DEF Formed
<1>4. Top.arg \in Nat /\ Top.args \in Seq(Values) /\ Len(deps[c]) \in Nat
  BY <1>2, <1>3, DepsLen DEF FrameSet
<1>5. Len(Top.args) = Len(deps[c])
  BY <1>1, <1>3, <1>4
<1>6. deps[c] \in Seq(Nodes)
  BY <1>3 DEF IInv, TypeOK, GraphType
<1>7. Top.args \in [1 .. Len(Top.args) -> Values]
      /\ DOMAIN deps[c] = 1 .. Len(deps[c])
  BY <1>4, <1>6, LenProperties
<1>8. ~Holds(Top)
  BY <1>3 DEF Holds
<1> QED BY <1>1, <1>2, <1>3, <1>5, <1>7, <1>8

LEMMA SumType ==
  ASSUME IInv, Calling, vsum' = SumStored
  PROVE  vsum' \in [Derived -> 0 .. (VersionModulus - 1)]
<1>1. Top.sum \in 0 .. (VersionModulus - 1)
  BY TheCall DEF FrameSet
<1> QED BY <1>1 DEF SumStored, IInv, TypeOK, DataType

LEMMA PullGetGood ==
  ASSUME IInv, PullGet
  PROVE  IInv'
<1> DEFINE c == Top.cell
           v == Apply(fn[c], Top.args)
<1>1. /\ Calling /\ c \in Computeds /\ UNCHANGED graphVars /\ stack' = Popped
      /\ val' = [val EXCEPT ![c] = v]
      /\ ver' = IF v = val[c] THEN ver ELSE [ver EXCEPT ![c] = Plus(@, 1)]
      /\ vsum' = SumStored /\ isDirty' = isDirty
      /\ locked' = locked /\ HistType'
  BY SameHist DEF PullGet, graphVars
<1>2. /\ ~Idle /\ ~Holds(Top) /\ c \in Derived \cap made
      /\ Top.args \in [DOMAIN deps[c] -> Values]
  BY <1>1, TheCall
<1>3. deps[c] \in Wirings /\ fn[c] \in Getters
  BY <1>1, <1>2 DEF IInv, Wired
<1>4. v \in Values
  BY <1>2, <1>3, DataAssumption
<1>5. c \in Nodes
  BY <1>1 DEF Nodes
<1>6. val' \in [Nodes -> Values]
  BY <1>1, <1>4, <1>5 DEF IInv, TypeOK, DataType
<1>7. ver[c] \in Nat
  BY <1>5 DEF IInv, TypeOK, DataType
<1>8. Plus(ver[c], 1) \in 0 .. (VersionModulus - 1)
  BY <1>7, PlusType
<1>9. ver' \in [Nodes -> 0 .. (VersionModulus - 1)]
  BY <1>1, <1>5, <1>8 DEF IInv, TypeOK, DataType
<1>10. DataType'
  BY <1>1, <1>6, <1>9, SumType DEF IInv, TypeOK, DataType
<1> QED BY <1>1, <1>2, <1>10, Pops

LEMMA GetPanicGood ==
  ASSUME IInv, GetPanic
  PROVE  IInv'
<1>1. /\ Calling /\ UNCHANGED graphVars /\ Unwind
      /\ vsum' = SumStored /\ UNCHANGED <<val, ver, isDirty>>
      /\ active' = active /\ seen' = seen
  BY DEF GetPanic, graphVars
<1>2. DataType'
  BY <1>1, SumType DEF IInv, TypeOK, DataType
<1> QED BY <1>1, <1>2, Unwinds

LEMMA PullRunGood ==
  ASSUME IInv, PullRun
  PROVE  IInv'
<1> DEFINE f == [Top EXCEPT !.at = "call"]
<1>1. /\ Calling /\ Top.cell \in Effects /\ UNCHANGED graphVars
      /\ stack' = Moved(f) /\ vsum' = SumStored
      /\ UNCHANGED <<val, ver, isDirty>> /\ locked' = locked
      /\ active' = active /\ hurt' = hurt
      /\ seen' = [seen EXCEPT ![Top.cell] = Top.args]
  BY DEF PullRun, Goto, graphVars
<1>2. /\ ~Idle /\ Top.at = "pull" /\ Top.op = "value" /\ ~Holds(Top)
      /\ Top \in FrameSet /\ Formed(Top, made, deps, subs)
  BY <1>1, TheCall
<1>3. DataType'
  BY <1>1, SumType DEF IInv, TypeOK, DataType
<1>4. DOMAIN seen' = DOMAIN seen
  BY <1>1
<1>5. HistType'
  BY <1>1, <1>4 DEF IInv, TypeOK, HistType, graphVars
<1>6. /\ f \in FrameSet /\ f.op = "value" /\ f.at = "call"
      /\ f.cell = Top.cell /\ f.args = Top.args /\ f.arg = Top.arg
  BY <1>2 DEF FrameSet
<1> HIDE DEF f
<1>7. Formed(f, made, deps, subs)
  BY <1>1, <1>2, <1>6 DEF Formed
<1>8. locked' \in SUBSET Nodes
  BY <1>1 DEF IInv, TypeOK, CallType
<1> QED BY <1>1, <1>2, <1>3, <1>5, <1>6, <1>7, <1>8, Tops

LEMMA CallReturnGood ==
  ASSUME IInv, CallReturn
  PROVE  IInv'
<1>1. /\ ~Idle /\ Top.at = "call" /\ UNCHANGED graphVars /\ stack' = Popped
      /\ locked' = locked
      /\ DataType' /\ HistType'
  BY SameData, SameHist DEF CallReturn, Is, graphVars
<1>2. ~Holds(Top)
  BY <1>1 DEF Holds
<1> QED BY <1>1, <1>2, Pops

LEMMA CallPanicGood ==
  ASSUME IInv, CallPanic
  PROVE  IInv'
<1>1. /\ UNCHANGED graphVars /\ Unwind /\ DataType'
      /\ active' = active /\ seen' = seen
  BY SameData DEF CallPanic, graphVars
<1> QED BY <1>1, Unwinds
-----------------------------------------------------------------------------
(* The steps that change the graph. *)

(* New cells and subscriptions. *)
LEMMA Grows ==
  ASSUME IInv, GraphType', Wired', SubsMade', DataType', HistType',
         UNCHANGED <<locked, stack>>, made \subseteq made',
         \A c \in made \cap Derived : deps'[c] = deps[c],
         \A d \in Nodes : Len(subs[d]) <= Len(subs'[d])
  PROVE  IInv'
<1>1. \A d \in Nodes : Len(subs[d]) \in Nat /\ Len(subs'[d]) \in Nat
  BY LenProperties DEF IInv, TypeOK, GraphType
<1>2. Good(stack, made', deps', subs')
  BY <1>1, GoodGrows DEF IInv, CallsGood
<1>3. Good(stack', made', deps', subs') /\ Held(stack', locked')
  BY <1>2 DEF IInv, CallsGood
<1> QED BY <1>3 DEF IInv, TypeOK, CallType, CallsGood

LEMMA SignalGood ==
  ASSUME IInv, NEW s \in Signals, NEW v \in Initials, Signal(s, v)
  PROVE  IInv'
<1>1. /\ s \in Nodes /\ s \notin Derived /\ s \in Cells /\ v \in Values
      /\ made' = made \cup {s} /\ val' = [val EXCEPT ![s] = v]
      /\ UNCHANGED <<deps, fn, subs, ver, isDirty, vsum, locked, stack,
                     active, seen, hurt>>
  BY Kinds, DataAssumption DEF Signal, Nodes, Derived, Cells, histVars
<1>2. GraphType' /\ DataType' /\ HistType'
  BY <1>1 DEF IInv, TypeOK, GraphType, DataType, HistType
<1>3. Wired'
  <2> SUFFICES ASSUME NEW c \in made' \cap Derived
               PROVE  /\ deps'[c] \in Wirings
                      /\ c \in Computeds => fn'[c] \in Getters
                      /\ \A j \in 1 .. Len(deps'[c]) :
                           deps'[c][j] \in made' /\ Level[deps'[c][j]] <= Level[c]
    BY DEF Wired
  <2>1. c \in made \cap Derived
    BY <1>1
  <2> QED BY <1>1, <2>1 DEF IInv, Wired
<1>4. SubsMade'
  BY <1>1 DEF IInv, SubsMade
<1>5. \A d \in Nodes : Len(subs[d]) <= Len(subs'[d])
  BY <1>1, LenProperties DEF IInv, TypeOK, GraphType
<1> QED BY <1>1, <1>2, <1>3, <1>4, <1>5, Grows

(* How often an argument list names a cell. *)
LEMMA TimesType ==
  ASSUME NEW ds \in Seq(Nodes), NEW d
  PROVE  Times(ds, d) \in Nat
<1>1. Len(ds) \in Nat /\ DOMAIN ds = 1 .. Len(ds)
  BY LenProperties
<1>2. IsFiniteSet(DOMAIN ds)
  BY <1>1, FS_Interval
<1>3. IsFiniteSet({j \in DOMAIN ds : ds[j] = d})
  BY <1>2, FS_Subset
<1> QED BY <1>3, FS_CardinalityType DEF Times

(* What is subscribed to after a cell has been created. *)
LEMMA Joined ==
  ASSUME NEW q \in Seq(Derived), NEW n \in Nat, NEW c \in Derived
  PROVE  /\ q \o [k \in 1 .. n |-> c] \in Seq(Derived)
         /\ Len(q) \in Nat /\ Len(q \o [k \in 1 .. n |-> c]) = Len(q) + n
         /\ \A k \in 1 .. Len(q \o [l \in 1 .. n |-> c]) :
              \/ /\ k \in 1 .. Len(q)
                 /\ (q \o [l \in 1 .. n |-> c])[k] = q[k]
              \/ /\ k > Len(q)
                 /\ (q \o [l \in 1 .. n |-> c])[k] = c
<1> DEFINE r == [k \in 1 .. n |-> c]
<1>1. r \in Seq(Derived) /\ Len(r) = n /\ Len(q) \in Nat
      /\ \A k \in 1 .. n : r[k] = c
  BY IsASeq, LenProperties
<1> HIDE DEF r
<1>2. /\ q \o r \in Seq(Derived) /\ Len(q \o r) = Len(q) + Len(r)
      /\ \A k \in 1 .. Len(q) + Len(r) :
           (q \o r)[k] = IF k <= Len(q) THEN q[k] ELSE r[k - Len(q)]
  BY <1>1, ConcatProperties
<1>3. ASSUME NEW k \in 1 .. Len(q \o r)
      PROVE  \/ k \in 1 .. Len(q) /\ (q \o r)[k] = q[k]
             \/ k > Len(q) /\ (q \o r)[k] = c
  <2>1. CASE k <= Len(q)
    BY <1>1, <1>2, <2>1
  <2>2. CASE k > Len(q)
    <3>1. k - Len(q) \in 1 .. n
      BY <1>1, <1>2, <2>2
    <3> QED BY <1>1, <1>2, <2>2, <3>1
  <2> QED BY <1>1, <2>1, <2>2
<1> QED BY <1>1, <1>2, <1>3 DEF r

(* A derived cell is created. *)
LEMMA Subscribed ==
  ASSUME IInv, NEW c \in Derived, NEW ds \in Wirings, Subscribe(c, ds)
  PROVE  /\ made' \in SUBSET Cells /\ made' = made \cup {c}
         /\ deps' \in [Derived -> Seq(Nodes)]
         /\ subs' \in [Nodes -> Seq(Derived)]
         /\ deps'[c] = ds /\ \A a \in made \cap Derived : deps'[a] = deps[a]
         /\ \A j \in 1 .. Len(ds) : ds[j] \in made' /\ Level[ds[j]] <= Level[c]
         /\ \A d \in Nodes : /\ Len(subs[d]) <= Len(subs'[d])
                             /\ Len(subs[d]) \in Nat
                             /\ Times(ds, d) \in Nat
                             /\ Len(subs'[d]) = Len(subs[d]) + Times(ds, d)
                             /\ \A k \in 1 .. Len(subs'[d]) :
                                  \/ /\ k \in 1 .. Len(subs[d])
                                     /\ subs'[d][k] = subs[d][k]
                                  \/ k > Len(subs[d]) /\ subs'[d][k] = c
         /\ SubsMade'
<1>1. /\ c \notin made /\ made' = made \cup {c}
      /\ deps' = [deps EXCEPT ![c] = ds]
      /\ \A d \in Nodes : subs'[d] = subs[d] \o [k \in 1 .. Times(ds, d) |-> c]
      /\ subs' = [d \in Nodes |-> subs[d] \o [k \in 1 .. Times(ds, d) |-> c]]
      /\ \A j \in DOMAIN ds : ds[j] \in made /\ Level[ds[j]] <= Level[c]
  BY DEF Subscribe
<1>2. ds \in Seq(Nodes)
  BY DataAssumption
<1>3. DOMAIN ds = 1 .. Len(ds)
  BY <1>2, LenProperties
<1>4. deps \in [Derived -> Seq(Nodes)] /\ subs \in [Nodes -> Seq(Derived)]
  BY DEF IInv, TypeOK, GraphType
<1>5. deps' \in [Derived -> Seq(Nodes)] /\ deps'[c] = ds
      /\ \A a \in made \cap Derived : deps'[a] = deps[a]
  BY <1>1, <1>2, <1>4
<1>6. ASSUME NEW d \in Nodes
      PROVE  /\ subs'[d] \in Seq(Derived)
             /\ Len(subs[d]) <= Len(subs'[d])
             /\ Len(subs[d]) \in Nat /\ Times(ds, d) \in Nat
             /\ Len(subs'[d]) = Len(subs[d]) + Times(ds, d)
             /\ \A k \in 1 .. Len(subs'[d]) :
                  \/ k \in 1 .. Len(subs[d]) /\ subs'[d][k] = subs[d][k]
                  \/ k > Len(subs[d]) /\ subs'[d][k] = c
  <2> DEFINE n == Times(ds, d)
             q == subs[d]
  <2>1. n \in Nat
    BY <1>2, TimesType
  <2>2. q \in Seq(Derived) /\ subs'[d] = q \o [k \in 1 .. n |-> c]
    BY <1>1, <1>4
  <2> HIDE DEF n, q
  <2>3. /\ subs'[d] \in Seq(Derived) /\ Len(q) \in Nat
        /\ Len(subs'[d]) = Len(q) + n
        /\ \A k \in 1 .. Len(subs'[d]) :
             \/ k \in 1 .. Len(q) /\ subs'[d][k] = q[k]
             \/ k > Len(q) /\ subs'[d][k] = c
    BY <2>1, <2>2, Joined
  <2>4. Len(q) <= Len(subs'[d])
    BY <2>1, <2>3
  <2> QED BY <2>1, <2>3, <2>4 DEF n, q
<1>7. subs' \in [Nodes -> Seq(Derived)]
  BY <1>1, <1>6
<1>8. made' \in SUBSET Cells
  BY <1>1 DEF IInv, TypeOK, GraphType, Cells
<1>9. ASSUME NEW d \in Nodes, NEW k \in 1 .. Len(subs'[d])
      PROVE  subs'[d][k] \in made' /\ Level[d] <= Level[subs'[d][k]]
  <2>1. CASE k \in 1 .. Len(subs[d]) /\ subs'[d][k] = subs[d][k]
    BY <1>1, <2>1 DEF IInv, SubsMade
  <2>2. CASE k > Len(subs[d]) /\ subs'[d][k] = c
    <3>1. Times(ds, d) # 0
      BY <1>6, <2>2
    <3>2. {j \in DOMAIN ds : ds[j] = d} # {}
      BY <3>1, FS_EmptySet DEF Times
    <3>3. PICK j \in DOMAIN ds : ds[j] = d
      BY <3>2
    <3> QED BY <1>1, <2>2, <3>3
  <2> QED BY <1>6, <2>1, <2>2
<1>10. SubsMade'
  BY <1>9 DEF SubsMade
<1>11. \A j \in 1 .. Len(ds) : ds[j] \in made' /\ Level[ds[j]] <= Level[c]
  BY <1>1, <1>3
<1> QED BY <1>1, <1>5, <1>6, <1>7, <1>8, <1>10, <1>11

(* The wirings stay sound when a derived cell is created. *)
LEMMA WiredOn ==
  ASSUME IInv, NEW c \in Derived, NEW ds \in Wirings, Subscribe(c, ds),
         c \in Computeds => fn'[c] \in Getters,
         \A a \in Computeds : a # c => fn'[a] = fn[a]
  PROVE  Wired'
<1> SUFFICES ASSUME NEW a \in made' \cap Derived
             PROVE  /\ deps'[a] \in Wirings
                    /\ a \in Computeds => fn'[a] \in Getters
                    /\ \A j \in 1 .. Len(deps'[a]) :
                         deps'[a][j] \in made' /\ Level[deps'[a][j]] <= Level[a]
  BY DEF Wired
<1>1. CASE a = c
  BY <1>1, Subscribed
<1>2. CASE a # c
  <2>1. a \in made \cap Derived /\ deps'[a] = deps[a] /\ made \subseteq made'
    BY <1>2, Subscribed
  <2> QED BY <1>2, <2>1 DEF IInv, Wired
<1> QED BY <1>1, <1>2

LEMMA ComputedGood ==
  ASSUME IInv, NEW c \in Computeds, NEW ds \in Wirings, NEW g \in Getters,
         Computed(c, ds, g)
  PROVE  IInv'
<1>1. /\ Subscribe(c, ds) /\ fn' = [fn EXCEPT ![c] = g] /\ c \in Derived
      /\ UNCHANGED <<locked, stack, active, seen, hurt>> /\ DataType'
  BY SameData DEF Computed, Derived, histVars
<1>2. /\ made' = made \cup {c} /\ fn' \in [Computeds -> Getters \cup {None}]
      /\ fn'[c] = g /\ \A a \in Computeds : a # c => fn'[a] = fn[a]
  BY <1>1, Subscribed DEF IInv, TypeOK, GraphType
<1>3. GraphType'
  BY <1>1, <1>2, Subscribed DEF GraphType
<1>4. HistType'
  BY <1>1, <1>2 DEF IInv, TypeOK, HistType
<1>5. Wired'
  BY <1>1, <1>2, WiredOn
<1>6. /\ SubsMade' /\ made \subseteq made'
      /\ \A a \in made \cap Derived : deps'[a] = deps[a]
      /\ \A d \in Nodes : Len(subs[d]) <= Len(subs'[d])
  BY <1>1, Subscribed
<1> QED BY <1>1, <1>3, <1>4, <1>5, <1>6, Grows

LEMMA EffectGood ==
  ASSUME IInv, NEW e \in Effects, NEW ds \in Wirings, Effect(e, ds)
  PROVE  IInv'
<1>1. /\ Subscribe(e, ds) /\ fn' = fn /\ e \in Derived
      /\ UNCHANGED <<locked, stack, hurt>> /\ DataType'
      /\ active' = active \cup {e}
      /\ seen' = [seen EXCEPT ![e] = Meanings(ds)]
  BY SameData DEF Effect, Derived
<1>2. made' = made \cup {e}
  BY <1>1, Subscribed
<1>3. GraphType'
  BY <1>1, <1>2, Subscribed DEF IInv, TypeOK, GraphType
<1>4. DOMAIN seen' = DOMAIN seen
  BY <1>1
<1>5. HistType'
  BY <1>1, <1>2, <1>4 DEF IInv, TypeOK, HistType
<1>6. Wired'
  BY <1>1, Kinds, WiredOn
<1>7. /\ SubsMade' /\ made \subseteq made'
      /\ \A a \in made \cap Derived : deps'[a] = deps[a]
      /\ \A d \in Nodes : Len(subs[d]) <= Len(subs'[d])
  BY <1>1, Subscribed
<1> QED BY <1>1, <1>3, <1>5, <1>6, <1>7, Grows

(* What is left of the subscriptions when an effect is stopped. *)
LEMMA Dropped ==
  ASSUME IInv, NEW e \in Effects, Stop(e), NEW d \in Nodes
  PROVE  /\ Times(deps[e], d) \in Nat /\ Len(subs[d]) \in Nat
         /\ subs'[d] \in Seq(Derived)
         /\ Len(subs'[d]) = IF Times(deps[e], d) < Len(subs[d])
                            THEN Len(subs[d]) - Times(deps[e], d) ELSE 0
         /\ \A k \in 1 .. Len(subs'[d]) :
              /\ k + Times(deps[e], d) \in 1 .. Len(subs[d])
              /\ subs'[d][k] = subs[d][k + Times(deps[e], d)]
<1> DEFINE n == Times(deps[e], d)
           q == subs[d]
<1>1. subs'[d] = SubSeq(q, 1 + n, Len(q))
  BY DEF Stop
<1>2. deps[e] \in Seq(Nodes) /\ q \in Seq(Derived)
  BY DEF IInv, TypeOK, GraphType, Derived
<1>3. n \in Nat /\ Len(q) \in Nat
  BY <1>2, TimesType, LenProperties
<1> HIDE DEF n, q
<1>4. 1 + n \in Nat \ {0}
  BY <1>3
<1>5. /\ subs'[d] \in Seq(Derived)
      /\ Len(subs'[d]) = IF 1 + n <= Len(q) THEN Len(q) - (1 + n) + 1 ELSE 0
      /\ \A k \in 1 .. Len(subs'[d]) : subs'[d][k] = q[(1 + n) + k - 1]
  BY <1>1, <1>2, <1>3, <1>4, Part
<1>6. Len(subs'[d]) = IF n < Len(q) THEN Len(q) - n ELSE 0
  BY <1>3, <1>5
<1>7. ASSUME NEW k \in 1 .. Len(subs'[d])
      PROVE  k + n \in 1 .. Len(q) /\ subs'[d][k] = q[k + n]
  <2>1. (1 + n) + k - 1 = k + n /\ k + n \in 1 .. Len(q)
    BY <1>3, <1>6
  <2> QED BY <1>5, <2>1
<1> QED BY <1>3, <1>5, <1>6, <1>7 DEF n, q

LEMMA StopGood ==
  ASSUME IInv, NEW e \in Effects, Stop(e)
  PROVE  IInv'
<1>1. /\ Idle /\ active' = active \ {e}
      /\ subs' = [d \in Nodes |->
                    SubSeq(subs[d], 1 + Times(deps[e], d), Len(subs[d]))]
      /\ UNCHANGED <<made, deps, fn, locked, stack, seen, hurt>> /\ DataType'
  BY SameData DEF Stop
<1>2. subs' \in [Nodes -> Seq(Derived)]
  BY <1>1, Dropped
<1>3. GraphType' /\ HistType'
  BY <1>1, <1>2 DEF IInv, TypeOK, GraphType, HistType
<1>4. Wired'
  BY <1>1 DEF IInv, Wired
<1>5. SubsMade'
  <2> SUFFICES ASSUME NEW d \in Nodes, NEW k \in 1 .. Len(subs'[d])
               PROVE  subs'[d][k] \in made /\ Level[d] <= Level[subs'[d][k]]
    BY <1>1 DEF SubsMade
  <2>1. /\ k + Times(deps[e], d) \in 1 .. Len(subs[d])
        /\ subs'[d][k] = subs[d][k + Times(deps[e], d)]
    BY Dropped
  <2> QED BY <2>1 DEF IInv, SubsMade
<1>6. stack' = <<>> /\ locked' = {}
  <2>1. stack = <<>> /\ Len(<<>>) = 0
    BY <1>1, EmptySeq DEF Idle
  <2>2. \A c \in locked : FALSE
    BY <2>1 DEF IInv, CallsGood, Held
  <2> QED BY <1>1, <2>1, <2>2
<1>7. CallsGood'
  BY <1>6, Empty DEF CallsGood
<1>8. CallType'
  BY <1>6, Empty DEF CallType, Good
<1> QED BY <1>1, <1>3, <1>4, <1>5, <1>7, <1>8 DEF IInv, TypeOK
-----------------------------------------------------------------------------
(* The invariant holds. *)

LEMMA InitGood ==
  ASSUME Init
  PROVE  IInv
<1>1. <<>> \in Seq(Nodes) /\ <<>> \in Seq(Derived) /\ Len(<<>>) = 0
  BY EmptySeq
<1>2. GraphType
  BY <1>1 DEF Init, GraphType
<1>3. 1 \in 0 .. (VersionModulus - 1)
  BY BoundsAssumption
<1>4. DataType
  BY <1>3, Kinds, DataAssumption DEF Init, DataType
<1>5. CallsGood /\ stack \in Seq(FrameSet)
  BY Empty DEF Init, CallsGood, Good
<1>6. CallType
  BY <1>5 DEF Init, CallType
<1>7. HistType
  BY DEF Init, HistType
<1>8. Wired
  BY DEF Init, Wired
<1>9. \A d \in Nodes : \A k \in 1 .. Len(subs[d]) : FALSE
  BY <1>1 DEF Init
<1>10. SubsMade
  BY <1>9 DEF SubsMade
<1> QED BY <1>2, <1>4, <1>5, <1>6, <1>7, <1>8, <1>10 DEF IInv, TypeOK

LEMMA CallGood ==
  ASSUME IInv, Call
  PROVE  IInv'
BY SignalGood, CallSetValueGood, ComputedGood, EffectGood, StopGood,
   CallValueGood DEF Call

LEMMA StepGood ==
  ASSUME IInv, Step
  PROVE  IInv'
BY ReadCleanGood, ReadDirtyGood, ReturnGood, WriteSameGood, WriteGood,
   MarkComputedGood, MarkEffectGood, MarkEndGood, WriteEndGood, PullArgGood,
   PullDepGood, PullSameGood, PullGetGood, GetPanicGood, PullRunGood,
   CallReturnGood, CallPanicGood DEF Step

LEMMA NextGood ==
  ASSUME IInv, [Next]_vars
  PROVE  IInv'
<1>1. CASE Next
  BY <1>1, CallGood, StepGood DEF Next
<1>2. CASE UNCHANGED vars
  <2>1. /\ UNCHANGED graphVars /\ DataType' /\ HistType'
        /\ stack' = stack /\ locked' = locked
    BY <1>2, SameData, SameHist DEF vars, graphVars
  <2>2. Good(stack', made, deps, subs) /\ Held(stack', locked')
        /\ locked' \in SUBSET Nodes
    BY <2>1 DEF IInv, TypeOK, CallType, CallsGood
  <2> QED BY <2>1, <2>2, Quiet
<1> QED BY <1>1, <1>2

LEMMA Invariance == Spec => []IInv
<1>1. Init => IInv
  BY InitGood
<1>2. IInv /\ [Next]_vars => IInv'
  BY NextGood
<1> QED BY <1>1, <1>2, PTL DEF Spec

(* Every call in progress, cell and subscription is of its type, whatever  *)
(* the callbacks do and whenever they panic (foo/signals.go:33-126).       *)
THEOREM TypeCorrect == Spec => []TypeOK
<1>1. IInv => TypeOK
  BY DEF IInv
<1> QED BY <1>1, Invariance, PTL

LEMMA Reentry ==
  ASSUME IInv, Orderly
  PROVE  NoSelfDeadlock
<1> SUFFICES ASSUME Is("lock"), Top.cell \in locked
             PROVE  FALSE
  BY DEF NoSelfDeadlock
<1>1. ~Idle /\ Top.at = "lock"
  BY DEF Is
<1>2. /\ stack # <<>> /\ stack \in Seq(FrameSet) /\ Top \in FrameSet
      /\ Formed(Top, made, deps, subs)
  BY <1>1, TheTop DEF IInv, CallsGood, Good
<1>3. Top.op \in {"Value", "SetValue"} /\ Top.cell \in Cells
  BY <1>1, <1>2 DEF Formed, FrameSet
<1>4. PICK k \in 1 .. Len(stack) :
        stack[k].cell = Top.cell /\ Holds(stack[k])
  BY DEF IInv, CallsGood, Held
<1>5. /\ Len(stack) \in Nat \ {0} /\ Len(stack) \in 1 .. Len(stack)
      /\ \A l \in 1 .. Len(stack) :
           l = Len(stack) \/ l \in 1 .. (Len(stack) - 1)
  BY <1>2, Last
<1>6. ~Holds(Top)
  BY <1>1 DEF Holds
<1>7. k < Len(stack)
  BY <1>4, <1>5, <1>6 DEF Top
<1>8. Leads(stack[k], Top)
  BY <1>5, <1>7 DEF IInv, CallsGood, Good, Top
<1>9. CASE stack[k].op = "Value"
  BY <1>3, <1>8, <1>9 DEF Leads
<1>10. CASE stack[k].op = "SetValue"
  <2>1. stack[k] \in FrameSet /\ Formed(stack[k], made, deps, subs)
    BY <1>2, ElementOfSeq DEF IInv, CallsGood, Good
  <2>2. Top.cell \in Signals
    BY <1>4, <1>10, <2>1 DEF Formed
  <2>3. Upward(Top)
    BY <1>3, <2>2 DEF Upward
  <2>4. Level[Top.cell] < Level[Top.cell]
    BY <1>3, <1>4, <1>8, <1>10, <2>3 DEF Leads
  <2>5. Level[Top.cell] \in Nat
    BY <1>3, BoundsAssumption
  <2> QED BY <2>4, <2>5
<1> QED BY <1>4, <1>9, <1>10 DEF Holds

(* When the callbacks use signals of higher levels only, no call ever      *)
(* waits for a mutex that its own goroutine holds: SetValue() keeps its    *)
(* mutex while effects run (foo/signals.go:34), and nothing else orders    *)
(* these locks.                                                            *)
THEOREM NoSelfDeadlockAlways == ASSUME Orderly PROVE Spec => []NoSelfDeadlock
<1>1. IInv => NoSelfDeadlock
  BY Reentry
<1> QED BY <1>1, Invariance, PTL
-----------------------------------------------------------------------------
(* What is up to date.  Sums of versions. *)

LEMMA SumsAre == \A ds, vs : Sums(ds, vs) = PartSums(ds, vs)
BY DEF Sums, PartSums

LEMMA SumsUnfold ==
  ASSUME NEW ds \in Seq(Nodes), NEW vs \in [Nodes -> Nat]
  PROVE  /\ Sums(ds, vs)[0] = 0 /\ Sums(ds, vs) \in [0 .. Len(ds) -> Nat]
         /\ \A n \in 1 .. Len(ds) :
              Sums(ds, vs)[n] = Sums(ds, vs)[n - 1] + vs[ds[n]]
<1>0. PICK S : S = Sums(ds, vs)
  OBVIOUS
<1>1. S = PartSums(ds, vs)
  BY <1>0, SumsAre
<1> QED BY <1>0, <1>1, PartSumsUnfold

(* A sum of versions is as large as any of its parts, and grows with them. *)
LEMMA SumsGrow ==
  ASSUME NEW ds \in Seq(Nodes), NEW vs \in [Nodes -> Nat],
         NEW ws \in [Nodes -> Nat],
         \A j \in 1 .. Len(ds) : vs[ds[j]] <= ws[ds[j]]
  PROVE  /\ \A n \in 0 .. Len(ds) : Sums(ds, vs)[n] <= Sums(ds, ws)[n]
         /\ \A n \in 0 .. Len(ds) :
              (\E j \in 1 .. n : vs[ds[j]] < ws[ds[j]])
                => Sums(ds, vs)[n] < Sums(ds, ws)[n]
BY SumsAre, PartSumsGrow

(* A sum depends on its parts only. *)
LEMMA SumsSame ==
  ASSUME NEW ds \in Seq(Nodes), NEW vs \in [Nodes -> Nat],
         NEW ws \in [Nodes -> Nat],
         NEW m \in 0 .. Len(ds), \A j \in 1 .. m : vs[ds[j]] = ws[ds[j]]
  PROVE  Sums(ds, vs)[m] = Sums(ds, ws)[m]
<1>1. SameParts(Nodes, ds, vs, ws, m)
  BY DEF SameParts
<1> QED BY <1>1, PartSumsSame, SumsAre

(* The parts of a sum that have been added up so far. *)
LEMMA SumsParts ==
  ASSUME NEW ds \in Seq(Nodes), NEW vs \in [Nodes -> Nat], NEW n \in 0 .. Len(ds)
  PROVE  Sums(ds, vs)[n] <= Sums(ds, vs)[Len(ds)]
BY SumsAre, PartSumsParts
-----------------------------------------------------------------------------
(* The invariant: what has not been reached by the marks yet.              *)

(* What subscribes: an effect that was stopped does not. *)
Watching == (made \cap Computeds) \cup active

(* The marks that the loops in progress have still to make, and whatever   *)
(* these lead to.                                                          *)
WillMark(f, x) == f.at = "mark" /\ \E k \in f.arg .. f.last : subs[f.cell][k] = x
Roots == {x \in Derived : \E i \in 1 .. Len(stack) : WillMark(stack[i], x)}
Spreads(U) ==
  \A x \in Watching : (\E j \in 1 .. Len(deps[x]) : deps[x][j] \in U) => x \in U
Covers(U) == Roots \subseteq U /\ Spreads(U)
Pending == {x \in Derived : \A U \in SUBSET Derived : Covers(U) => x \in U}

(* The cells that are being evaluated. *)
Pulls(f, x) == f.at = "pull" /\ f.cell = x
Pulling == {x \in Derived : \E i \in 1 .. Len(stack) : Pulls(stack[i], x)}

(* A dependency that can be read at once, and is not being evaluated. *)
Ready(d) == ~Stale(d) /\ d \notin Pulling

Vals(ds) == [j \in DOMAIN ds |-> val[ds[j]]]
Agrees(c) ==
  IF c \in Computeds THEN val[c] = Apply(fn[c], Vals(deps[c]))
                     ELSE seen[c] = Vals(deps[c])

(* Who depends on a cell subscribes to it, and nobody else does; a cell    *)
(* that has not been created has no dependencies, no sum and is dirty.     *)
Linked ==
  \A x \in Watching : \A j \in 1 .. Len(deps[x]) :
    \E k \in 1 .. Len(subs[deps[x][j]]) : subs[deps[x][j]][k] = x
SubsTrue ==
  \A d \in Nodes : \A k \in 1 .. Len(subs[d]) :
    \E j \in 1 .. Len(deps[subs[d][k]]) : deps[subs[d][k]][j] = d
Blank ==
  \A c \in Derived \ made :
    deps[c] = <<>> /\ vsum[c] = 0 /\ (c \in Computeds => isDirty[c])

(* No cell depends on itself, and the cells being evaluated depend each on *)
(* the next.                                                               *)
RankedGraph(rank, n) ==
  /\ \A c \in Cells : rank[c] < n
  /\ \A c \in Derived : \A j \in 1 .. Len(deps[c]) : rank[deps[c][j]] < rank[c]
Falls(rank, s) ==
  \A k, l \in 1 .. Len(s) :
    k < l /\ s[k].at = "pull" /\ s[l].at = "pull" => rank[s[l].cell] < rank[s[k].cell]
Ordered ==
  \E rank \in [Cells -> Nat], n \in Nat : RankedGraph(rank, n) /\ Falls(rank, stack)

(* Above an evaluation there are only evaluations of computeds.  What one  *)
(* has collected so far is what there is, and stays so until it has        *)
(* collected all.  A call that waits has not begun its loop.               *)
Suffix(s) ==
  \A k, l \in 1 .. Len(s) :
    k < l /\ s[k].at = "pull" => s[l].at = "pull" /\ s[l].cell \in Computeds
Starts(s) == \A k \in 1 .. Len(s) : s[k].at = "lock" => s[k].arg = 1
Collects(f) ==
  /\ f.sum = Sums(deps[f.cell], ver)[f.arg - 1]
  /\ \A j \in 1 .. (f.arg - 1) :
       Ready(deps[f.cell][j]) /\ f.args[j] = val[deps[f.cell][j]]
Gathered ==
  \A k \in 1 .. Len(stack) : stack[k].at = "pull" => Collects(stack[k])

(* A sum that has not grown belongs to the values that there are. *)
Positive == \A c \in Nodes : ver[c] >= 1
SumsTell ==
  \A c \in made \cap Derived :
    /\ vsum[c] <= Total(c)
    /\ vsum[c] = Total(c) => Touched(c) \/ Agrees(c)

(* A computed that is not marked, being evaluated or about to be marked    *)
(* agrees with dependencies that are not marked or being evaluated either; *)
(* an effect that no mark will reach has been told.                        *)
FreshAt(c) ==
  \/ Touched(c) \/ isDirty[c] \/ c \in Pulling \/ c \in Pending
  \/ (Agrees(c) /\ \A j \in 1 .. Len(deps[c]) : Ready(deps[c][j]))
Fresh == \A c \in made \cap Computeds : FreshAt(c)
ToldAt(e) ==
  Touched(e) \/ e \in Pulling \/ e \in Pending \/ seen[e] = Meanings(deps[e])
Told == \A e \in active : ToldAt(e)

(* Marks, and the evaluations of effects, come from a write to a signal    *)
(* that the cell depends on.                                               *)
CausedAt(s, k) ==
  s[k].op = "markDirty" \/ (s[k].op = "value" /\ s[k].cell \in Effects) =>
    \E i \in 1 .. (k - 1) :
      s[i].op = "SetValue" /\ s[i].cell \in Sources[s[k].cell]
Caused(s) == \A k \in 1 .. Len(s) : CausedAt(s, k)

InShape == Ordered /\ Suffix(stack) /\ Starts(stack) /\ Caused(stack)
GraphFit == Linked /\ SubsTrue
CallsFit == InShape /\ Gathered
DataFit == Blank /\ Positive /\ SumsTell /\ Fresh /\ Told
UInv == GraphFit /\ CallsFit /\ DataFit
-----------------------------------------------------------------------------
(* The recursive functions of the model. *)

LEMMA GraphFacts ==
  ASSUME IInv
  PROVE  /\ \A c \in Derived : /\ deps[c] \in Seq(Nodes) /\ Len(deps[c]) \in Nat
                               /\ DOMAIN deps[c] = 1 .. Len(deps[c])
                               /\ \A j \in 1 .. Len(deps[c]) : deps[c][j] \in Nodes
         /\ \A c \in made \cap Derived :
              \A j \in 1 .. Len(deps[c]) : deps[c][j] \in made \cap Nodes
         /\ \A d \in Nodes : /\ subs[d] \in Seq(Derived) /\ Len(subs[d]) \in Nat
                             /\ \A k \in 1 .. Len(subs[d]) : subs[d][k] \in Derived
         /\ Watching \subseteq made \cap Derived /\ Nodes \subseteq Cells
         /\ ver \in [Nodes -> Nat] /\ made \subseteq Cells
         /\ Derived \subseteq Cells /\ Computeds \subseteq Derived
<1>1. deps \in [Derived -> Seq(Nodes)] /\ subs \in [Nodes -> Seq(Derived)]
      /\ made \in SUBSET Cells /\ active \in SUBSET (made \cap Effects)
      /\ ver \in [Nodes -> 0 .. (VersionModulus - 1)]
  BY DEF IInv, TypeOK, GraphType, HistType, DataType
<1>2. \A c \in Derived : /\ deps[c] \in Seq(Nodes) /\ Len(deps[c]) \in Nat
                         /\ DOMAIN deps[c] = 1 .. Len(deps[c])
                         /\ \A j \in 1 .. Len(deps[c]) : deps[c][j] \in Nodes
  BY <1>1, LenProperties, ElementOfSeq
<1>3. \A d \in Nodes : /\ subs[d] \in Seq(Derived) /\ Len(subs[d]) \in Nat
                       /\ \A k \in 1 .. Len(subs[d]) : subs[d][k] \in Derived
  BY <1>1, LenProperties, ElementOfSeq
<1>4. \A c \in made \cap Derived :
        \A j \in 1 .. Len(deps[c]) : deps[c][j] \in made \cap Nodes
  BY <1>2 DEF IInv, Wired
<1>5. ver \in [Nodes -> Nat]
  BY <1>1
<1> QED BY <1>1, <1>2, <1>3, <1>4, <1>5 DEF Watching, Derived, Nodes, Cells

(* The signals a cell depends on are those its dependencies depend on.     *)
SourcesSolve ==
  \A c \in Cells :
    Sources[c] = IF c \in Signals THEN {c}
                 ELSE UNION {Sources[deps[c][j]] : j \in DOMAIN deps[c]}

LEMMA SourcesUnfold == IInv /\ Ordered => SourcesSolve
<1> SUFFICES ASSUME IInv, Ordered PROVE SourcesSolve
  OBVIOUS
<1> DEFINE ds == [c \in Cells |-> IF c \in Signals THEN <<>> ELSE deps[c]]
           V == SUBSET Signals
           G == [c \in Cells |-> [a \in [DOMAIN ds[c] -> V] |->
                  IF c \in Signals THEN {c} ELSE UNION {a[j] : j \in DOMAIN ds[c]}]]
           Fits(f) == f = [c \in Cells |->
                  IF c \in Signals THEN {c}
                  ELSE UNION {f[deps[c][j]] : j \in DOMAIN deps[c]}]
<1>1. PICK rank \in [Cells -> Nat], n \in Nat : RankedGraph(rank, n)
  BY DEF Ordered
<1>2. \A c \in Cells \ Signals :
        c \in Derived /\ ds[c] = deps[c] /\ DOMAIN deps[c] = 1 .. Len(deps[c])
  BY GraphFacts DEF Cells
<1>3. \A c \in Cells : \A j \in DOMAIN ds[c] :
        ds[c][j] \in Cells /\ rank[ds[c][j]] < rank[c]
  <2> TAKE c \in Cells
  <2>1. CASE c \in Signals
    BY <2>1
  <2>2. CASE c \notin Signals
    BY <2>2, <1>1, <1>2, GraphFacts DEF RankedGraph
  <2> QED BY <2>1, <2>2
<1>4. \A c \in Cells : \A a \in [DOMAIN ds[c] -> V] : G[c][a] \in V
  <2> TAKE c \in Cells
  <2> TAKE a \in [DOMAIN ds[c] -> V]
  <2>1. G[c][a] = IF c \in Signals THEN {c} ELSE UNION {a[j] : j \in DOMAIN ds[c]}
    OBVIOUS
  <2>2. \A j \in DOMAIN ds[c] : a[j] \subseteq Signals
    OBVIOUS
  <2> HIDE DEF ds, G
  <2> QED BY <2>1, <2>2
<1>5. {} \in V
  OBVIOUS
<1>6. PICK f \in [Cells -> V] : Solves(Cells, ds, V, G, f)
  <2>1. Ranked(Cells, ds, rank) /\ Giving(Cells, ds, V, G)
    BY <1>3, <1>4 DEF Ranked, Giving
  <2>2. \A c \in Cells : rank[c] < n
    BY <1>1 DEF RankedGraph
  <2> HIDE DEF ds, G, V
  <2> QED BY <1>5, <2>1, <2>2, Solution
<1>7. Fits(f)
  <2>1. ASSUME NEW c \in Cells
        PROVE  f[c] = IF c \in Signals THEN {c}
                      ELSE UNION {f[deps[c][j]] : j \in DOMAIN deps[c]}
    <3> DEFINE a == [j \in DOMAIN ds[c] |-> f[ds[c][j]]]
    <3>1. a \in [DOMAIN ds[c] -> V]
      BY <1>3
    <3>2. f[c] = G[c][a]
      <4> HIDE DEF ds, G, V
      <4> QED BY <1>6, <3>1 DEF Solves
    <3>3. G[c][a] = IF c \in Signals THEN {c} ELSE UNION {a[j] : j \in DOMAIN ds[c]}
      BY <3>1
    <3>4. CASE c \in Signals
      BY <3>2, <3>3, <3>4
    <3>5. CASE c \notin Signals
      <4>1. ds[c] = deps[c]
        BY <1>2, <3>5
      <4>2. \A j \in DOMAIN ds[c] : a[j] = f[ds[c][j]]
        OBVIOUS
      <4>3. UNION {a[j] : j \in DOMAIN ds[c]}
              = UNION {f[deps[c][j]] : j \in DOMAIN deps[c]}
        <5> HIDE DEF ds, a
        <5> QED BY <4>1, <4>2
      <4> HIDE DEF G, a, ds
      <4> QED BY <3>2, <3>3, <3>5, <4>3
    <3> QED BY <3>4, <3>5
  <2> QED BY <2>1
<1>8. Sources = CHOOSE g : Fits(g)
  BY DEF Sources
<1>9. Fits(Sources)
  <2> HIDE DEF Fits
  <2> QED BY <1>7, <1>8
<1> QED BY <1>9 DEF SourcesSolve

(* Meaning solves the equations of the cells that have been created.       *)
MeaningSolves ==
  \A c \in made \cap Nodes :
    Meaning[c] = IF c \in Signals THEN val[c]
                 ELSE Apply(fn[c], Meanings(deps[c]))

LEMMA MeaningUnfolds == IInv /\ Ordered /\ Blank => MeaningSolves
<1> SUFFICES ASSUME IInv, Ordered, Blank PROVE MeaningSolves
  OBVIOUS
<1> DEFINE M == made \cap Nodes
           ds == [c \in M |-> IF c \in Signals THEN <<>> ELSE deps[c]]
           G == [c \in M |-> [a \in [DOMAIN ds[c] -> Values] |->
                  IF c \in Signals THEN val[c] ELSE Apply(fn[c], a)]]
           Fits(f) == f = [c \in Nodes |->
                  IF c \in Signals THEN val[c]
                  ELSE Apply(fn[c], [j \in DOMAIN deps[c] |-> f[deps[c][j]]])]
<1>1. PICK rank \in [Cells -> Nat], n \in Nat : RankedGraph(rank, n)
  BY DEF Ordered
<1>2. \A c \in M : rank[c] \in Nat /\ rank[c] < n
  BY <1>1, GraphFacts DEF RankedGraph
<1>3. ASSUME NEW c \in M \ Signals
      PROVE  /\ c \in made \cap Derived /\ c \in Computeds
             /\ ds[c] = deps[c] /\ DOMAIN deps[c] = 1 .. Len(deps[c])
  BY GraphFacts DEF Nodes, Derived
<1>4. \A c \in M : \A j \in DOMAIN ds[c] :
        ds[c][j] \in M /\ rank[ds[c][j]] < rank[c]
  <2> TAKE c \in M
  <2>1. CASE c \in Signals
    BY <2>1
  <2>2. CASE c \notin Signals
    BY <2>2, <1>1, <1>3, GraphFacts DEF RankedGraph
  <2> QED BY <2>1, <2>2
<1>5. \A c \in M : \A a \in [DOMAIN ds[c] -> Values] : G[c][a] \in Values
  <2> TAKE c \in M
  <2> TAKE a \in [DOMAIN ds[c] -> Values]
  <2>1. CASE c \in Signals
    BY <2>1 DEF IInv, TypeOK, DataType
  <2>2. CASE c \notin Signals
    <3>1. deps[c] \in Wirings /\ fn[c] \in Getters
      BY <1>3, <2>2 DEF IInv, Wired
    <3> QED BY <1>3, <2>2, <3>1, DataAssumption
  <2> QED BY <2>1, <2>2
<1>6. Zero \in Values
  BY DataAssumption
<1>7. PICK f \in [M -> Values] : Solves(M, ds, Values, G, f)
  <2>1. Ranked(M, ds, rank) /\ Giving(M, ds, Values, G)
    BY <1>2, <1>4, <1>5 DEF Ranked, Giving
  <2> HIDE DEF M, ds, G
  <2> QED BY <1>2, <1>6, <2>1, Solution
<1>8. \A c \in M :
        f[c] = IF c \in Signals THEN val[c]
               ELSE Apply(fn[c], [j \in DOMAIN deps[c] |-> f[deps[c][j]]])
  <2> TAKE c \in M
  <2>1. [j \in DOMAIN ds[c] |-> f[ds[c][j]]] \in [DOMAIN ds[c] -> Values]
    BY <1>4
  <2>2. f[c] = IF c \in Signals THEN val[c]
               ELSE Apply(fn[c], [j \in DOMAIN ds[c] |-> f[ds[c][j]]])
    BY <1>7, <2>1 DEF Solves
  <2> QED BY <1>3, <2>2
<1> DEFINE z == [j \in DOMAIN <<>> |-> Zero]
           g == [c \in Nodes |-> IF c \in made THEN f[c]
                                 ELSE IF c \in Signals THEN val[c]
                                 ELSE Apply(fn[c], z)]
<1>9. ASSUME NEW c \in Nodes
      PROVE  g[c] = IF c \in Signals THEN val[c]
                    ELSE Apply(fn[c], [j \in DOMAIN deps[c] |-> g[deps[c][j]]])
  <2>1. CASE c \in made /\ c \in Signals
    BY <1>8, <2>1
  <2>2. CASE c \in made /\ c \notin Signals
    <3>1. \A j \in DOMAIN deps[c] : deps[c][j] \in M
      BY <1>3, <2>2, GraphFacts
    <3>2. [j \in DOMAIN deps[c] |-> g[deps[c][j]]]
            = [j \in DOMAIN deps[c] |-> f[deps[c][j]]]
      BY <3>1
    <3>3. g[c] = f[c]
      BY <2>2
    <3> HIDE DEF g
    <3> QED BY <1>8, <2>2, <3>2, <3>3
  <2>3. CASE c \notin made /\ c \in Signals
    BY <2>3
  <2>4. CASE c \notin made /\ c \notin Signals
    <3>1. deps[c] = <<>>
      BY <2>4 DEF Blank, Nodes, Derived
    <3>2. [j \in DOMAIN deps[c] |-> g[deps[c][j]]] = z
      BY <3>1
    <3>3. g[c] = Apply(fn[c], z)
      BY <2>4
    <3> HIDE DEF g, z
    <3> QED BY <2>4, <3>2, <3>3
  <2> QED BY <2>1, <2>2, <2>3, <2>4
<1>10. Fits(g)
  <2>1. g = [c \in Nodes |-> g[c]]
    OBVIOUS
  <2> HIDE DEF g
  <2> QED BY <1>9, <2>1
<1>11. Meaning = CHOOSE h : Fits(h)
  BY DEF Meaning
<1>12. Fits(Meaning)
  <2> HIDE DEF Fits, g
  <2> QED BY <1>10, <1>11
<1> QED BY <1>12 DEF Meanings, MeaningSolves

(* Induction along the dependencies of the cells that have been created.   *)
LEMMA Downward ==
  ASSUME IInv, Ordered, NEW T, \A s \in made \cap Signals : s \in T,
         \A c \in made \cap Derived :
           (\A j \in 1 .. Len(deps[c]) : deps[c][j] \in T) => c \in T
  PROVE  made \subseteq T
<1> DEFINE ds == [c \in made |-> IF c \in Signals THEN <<>> ELSE deps[c]]
<1>1. PICK rank \in [Cells -> Nat], n \in Nat : RankedGraph(rank, n)
  BY DEF Ordered
<1>2. \A c \in made \ Signals :
        /\ c \in made \cap Derived /\ ds[c] = deps[c]
        /\ DOMAIN deps[c] = 1 .. Len(deps[c])
  BY GraphFacts DEF Cells
<1>3. \A c \in made : c \in Signals => DOMAIN ds[c] = {}
  <2>1. DOMAIN <<>> = {}
    OBVIOUS
  <2> QED BY <2>1
<1>4. ASSUME NEW c \in made
      PROVE  /\ rank[c] \in Nat
             /\ \A j \in DOMAIN ds[c] : ds[c][j] \in made /\ rank[ds[c][j]] < rank[c]
  <2>1. rank[c] \in Nat
    BY GraphFacts
  <2>2. CASE c \in Signals
    BY <1>3, <2>1, <2>2
  <2>3. CASE c \notin Signals
    BY <2>1, <2>3, <1>1, <1>2, GraphFacts DEF RankedGraph
  <2> QED BY <2>2, <2>3
<1>5. \A c \in made : (\A j \in DOMAIN ds[c] : ds[c][j] \in T) => c \in T
  BY <1>2
<1> HIDE DEF ds
<1>6. Ranked(made, ds, rank) /\ Hereditary(made, ds, T)
  BY <1>4, <1>5 DEF Ranked, Hereditary
<1> QED BY <1>6, Descent

(* What the cells mean does not change with new cells or values of others. *)
LEMMA MeaningSame ==
  ASSUME IInv, Ordered, Blank, IInv', Ordered', Blank', made \subseteq made',
         \A c \in made \cap Derived : deps'[c] = deps[c],
         \A c \in made \cap Computeds : fn'[c] = fn[c],
         NEW X, \A c \in made \cap Derived :
                  (\E j \in 1 .. Len(deps[c]) : deps[c][j] \in X) => c \in X,
         \A s \in made \cap Signals : s \in X \/ val'[s] = val[s]
  PROVE  /\ \A c \in made \cap Nodes : c \in X \/ Meaning'[c] = Meaning[c]
         /\ \A c \in made \cap Derived :
              c \in X \/ Meanings(deps[c])' = Meanings(deps[c])
<1> DEFINE T == {c \in made : c \in Nodes => c \in X \/ Meaning'[c] = Meaning[c]}
<1>1. MeaningSolves
  BY MeaningUnfolds
<1>2. MeaningSolves'
  <2>1. (IInv /\ Ordered /\ Blank)' => MeaningSolves'
    BY MeaningUnfolds, PTL
  <2> QED BY <2>1
<1>3. \A s \in made \cap Signals : s \in T
  <2> TAKE s \in made \cap Signals
  <2>1. s \in made' \cap Nodes /\ s \in made \cap Nodes
    BY DEF Nodes
  <2>2. Meaning[s] = val[s] /\ Meaning'[s] = val'[s]
    BY <1>1, <1>2, <2>1 DEF MeaningSolves
  <2> QED BY <2>2
<1>4. ASSUME NEW c \in made \cap Derived, c \notin X,
             \A j \in 1 .. Len(deps[c]) : deps[c][j] \in T
      PROVE  Meanings(deps[c])' = Meanings(deps[c])
  <2>1. /\ DOMAIN deps[c] = 1 .. Len(deps[c]) /\ deps'[c] = deps[c]
        /\ \A j \in 1 .. Len(deps[c]) : deps[c][j] \in made \cap Nodes
    BY GraphFacts
  <2>2. \A j \in DOMAIN deps[c] : Meaning'[deps[c][j]] = Meaning[deps[c][j]]
    BY <1>4, <2>1
  <2> QED BY <2>1, <2>2 DEF Meanings
<1>5. ASSUME NEW c \in made \cap Derived,
             \A j \in 1 .. Len(deps[c]) : deps[c][j] \in T
      PROVE  c \in T
  <2> SUFFICES ASSUME c \in Nodes, c \notin X PROVE Meaning'[c] = Meaning[c]
    OBVIOUS
  <2>1. c \in Computeds /\ c \notin Signals /\ c \in made'
    BY Kinds DEF Nodes, Derived
  <2>2. Meaning[c] = Apply(fn[c], Meanings(deps[c]))
    BY <1>1, <2>1 DEF MeaningSolves
  <2>3. Meaning'[c] = Apply(fn'[c], Meanings(deps[c])')
    BY <1>2, <2>1 DEF MeaningSolves
  <2>4. Meanings(deps[c])' = Meanings(deps[c]) /\ fn'[c] = fn[c]
    BY <1>4, <1>5, <2>1
  <2> QED BY <2>2, <2>3, <2>4
<1>6. made \subseteq T
  <2> HIDE DEF T
  <2> QED BY <1>3, <1>5, Downward
<1>7. ASSUME NEW c \in made \cap Derived, c \notin X
      PROVE  Meanings(deps[c])' = Meanings(deps[c])
  <2>1. \A j \in 1 .. Len(deps[c]) : deps[c][j] \in made
    BY GraphFacts
  <2> HIDE DEF T
  <2> QED BY <1>4, <1>6, <1>7, <2>1
<1> QED BY <1>6, <1>7

(* What depends on a touched cell is touched. *)
LEMMA TouchedUp ==
  ASSUME IInv, Ordered, NEW c \in Derived, NEW j \in 1 .. Len(deps[c])
  PROVE  /\ Sources[deps[c][j]] \subseteq Sources[c]
         /\ Touched(deps[c][j]) => Touched(c)
<1>1. c \in Cells /\ c \notin Signals /\ DOMAIN deps[c] = 1 .. Len(deps[c])
  BY GraphFacts, Kinds DEF Derived
<1>2. Sources[c] = UNION {Sources[deps[c][i]] : i \in DOMAIN deps[c]}
  BY <1>1, SourcesUnfold DEF SourcesSolve
<1>3. Sources[deps[c][j]] \subseteq Sources[c]
  BY <1>1, <1>2
<1> QED BY <1>3 DEF Touched

(* New cells do not change what those there are depend on. *)
LEMMA SourcesSame ==
  ASSUME IInv, Ordered, IInv', Ordered', made \subseteq made',
         \A c \in made \cap Derived : deps'[c] = deps[c]
  PROVE  \A c \in made : Sources'[c] = Sources[c]
<1> DEFINE T == {c \in made : Sources'[c] = Sources[c]}
<1>1. SourcesSolve
  BY SourcesUnfold
<1>2. SourcesSolve'
  <2>1. (IInv /\ Ordered)' => SourcesSolve'
    BY SourcesUnfold, PTL
  <2> QED BY <2>1
<1>3. \A s \in made \cap Signals : s \in T
  BY <1>1, <1>2 DEF SourcesSolve, Cells
<1>4. ASSUME NEW c \in made \cap Derived,
             \A j \in 1 .. Len(deps[c]) : deps[c][j] \in T
      PROVE  c \in T
  <2>1. /\ c \in Cells /\ c \notin Signals /\ deps'[c] = deps[c]
        /\ DOMAIN deps[c] = 1 .. Len(deps[c])
    BY GraphFacts, Kinds DEF Derived
  <2>2. Sources[c] = UNION {Sources[deps[c][j]] : j \in DOMAIN deps[c]}
    BY <1>1, <2>1 DEF SourcesSolve
  <2>3. Sources'[c] = UNION {Sources'[deps'[c][j]] : j \in DOMAIN deps'[c]}
    BY <1>2, <2>1 DEF SourcesSolve
  <2>4. Sources'[c] = UNION {Sources'[deps[c][j]] : j \in DOMAIN deps[c]}
    BY <2>1, <2>3
  <2>5. \A j \in DOMAIN deps[c] : Sources'[deps[c][j]] = Sources[deps[c][j]]
    BY <1>4, <2>1
  <2>6. {Sources'[deps[c][j]] : j \in DOMAIN deps[c]}
          = {Sources[deps[c][j]] : j \in DOMAIN deps[c]}
    BY <2>5
  <2> QED BY <2>2, <2>4, <2>6
<1>5. made \subseteq T
  <2> HIDE DEF T
  <2> QED BY <1>3, <1>4, Downward
<1> QED BY <1>5
-----------------------------------------------------------------------------
(* The marks that are still to come. *)

(* Who depends on a cell that will be marked will be marked.               *)
LEMMA PendingUp ==
  ASSUME IInv, NEW x \in Watching, NEW j \in 1 .. Len(deps[x]),
         deps[x][j] \in Pending
  PROVE  x \in Pending
<1>1. x \in Derived
  BY GraphFacts
<1>2. ASSUME NEW U \in SUBSET Derived, Covers(U)
      PROVE  x \in U
  <2>1. deps[x][j] \in U
    BY <1>2 DEF Pending
  <2> QED BY <1>2, <2>1 DEF Covers, Spreads
<1> QED BY <1>1, <1>2 DEF Pending

PendingClosed ==
  \A x \in Watching : \A j \in 1 .. Len(deps[x]) :
    deps[x][j] \in Pending => x \in Pending

LEMMA PendingCloses == IInv => PendingClosed
BY PendingUp DEF PendingClosed

LEMMA RootsPending == Roots \subseteq Pending
<1>1. ASSUME NEW x \in Roots, NEW U \in SUBSET Derived, Covers(U)
      PROVE  x \in U
  BY <1>1 DEF Covers
<1>2. Roots \subseteq Derived
  BY DEF Roots
<1> QED BY <1>1, <1>2 DEF Pending

LEMMA PendingNone ==
  ASSUME Roots = {} PROVE Pending = {}
<1>1. Covers({})
  BY DEF Covers, Spreads
<1>2. {} \in SUBSET Derived
  OBVIOUS
<1> QED BY <1>1, <1>2 DEF Pending

LEMMA PendingGrows ==
  ASSUME Roots \subseteq Roots',
         \A U \in SUBSET Derived : Spreads(U)' => Spreads(U)
  PROVE  Pending \subseteq Pending'
<1>1. ASSUME NEW x \in Pending, NEW U \in SUBSET Derived, Covers(U)'
      PROVE  x \in U
  <2>1. Roots' \subseteq U /\ Spreads(U)'
    BY <1>1 DEF Covers
  <2>2. Covers(U)
    BY <2>1 DEF Covers
  <2> QED BY <1>1, <2>2 DEF Pending
<1>2. Pending \subseteq Derived
  BY DEF Pending
<1> QED BY <1>1, <1>2 DEF Pending

(* y has been marked, and who depends on it will be. *)
LEMMA PendingLess ==
  ASSUME UNCHANGED <<deps, made, active>>, NEW y \in Derived,
         Roots \subseteq Roots' \cup {y},
         \A x \in Watching :
           (\E j \in 1 .. Len(deps[x]) : deps[x][j] = y) => x \in Roots'
  PROVE  Pending \subseteq Pending' \cup {y}
<1>1. ASSUME NEW x \in Pending, x # y, NEW U \in SUBSET Derived, Covers(U)'
      PROVE  x \in U
  <2>1. Roots' \subseteq U /\ Spreads(U)'
    BY <1>1 DEF Covers
  <2>2. Watching' = Watching
    BY DEF Watching
  <2>3. Spreads(U)
    BY <2>1, <2>2 DEF Spreads
  <2>4. Spreads(U \cup {y})
    BY <2>1, <2>3 DEF Spreads
  <2>5. Covers(U \cup {y}) /\ U \cup {y} \in SUBSET Derived
    BY <2>1, <2>4 DEF Covers
  <2> QED BY <1>1, <2>5 DEF Pending
<1>2. Pending \subseteq Derived
  BY DEF Pending
<1> QED BY <1>1, <1>2 DEF Pending
-----------------------------------------------------------------------------
(* The calls in progress, as a set. *)

Calls(s) == {s[k] : k \in 1 .. Len(s)}
Below(s) == {s[k] : k \in 1 .. (Len(s) - 1)}

LEMMA CallsNow ==
  /\ Roots = {x \in Derived : \E f \in Calls(stack) : WillMark(f, x)}
  /\ Pulling = {x \in Derived : \E f \in Calls(stack) : Pulls(f, x)}
  /\ Gathered <=> \A f \in Calls(stack) : f.at = "pull" => Collects(f)
  /\ Interrupted =
       {c \in Nodes : \E f \in Calls(stack) : f.cell = c /\ f.op # "markDirty"}
BY DEF Calls, Roots, Pulling, Gathered, Interrupted

LEMMA CallsEmpty == Calls(<<>>) = {}
BY EmptySeq DEF Calls

LEMMA CallsAll ==
  ASSUME NEW s \in Seq(FrameSet), s # <<>>
  PROVE  Calls(s) = Below(s) \cup {s[Len(s)]}
<1>1. Len(s) \in 1 .. Len(s)
      /\ \A k \in 1 .. Len(s) : k = Len(s) \/ k \in 1 .. (Len(s) - 1)
  BY Last
<1>2. \A k \in 1 .. (Len(s) - 1) : k \in 1 .. Len(s)
  BY LenProperties
<1> QED BY <1>1, <1>2 DEF Calls, Below

LEMMA CallsPop ==
  ASSUME NEW s \in Seq(FrameSet), s # <<>>
  PROVE  Calls(SubSeq(s, 1, Len(s) - 1)) = Below(s)
BY Shrink DEF Calls, Below

LEMMA CallsTop ==
  ASSUME NEW s \in Seq(FrameSet), s # <<>>, NEW f \in FrameSet
  PROVE  Calls([s EXCEPT ![Len(s)] = f]) = Below(s) \cup {f}
<1> DEFINE r == [s EXCEPT ![Len(s)] = f]
<1>1. /\ r \in Seq(FrameSet) /\ Len(r) = Len(s) /\ r # <<>> /\ r[Len(s)] = f
      /\ \A k \in 1 .. (Len(s) - 1) : r[k] = s[k]
  BY Exchange
<1> HIDE DEF r
<1>2. Calls(r) = Below(r) \cup {f}
  BY <1>1, CallsAll
<1>3. Below(r) = Below(s)
  BY <1>1 DEF Below
<1> QED BY <1>2, <1>3 DEF r

LEMMA CallsPush ==
  ASSUME NEW s \in Seq(FrameSet), NEW e \in FrameSet
  PROVE  Calls(Append(s, e)) = Calls(s) \cup {e}
<1> DEFINE r == Append(s, e)
<1>1. /\ r \in Seq(FrameSet) /\ Len(s) \in Nat /\ Len(r) = Len(s) + 1
      /\ \A k \in 1 .. Len(s) : r[k] = s[k]
      /\ r[Len(s) + 1] = e
  BY Push
<1> HIDE DEF r
<1>2. 1 .. Len(r) = (1 .. Len(s)) \cup {Len(s) + 1}
  BY <1>1
<1> QED BY <1>1, <1>2 DEF Calls, r
-----------------------------------------------------------------------------
(* The order of the calls. *)

Shaped(rank, s) == Falls(rank, s) /\ Suffix(s) /\ Starts(s) /\ Caused(s)

LEMMA ShapedPop ==
  ASSUME NEW rank, NEW s \in Seq(FrameSet), s # <<>>, Shaped(rank, s)
  PROVE  Shaped(rank, SubSeq(s, 1, Len(s) - 1))
<1> DEFINE r == SubSeq(s, 1, Len(s) - 1)
<1>1. /\ Len(s) \in Nat /\ Len(r) = Len(s) - 1
      /\ \A k \in 1 .. (Len(s) - 1) : r[k] = s[k]
  BY Shrink, LenProperties
<1> HIDE DEF r
<1>2. \A k \in 1 .. Len(r) : k \in 1 .. Len(s) /\ r[k] = s[k]
  BY <1>1
<1>3. ASSUME NEW k \in 1 .. Len(r), CausedAt(s, k)
      PROVE  CausedAt(r, k)
  <2>1. \A i \in 1 .. (k - 1) : i \in 1 .. Len(r)
    BY <1>1
  <2> QED BY <1>2, <1>3, <2>1 DEF CausedAt
<1>4. Caused(r)
  BY <1>2, <1>3 DEF Shaped, Caused
<1>5. Falls(rank, r) /\ Suffix(r) /\ Starts(r)
  BY <1>2 DEF Shaped, Falls, Suffix, Starts
<1> QED BY <1>4, <1>5 DEF Shaped, r

(* The call on top goes on: it ceases to wait or to be an evaluation, or   *)
(* stays what it is.                                                       *)
LEMMA ShapedTop ==
  ASSUME NEW rank, NEW s \in Seq(FrameSet), s # <<>>, Shaped(rank, s),
         NEW f \in FrameSet, f.op = s[Len(s)].op, f.cell = s[Len(s)].cell,
         f.at # "lock",
         f.at = "pull" => s[Len(s)].at = "pull",
         \/ f.at = "pull"
         \/ \A k \in 1 .. (Len(s) - 1) : s[k].at # "pull"
  PROVE  Shaped(rank, [s EXCEPT ![Len(s)] = f])
<1> DEFINE r == [s EXCEPT ![Len(s)] = f]
           n == Len(s)
<1>1. /\ Len(r) = n /\ r[n] = f
      /\ \A k \in 1 .. (n - 1) : r[k] = s[k]
  BY Exchange
<1>2. /\ n \in Nat /\ n \in 1 .. n
      /\ \A k \in 1 .. n : k = n \/ k \in 1 .. (n - 1)
      /\ s[n].op = f.op /\ s[n].cell = f.cell
      /\ (f.at = "pull" => s[n].at = "pull")
  BY Last
<1>3. f.at = "pull" \/ \A k \in 1 .. (n - 1) : s[k].at # "pull"
  OBVIOUS
<1> HIDE DEF r, n
<1>4. \A k \in 1 .. n : /\ r[k].op = s[k].op /\ r[k].cell = s[k].cell
                        /\ r[k].at = "pull" => s[k].at = "pull"
  BY <1>1, <1>2
<1>5. Falls(rank, s) /\ Suffix(s) /\ Starts(s) /\ Caused(s) /\ Len(s) = n
  BY DEF Shaped, n
<1>6. Falls(rank, r)
  BY <1>1, <1>4, <1>5 DEF Falls
<1>7. Suffix(r)
  <2> SUFFICES ASSUME NEW k \in 1 .. n, NEW l \in 1 .. n, k < l, r[k].at = "pull"
               PROVE  r[l].at = "pull" /\ r[l].cell \in Computeds
    BY <1>1 DEF Suffix
  <2>1. s[k].at = "pull" /\ s[l].at = "pull" /\ s[l].cell \in Computeds
    BY <1>4, <1>5 DEF Suffix
  <2>2. k \in 1 .. (n - 1)
    BY <1>2
  <2>3. f.at = "pull"
    BY <1>3, <2>1, <2>2
  <2>4. r[l].at = "pull"
    BY <1>1, <1>2, <2>1, <2>3
  <2> QED BY <1>4, <2>1, <2>4
<1>8. Starts(r)
  BY <1>1, <1>2, <1>5 DEF Starts
<1>9. Caused(r)
  <2> SUFFICES ASSUME NEW k \in 1 .. n PROVE CausedAt(r, k)
    BY <1>1 DEF Caused
  <2>1. CausedAt(s, k)
    BY <1>5 DEF Caused
  <2>2. \A i \in 1 .. (k - 1) : i \in 1 .. n
    BY <1>2
  <2> QED BY <1>4, <2>1, <2>2 DEF CausedAt
<1> QED BY <1>6, <1>7, <1>8, <1>9 DEF Shaped, r

(* A call is made. *)
LEMMA ShapedPush ==
  ASSUME NEW rank, NEW s \in Seq(FrameSet), Shaped(rank, s),
         NEW e \in FrameSet, e.at = "lock" => e.arg = 1,
         \A f \in Calls(s) :
           f.at = "pull" => /\ e.at = "pull" /\ e.cell \in Computeds
                            /\ rank[e.cell] < rank[f.cell],
         e.op = "markDirty" \/ (e.op = "value" /\ e.cell \in Effects) =>
           \E f \in Calls(s) :
             f.op = "SetValue" /\ f.cell \in Sources[e.cell]
  PROVE  Shaped(rank, Append(s, e))
<1> DEFINE r == Append(s, e)
           n == Len(s)
<1>1. /\ n \in Nat /\ Len(r) = n + 1
      /\ \A k \in 1 .. n : r[k] = s[k]
      /\ r[n + 1] = e
  BY Push
<1>2. \A k \in 1 .. n : s[k] \in Calls(s)
  BY DEF Calls
<1>3. Falls(rank, s) /\ Suffix(s) /\ Starts(s) /\ Caused(s) /\ Len(s) = n
  BY DEF Shaped
<1> HIDE DEF r, n
<1>4. \A k \in 1 .. Len(r) : k = n + 1 \/ k \in 1 .. n
  BY <1>1
<1>5. Falls(rank, r)
  <2> SUFFICES ASSUME NEW k \in 1 .. Len(r), NEW l \in 1 .. Len(r), k < l,
                      r[k].at = "pull", r[l].at = "pull"
               PROVE  rank[r[l].cell] < rank[r[k].cell]
    BY DEF Falls
  <2>1. k \in 1 .. n
    BY <1>1, <1>4
  <2>2. CASE l \in 1 .. n
    BY <1>1, <1>3, <2>1, <2>2 DEF Falls
  <2>3. CASE l = n + 1
    BY <1>1, <1>2, <2>1, <2>3
  <2> QED BY <1>4, <2>2, <2>3
<1>6. Suffix(r)
  <2> SUFFICES ASSUME NEW k \in 1 .. Len(r), NEW l \in 1 .. Len(r), k < l,
                      r[k].at = "pull"
               PROVE  r[l].at = "pull" /\ r[l].cell \in Computeds
    BY DEF Suffix
  <2>1. k \in 1 .. n
    BY <1>1, <1>4
  <2>2. CASE l \in 1 .. n
    BY <1>1, <1>3, <2>1, <2>2 DEF Suffix
  <2>3. CASE l = n + 1
    BY <1>1, <1>2, <2>1, <2>3
  <2> QED BY <1>4, <2>2, <2>3
<1>7. Starts(r)
  BY <1>1, <1>3, <1>4 DEF Starts
<1>8. Caused(r)
  <2> SUFFICES ASSUME NEW k \in 1 .. Len(r) PROVE CausedAt(r, k)
    BY DEF Caused
  <2>1. CASE k \in 1 .. n
    <3>1. CausedAt(s, k)
      BY <1>3, <2>1 DEF Caused
    <3>2. \A i \in 1 .. (k - 1) : i \in 1 .. n
      BY <1>1, <2>1
    <3> QED BY <1>1, <2>1, <3>1, <3>2 DEF CausedAt
  <2>2. CASE k = n + 1
    <3> SUFFICES ASSUME e.op = "markDirty" \/ (e.op = "value" /\ e.cell \in Effects)
                 PROVE  \E i \in 1 .. (k - 1) :
                          r[i].op = "SetValue" /\ r[i].cell \in Sources[r[k].cell]
      BY <1>1, <2>2 DEF CausedAt
    <3>1. PICK f \in Calls(s) : f.op = "SetValue" /\ f.cell \in Sources[e.cell]
      OBVIOUS
    <3>2. PICK i \in 1 .. n : f = s[i]
      BY <1>3, <3>1 DEF Calls
    <3>3. i \in 1 .. (k - 1)
      BY <1>1, <2>2
    <3> QED BY <1>1, <2>2, <3>1, <3>2, <3>3
  <2> QED BY <1>4, <2>1, <2>2
<1> QED BY <1>5, <1>6, <1>7, <1>8 DEF Shaped, r
-----------------------------------------------------------------------------
(* How the calls in progress change in a step that leaves the graph alone. *)

LEMMA ShapeNow ==
  ASSUME InShape
  PROVE  \E rank \in [Cells -> Nat], n \in Nat :
           RankedGraph(rank, n) /\ Shaped(rank, stack)
BY DEF InShape, Ordered, Shaped

LEMMA ShapeNext ==
  ASSUME deps' = deps, NEW rank \in [Cells -> Nat], NEW n \in Nat,
         RankedGraph(rank, n), Shaped(rank, stack')
  PROVE  InShape'
<1>1. Sources' = Sources
  BY DEF Sources
<1>2. RankedGraph(rank, n)'
  BY DEF RankedGraph
<1>3. /\ Falls(rank, stack') /\ Suffix(stack') /\ Starts(stack')
      /\ Caused(stack')
  BY DEF Shaped
<1>4. Caused(stack)'
  BY <1>1, <1>3 DEF Caused, CausedAt
<1>5. Ordered'
  BY <1>2, <1>3 DEF Ordered
<1> QED BY <1>3, <1>4, <1>5 DEF InShape, Suffix, Starts

LEMMA StackNow ==
  ASSUME IInv
  PROVE  /\ stack \in Seq(FrameSet)
         /\ Idle => Calls(stack) = {}
         /\ ~Idle => /\ stack # <<>> /\ Len(stack) \in Nat \ {0}
                     /\ Calls(stack) = Below(stack) \cup {Top}
                     /\ Top = stack[Len(stack)] /\ Top \in FrameSet
         /\ \A f \in Calls(stack) : f \in FrameSet /\ Formed(f, made, deps, subs)
<1>1. stack \in Seq(FrameSet)
      /\ \A k \in 1 .. Len(stack) : Formed(stack[k], made, deps, subs)
  BY DEF IInv, CallsGood, Good
<1>2. \A f \in Calls(stack) : f \in FrameSet /\ Formed(f, made, deps, subs)
  BY <1>1, ElementOfSeq DEF Calls
<1>3. ~Idle => /\ stack # <<>> /\ Len(stack) \in Nat \ {0}
               /\ Calls(stack) = Below(stack) \cup {Top}
               /\ Top \in FrameSet
  BY <1>1, CallsAll, TheTop, Last DEF Top
<1> QED BY <1>1, <1>2, <1>3, CallsEmpty DEF Idle, Top

(* Above an evaluation there are only evaluations of computeds.            *)
LEMMA NoPull ==
  ASSUME IInv, Suffix(stack), ~Idle
  PROVE  /\ Top.at # "pull" => \A f \in Calls(stack) : f.at # "pull"
         /\ Top.cell \notin Computeds => \A f \in Below(stack) : f.at # "pull"
<1>1. Len(stack) \in Nat \ {0} /\ Calls(stack) = Below(stack) \cup {Top}
  BY StackNow
<1>2. ASSUME NEW f \in Below(stack), f.at = "pull"
      PROVE  Top.at = "pull" /\ Top.cell \in Computeds
  <2>1. PICK k \in 1 .. (Len(stack) - 1) : f = stack[k]
    BY DEF Below
  <2>2. k \in 1 .. Len(stack) /\ Len(stack) \in 1 .. Len(stack) /\ k < Len(stack)
    BY <1>1
  <2> QED BY <1>2, <2>1, <2>2 DEF Suffix, Top
<1> QED BY <1>1, <1>2

LEMMA PopOn ==
  ASSUME IInv, InShape, ~Idle, deps' = deps, stack' = Popped
  PROVE  InShape' /\ Calls(stack') = Below(stack)
<1>1. stack \in Seq(FrameSet) /\ stack # <<>>
  BY StackNow
<1>2. PICK rank \in [Cells -> Nat], n \in Nat :
        RankedGraph(rank, n) /\ Shaped(rank, stack)
  BY ShapeNow
<1>3. Shaped(rank, stack')
  BY <1>1, <1>2, ShapedPop DEF Popped
<1>4. Calls(stack') = Below(stack)
  BY <1>1, CallsPop DEF Popped
<1> QED BY <1>2, <1>3, <1>4, ShapeNext

LEMMA TopOn ==
  ASSUME IInv, InShape, ~Idle, deps' = deps,
         NEW f \in FrameSet, stack' = Moved(f),
         f.op = Top.op, f.cell = Top.cell, f.at # "lock",
         f.at = "pull" => Top.at = "pull",
         f.at = "pull" \/ \A g \in Below(stack) : g.at # "pull"
  PROVE  InShape' /\ Calls(stack') = Below(stack) \cup {f}
<1>1. stack \in Seq(FrameSet) /\ stack # <<>> /\ Top = stack[Len(stack)]
  BY StackNow
<1>2. PICK rank \in [Cells -> Nat], n \in Nat :
        RankedGraph(rank, n) /\ Shaped(rank, stack)
  BY ShapeNow
<1>3. f.at = "pull" \/ \A k \in 1 .. (Len(stack) - 1) : stack[k].at # "pull"
  BY DEF Below
<1>4. Shaped(rank, stack')
  BY <1>1, <1>2, <1>3, ShapedTop DEF Moved
<1>5. Calls(stack') = Below(stack) \cup {f}
  BY <1>1, CallsTop DEF Moved
<1> QED BY <1>2, <1>4, <1>5, ShapeNext

LEMMA PushOn ==
  ASSUME IInv, InShape, deps' = deps,
         NEW e \in FrameSet, stack' = Append(stack, e), e.at = "lock" => e.arg = 1,
         \/ \A f \in Calls(stack) : f.at # "pull"
         \/ /\ ~Idle /\ Top.at = "pull" /\ e.at = "pull" /\ e.cell \in Computeds
            /\ Top.cell \in Derived
            /\ \E j \in 1 .. Len(deps[Top.cell]) : e.cell = deps[Top.cell][j],
         e.op = "markDirty" \/ (e.op = "value" /\ e.cell \in Effects) =>
           \E f \in Calls(stack) : f.op = "SetValue" /\ f.cell \in Sources[e.cell]
  PROVE  InShape' /\ Calls(stack') = Calls(stack) \cup {e}
<1>1. stack \in Seq(FrameSet)
  BY StackNow
<1>2. PICK rank \in [Cells -> Nat], n \in Nat :
        RankedGraph(rank, n) /\ Shaped(rank, stack)
  BY ShapeNow
<1>3. ASSUME NEW f \in Calls(stack), f.at = "pull"
      PROVE  /\ e.at = "pull" /\ e.cell \in Computeds
             /\ rank[e.cell] < rank[f.cell]
  <2>1. /\ ~Idle /\ Top.at = "pull" /\ e.at = "pull" /\ e.cell \in Computeds
        /\ Top.cell \in Derived
        /\ \E j \in 1 .. Len(deps[Top.cell]) : e.cell = deps[Top.cell][j]
    BY <1>3
  <2>2. rank[e.cell] < rank[Top.cell]
    BY <1>2, <2>1 DEF RankedGraph
  <2>3. CASE f = Top
    BY <2>1, <2>2, <2>3
  <2>4. CASE f \in Below(stack)
    <3>1. PICK k \in 1 .. (Len(stack) - 1) : f = stack[k]
      BY <2>4 DEF Below
    <3>2. Len(stack) \in Nat \ {0} /\ Top = stack[Len(stack)]
      BY <2>1, StackNow
    <3>3. k \in 1 .. Len(stack) /\ Len(stack) \in 1 .. Len(stack) /\ k < Len(stack)
      BY <3>2
    <3>4. rank[Top.cell] < rank[f.cell]
      BY <1>2, <1>3, <2>1, <3>1, <3>2, <3>3 DEF Shaped, Falls
    <3>5. e.cell \in Cells /\ Top.cell \in Cells /\ f.cell \in Cells
      BY <1>3, <2>1, StackNow DEF FrameSet
    <3>6. rank[e.cell] \in Nat /\ rank[Top.cell] \in Nat /\ rank[f.cell] \in Nat
      BY <3>5
    <3> QED BY <2>1, <2>2, <3>4, <3>6
  <2> QED BY <2>1, <2>3, <2>4, StackNow
<1>4. Shaped(rank, stack')
  BY <1>1, <1>2, <1>3, ShapedPush
<1>5. Calls(stack') = Calls(stack) \cup {e}
  BY <1>1, CallsPush
<1> QED BY <1>2, <1>4, <1>5, ShapeNext

LEMMA TopPushOn ==
  ASSUME IInv, InShape, ~Idle, deps' = deps,
         NEW f \in FrameSet, NEW e \in FrameSet, stack' = Append(Moved(f), e),
         f.op = Top.op, f.cell = Top.cell, f.at \notin {"lock", "pull"},
         Top.at # "pull", e.at # "lock",
         e.op = "markDirty" \/ (e.op = "value" /\ e.cell \in Effects) =>
           \E g \in Calls(stack) : g.op = "SetValue" /\ g.cell \in Sources[e.cell]
  PROVE  InShape' /\ Calls(stack') = Below(stack) \cup {f, e}
<1>1. stack \in Seq(FrameSet) /\ stack # <<>> /\ Top = stack[Len(stack)]
      /\ Calls(stack) = Below(stack) \cup {Top}
  BY StackNow
<1>2. PICK rank \in [Cells -> Nat], n \in Nat :
        RankedGraph(rank, n) /\ Shaped(rank, stack)
  BY ShapeNow
<1>3. \A g \in Below(stack) : g.at # "pull"
  BY <1>1, NoPull DEF InShape
<1>4. \A k \in 1 .. (Len(stack) - 1) : stack[k].at # "pull"
  BY <1>3 DEF Below
<1> DEFINE r == Moved(f)
<1>5. /\ r \in Seq(FrameSet) /\ Calls(r) = Below(stack) \cup {f}
      /\ stack' = Append(r, e)
  BY <1>1, Exchange, CallsTop DEF Moved
<1>6. Shaped(rank, r)
  BY <1>1, <1>2, <1>4, ShapedTop DEF Moved
<1> HIDE DEF r
<1>7. \A g \in Calls(r) : g.at # "pull"
  BY <1>3, <1>5
<1>8. e.op = "markDirty" \/ (e.op = "value" /\ e.cell \in Effects) =>
        \E g \in Calls(r) : g.op = "SetValue" /\ g.cell \in Sources[e.cell]
  BY <1>1, <1>5
<1>9. Shaped(rank, stack')
  BY <1>5, <1>6, <1>7, <1>8, ShapedPush
<1>10. Calls(stack') = Below(stack) \cup {f, e}
  BY <1>5, CallsPush
<1> QED BY <1>2, <1>9, <1>10, ShapeNext
-----------------------------------------------------------------------------
(* What the invariant says of the values. *)

LEMMA Parts ==
  ASSUME UInv
  PROVE  /\ Linked /\ SubsTrue /\ InShape /\ Gathered /\ Ordered
         /\ Suffix(stack) /\ Starts(stack) /\ Caused(stack)
         /\ Blank /\ Positive /\ SumsTell /\ Fresh /\ Told
BY DEF UInv, GraphFit, CallsFit, DataFit, InShape

LEMMA CurrentValue ==
  ASSUME IInv, UInv
  PROVE  \A c \in made \cap Nodes :
           Touched(c) \/ c \in Pending \/ ~Ready(c) \/ val[c] = Meaning[c]
<1> DEFINE Fine(c) == Touched(c) \/ c \in Pending \/ ~Ready(c) \/ val[c] = Meaning[c]
           T == {c \in made : c \in Nodes => Fine(c)}
<1>1. Ordered /\ Blank /\ Fresh /\ MeaningSolves
  BY Parts, MeaningUnfolds
<1>2. \A s \in made \cap Signals : s \in T
  BY <1>1 DEF MeaningSolves, Nodes
<1>3. ASSUME NEW c \in made \cap Derived,
             \A j \in 1 .. Len(deps[c]) : deps[c][j] \in T
      PROVE  c \in T
  <2> SUFFICES ASSUME c \in Nodes, ~Touched(c), c \notin Pending, Ready(c)
               PROVE  val[c] = Meaning[c]
    OBVIOUS
  <2>1. c \in Computeds /\ c \notin Signals /\ c \in made \cap Computeds
    BY Kinds DEF Nodes, Derived
  <2>2. ~isDirty[c] /\ c \notin Pulling
    BY <2>1 DEF Ready, Stale
  <2>3. Agrees(c) /\ \A j \in 1 .. Len(deps[c]) : Ready(deps[c][j])
    BY <1>1, <2>1, <2>2 DEF Fresh, FreshAt
  <2>4. /\ DOMAIN deps[c] = 1 .. Len(deps[c])
        /\ \A j \in 1 .. Len(deps[c]) : deps[c][j] \in made \cap Nodes
    BY GraphFacts
  <2>5. ASSUME NEW j \in 1 .. Len(deps[c])
        PROVE  val[deps[c][j]] = Meaning[deps[c][j]]
    <3>1. ~Touched(deps[c][j])
      BY <1>1, TouchedUp
    <3>2. deps[c][j] \notin Pending
      BY <2>1, PendingUp DEF Watching
    <3> QED BY <1>3, <2>3, <2>4, <3>1, <3>2
  <2>6. Vals(deps[c]) = Meanings(deps[c])
    BY <2>4, <2>5 DEF Vals, Meanings
  <2>7. Meaning[c] = Apply(fn[c], Meanings(deps[c]))
    BY <1>1, <2>1 DEF MeaningSolves, Nodes
  <2> QED BY <2>1, <2>3, <2>6, <2>7 DEF Agrees
<1>4. made \subseteq T
  <2> HIDE DEF T
  <2> QED BY <1>1, <1>2, <1>3, Downward
<1> QED BY <1>4

(* What a cell is evaluated with is what its dependencies mean.            *)
LEMMA CurrentArgs ==
  ASSUME IInv, UInv, NEW c \in Watching, ~Touched(c), c \notin Pending,
         \A j \in 1 .. Len(deps[c]) : Ready(deps[c][j])
  PROVE  Vals(deps[c]) = Meanings(deps[c])
<1>1. /\ c \in made \cap Derived /\ DOMAIN deps[c] = 1 .. Len(deps[c])
      /\ \A j \in 1 .. Len(deps[c]) : deps[c][j] \in made \cap Nodes
  BY GraphFacts
<1>2. ASSUME NEW j \in 1 .. Len(deps[c])
      PROVE  val[deps[c][j]] = Meaning[deps[c][j]]
  <2>1. ~Touched(deps[c][j])
    BY <1>1, Parts, TouchedUp
  <2>2. deps[c][j] \notin Pending
    BY PendingUp
  <2> QED BY <1>1, <2>1, <2>2, CurrentValue
<1> QED BY <1>1, <1>2 DEF Vals, Meanings

(* Outside of the calls nothing is pending.                                *)
LEMMA Rests ==
  ASSUME IInv, UInv
  PROVE  UpToDate
<1> SUFFICES ASSUME Idle, NEW c \in made \cap Derived, ~Touched(c)
             PROVE  IF c \in Computeds THEN isDirty[c] \/ val[c] = Meaning[c]
                    ELSE c \in active => seen[c] = Meanings(deps[c])
  BY DEF UpToDate
<1>1. Calls(stack) = {}
  BY StackNow
<1>2. Roots = {} /\ Pulling = {}
  BY <1>1, CallsNow
<1>3. Pending = {}
  BY <1>2, PendingNone
<1>4. CASE c \in Computeds
  <2>1. c \in made \cap Nodes
    BY <1>4 DEF Nodes
  <2>2. isDirty[c] \/ Ready(c)
    BY <1>2, <1>4 DEF Ready, Stale
  <2> QED BY <1>3, <1>4, <2>1, <2>2, CurrentValue
<1>5. CASE c \notin Computeds
  <2>1. Told
    BY Parts
  <2> QED BY <1>2, <1>3, <1>5, <2>1 DEF Told, ToldAt
<1> QED BY <1>4, <1>5
-----------------------------------------------------------------------------
(* Steps that leave the graph alone. *)

LEMMA GraphOn ==
  ASSUME UInv, UNCHANGED graphVars, active' = active
  PROVE  /\ GraphFit' /\ Watching' = Watching
         /\ made' = made /\ deps' = deps /\ fn' = fn /\ subs' = subs
         /\ Sources' = Sources
         /\ \A U \in SUBSET Derived : Spreads(U)' <=> Spreads(U)
<1>1. made' = made /\ deps' = deps /\ fn' = fn /\ subs' = subs
  BY DEF graphVars
<1>2. Watching' = Watching
  BY <1>1 DEF Watching
<1>3. GraphFit'
  BY <1>1, <1>2, Parts DEF GraphFit, Linked, SubsTrue
<1>4. \A U \in SUBSET Derived : Spreads(U)' <=> Spreads(U)
  BY <1>1, <1>2 DEF Spreads
<1>5. Sources' = Sources
  BY <1>1 DEF Sources
<1> QED BY <1>1, <1>2, <1>3, <1>4, <1>5

LEMMA RootsNext ==
  ASSUME subs' = subs
  PROVE  Roots' = {x \in Derived : \E f \in Calls(stack') : WillMark(f, x)}
<1>1. \A g, x : WillMark(g, x)' <=> WillMark(g, x)
  BY DEF WillMark
<1> QED BY <1>1 DEF Roots, Calls, WillMark

(* A mark that is still to come stays so, but for the one of y.            *)
LEMMA RootsStay ==
  ASSUME subs' = subs, NEW Y,
         \A f \in Calls(stack) : \A x \in Derived :
           WillMark(f, x) => \/ x \in Y
                             \/ \E g \in Calls(stack') : WillMark(g, x)
  PROVE  Roots \subseteq Roots' \cup Y
BY RootsNext, CallsNow

LEMMA PullingNow ==
  Pulling' = {x \in Derived : \E f \in Calls(stack') : Pulls(f, x)}
BY DEF Pulling, Calls, Pulls

LEMMA GatheredNext ==
  ASSUME \A f \in Calls(stack') : f.at = "pull" => Collects(f)'
  PROVE  Gathered'
<1> SUFFICES ASSUME NEW k \in 1 .. Len(stack'), stack'[k].at = "pull"
             PROVE  /\ stack'[k].sum = Sums(deps'[stack'[k].cell], ver')[stack'[k].arg - 1]
                    /\ \A j \in 1 .. (stack'[k].arg - 1) :
                         /\ Ready(deps[stack[k].cell][j])'
                         /\ stack'[k].args[j] = val'[deps'[stack'[k].cell][j]]
  BY DEF Gathered, Collects
<1>1. PICK f : f = stack'[k]
  OBVIOUS
<1>2. f \in Calls(stack') /\ f.at = "pull"
  BY <1>1 DEF Calls
<1>3. Collects(f)'
  BY <1>2
<1>4. \A j : Ready(deps[stack[k].cell][j])' <=> Ready(deps[f.cell][j])'
  BY <1>1 DEF Ready, Stale
<1> QED BY <1>1, <1>3, <1>4 DEF Collects

(* No value, mark or history changes, nor who is evaluated, and of the     *)
(* loops only those that have ended do not stay.                           *)
LEMMA Untroubled ==
  ASSUME UInv, UNCHANGED graphVars, UNCHANGED dataVars, UNCHANGED histVars,
         InShape',
         Pulling' = Pulling,
         \A f \in Calls(stack') : f.at = "pull" => Collects(f),
         \A f \in Calls(stack) :
           f.at = "mark" => f \in Calls(stack') \/ \A x \in Derived : ~WillMark(f, x)
  PROVE  UInv'
<1>1. UNCHANGED <<val, ver, isDirty, vsum, active, seen, hurt>>
  BY DEF dataVars, histVars
<1>2. /\ GraphFit' /\ Watching' = Watching /\ Sources' = Sources
      /\ made' = made /\ deps' = deps /\ fn' = fn /\ subs' = subs
      /\ \A U \in SUBSET Derived : Spreads(U)' <=> Spreads(U)
  BY <1>1, GraphOn
<1>3. Roots \subseteq Roots'
  <2>1. \A f \in Calls(stack) : \A x \in Derived :
          WillMark(f, x) => \E g \in Calls(stack') : WillMark(g, x)
    BY DEF WillMark
  <2> QED BY <1>2, <2>1, RootsStay
<1>4. Pending \subseteq Pending'
  BY <1>2, <1>3, PendingGrows
<1>6. Meaning' = Meaning
  BY <1>1, <1>2 DEF Meaning
<1>7. \A ds : Vals(ds)' = Vals(ds) /\ Meanings(ds)' = Meanings(ds)
  BY <1>1, <1>6 DEF Vals, Meanings
<1>8. \A c : (Agrees(c)' <=> Agrees(c)) /\ (Ready(c)' <=> Ready(c))
             /\ (Touched(c)' <=> Touched(c)) /\ Total(c)' = Total(c)
  BY <1>1, <1>2, <1>7 DEF Agrees, Ready, Stale, Touched, Total
<1>9. Blank' /\ Positive' /\ SumsTell'
  BY <1>1, <1>2, <1>8, Parts DEF Blank, Positive, SumsTell
<1>10. Fresh' /\ Told'
  BY <1>1, <1>2, <1>4, <1>7, <1>8, Parts DEF Fresh, FreshAt, Told, ToldAt
<1>11. Gathered'
  <2> SUFFICES ASSUME NEW f \in Calls(stack'), f.at = "pull"
               PROVE  Collects(f)'
    BY GatheredNext
  <2> QED BY <1>1, <1>2, <1>8 DEF Collects
<1> QED BY <1>2, <1>9, <1>10, <1>11 DEF UInv, CallsFit, DataFit

(* A call that does not evaluate, and whose loop has ended, returns.       *)
LEMMA FreshPop ==
  ASSUME IInv, UInv, ~Idle, Top.at # "pull",
         Top.at = "mark" => Top.arg > Top.last,
         stack' = Popped, UNCHANGED <<graphVars, dataVars, histVars>>
  PROVE  UInv'
<1>1. deps' = deps /\ UNCHANGED graphVars /\ UNCHANGED dataVars
      /\ UNCHANGED histVars
  BY DEF graphVars
<1>2. InShape' /\ Calls(stack') = Below(stack)
  BY <1>1, Parts, PopOn
<1>3. Calls(stack) = Below(stack) \cup {Top} /\ Top \in FrameSet
  BY StackNow
<1>4. \A x \in Derived : ~WillMark(Top, x)
  BY <1>3 DEF WillMark, FrameSet
<1>5. Pulling' = Pulling
  BY <1>2, <1>3, PullingNow, CallsNow DEF Pulls
<1>6. \A f \in Calls(stack') : f.at = "pull" => Collects(f)
  BY <1>2, <1>3, Parts, CallsNow
<1>7. \A f \in Calls(stack) :
        f.at = "mark" => f \in Calls(stack') \/ \A x \in Derived : ~WillMark(f, x)
  BY <1>2, <1>3, <1>4
<1> QED BY <1>1, <1>2, <1>5, <1>6, <1>7, Untroubled

LEMMA ReadCleanFresh ==
  ASSUME IInv, UInv, ReadClean PROVE UInv'
BY FreshPop DEF ReadClean, Locks, Is

LEMMA WriteSameFresh ==
  ASSUME IInv, UInv, WriteSame PROVE UInv'
BY FreshPop DEF WriteSame, Locks, Is

LEMMA ReturnFresh ==
  ASSUME IInv, UInv, Return PROVE UInv'
BY FreshPop DEF Return, Is

LEMMA MarkEndFresh ==
  ASSUME IInv, UInv, MarkEnd PROVE UInv'
BY FreshPop DEF MarkEnd, Is

LEMMA WriteEndFresh ==
  ASSUME IInv, UInv, WriteEnd PROVE UInv'
BY FreshPop DEF WriteEnd, Is

LEMMA CallReturnFresh ==
  ASSUME IInv, UInv, CallReturn PROVE UInv'
BY FreshPop DEF CallReturn, Is

(* Where the program runs nothing is being evaluated. *)
LEMMA RunningFree ==
  ASSUME IInv, UInv, Running
  PROVE  \A f \in Calls(stack) : f.at # "pull"
<1>1. CASE Idle
  BY <1>1, StackNow
<1>2. CASE ~Idle
  <2>1. Top.at = "call"
    BY <1>2 DEF Running, Is
  <2> QED BY <1>2, <2>1, Parts, NoPull
<1> QED BY <1>1, <1>2

(* A call is made that waits. *)
LEMMA FreshPush ==
  ASSUME IInv, UInv, Running, NEW e \in FrameSet, e.at = "lock", e.arg = 1,
         e.op \in {"Value", "SetValue"}, stack' = Append(stack, e),
         UNCHANGED <<graphVars, dataVars, histVars>>
  PROVE  UInv'
<1>1. deps' = deps /\ UNCHANGED graphVars /\ UNCHANGED dataVars
      /\ UNCHANGED histVars
  BY DEF graphVars
<1>2. \A f \in Calls(stack) : f.at # "pull"
  BY RunningFree
<1>3. InShape' /\ Calls(stack') = Calls(stack) \cup {e}
  BY <1>1, <1>2, Parts, PushOn
<1>4. Pulling' = Pulling
  BY <1>3, PullingNow, CallsNow DEF Pulls
<1>5. \A f \in Calls(stack') : f.at = "pull" => Collects(f)
  BY <1>2, <1>3
<1>6. \A f \in Calls(stack) :
        f.at = "mark" => f \in Calls(stack') \/ \A x \in Derived : ~WillMark(f, x)
  BY <1>3
<1> QED BY <1>1, <1>3, <1>4, <1>5, <1>6, Untroubled

LEMMA CallValueFresh ==
  ASSUME IInv, UInv, NEW c \in Nodes, CallValue(c)
  PROVE  UInv'
<1> DEFINE e == Frame("Value", "lock", c)
<1>1. c \in Cells
  BY DEF Nodes, Cells, Derived
<1>2. e \in FrameSet /\ e.op = "Value" /\ e.at = "lock" /\ e.arg = 1
  BY <1>1, Frames
<1>3. Running /\ stack' = Append(stack, e)
      /\ UNCHANGED <<graphVars, dataVars, histVars>>
  BY DEF CallValue
<1> HIDE DEF e
<1> QED BY <1>2, <1>3, FreshPush

LEMMA CallSetValueFresh ==
  ASSUME IInv, UInv, NEW s \in Signals, NEW v \in Values, CallSetValue(s, v)
  PROVE  UInv'
<1> DEFINE g == Frame("SetValue", "lock", s)
           e == [g EXCEPT !.args = <<v>>]
<1>1. s \in Cells /\ <<v>> \in Seq(Values)
  BY DEF Nodes, Cells
<1>2. g \in FrameSet /\ g.op = "SetValue" /\ g.at = "lock" /\ g.arg = 1
  BY <1>1, Frames
<1>3. Running /\ stack' = Append(stack, e)
      /\ UNCHANGED <<graphVars, dataVars, histVars>>
  BY DEF CallSetValue
<1>4. e \in FrameSet /\ e.op = "SetValue" /\ e.at = "lock" /\ e.arg = 1
  <2> HIDE DEF g
  <2> QED BY <1>1, <1>2 DEF FrameSet
<1> HIDE DEF e
<1> QED BY <1>3, <1>4, FreshPush

(* No cell is evaluated twice at a time, nor on top of what depends on it. *)
LEMMA Lower ==
  ASSUME IInv, UInv, ~Idle, Top.at = "pull"
  PROVE  /\ Top.cell \in made \cap Derived
         /\ \A g \in Below(stack) : g.at = "pull" => g.cell # Top.cell
         /\ \A j \in 1 .. Len(deps[Top.cell]) :
              deps[Top.cell][j] \notin Pulling /\ deps[Top.cell][j] # Top.cell
<1> DEFINE c == Top.cell
<1>1. /\ Calls(stack) = Below(stack) \cup {Top} /\ Len(stack) \in Nat \ {0}
      /\ Top = stack[Len(stack)]
      /\ \A g \in Calls(stack) : g \in FrameSet /\ Formed(g, made, deps, subs)
  BY StackNow
<1>2. PICK rank \in [Cells -> Nat], m \in Nat :
        RankedGraph(rank, m) /\ Shaped(rank, stack)
  BY Parts, ShapeNow
<1>3. c \in made \cap Derived /\ c \in Cells /\ rank[c] \in Nat
  BY <1>1 DEF Formed, Cells
<1>4. ASSUME NEW g \in Below(stack), g.at = "pull"
      PROVE  rank[c] < rank[g.cell] /\ rank[g.cell] \in Nat
  <2>1. PICK k \in 1 .. (Len(stack) - 1) : g = stack[k]
    BY DEF Below
  <2>2. k \in 1 .. Len(stack) /\ Len(stack) \in 1 .. Len(stack) /\ k < Len(stack)
    BY <1>1
  <2>3. rank[c] < rank[g.cell]
    BY <1>1, <1>2, <1>4, <2>1, <2>2 DEF Shaped, Falls
  <2> QED BY <1>1, <2>3 DEF FrameSet
<1>5. \A g \in Below(stack) : g.at = "pull" => g.cell # c
  <2> SUFFICES ASSUME NEW g \in Below(stack), g.at = "pull", g.cell = c
               PROVE  FALSE
    OBVIOUS
  <2>1. rank[c] < rank[c]
    BY <1>4
  <2> QED BY <1>3, <2>1
<1>6. ASSUME NEW j \in 1 .. Len(deps[c])
      PROVE  deps[c][j] \notin Pulling /\ deps[c][j] # c
  <2> DEFINE d == deps[c][j]
  <2>1. d \in Cells /\ rank[d] \in Nat /\ rank[d] < rank[c]
    BY <1>2, <1>3, GraphFacts DEF RankedGraph
  <2>2. d # c
    BY <1>3, <2>1
  <2> HIDE DEF d
  <2>3. ASSUME NEW g \in Calls(stack), g.at = "pull", g.cell = d
        PROVE  FALSE
    <3>1. g \in Below(stack)
      BY <1>1, <2>2, <2>3
    <3>2. rank[c] < rank[d]
      BY <1>4, <2>3, <3>1
    <3> QED BY <1>3, <2>1, <3>2
  <2>4. d \notin Pulling
    BY <2>3, CallsNow DEF Pulls
  <2> QED BY <2>2, <2>4 DEF d
<1> QED BY <1>3, <1>5, <1>6

(* The next argument of an evaluation.  Sums that do not wrap are sums.    *)
LEMMA PullArgFresh ==
  ASSUME IInv, UInv, Unwrapped, PullArg
  PROVE  UInv'
<1> DEFINE c == Top.cell
           f == [Advanced EXCEPT !.args = Append(@, val[Dep]),
                                 !.sum = Plus(@, ver[Dep])]
           n == Top.arg
<1>1. /\ ~Idle /\ Top.at = "pull" /\ n <= Len(deps[c]) /\ ~Stale(Dep)
      /\ UNCHANGED graphVars /\ UNCHANGED dataVars /\ UNCHANGED histVars
      /\ stack' = Moved(f) /\ deps' = deps
  BY DEF PullArg, Collecting, Is, graphVars
<1>2. Top \in FrameSet /\ Formed(Top, made, deps, subs)
  BY <1>1, TheTop
<1>3. c \in made \cap Derived /\ Top.op = "value" /\ Len(Top.args) = n - 1
  BY <1>1, <1>2 DEF Formed
<1>4. deps[c] \in Seq(Nodes) /\ Len(deps[c]) \in Nat
  BY <1>3, GraphFacts
<1>5. n \in Nat \ {0} /\ n \in 1 .. Len(deps[c]) /\ Top.args \in Seq(Values)
      /\ n - 1 \in 0 .. Len(deps[c]) /\ n \in 0 .. Len(deps[c])
  BY <1>1, <1>2, <1>4 DEF FrameSet
<1>6. Dep = deps[c][n] /\ Dep \in made \cap Nodes
  BY <1>3, <1>5, GraphFacts DEF Dep
<1>7. val[Dep] \in Values /\ ver[Dep] \in Nat /\ ver \in [Nodes -> Nat]
  BY <1>6, GraphFacts DEF IInv, TypeOK, DataType
<1>8. Collects(Top)
  BY <1>1, Parts, StackNow, CallsNow
<1>9. Plus(Top.sum, ver[Dep]) = Sums(deps[c], ver)[n]
  <2> DEFINE S == Sums(deps[c], ver)
  <2>1. S \in [0 .. Len(deps[c]) -> Nat] /\ S[n] = S[n - 1] + ver[deps[c][n]]
    BY <1>4, <1>5, <1>7, SumsUnfold
  <2>2. S[n] <= S[Len(deps[c])]
    BY <1>4, <1>5, <1>7, SumsParts
  <2>3. S[Len(deps[c])] < VersionModulus
    BY <1>3 DEF Unwrapped, Total
  <2>4. Top.sum = S[n - 1]
    BY <1>8 DEF Collects
  <2> HIDE DEF S
  <2>5. S[n] \in Nat /\ S[Len(deps[c])] \in Nat /\ VersionModulus \in Nat \ {0}
    <3>1. Len(deps[c]) \in 0 .. Len(deps[c])
      BY <1>4
    <3> QED BY <1>5, <2>1, <3>1, BoundsAssumption
  <2>6. S[n] < VersionModulus
    BY <2>2, <2>3, <2>5
  <2>7. Top.sum + ver[Dep] = S[n]
    BY <1>6, <2>1, <2>4
  <2>8. S[n] % VersionModulus = S[n]
    BY <2>5, <2>6
  <2> QED BY <2>7, <2>8 DEF Plus, S
<1>10. /\ Append(Top.args, val[Dep]) \in Seq(Values)
       /\ \A j \in 1 .. (n - 1) : Append(Top.args, val[Dep])[j] = Top.args[j]
       /\ Append(Top.args, val[Dep])[n] = val[Dep]
  <2>1. /\ Append(Top.args, val[Dep]) \in Seq(Values)
        /\ \A j \in 1 .. Len(Top.args) : Append(Top.args, val[Dep])[j] = Top.args[j]
        /\ Append(Top.args, val[Dep])[Len(Top.args) + 1] = val[Dep]
    BY <1>5, <1>7, Push
  <2>2. Len(Top.args) + 1 = n
    BY <1>3, <1>5
  <2> QED BY <1>3, <2>1, <2>2
<1>11. /\ Advanced \in FrameSet /\ Advanced.op = Top.op
       /\ Advanced.at = Top.at /\ Advanced.cell = Top.cell
       /\ Advanced.args = Top.args /\ Advanced.arg = n + 1
       /\ Advanced.sum = Top.sum
  BY <1>2 DEF Advanced, FrameSet
<1>12. Plus(Top.sum, ver[Dep]) \in 0 .. (VersionModulus - 1)
  <2>1. Top.sum \in Nat
    BY <1>2 DEF FrameSet
  <2> QED BY <1>7, <2>1, PlusType
<1>13. /\ f \in FrameSet /\ f.op = "value" /\ f.at = "pull" /\ f.cell = c
       /\ f.args = Append(Top.args, val[Dep]) /\ f.arg = n + 1
       /\ f.sum = Sums(deps[c], ver)[n]
  BY <1>1, <1>3, <1>9, <1>10, <1>11, <1>12 DEF FrameSet
<1> HIDE DEF f
<1>14. InShape' /\ Calls(stack') = Below(stack) \cup {f}
  BY <1>1, <1>3, <1>13, Parts, TopOn
<1>15. Calls(stack) = Below(stack) \cup {Top}
  BY <1>1, StackNow
<1>16. Pulling' = Pulling
  BY <1>1, <1>13, <1>14, <1>15, PullingNow, CallsNow DEF Pulls
<1>17. Collects(f)
  <2> DEFINE Have(j) == Ready(deps[c][j]) /\ f.args[j] = val[deps[c][j]]
  <2>1. \A j \in 1 .. (n - 1) : Have(j)
    BY <1>8, <1>10, <1>13 DEF Collects
  <2>2. Dep \notin Pulling
    BY <1>1, <1>5, <1>6, Lower
  <2>3. Have(n)
    BY <1>1, <1>6, <1>10, <1>13, <2>2 DEF Ready
  <2>4. \A j \in 1 .. n : j = n \/ j \in 1 .. (n - 1)
    BY <1>5
  <2>5. \A j \in 1 .. n : Have(j)
    <3> HIDE DEF Have
    <3> QED BY <2>1, <2>3, <2>4
  <2>6. f.arg - 1 = n
    BY <1>5, <1>13
  <2> QED BY <1>13, <2>5, <2>6 DEF Collects
<1>18. \A g \in Calls(stack') : g.at = "pull" => Collects(g)
  BY <1>14, <1>15, <1>17, Parts, CallsNow
<1>19. \A g \in Calls(stack) :
         g.at = "mark" => g \in Calls(stack') \/ \A x \in Derived : ~WillMark(g, x)
  BY <1>1, <1>14, <1>15
<1> QED BY <1>1, <1>14, <1>16, <1>18, <1>19, Untroubled
-----------------------------------------------------------------------------
(* Steps that change marks only, and begin evaluations. *)

LEMMA Steady ==
  ASSUME UInv, UNCHANGED graphVars, UNCHANGED <<val, ver, active, seen, hurt>>
  PROVE  /\ \A ds : Vals(ds)' = Vals(ds) /\ Meanings(ds)' = Meanings(ds)
         /\ \A c : /\ Agrees(c)' <=> Agrees(c)
                   /\ Touched(c)' <=> Touched(c)
                   /\ Total(c)' = Total(c)
         /\ Positive'
<1>1. made' = made /\ deps' = deps /\ fn' = fn /\ Sources' = Sources
  BY GraphOn
<1>2. Meaning' = Meaning
  BY <1>1 DEF Meaning
<1>3. \A ds : Vals(ds)' = Vals(ds) /\ Meanings(ds)' = Meanings(ds)
  BY <1>1, <1>2 DEF Vals, Meanings
<1>4. Positive'
  BY Parts DEF Positive
<1> QED BY <1>1, <1>3, <1>4 DEF Agrees, Touched, Total

LEMMA MarksOn ==
  ASSUME UInv, UNCHANGED <<graphVars, histVars, val, ver, vsum>>, InShape',
         \A c \in Derived \ made : c \in Computeds => isDirty'[c],
         \A c \in made \cap Computeds :
           /\ isDirty[c] \/ c \in Pulling \/ c \in Pending
                => isDirty'[c] \/ c \in Pulling' \/ c \in Pending'
           /\ \A j \in 1 .. Len(deps[c]) :
                Ready(deps[c][j]) => \/ isDirty'[c] \/ c \in Pulling'
                                     \/ c \in Pending' \/ Ready(deps[c][j])',
         \A e \in active :
           e \in Pulling \/ e \in Pending => e \in Pulling' \/ e \in Pending',
         \A f \in Calls(stack') : f.at = "pull" => Collects(f)'
  PROVE  UInv'
<1>1. /\ UNCHANGED graphVars
      /\ UNCHANGED <<val, ver, vsum, active, seen, hurt>>
  BY DEF histVars
<1>2. GraphFit' /\ made' = made /\ deps' = deps
  BY <1>1, GraphOn
<1>3. /\ \A ds : Vals(ds)' = Vals(ds) /\ Meanings(ds)' = Meanings(ds)
      /\ \A c : /\ Agrees(c)' <=> Agrees(c)
                /\ Touched(c)' <=> Touched(c)
                /\ Total(c)' = Total(c)
      /\ Positive'
  BY <1>1, Steady
<1>4. Blank'
  BY <1>1, <1>2, Parts DEF Blank
<1>5. SumsTell'
  BY <1>1, <1>2, <1>3, Parts DEF SumsTell
<1>6. Told'
  BY <1>1, <1>2, <1>3, Parts DEF Told, ToldAt
<1>7. Fresh'
  <2> SUFFICES ASSUME NEW c \in made \cap Computeds
               PROVE  FreshAt(c)'
    BY <1>2 DEF Fresh
  <2>1. FreshAt(c)
    BY Parts DEF Fresh
  <2>2. CASE Touched(c)
    BY <1>3, <2>2 DEF FreshAt
  <2>3. CASE isDirty[c] \/ c \in Pulling \/ c \in Pending
    BY <2>3 DEF FreshAt
  <2>4. CASE Agrees(c) /\ \A j \in 1 .. Len(deps[c]) : Ready(deps[c][j])
    BY <1>2, <1>3, <2>4 DEF FreshAt
  <2> QED BY <2>1, <2>2, <2>3, <2>4 DEF FreshAt
<1>8. Gathered'
  BY GatheredNext
<1> QED BY <1>2, <1>3, <1>4, <1>5, <1>6, <1>7, <1>8
        DEF UInv, CallsFit, DataFit

(* What has been collected stays, unless a dependency is evaluated again.  *)
LEMMA CollectsOn ==
  ASSUME UNCHANGED <<val, ver, deps>>, NEW f, Collects(f),
         \A j \in 1 .. (f.arg - 1) :
           Ready(deps[f.cell][j]) => Ready(deps[f.cell][j])'
  PROVE  Collects(f)'
BY DEF Collects

(* An evaluation that begins has collected nothing.                        *)
LEMMA CollectsNone ==
  ASSUME IInv', NEW c \in Derived
  PROVE  Collects(Frame("value", "pull", c))'
<1> DEFINE f == Frame("value", "pull", c)
<1>1. f.arg = 1 /\ f.cell = c /\ f.sum = 0
  BY DEF Frame
<1>2. deps' \in [Derived -> Seq(Nodes)] /\ ver' \in [Nodes -> 0 .. (VersionModulus - 1)]
  BY DEF IInv, TypeOK, GraphType, DataType
<1>3. deps'[c] \in Seq(Nodes) /\ ver' \in [Nodes -> Nat]
  BY <1>2
<1>4. Sums(deps'[c], ver')[0] = 0
  BY <1>3, SumsUnfold
<1>5. \A j \in 1 .. (f.arg - 1) : FALSE
  BY <1>1
<1> HIDE DEF f
<1>6. Collects(f)'
  BY <1>1, <1>4, <1>5 DEF Collects
<1> QED BY <1>6 DEF f

(* A dirty computed is entered. *)
LEMMA Entered ==
  ASSUME IInv, IInv', UInv, UNCHANGED <<graphVars, histVars, val, ver, vsum>>, InShape',
         NEW d \in made \cap Computeds, isDirty[d],
         isDirty' = [isDirty EXCEPT ![d] = FALSE],
         Roots \subseteq Roots',
         NEW e, e = Frame("value", "pull", d), e \in Calls(stack'),
         \A f \in Calls(stack) \cup Calls(stack') :
           f.at = "pull" => (f \in Calls(stack') <=> f \in Calls(stack) \cup {e})
  PROVE  UInv'
<1>1. /\ UNCHANGED graphVars /\ active' = active
      /\ UNCHANGED <<val, ver, deps>>
  BY DEF histVars, graphVars
<1>2. /\ \A U \in SUBSET Derived : Spreads(U)' <=> Spreads(U)
  BY <1>1, GraphOn
<1>3. Pending \subseteq Pending'
  BY <1>2, PendingGrows
<1>4. e.at = "pull" /\ e.cell = d /\ d \in Derived
  BY DEF Frame, Derived
<1>5. Pulling' = Pulling \cup {d}
  BY <1>4, PullingNow, CallsNow DEF Pulls
<1>6. isDirty \in [Computeds -> BOOLEAN]
  BY DEF IInv, TypeOK, DataType
<1>7. \A x : Ready(x) => Ready(x)'
  <2> SUFFICES ASSUME NEW x, Ready(x) PROVE Ready(x)'
    OBVIOUS
  <2>1. ~Stale(x) /\ x \notin Pulling
    BY DEF Ready
  <2>2. x # d
    BY <2>1 DEF Stale
  <2>3. ~Stale(x)' /\ x \notin Pulling'
    BY <1>5, <1>6, <2>1, <2>2 DEF Stale
  <2> QED BY <2>3 DEF Ready
<1>8. Blank
  BY Parts
<1>9. \A c \in Derived \ made : c \in Computeds => isDirty'[c]
  BY <1>6, <1>8 DEF Blank
<1>10. \A c \in made \cap Computeds :
         isDirty[c] \/ c \in Pulling \/ c \in Pending
           => isDirty'[c] \/ c \in Pulling' \/ c \in Pending'
  BY <1>3, <1>5, <1>6
<1>11. \A f \in Calls(stack') : f.at = "pull" => Collects(f)'
  <2> SUFFICES ASSUME NEW f \in Calls(stack'), f.at = "pull"
               PROVE  Collects(f)'
    OBVIOUS
  <2>1. CASE f = e
    BY <1>4, <2>1, CollectsNone
  <2>2. CASE f \in Calls(stack)
    <3>1. Collects(f)
      BY <2>2, Parts, CallsNow
    <3> QED BY <1>1, <1>7, <3>1, CollectsOn
  <2> QED BY <2>1, <2>2
<1>12. \A c \in made \cap Computeds :
         /\ isDirty[c] \/ c \in Pulling \/ c \in Pending
              => isDirty'[c] \/ c \in Pulling' \/ c \in Pending'
         /\ \A j \in 1 .. Len(deps[c]) :
              Ready(deps[c][j]) => \/ isDirty'[c] \/ c \in Pulling'
                                   \/ c \in Pending' \/ Ready(deps[c][j])'
  BY <1>1, <1>7, <1>10
<1>13. \A c \in active :
         c \in Pulling \/ c \in Pending => c \in Pulling' \/ c \in Pending'
  BY <1>3, <1>5
<1> QED BY <1>9, <1>11, <1>12, <1>13, MarksOn

LEMMA PullDepFresh ==
  ASSUME IInv, IInv', UInv, PullDep
  PROVE  UInv'
<1> DEFINE c == Top.cell
           e == Frame("value", "pull", Dep)
<1>1. /\ ~Idle /\ Top.at = "pull" /\ Top.arg <= Len(deps[c]) /\ Stale(Dep)
      /\ UNCHANGED <<graphVars, histVars, val, ver, vsum>>
      /\ stack' = Append(stack, e)
      /\ isDirty' = [isDirty EXCEPT ![Dep] = FALSE]
      /\ deps' = deps /\ subs' = subs
  BY DEF PullDep, EnterValue, Collecting, Is, graphVars
<1>2. Top \in FrameSet /\ c \in made \cap Derived
  BY <1>1, TheTop, Lower
<1>3. Top.arg \in 1 .. Len(deps[c]) /\ Dep = deps[c][Top.arg]
  BY <1>1, <1>2, GraphFacts DEF FrameSet, Dep
<1>4. Dep \in made \cap Computeds /\ isDirty[Dep] /\ Dep \in Derived /\ Dep \in Cells
  BY <1>1, <1>2, <1>3, GraphFacts DEF Stale, Derived, Cells
<1>5. /\ e \in FrameSet /\ e.at = "pull" /\ e.op = "value" /\ e.cell = Dep
  BY <1>4, Frames
<1> HIDE DEF e
<1>6. Dep \notin Effects
  BY <1>4, Kinds
<1>7. InShape' /\ Calls(stack') = Calls(stack) \cup {e}
  BY <1>1, <1>2, <1>3, <1>4, <1>5, <1>6, Parts, PushOn
<1>8. Roots \subseteq Roots'
  BY <1>1, <1>7, RootsStay
<1> QED BY <1>1, <1>4, <1>7, <1>8, Entered DEF e

LEMMA ReadDirtyFresh ==
  ASSUME IInv, IInv', UInv, ReadDirty
  PROVE  UInv'
<1> DEFINE d == Top.cell
           f == [Top EXCEPT !.at = "end"]
           e == Frame("value", "pull", d)
<1>1. /\ ~Idle /\ Top.at = "lock" /\ Top.op = "Value" /\ Stale(d)
      /\ UNCHANGED <<graphVars, histVars, val, ver, vsum>>
      /\ stack' = Append(Moved(f), e)
      /\ isDirty' = [isDirty EXCEPT ![d] = FALSE]
      /\ deps' = deps /\ subs' = subs
  BY DEF ReadDirty, EnterValue, Locks, Is, graphVars
<1>2. Top \in FrameSet /\ Formed(Top, made, deps, subs)
  BY <1>1, TheTop
<1>3. d \in made \cap Computeds /\ isDirty[d] /\ d \in Derived /\ d \in Cells
  BY <1>1, <1>2 DEF Stale, Formed, Derived, Cells
<1>4. /\ e \in FrameSet /\ e.at = "pull" /\ e.op = "value" /\ e.cell = d
      /\ f \in FrameSet /\ f.op = Top.op /\ f.cell = d /\ f.at = "end"
  BY <1>2, <1>3, Frames DEF FrameSet
<1>10. e = Frame("value", "pull", d)
  OBVIOUS
<1> HIDE DEF e, f
<1>5. d \notin Effects
  BY <1>3, Kinds
<1>6. InShape' /\ Calls(stack') = Below(stack) \cup {f, e}
  BY <1>1, <1>3, <1>4, <1>5, Parts, TopPushOn
<1>7. Calls(stack) = Below(stack) \cup {Top}
  BY <1>1, StackNow
<1>8. Roots \subseteq Roots'
  BY <1>1, <1>6, <1>7, RootsStay DEF WillMark
<1>9. \A g \in Calls(stack) \cup Calls(stack') :
        g.at = "pull" => (g \in Calls(stack') <=> g \in Calls(stack) \cup {e})
  BY <1>1, <1>4, <1>6, <1>7
<1>11. e \in Calls(stack')
  BY <1>6
<1> HIDE DEF d
<1>12. /\ UNCHANGED <<graphVars, histVars, val, ver, vsum>>
       /\ isDirty' = [isDirty EXCEPT ![d] = FALSE]
  BY <1>1
<1>13. d \in made \cap Computeds /\ isDirty[d] /\ InShape'
  BY <1>3, <1>6
<1> QED BY <1>8, <1>9, <1>10, <1>11, <1>12, <1>13, Entered
-----------------------------------------------------------------------------
(* The marks. *)

(* A mark goes to what depends on the signal that is being written.        *)
LEMMA MarkCause ==
  ASSUME IInv, UInv, Marking
  PROVE  /\ ~Idle /\ Top \in FrameSet /\ Top.at = "mark" /\ Top.cell \in Nodes
         /\ Sub \in made \cap Derived /\ Sub = subs[Top.cell][Top.arg]
         /\ Top.arg \in 1 .. Len(subs[Top.cell])
         /\ \E j \in 1 .. Len(deps[Sub]) : deps[Sub][j] = Top.cell
         /\ \E g \in Calls(stack) : g.op = "SetValue" /\ g.cell \in Sources[Sub]
         /\ \A f \in Calls(stack) : f.at # "pull"
<1> DEFINE c == Top.cell
<1>1. ~Idle /\ Top.at = "mark" /\ Top.arg <= Top.last
  BY DEF Marking, Is
<1>2. /\ Top \in FrameSet /\ Formed(Top, made, deps, subs)
      /\ Top \in Calls(stack) /\ Top = stack[Len(stack)] /\ Len(stack) \in Nat \ {0}
  BY <1>1, StackNow
<1>3. c \in Nodes /\ Sub \in made \cap Derived
  BY Reached
<1>4. Top.arg \in 1 .. Len(subs[c])
  BY <1>1, <1>2, <1>3, GraphFacts DEF Formed, FrameSet
<1>5. PICK j \in 1 .. Len(deps[Sub]) : deps[Sub][j] = c
  BY <1>3, <1>4, Parts DEF SubsTrue, Sub
<1>6. Sources[c] \subseteq Sources[Sub]
  BY <1>3, <1>5, Parts, TouchedUp
<1>7. Top.op \in {"SetValue", "markDirty"}
  BY <1>1, <1>2 DEF Formed
<1>8. CASE Top.op = "SetValue"
  <2>1. c \in Signals /\ c \in Cells
    BY <1>2, <1>8 DEF Formed, FrameSet
  <2>2. c \in Sources[c]
    BY <2>1, Parts, SourcesUnfold DEF SourcesSolve
  <2>3. \E g \in Calls(stack) : g.op = "SetValue" /\ g.cell \in Sources[Sub]
    BY <1>2, <1>6, <1>8, <2>2
  <2> QED BY <1>1, <1>2, <1>3, <1>4, <1>5, <2>3, Parts, NoPull DEF Sub
<1>9. CASE Top.op = "markDirty"
  <2>1. Len(stack) \in 1 .. Len(stack)
    BY <1>2
  <2>2. CausedAt(stack, Len(stack))
    BY <2>1, Parts DEF Caused
  <2>3. PICK i \in 1 .. (Len(stack) - 1) :
          stack[i].op = "SetValue" /\ stack[i].cell \in Sources[c]
    BY <1>2, <1>9, <2>2 DEF CausedAt
  <2>4. stack[i] \in Calls(stack)
    BY <1>2, <2>3 DEF Calls
  <2>5. \E g \in Calls(stack) : g.op = "SetValue" /\ g.cell \in Sources[Sub]
    BY <1>6, <2>3, <2>4
  <2> QED BY <1>1, <1>2, <1>3, <1>4, <1>5, <2>5, Parts, NoPull DEF Sub
<1> QED BY <1>7, <1>8, <1>9

(* The loop goes on, without the mark that is made now.                    *)
LEMMA MarkRoots ==
  ASSUME IInv, UInv, Marking, UNCHANGED graphVars,
         NEW e, Calls(stack') = Below(stack) \cup {Advanced, e}
  PROVE  Roots \subseteq Roots' \cup {Sub}
<1>1. /\ Top \in FrameSet /\ Top.at = "mark" /\ Sub = subs[Top.cell][Top.arg]
      /\ Calls(stack) = Below(stack) \cup {Top} /\ subs' = subs
  BY MarkCause, StackNow DEF graphVars
<1>2. /\ Advanced.at = "mark" /\ Advanced.cell = Top.cell
      /\ Advanced.arg = Top.arg + 1 /\ Advanced.last = Top.last
      /\ Top.arg \in Nat /\ Top.last \in Nat
  BY <1>1 DEF Advanced, FrameSet
<1>3. ASSUME NEW x, WillMark(Top, x), x # Sub
      PROVE  WillMark(Advanced, x)
  <2>1. PICK k \in Top.arg .. Top.last : subs[Top.cell][k] = x
    BY <1>3 DEF WillMark
  <2>2. k # Top.arg
    BY <1>1, <1>3, <2>1
  <2>3. k \in (Top.arg + 1) .. Top.last
    BY <1>2, <2>1, <2>2
  <2> QED BY <1>2, <2>1, <2>3 DEF WillMark
<1>4. \A f \in Calls(stack) : \A x \in Derived :
        WillMark(f, x) => \/ x \in {Sub}
                          \/ \E g \in Calls(stack') : WillMark(g, x)
  BY <1>1, <1>3
<1> QED BY <1>1, <1>4, RootsStay

LEMMA MarkEffectFresh ==
  ASSUME IInv, IInv', UInv, MarkEffect
  PROVE  UInv'
<1> DEFINE e == Frame("value", "pull", Sub)
<1>1. /\ Marking /\ Sub \in Effects
      /\ UNCHANGED <<graphVars, histVars, val, ver, vsum>>
      /\ UNCHANGED <<isDirty, deps, made, active>> /\ UNCHANGED graphVars
      /\ stack' = Append(Moved(Advanced), e)
  BY DEF MarkEffect, dataVars, graphVars, histVars
<1>2. /\ ~Idle /\ Top \in FrameSet /\ Top.at = "mark" /\ Sub \in made \cap Derived
      /\ \E g \in Calls(stack) : g.op = "SetValue" /\ g.cell \in Sources[Sub]
      /\ \A f \in Calls(stack) : f.at # "pull"
  BY <1>1, MarkCause
<1>3. Sub \in Cells /\ Sub \notin Computeds /\ Sub \notin Nodes
  BY <1>1, <1>2, Kinds DEF Cells, Nodes
<1>4. /\ e \in FrameSet /\ e.at = "pull" /\ e.op = "value" /\ e.cell = Sub
      /\ e = Frame("value", "pull", Sub)
  BY <1>3, Frames
<1> HIDE DEF e
<1>5. /\ Advanced \in FrameSet /\ Advanced.op = Top.op /\ Advanced.cell = Top.cell
      /\ Advanced.at = "mark"
  BY <1>2, NextOne
<1>6. InShape' /\ Calls(stack') = Below(stack) \cup {Advanced, e}
  BY <1>1, <1>2, <1>4, <1>5, Parts, TopPushOn
<1>7. Calls(stack) = Below(stack) \cup {Top}
  BY <1>2, StackNow
<1>8. Roots \subseteq Roots' \cup {Sub}
  BY <1>1, <1>6, MarkRoots
<1>9. \A x \in Watching : \A j \in 1 .. Len(deps[x]) : deps[x][j] # Sub
  BY <1>3, GraphFacts
<1>10. Pending \subseteq Pending' \cup {Sub}
  BY <1>1, <1>2, <1>8, <1>9, PendingLess
<1>11. Pulling = {} /\ Pulling' = {Sub}
  BY <1>2, <1>4, <1>5, <1>6, <1>7, PullingNow, CallsNow DEF Pulls
<1>12. \A c \in Nodes : Ready(c) => Ready(c)'
  BY <1>1, <1>3, <1>11 DEF Ready, Stale
<1>13. \A f \in Calls(stack') : f.at = "pull" => Collects(f)'
  BY <1>2, <1>4, <1>5, <1>6, <1>7, CollectsNone
<1>14. \A c \in Derived \ made : c \in Computeds => isDirty'[c]
  BY <1>1, Parts DEF Blank
<1>15. \A c \in made \cap Computeds :
         /\ isDirty[c] \/ c \in Pulling \/ c \in Pending
              => isDirty'[c] \/ c \in Pulling' \/ c \in Pending'
         /\ \A j \in 1 .. Len(deps[c]) :
              Ready(deps[c][j]) => \/ isDirty'[c] \/ c \in Pulling'
                                   \/ c \in Pending' \/ Ready(deps[c][j])'
  <2> TAKE c \in made \cap Computeds
  <2>1. c # Sub
    BY <1>3
  <2>2. \A j \in 1 .. Len(deps[c]) : deps[c][j] \in Nodes
    BY GraphFacts
  <2> QED BY <1>1, <1>10, <1>11, <1>12, <2>1, <2>2
<1>16. \A c \in active :
         c \in Pulling \/ c \in Pending => c \in Pulling' \/ c \in Pending'
  BY <1>10, <1>11
<1> QED BY <1>1, <1>6, <1>13, <1>14, <1>15, <1>16, MarksOn

LEMMA MarkComputedFresh ==
  ASSUME IInv, IInv', UInv, MarkComputed
  PROVE  UInv'
<1> DEFINE x == Sub
           h == Frame("markDirty", "mark", x)
           e == [h EXCEPT !.last = Len(subs[x])]
<1>1. /\ Marking /\ x \in Computeds
      /\ UNCHANGED <<graphVars, histVars, val, ver, vsum>>
      /\ isDirty' = [isDirty EXCEPT ![x] = TRUE]
      /\ UNCHANGED <<deps, made, active, subs>> /\ UNCHANGED graphVars
      /\ stack' = Append(Moved(Advanced), e)
  BY DEF MarkComputed, graphVars, histVars
<1>2. /\ ~Idle /\ Top \in FrameSet /\ Top.at = "mark" /\ x \in made \cap Derived
      /\ \E g \in Calls(stack) : g.op = "SetValue" /\ g.cell \in Sources[x]
      /\ \A f \in Calls(stack) : f.at # "pull"
  BY <1>1, MarkCause
<1>3. x \in Cells /\ x \notin Effects /\ x \in Nodes /\ Len(subs[x]) \in Nat
  BY <1>1, <1>2, Kinds, GraphFacts DEF Cells, Nodes
<1>4. h \in FrameSet /\ h.op = "markDirty" /\ h.at = "mark" /\ h.cell = x /\ h.arg = 1
  BY <1>3, Frames
<1>5. /\ e \in FrameSet /\ e.op = "markDirty" /\ e.at = "mark" /\ e.cell = x
      /\ e.arg = 1 /\ e.last = Len(subs[x])
  <2> HIDE DEF h, x
  <2> QED BY <1>3, <1>4 DEF FrameSet
<1> HIDE DEF e, h
<1>6. /\ Advanced \in FrameSet /\ Advanced.op = Top.op /\ Advanced.cell = Top.cell
      /\ Advanced.at = "mark"
  BY <1>2, NextOne
<1>7. InShape' /\ Calls(stack') = Below(stack) \cup {Advanced, e}
  BY <1>1, <1>2, <1>5, <1>6, Parts, TopPushOn
<1>8. Calls(stack) = Below(stack) \cup {Top}
  BY <1>2, StackNow
<1>9. Roots \subseteq Roots' \cup {x}
  BY <1>1, <1>7, MarkRoots
<1> HIDE DEF x
<1>10. ASSUME NEW y \in Watching, \E j \in 1 .. Len(deps[y]) : deps[y][j] = x
       PROVE  y \in Roots'
  <2>1. PICK k \in 1 .. Len(subs[x]) : subs[x][k] = y
    BY <1>10, Parts DEF Linked
  <2>2. WillMark(e, y) /\ e \in Calls(stack') /\ y \in Derived
    BY <1>5, <1>7, <2>1, GraphFacts DEF WillMark
  <2> QED BY <1>1, <2>2, RootsNext
<1>11. Pending \subseteq Pending' \cup {x}
  BY <1>1, <1>2, <1>9, <1>10, PendingLess
<1>12. Pulling = {} /\ Pulling' = {}
  BY <1>2, <1>5, <1>6, <1>7, <1>8, PullingNow, CallsNow DEF Pulls
<1>13. isDirty \in [Computeds -> BOOLEAN]
  BY DEF IInv, TypeOK, DataType
<1>14. \A c \in Nodes : c # x /\ Ready(c) => Ready(c)'
  BY <1>1, <1>12, <1>13 DEF Ready, Stale
<1>15. \A f \in Calls(stack') : f.at = "pull" => Collects(f)'
  BY <1>2, <1>5, <1>6, <1>7, <1>8
<1>16. \A c \in Derived \ made : c \in Computeds => isDirty'[c]
  BY <1>1, <1>13, Parts DEF Blank
<1>17. \A c \in made \cap Computeds :
         /\ isDirty[c] \/ c \in Pulling \/ c \in Pending
              => isDirty'[c] \/ c \in Pulling' \/ c \in Pending'
         /\ \A j \in 1 .. Len(deps[c]) :
              Ready(deps[c][j]) => \/ isDirty'[c] \/ c \in Pulling'
                                   \/ c \in Pending' \/ Ready(deps[c][j])'
  <2> TAKE c \in made \cap Computeds
  <2>1. \A j \in 1 .. Len(deps[c]) : deps[c][j] \in Nodes
    BY GraphFacts
  <2>2. isDirty'[x] /\ (isDirty[c] => isDirty'[c])
    BY <1>1, <1>13
  <2>3. ASSUME NEW j \in 1 .. Len(deps[c]), Ready(deps[c][j])
        PROVE  c \in Pending' \/ Ready(deps[c][j])'
    <3>1. CASE deps[c][j] = x
      <4>1. c \in Roots'
        BY <1>10, <3>1 DEF Watching
      <4>2. (Roots \subseteq Pending)'
        BY RootsPending, PTL
      <4> QED BY <4>1, <4>2
    <3>2. CASE deps[c][j] # x
      <4>1. PICK d : d = deps[c][j]
        OBVIOUS
      <4>2. Ready(d)'
        BY <1>14, <2>1, <2>3, <3>2, <4>1
      <4> QED BY <1>1, <4>1, <4>2 DEF Ready, Stale
    <3> QED BY <3>1, <3>2
  <2> QED BY <1>11, <1>12, <2>2, <2>3
<1>18. \A c \in active :
         c \in Pulling \/ c \in Pending => c \in Pulling' \/ c \in Pending'
  <2>1. \A c \in active : c # x
    BY <1>3 DEF IInv, TypeOK, HistType
  <2> QED BY <1>11, <1>12, <2>1
<1>19. UNCHANGED <<graphVars, histVars, val, ver, vsum>> /\ InShape'
  BY <1>1, <1>7
<1> QED BY <1>15, <1>16, <1>17, <1>18, <1>19, MarksOn
-----------------------------------------------------------------------------
(* A write. *)

LEMMA TotalGrows ==
  ASSUME IInv, IInv', deps' = deps, NEW c \in Derived,
         \A d \in Nodes : ver[d] <= ver'[d]
  PROVE  /\ Total(c) \in Nat /\ Total(c)' \in Nat /\ Total(c) <= Total(c)'
         /\ (\E j \in 1 .. Len(deps[c]) : ver[deps[c][j]] < ver'[deps[c][j]])
              => Total(c) < Total(c)'
<1>1. /\ deps[c] \in Seq(Nodes) /\ Len(deps[c]) \in Nat
      /\ \A j \in 1 .. Len(deps[c]) : deps[c][j] \in Nodes
      /\ ver \in [Nodes -> Nat]
  BY GraphFacts
<1>2. ver' \in [Nodes -> Nat]
  BY DEF IInv, TypeOK, DataType
<1>3. Len(deps[c]) \in 0 .. Len(deps[c])
  BY <1>1
<1>4. PICK ws \in [Nodes -> Nat] : ws = ver'
  BY <1>2
<1>5. Total(c)' = Sums(deps[c], ws)[Len(deps[c])]
      /\ Total(c) = Sums(deps[c], ver)[Len(deps[c])]
  BY <1>4 DEF Total
<1>6. Sums(deps[c], ws)[Len(deps[c])] \in Nat /\ Sums(deps[c], ver)[Len(deps[c])] \in Nat
  BY <1>1, <1>3, SumsUnfold
<1>7. \A j \in 1 .. Len(deps[c]) : ver[deps[c][j]] <= ws[deps[c][j]]
  BY <1>1, <1>4
<1>8. /\ \A n \in 0 .. Len(deps[c]) : Sums(deps[c], ver)[n] <= Sums(deps[c], ws)[n]
      /\ \A n \in 0 .. Len(deps[c]) :
           (\E j \in 1 .. n : ver[deps[c][j]] < ws[deps[c][j]])
             => Sums(deps[c], ver)[n] < Sums(deps[c], ws)[n]
  BY <1>1, <1>7, SumsGrow
<1>9. /\ Sums(deps[c], ver)[Len(deps[c])] <= Sums(deps[c], ws)[Len(deps[c])]
      /\ (\E j \in 1 .. Len(deps[c]) : ver[deps[c][j]] < ws[deps[c][j]])
           => Sums(deps[c], ver)[Len(deps[c])] < Sums(deps[c], ws)[Len(deps[c])]
  BY <1>3, <1>8
<1> QED BY <1>4, <1>5, <1>6, <1>9

(* A cell with values that have not grown agrees with them as before.      *)
LEMMA TellOn ==
  ASSUME IInv, IInv', SumsTell, made' = made, deps' = deps, fn' = fn,
         NEW c \in made \cap Derived, vsum'[c] = vsum[c],
         Touched(c) => Touched(c)',
         \A d \in Nodes : ver[d] <= ver'[d],
         \A j \in 1 .. Len(deps[c]) :
           val'[deps[c][j]] # val[deps[c][j]] => ver[deps[c][j]] < ver'[deps[c][j]],
         c \in Computeds => val'[c] = val[c],
         c \notin Computeds => seen'[c] = seen[c]
  PROVE  /\ vsum'[c] <= Total(c)'
         /\ vsum'[c] = Total(c)' => Touched(c)' \/ Agrees(c)'
<1>1. /\ Total(c) \in Nat /\ Total(c)' \in Nat /\ Total(c) <= Total(c)'
      /\ (\E j \in 1 .. Len(deps[c]) : ver[deps[c][j]] < ver'[deps[c][j]])
              => Total(c) < Total(c)'
  BY TotalGrows
<1>2. vsum[c] \in Nat
  BY DEF IInv, TypeOK, DataType
<1>3. /\ vsum[c] <= Total(c)
      /\ vsum[c] = Total(c) => Touched(c) \/ Agrees(c)
  BY DEF SumsTell
<1>4. vsum'[c] <= Total(c)'
  BY <1>1, <1>2, <1>3
<1>5. ASSUME vsum'[c] = Total(c)'
      PROVE  Touched(c)' \/ Agrees(c)'
  <2>1. /\ Total(c) = Total(c)' /\ vsum[c] = Total(c)
        /\ ~(Total(c) < Total(c)')
    BY <1>1, <1>2, <1>3, <1>5
  <2>2. \A j \in 1 .. Len(deps[c]) : val'[deps[c][j]] = val[deps[c][j]]
    BY <1>1, <2>1
  <2>3. DOMAIN deps[c] = 1 .. Len(deps[c])
    BY GraphFacts
  <2>4. Vals(deps[c])' = Vals(deps[c])
    BY <2>2, <2>3 DEF Vals
  <2>5. Agrees(c) => Agrees(c)'
    BY <2>4 DEF Agrees
  <2> QED BY <1>3, <2>1, <2>5
<1> QED BY <1>4, <1>5

LEMMA WriteFresh ==
  ASSUME IInv, IInv', UInv, Unwrapped, Write
  PROVE  UInv'
<1> DEFINE s == Top.cell
           f == [Top EXCEPT !.at = "mark", !.last = Len(subs[s])]
<1>1. /\ ~Idle /\ Top.at = "lock" /\ Top.op = "SetValue"
      /\ UNCHANGED <<graphVars, histVars, isDirty, vsum>>
      /\ UNCHANGED <<deps, subs, made, fn, active, seen, hurt>> /\ UNCHANGED graphVars
      /\ stack' = Moved(f)
      /\ val' = [val EXCEPT ![s] = Top.args[1]]
      /\ ver' = [ver EXCEPT ![s] = Plus(@, 1)]
  BY DEF Write, Locks, Is, graphVars, histVars
<1>2. /\ Top \in FrameSet /\ Formed(Top, made, deps, subs)
      /\ Calls(stack) = Below(stack) \cup {Top}
      /\ Top = stack[Len(stack)] /\ Len(stack) \in Nat \ {0}
  BY <1>1, StackNow
<1>3. /\ s \in Signals /\ s \in Nodes /\ s \notin Computeds /\ s \notin Derived
      /\ Len(subs[s]) \in Nat
  BY <1>1, <1>2, Kinds, GraphFacts DEF Formed, Nodes, Derived
<1>4. Top.arg = 1
  <2>1. Len(stack) \in 1 .. Len(stack)
    BY <1>2
  <2> QED BY <1>1, <1>2, <2>1, Parts DEF Starts
<1>5. /\ f \in FrameSet /\ f.op = "SetValue" /\ f.at = "mark" /\ f.cell = s
      /\ f.arg = 1 /\ f.last = Len(subs[s])
  BY <1>1, <1>2, <1>3, <1>4 DEF FrameSet
<1> HIDE DEF f
<1>6. \A g \in Calls(stack) : g.at # "pull"
  BY <1>1, Parts, NoPull
<1>7. InShape' /\ Calls(stack') = Below(stack) \cup {f}
  BY <1>1, <1>2, <1>5, <1>6, Parts, TopOn
<1>8. Pulling = {} /\ Pulling' = {}
  BY <1>2, <1>5, <1>6, <1>7, PullingNow, CallsNow DEF Pulls
<1>9. Roots \subseteq Roots'
  BY <1>1, <1>2, <1>7, RootsStay DEF WillMark
<1> HIDE DEF s
<1>10. ASSUME NEW x \in Watching, \E j \in 1 .. Len(deps[x]) : deps[x][j] = s
       PROVE  x \in Pending'
  <2>1. PICK k \in 1 .. Len(subs[s]) : subs[s][k] = x
    BY <1>10, Parts DEF Linked
  <2>2. WillMark(f, x) /\ f \in Calls(stack') /\ x \in Derived
    BY <1>5, <1>7, <2>1, GraphFacts DEF WillMark
  <2>3. x \in Roots'
    BY <1>1, <2>2, RootsNext
  <2>4. (Roots \subseteq Pending)'
    BY RootsPending, PTL
  <2> QED BY <2>3, <2>4
<1>11. /\ GraphFit' /\ Watching' = Watching /\ Sources' = Sources
       /\ \A U \in SUBSET Derived : Spreads(U)' <=> Spreads(U)
  BY <1>1, GraphOn
<1>12. Pending \subseteq Pending'
  BY <1>9, <1>11, PendingGrows
<1>13. /\ val \in [Nodes -> Values] /\ ver \in [Nodes -> Nat]
       /\ ver[s] + 1 < VersionModulus /\ Plus(ver[s], 1) = ver[s] + 1
  <2>1. ver[s] \in Nat /\ ver[s] + 1 < VersionModulus /\ VersionModulus \in Nat \ {0}
    BY <1>3, GraphFacts, BoundsAssumption DEF Unwrapped
  <2>2. (ver[s] + 1) % VersionModulus = ver[s] + 1
    BY <2>1
  <2> QED BY <2>1, <2>2, GraphFacts DEF Plus, IInv, TypeOK, DataType
<1>14. /\ \A d \in Nodes : d # s => val'[d] = val[d] /\ ver'[d] = ver[d]
       /\ ver'[s] = ver[s] + 1
  BY <1>1, <1>3, <1>13
<1>15. \A d \in Nodes : ver[d] <= ver'[d] /\ (val'[d] # val[d] => ver[d] < ver'[d])
  <2> TAKE d \in Nodes
  <2>1. ver[d] \in Nat
    BY <1>13
  <2> QED BY <1>14, <2>1
<1>16. Positive'
  <2> SUFFICES ASSUME NEW d \in Nodes PROVE ver'[d] >= 1
    BY DEF Positive
  <2>1. ver[d] \in Nat /\ ver[d] >= 1 /\ ver[d] <= ver'[d]
    BY <1>13, <1>15, Parts DEF Positive
  <2>2. ver'[d] \in Nat
    BY <1>13, <1>14
  <2> QED BY <2>1, <2>2
<1>17. Blank'
  BY <1>1, Parts DEF Blank
<1>18. \A c : Touched(c)' <=> Touched(c)
  BY <1>1, <1>11 DEF Touched
<1>19. SumsTell'
  <2> SUFFICES ASSUME NEW c \in made \cap Derived
               PROVE  /\ vsum'[c] <= Total(c)'
                      /\ vsum'[c] = Total(c)' => Touched(c)' \/ Agrees(c)'
    BY <1>1 DEF SumsTell
  <2>1. \A j \in 1 .. Len(deps[c]) : deps[c][j] \in Nodes
    BY GraphFacts
  <2>2. c \in Computeds => val'[c] = val[c]
    BY <1>3, <1>14 DEF Nodes
  <2> QED BY <1>1, <1>15, <1>18, <2>1, <2>2, Parts, TellOn
<1>20. \A x : Ready(x)' <=> Ready(x)
  BY <1>1, <1>8 DEF Ready, Stale
<1>21. Fresh'
  <2> SUFFICES ASSUME NEW c \in made \cap Computeds, c \notin Pending'
               PROVE  FreshAt(c)'
    BY <1>1 DEF Fresh, FreshAt
  <2>1. c \in Watching /\ c \in Derived /\ c # s /\ c \in Nodes
    BY <1>3 DEF Watching, Derived, Nodes
  <2>2. /\ DOMAIN deps[c] = 1 .. Len(deps[c])
        /\ \A j \in 1 .. Len(deps[c]) : deps[c][j] \in Nodes
    BY <2>1, GraphFacts
  <2>3. \A j \in 1 .. Len(deps[c]) : val'[deps[c][j]] = val[deps[c][j]]
    BY <1>10, <1>14, <2>1, <2>2
  <2>4. Vals(deps[c])' = Vals(deps[c]) /\ val'[c] = val[c]
    BY <1>1, <1>14, <2>1, <2>2, <2>3 DEF Vals
  <2>5. Agrees(c) => Agrees(c)'
    BY <1>1, <2>1, <2>4 DEF Agrees
  <2>6. FreshAt(c) /\ c \notin Pending
    BY <1>12, Parts DEF Fresh
  <2> QED BY <1>1, <1>8, <1>18, <1>20, <2>5, <2>6 DEF FreshAt
<1>22. Told'
  <2> DEFINE X == Pending' \cup {s} \cup (Effects \ active)
  <2>1. \A c \in made \cap Derived :
          (\E j \in 1 .. Len(deps[c]) : deps[c][j] \in X) => c \in X
    <3> SUFFICES ASSUME NEW c \in made \cap Derived, NEW j \in 1 .. Len(deps[c]),
                        deps[c][j] \in X, c \notin Effects \ active
                 PROVE  c \in Pending'
      OBVIOUS
    <3>1. c \in Watching
      BY DEF Watching, Derived
    <3>2. deps[c][j] \notin Effects
      BY GraphFacts, KindsAssumption
    <3>3. CASE deps[c][j] = s
      BY <1>10, <3>1, <3>3
    <3>4. CASE deps[c][j] \in Pending'
      <4>1. PendingClosed'
        BY PendingCloses, PTL
      <4>2. deps' = deps /\ Watching' = Watching
        BY <1>1, <1>11
      <4> QED BY <3>1, <3>4, <4>1, <4>2 DEF PendingClosed
    <3> QED BY <3>2, <3>3, <3>4
  <2>2. \A r \in made \cap Signals : r \in X \/ val'[r] = val[r]
    BY <1>14 DEF Nodes
  <2> HIDE DEF X
  <2>3. Ordered /\ Blank /\ Ordered'
    BY <1>7, Parts DEF InShape
  <2>4. \A c \in made \cap Derived : c \in X \/ Meanings(deps[c])' = Meanings(deps[c])
    BY <1>1, <1>17, <2>1, <2>2, <2>3, MeaningSame
  <2> SUFFICES ASSUME NEW e \in active, e \notin Pending' PROVE ToldAt(e)'
    BY <1>1 DEF Told, ToldAt
  <2>5. e \in made \cap Derived /\ e # s /\ e \in Effects
    BY <1>3 DEF IInv, TypeOK, HistType, Derived
  <2>6. Meanings(deps[e])' = Meanings(deps[e])
    BY <2>4, <2>5 DEF X
  <2>7. ToldAt(e) /\ e \notin Pending
    BY <1>12, Parts DEF Told
  <2> QED BY <1>1, <1>8, <1>18, <2>6, <2>7 DEF ToldAt
<1>23. Gathered'
  <2>1. \A g \in Calls(stack') : g.at # "pull"
    BY <1>2, <1>5, <1>6, <1>7
  <2> QED BY <2>1, GatheredNext
<1> QED BY <1>7, <1>11, <1>16, <1>17, <1>19, <1>21, <1>22, <1>23
        DEF UInv, CallsFit, DataFit
-----------------------------------------------------------------------------
(* An evaluation that has collected all. *)

LEMMA Gathering ==
  ASSUME IInv, UInv, Collected
  PROVE  /\ ~Idle /\ Top.at = "pull" /\ Top \in FrameSet /\ Top.op = "value"
         /\ Top.cell \in made \cap Derived /\ Top.sum = Total(Top.cell)
         /\ \A j \in 1 .. Len(deps[Top.cell]) :
              Ready(deps[Top.cell][j]) /\ deps[Top.cell][j] # Top.cell
         /\ Calling => Top.args = Vals(deps[Top.cell])
<1> DEFINE c == Top.cell
<1>1. ~Idle /\ Top.at = "pull" /\ Top.arg > Len(deps[c])
  BY DEF Collected, Is
<1>2. /\ Top \in FrameSet /\ Formed(Top, made, deps, subs)
      /\ c \in made \cap Derived
  BY <1>1, TheTop, Lower
<1>3. Len(deps[c]) \in Nat /\ DOMAIN deps[c] = 1 .. Len(deps[c])
  BY <1>2, GraphFacts
<1>4. Top.op = "value" /\ Top.arg - 1 = Len(deps[c])
  BY <1>1, <1>2, <1>3 DEF Formed, FrameSet
<1>5. Collects(Top)
  BY <1>1, Parts, StackNow, CallsNow
<1>6. /\ Top.sum = Total(c)
      /\ \A j \in 1 .. Len(deps[c]) : Ready(deps[c][j]) /\ Top.args[j] = val[deps[c][j]]
  BY <1>4, <1>5 DEF Collects, Total
<1>7. \A j \in 1 .. Len(deps[c]) : deps[c][j] # c
  BY <1>1, Lower
<1>8. ASSUME Calling
      PROVE  Top.args = Vals(deps[c])
  <2>1. Top.args \in [DOMAIN deps[c] -> Values]
    BY <1>8, TheCall
  <2> QED BY <1>3, <1>6, <2>1 DEF Vals
<1> QED BY <1>1, <1>2, <1>4, <1>6, <1>7, <1>8

(* It returns, or calls back. *)
LEMMA Finishing ==
  ASSUME IInv, UInv, Collected, UNCHANGED graphVars, active' = active,
         isDirty' = isDirty, NEW G, \A f \in G : f.at # "pull",
         Calls(stack') = Below(stack) \cup G
  PROVE  /\ Pulling = Pulling' \cup {Top.cell} /\ Top.cell \notin Pulling'
         /\ Pending \subseteq Pending'
         /\ \A d : Ready(d) => Ready(d)'
         /\ \A f \in Calls(stack') : f.at = "pull" => Collects(f)
<1>1. /\ ~Idle /\ Top.at = "pull" /\ Top.cell \in Derived
      /\ Calls(stack) = Below(stack) \cup {Top}
  BY Gathering, StackNow
<1>2. \A f \in Calls(stack') : f.at = "pull" <=> f \in Below(stack) /\ f.at = "pull"
  OBVIOUS
<1>3. Pulling = Pulling' \cup {Top.cell}
  BY <1>1, <1>2, PullingNow, CallsNow DEF Pulls
<1>4. Top.cell \notin Pulling'
  BY <1>1, <1>2, Lower, PullingNow DEF Pulls
<1>5. \A d : Ready(d) => Ready(d)'
  BY <1>3 DEF Ready, Stale
<1>6. \A f \in Calls(stack') : f.at = "pull" => Collects(f)
  BY <1>1, <1>2, Parts, CallsNow
<1>7. /\ subs' = subs
      /\ \A U \in SUBSET Derived : Spreads(U)' <=> Spreads(U)
  BY GraphOn
<1>8. Roots \subseteq Roots'
  BY <1>1, <1>7, RootsStay DEF WillMark
<1>9. Pending \subseteq Pending'
  BY <1>7, <1>8, PendingGrows
<1> QED BY <1>3, <1>4, <1>5, <1>6, <1>9

LEMMA PullSameFresh ==
  ASSUME IInv, UInv, PullSame
  PROVE  UInv'
<1> DEFINE c == Top.cell
<1>1. /\ Collected /\ Top.sum = vsum[c]
      /\ UNCHANGED graphVars /\ UNCHANGED dataVars /\ UNCHANGED histVars
      /\ UNCHANGED <<val, ver, vsum, isDirty, active, seen, hurt>>
      /\ UNCHANGED <<made, deps, fn>> /\ stack' = Popped
  BY DEF PullSame, graphVars, dataVars, histVars
<1>2. /\ ~Idle /\ Top.at = "pull" /\ c \in made \cap Derived /\ Top.sum = Total(c)
      /\ \A j \in 1 .. Len(deps[c]) : Ready(deps[c][j])
  BY <1>1, Gathering
<1>3. InShape' /\ Calls(stack') = Below(stack)
  BY <1>1, <1>2, Parts, PopOn
<1>4. /\ Pulling = Pulling' \cup {c} /\ c \notin Pulling' /\ Pending \subseteq Pending'
      /\ \A d : Ready(d) => Ready(d)'
      /\ \A f \in Calls(stack') : f.at = "pull" => Collects(f)
  <2>1. PICK G : G = {}
    OBVIOUS
  <2>2. (\A f \in G : f.at # "pull") /\ Calls(stack') = Below(stack) \cup G
    BY <1>3, <2>1
  <2>3. /\ Collected /\ UNCHANGED graphVars /\ active' = active
        /\ isDirty' = isDirty
    BY <1>1
  <2> QED BY <2>2, <2>3, Finishing
<1>5. /\ \A ds : Vals(ds)' = Vals(ds) /\ Meanings(ds)' = Meanings(ds)
      /\ \A x : (Agrees(x)' <=> Agrees(x)) /\ (Touched(x)' <=> Touched(x))
                /\ Total(x)' = Total(x)
      /\ Positive' /\ GraphFit'
  BY <1>1, Steady, GraphOn
<1>6. SumsTell' /\ Blank'
  BY <1>1, <1>5, Parts DEF SumsTell, Blank
<1>7. Touched(c) \/ Agrees(c)
  BY <1>1, <1>2, Parts DEF SumsTell
<1>8. Gathered'
  <2> SUFFICES ASSUME NEW f \in Calls(stack'), f.at = "pull" PROVE Collects(f)'
    BY GatheredNext
  <2> QED BY <1>1, <1>4, CollectsOn
<1>9. Fresh'
  <2> SUFFICES ASSUME NEW x \in made \cap Computeds PROVE FreshAt(x)'
    BY <1>1 DEF Fresh, FreshAt
  <2>1. FreshAt(x)
    BY Parts DEF Fresh
  <2>2. \A j \in 1 .. Len(deps[x]) : Ready(deps[x][j]) => Ready(deps[x][j])'
    <3> TAKE j \in 1 .. Len(deps[x])
    <3>1. PICK d : d = deps[x][j]
      OBVIOUS
    <3>2. Ready(d) => Ready(d)'
      BY <1>4
    <3> QED BY <1>1, <3>1, <3>2 DEF Ready, Stale
  <2>3. CASE x = c
    <3>1. Touched(x)' \/ Agrees(x)'
      BY <1>5, <1>7, <2>3
    <3>2. \A j \in 1 .. Len(deps[x]) : Ready(deps[x][j])'
      BY <1>2, <2>2, <2>3
    <3> QED BY <1>1, <3>1, <3>2 DEF FreshAt
  <2>4. CASE x # c
    BY <1>1, <1>4, <1>5, <2>1, <2>2, <2>4 DEF FreshAt
  <2> QED BY <2>3, <2>4
<1>10. Told'
  <2> SUFFICES ASSUME NEW e \in active PROVE ToldAt(e)'
    BY <1>1 DEF Told, ToldAt
  <2>1. ToldAt(e)
    BY Parts DEF Told
  <2>2. CASE e = c
    <3> SUFFICES ASSUME ~Touched(e), e \notin Pending
                 PROVE  seen[e] = Meanings(deps[e])
      BY <1>1, <1>4, <1>5 DEF ToldAt
    <3>1. c \notin Computeds /\ c \in Watching
      BY <2>2, Kinds DEF IInv, TypeOK, HistType, Watching
    <3>2. Vals(deps[c]) = Meanings(deps[c])
      BY <1>2, <2>2, <3>1, CurrentArgs
    <3> QED BY <1>7, <2>2, <3>1, <3>2 DEF Agrees
  <2>3. CASE e # c
    BY <1>1, <1>4, <1>5, <2>1, <2>3 DEF ToldAt
  <2> QED BY <2>2, <2>3
<1> QED BY <1>3, <1>5, <1>6, <1>8, <1>9, <1>10 DEF UInv, CallsFit, DataFit

LEMMA SumsKept ==
  ASSUME IInv, IInv', NEW x \in made \cap Derived, NEW m \in 0 .. Len(deps[x]),
         \A j \in 1 .. m : ver'[deps[x][j]] = ver[deps[x][j]]
  PROVE  /\ Sums(deps[x], ver)[m] \in Nat
         /\ Sums(deps[x], ver)[m] = Sums(deps[x], ver')[m]
<1>1. PICK ds \in Seq(Nodes) : ds = deps[x]
  BY GraphFacts
<1>2. PICK vs \in [Nodes -> Nat] : vs = ver
  BY GraphFacts
<1>3. PICK ws \in [Nodes -> Nat] : ws = ver'
  BY DEF IInv, TypeOK, DataType
<1>4. m \in 0 .. Len(ds) /\ \A j \in 1 .. m : vs[ds[j]] = ws[ds[j]]
  BY <1>1, <1>2, <1>3
<1>5. Sums(ds, vs)[m] = Sums(ds, ws)[m]
  BY <1>4, SumsSame
<1>6. Sums(ds, vs) \in [0 .. Len(ds) -> Nat]
  BY SumsUnfold
<1>7. Sums(ds, vs)[m] \in Nat
  BY <1>4, <1>6
<1> QED BY <1>1, <1>2, <1>3, <1>5, <1>7

(* The getter is pure, and its version tells whether the value changes. *)
LEMMA PullGetFresh ==
  ASSUME IInv, IInv', UInv, Unwrapped, PullGet
  PROVE  UInv'
<1> DEFINE v == Apply(fn[Top.cell], Top.args)
<1>1. PICK c : c = Top.cell
  OBVIOUS
<1>2. /\ Calling /\ Collected /\ c \in Computeds
      /\ UNCHANGED graphVars /\ UNCHANGED histVars
      /\ UNCHANGED <<isDirty, active, seen, hurt, made, deps, fn, subs>>
      /\ val' = [val EXCEPT ![c] = v]
      /\ ver' = IF v = val[c] THEN ver ELSE [ver EXCEPT ![c] = Plus(@, 1)]
      /\ vsum' = [vsum EXCEPT ![c] = Top.sum] /\ stack' = Popped
  BY <1>1 DEF PullGet, Calling, SumStored, graphVars, histVars
<1>3. /\ ~Idle /\ Top.at = "pull" /\ c \in made \cap Derived /\ Top.sum = Total(c)
      /\ \A j \in 1 .. Len(deps[c]) : Ready(deps[c][j]) /\ deps[c][j] # c
      /\ v = Apply(fn[c], Vals(deps[c]))
  BY <1>1, <1>2, Gathering
<1> HIDE DEF v
<1>4. /\ c \in Nodes /\ c \notin Signals /\ c \notin Effects
      /\ val \in [Nodes -> Values] /\ ver \in [Nodes -> Nat]
      /\ vsum \in [Derived -> 0 .. (VersionModulus - 1)]
      /\ isDirty \in [Computeds -> BOOLEAN]
  BY <1>2, Kinds, GraphFacts DEF Nodes, IInv, TypeOK, DataType
<1>5. InShape' /\ Calls(stack') = Below(stack)
  BY <1>2, <1>3, Parts, PopOn
<1>6. /\ Pulling = Pulling' \cup {c} /\ c \notin Pulling' /\ Pending \subseteq Pending'
      /\ \A d : Ready(d) => Ready(d)'
      /\ \A f \in Calls(stack') : f.at = "pull" => Collects(f)
  <2>1. PICK G : G = {}
    OBVIOUS
  <2>2. (\A f \in G : f.at # "pull") /\ Calls(stack') = Below(stack) \cup G
    BY <1>5, <2>1
  <2>3. /\ Collected /\ UNCHANGED graphVars /\ active' = active
        /\ isDirty' = isDirty
    BY <1>2
  <2> QED BY <1>1, <2>2, <2>3, Finishing
<1>7. /\ GraphFit' /\ Watching' = Watching /\ Sources' = Sources
  BY <1>2, GraphOn
<1>8. \A x : Touched(x)' <=> Touched(x)
  BY <1>2, <1>7 DEF Touched
<1>9. Plus(ver[c], 1) = ver[c] + 1
  <2>1. ver[c] \in Nat /\ ver[c] + 1 < VersionModulus /\ VersionModulus \in Nat \ {0}
    BY <1>4, BoundsAssumption DEF Unwrapped
  <2>2. (ver[c] + 1) % VersionModulus = ver[c] + 1
    BY <2>1
  <2> QED BY <2>2 DEF Plus
<1>10. /\ \A d \in Nodes : d # c => val'[d] = val[d] /\ ver'[d] = ver[d]
       /\ val'[c] = v /\ (val'[c] # val[c] => ver'[c] = ver[c] + 1)
       /\ (val'[c] = val[c] => ver'[c] = ver[c])
  BY <1>2, <1>4, <1>9
<1>11. \A d \in Nodes : /\ ver[d] <= ver'[d]
                        /\ val'[d] # val[d] => ver[d] < ver'[d]
  <2> TAKE d \in Nodes
  <2>1. ver[d] \in Nat
    BY <1>4
  <2> QED BY <1>10, <2>1
<1>12. Positive'
  <2> SUFFICES ASSUME NEW d \in Nodes PROVE ver'[d] >= 1
    BY DEF Positive
  <2>1. ver[d] \in Nat /\ ver[d] >= 1 /\ (ver'[d] = ver[d] \/ ver'[d] = ver[d] + 1)
    BY <1>4, <1>10, Parts DEF Positive
  <2> QED BY <2>1
<1>13. Blank'
  <2> SUFFICES ASSUME NEW x \in Derived \ made
               PROVE  deps'[x] = <<>> /\ vsum'[x] = 0 /\ (x \in Computeds => isDirty'[x])
    BY <1>2 DEF Blank
  <2>1. x # c
    BY <1>3
  <2> QED BY <1>2, <1>4, <2>1, Parts DEF Blank
<1>14. ASSUME NEW x \in made \cap Derived, \A j \in 1 .. Len(deps[x]) : deps[x][j] # c
       PROVE  Vals(deps[x])' = Vals(deps[x])
  <2>1. /\ DOMAIN deps[x] = 1 .. Len(deps[x])
        /\ \A j \in 1 .. Len(deps[x]) : deps[x][j] \in Nodes
    BY GraphFacts
  <2> QED BY <1>2, <1>10, <1>14, <2>1 DEF Vals
<1>15. Agrees(c)'
  BY <1>2, <1>3, <1>10, <1>14 DEF Agrees
<1>16. Total(c)' = Total(c) /\ Total(c) \in Nat
  <2>1. /\ deps[c] \in Seq(Nodes) /\ Len(deps[c]) \in Nat
        /\ \A j \in 1 .. Len(deps[c]) : deps[c][j] \in Nodes
    BY <1>3, GraphFacts
  <2>2. \A j \in 1 .. Len(deps[c]) : ver'[deps[c][j]] = ver[deps[c][j]]
    BY <1>3, <1>10, <2>1
  <2>3. PICK m \in 0 .. Len(deps[c]) : m = Len(deps[c])
    BY <2>1
  <2>4. Sums(deps[c], ver)[m] \in Nat /\ Sums(deps[c], ver)[m] = Sums(deps[c], ver')[m]
    BY <1>3, <2>2, <2>3, SumsKept
  <2> QED BY <1>2, <2>3, <2>4 DEF Total
<1>17. SumsTell'
  <2> SUFFICES ASSUME NEW x \in made \cap Derived
               PROVE  /\ vsum'[x] <= Total(x)'
                      /\ vsum'[x] = Total(x)' => Touched(x)' \/ Agrees(x)'
    BY <1>2 DEF SumsTell
  <2>1. CASE x = c
    <3>1. vsum'[c] = Total(c)' /\ Total(c)' \in Nat
      BY <1>2, <1>3, <1>4, <1>16
    <3> QED BY <1>15, <2>1, <3>1
  <2>2. CASE x # c
    <3>1. vsum'[x] = vsum[x] /\ (x \in Computeds => val'[x] = val[x])
      BY <1>2, <1>4, <1>10, <2>2 DEF Nodes
    <3>2. \A j \in 1 .. Len(deps[x]) : deps[x][j] \in Nodes
      BY GraphFacts
    <3>3. \A j \in 1 .. Len(deps[x]) :
            val'[deps[x][j]] # val[deps[x][j]] => ver[deps[x][j]] < ver'[deps[x][j]]
      BY <1>11, <3>2
    <3>4. Touched(x) => Touched(x)'
      BY <1>8
    <3> QED BY <1>2, <1>11, <3>1, <3>3, <3>4, Parts, TellOn
  <2> QED BY <2>1, <2>2
<1>18. Fresh'
  <2> SUFFICES ASSUME NEW x \in made \cap Computeds PROVE FreshAt(x)'
    BY <1>2 DEF Fresh, FreshAt
  <2>1. FreshAt(x) /\ x \in made \cap Derived /\ x \in Nodes
    BY Parts DEF Fresh, Derived, Nodes
  <2>2. \A j \in 1 .. Len(deps[x]) : Ready(deps[x][j]) => Ready(deps[x][j])'
    <3> TAKE j \in 1 .. Len(deps[x])
    <3>1. PICK d : d = deps[x][j]
      OBVIOUS
    <3>2. Ready(d) => Ready(d)'
      BY <1>6
    <3> QED BY <1>2, <3>1, <3>2 DEF Ready, Stale
  <2>3. CASE x = c
    <3>1. \A j \in 1 .. Len(deps[x]) : Ready(deps[x][j])'
      BY <1>3, <2>2, <2>3
    <3>2. Agrees(x)'
      BY <1>15, <2>3
    <3> QED BY <1>2, <3>1, <3>2 DEF FreshAt
  <2>4. CASE x # c /\ Agrees(x) /\ \A j \in 1 .. Len(deps[x]) : Ready(deps[x][j])
    <3>1. \A j \in 1 .. Len(deps[x]) : deps[x][j] # c
      BY <1>6, <2>4 DEF Ready
    <3>2. Agrees(x)'
      BY <1>2, <1>10, <1>14, <2>1, <2>4, <3>1 DEF Agrees
    <3> QED BY <1>2, <2>2, <2>4, <3>2 DEF FreshAt
  <2>5. CASE x # c /\ ~(Agrees(x) /\ \A j \in 1 .. Len(deps[x]) : Ready(deps[x][j]))
    BY <1>2, <1>6, <1>8, <2>1, <2>5 DEF FreshAt
  <2> QED BY <2>3, <2>4, <2>5
<1>19. Told'
  <2> SUFFICES ASSUME NEW e \in active PROVE ToldAt(e)'
    BY <1>2 DEF Told, ToldAt
  <2>1. ToldAt(e) /\ e \in made \cap Derived /\ e # c
    BY <1>4, Parts DEF Told, IInv, TypeOK, HistType, Derived
  <2>2. \A s \in made \cap Signals : s \in {} \/ val'[s] = val[s]
    BY <1>4, <1>10 DEF Nodes
  <2>3. \A x \in made \cap Derived :
          (\E j \in 1 .. Len(deps[x]) : deps[x][j] \in {}) => x \in {}
    OBVIOUS
  <2>4. Ordered /\ Blank /\ Ordered' /\ made \subseteq made'
        /\ (\A x \in made \cap Derived : deps'[x] = deps[x])
        /\ (\A x \in made \cap Computeds : fn'[x] = fn[x])
    BY <1>2, <1>5, Parts DEF InShape
  <2>5. PICK X : X = {}
    OBVIOUS
  <2>6. \A x \in made \cap Derived : x \in X \/ Meanings(deps[x])' = Meanings(deps[x])
    <3>1. (\A s \in made \cap Signals : s \in X \/ val'[s] = val[s])
          /\ (\A x \in made \cap Derived :
                (\E j \in 1 .. Len(deps[x]) : deps[x][j] \in X) => x \in X)
      BY <2>2, <2>3, <2>5
    <3> QED BY <1>13, <2>4, <3>1, MeaningSame
  <2>7. Meanings(deps[e])' = Meanings(deps[e])
    BY <2>1, <2>5, <2>6
  <2> QED BY <1>2, <1>6, <1>8, <2>1, <2>7 DEF ToldAt
<1>20. Gathered'
  <2> SUFFICES ASSUME NEW f \in Calls(stack'), f.at = "pull" PROVE Collects(f)'
    BY GatheredNext
  <2>1. Collects(f) /\ f \in FrameSet /\ Formed(f, made, deps, subs)
    BY <1>3, <1>5, <1>6, StackNow
  <2>2. PICK x : x = f.cell
    OBVIOUS
  <2>3. x \in made \cap Derived /\ f.arg <= Len(deps[x]) + 1
    BY <2>1, <2>2 DEF Formed
  <2>4. deps[x] \in Seq(Nodes) /\ Len(deps[x]) \in Nat
        /\ \A j \in 1 .. Len(deps[x]) : deps[x][j] \in Nodes
    BY <2>3, GraphFacts
  <2>5. f.arg - 1 \in 0 .. Len(deps[x])
    BY <2>1, <2>3, <2>4 DEF FrameSet
  <2>6. \A j \in 1 .. (f.arg - 1) :
          /\ Ready(deps[x][j]) /\ deps[x][j] # c /\ j \in 1 .. Len(deps[x])
          /\ f.args[j] = val[deps[x][j]]
    BY <1>6, <2>1, <2>2, <2>4, <2>5 DEF Collects, Ready
  <2>7. \A j \in 1 .. (f.arg - 1) : /\ val'[deps[x][j]] = val[deps[x][j]]
                                    /\ ver'[deps[x][j]] = ver[deps[x][j]]
    BY <1>10, <2>4, <2>6
  <2>10. f.sum = Sums(deps[x], ver')[f.arg - 1]
    <3>1. PICK m \in 0 .. Len(deps[x]) : m = f.arg - 1
      BY <2>5
    <3>2. \A j \in 1 .. m : ver'[deps[x][j]] = ver[deps[x][j]]
      BY <2>7, <3>1
    <3>3. Sums(deps[x], ver)[m] = Sums(deps[x], ver')[m]
      BY <2>3, <3>2, SumsKept
    <3> QED BY <2>1, <2>2, <3>1, <3>3 DEF Collects
  <2>11. \A j \in 1 .. (f.arg - 1) : Ready(deps[x][j])'
    <3> TAKE j \in 1 .. (f.arg - 1)
    <3>1. PICK d : d = deps[x][j]
      OBVIOUS
    <3>2. Ready(d)'
      BY <1>6, <2>6, <3>1
    <3> QED BY <1>2, <3>1, <3>2 DEF Ready, Stale
  <2> QED BY <1>2, <2>2, <2>6, <2>7, <2>10, <2>11 DEF Collects
<1> QED BY <1>5, <1>7, <1>12, <1>13, <1>17, <1>18, <1>19, <1>20
        DEF UInv, CallsFit, DataFit

(* The callback of an effect gets what its dependencies mean. *)
LEMMA PullRunFresh ==
  ASSUME IInv, IInv', UInv, PullRun
  PROVE  UInv'
<1> DEFINE f == [Top EXCEPT !.at = "call"]
<1>1. PICK c : c = Top.cell
  OBVIOUS
<1>2. /\ Calling /\ Collected /\ c \in Effects
      /\ UNCHANGED graphVars
      /\ UNCHANGED <<val, ver, isDirty, active, hurt, made, deps, fn, subs>>
      /\ vsum' = [vsum EXCEPT ![c] = Top.sum]
      /\ seen' = [seen EXCEPT ![c] = Top.args]
      /\ stack' = Moved(f)
  BY <1>1 DEF PullRun, Calling, SumStored, Goto, graphVars
<1>3. /\ ~Idle /\ Top.at = "pull" /\ Top \in FrameSet
      /\ c \in made \cap Derived /\ Top.sum = Total(c)
      /\ \A j \in 1 .. Len(deps[c]) : Ready(deps[c][j])
      /\ Top.args = Vals(deps[c])
  BY <1>1, <1>2, Gathering
<1>4. /\ c \notin Nodes /\ c \notin Computeds
      /\ vsum \in [Derived -> 0 .. (VersionModulus - 1)] /\ DOMAIN seen = Effects
  BY <1>2, Kinds DEF Nodes, IInv, TypeOK, DataType, HistType
<1>5. f \in FrameSet /\ f.op = Top.op /\ f.cell = c /\ f.at = "call"
  BY <1>1, <1>3 DEF FrameSet
<1> HIDE DEF f
<1>6. \A g \in Below(stack) : g.at # "pull"
  BY <1>1, <1>3, <1>4, Parts, NoPull
<1>7. InShape' /\ Calls(stack') = Below(stack) \cup {f}
  BY <1>1, <1>2, <1>3, <1>5, <1>6, Parts, TopOn
<1>8. /\ Pulling = Pulling' \cup {c} /\ Pending \subseteq Pending'
      /\ \A d : Ready(d) => Ready(d)'
  <2>1. PICK G : G = {f}
    OBVIOUS
  <2>2. (\A g \in G : g.at # "pull") /\ Calls(stack') = Below(stack) \cup G
    BY <1>5, <1>7, <2>1
  <2>3. /\ Collected /\ UNCHANGED graphVars /\ active' = active
        /\ isDirty' = isDirty
    BY <1>2
  <2> QED BY <1>1, <2>2, <2>3, Finishing
<1>9. /\ GraphFit' /\ Sources' = Sources
  BY <1>2, GraphOn
<1>10. Meaning' = Meaning
  BY <1>2 DEF Meaning
<1>11. \A ds : Vals(ds)' = Vals(ds) /\ Meanings(ds)' = Meanings(ds)
  BY <1>2, <1>10 DEF Vals, Meanings
<1>12. \A x : (Touched(x)' <=> Touched(x)) /\ Total(x)' = Total(x)
  BY <1>2, <1>9 DEF Touched, Total
<1>13. Positive' /\ Blank'
  BY <1>2, <1>3, <1>4, Parts DEF Positive, Blank
<1>14. Agrees(c)' /\ seen'[c] = Vals(deps[c])
  BY <1>2, <1>3, <1>4, <1>11 DEF Agrees
<1>15. \A x : x # c => (Agrees(x)' <=> Agrees(x))
  BY <1>2, <1>4, <1>11 DEF Agrees
<1>16. Total(c) \in Nat
  BY <1>3, TotalGrows, <1>2, GraphFacts
<1>17. SumsTell'
  <2> SUFFICES ASSUME NEW x \in made \cap Derived
               PROVE  /\ vsum'[x] <= Total(x)'
                      /\ vsum'[x] = Total(x)' => Touched(x)' \/ Agrees(x)'
    BY <1>2 DEF SumsTell
  <2>1. CASE x = c
    <3>1. vsum'[c] = Total(c)' /\ Total(c)' \in Nat
      BY <1>2, <1>3, <1>4, <1>12, <1>16
    <3> QED BY <1>14, <2>1, <3>1
  <2>2. CASE x # c
    BY <1>2, <1>4, <1>12, <1>15, <2>2, Parts DEF SumsTell
  <2> QED BY <2>1, <2>2
<1>18. Fresh'
  <2> SUFFICES ASSUME NEW x \in made \cap Computeds PROVE FreshAt(x)'
    BY <1>2 DEF Fresh, FreshAt
  <2>1. FreshAt(x) /\ x # c
    BY <1>4, Parts DEF Fresh
  <2>2. \A j \in 1 .. Len(deps[x]) : Ready(deps[x][j]) => Ready(deps[x][j])'
    <3> TAKE j \in 1 .. Len(deps[x])
    <3>1. PICK d : d = deps[x][j]
      OBVIOUS
    <3>2. Ready(d) => Ready(d)'
      BY <1>8
    <3> QED BY <1>2, <3>1, <3>2 DEF Ready, Stale
  <2>3. x \in Pulling => x \in Pulling'
    BY <1>8, <2>1
  <2> QED BY <1>2, <1>8, <1>12, <1>15, <2>1, <2>2, <2>3 DEF FreshAt
<1>19. Told'
  <2> SUFFICES ASSUME NEW e \in active PROVE ToldAt(e)'
    BY <1>2 DEF Told, ToldAt
  <2>1. CASE e = c
    <3> SUFFICES ASSUME ~Touched(c), c \notin Pending
                 PROVE  seen'[c] = Meanings(deps[c])
      BY <1>2, <1>8, <1>11, <1>12, <2>1 DEF ToldAt
    <3>1. c \in Watching
      BY <2>1 DEF Watching
    <3>2. Vals(deps[c]) = Meanings(deps[c])
      BY <1>3, <3>1, CurrentArgs
    <3> QED BY <1>14, <3>2
  <2>2. CASE e # c
    BY <1>2, <1>8, <1>11, <1>12, <2>2, Parts DEF Told, ToldAt
  <2> QED BY <2>1, <2>2
<1>20. Gathered'
  <2>1. \A g \in Calls(stack') : g.at # "pull"
    BY <1>5, <1>6, <1>7
  <2> QED BY <2>1, GatheredNext
<1> QED BY <1>7, <1>9, <1>13, <1>17, <1>18, <1>19, <1>20
        DEF UInv, CallsFit, DataFit
-----------------------------------------------------------------------------
(* Panics.  What had not been brought up to date by then stays touched.    *)

(* Every cell depends on some signal. *)
LEMMA SourcesSome ==
  ASSUME IInv, Ordered
  PROVE  \A c \in made : Sources[c] # {} /\ Sources[c] \subseteq Signals
<1> DEFINE T == {c \in made : Sources[c] # {} /\ Sources[c] \subseteq Signals}
<1>1. \A s \in made \cap Signals : s \in T
  BY SourcesUnfold DEF SourcesSolve, Cells
<1>2. ASSUME NEW c \in made \cap Derived,
             \A j \in 1 .. Len(deps[c]) : deps[c][j] \in T
      PROVE  c \in T
  <2>1. /\ deps[c] \in Seq(Nodes) /\ Len(deps[c]) \in Nat
        /\ DOMAIN deps[c] = 1 .. Len(deps[c])
    BY GraphFacts
  <2>2. deps[c] # <<>>
    BY DataAssumption DEF IInv, Wired
  <2>3. 1 \in 1 .. Len(deps[c])
    BY <2>1, <2>2, Last
  <2>4. c \in Cells /\ c \notin Signals
    BY GraphFacts, Kinds DEF Derived
  <2>5. Sources[c] = UNION {Sources[deps[c][j]] : j \in DOMAIN deps[c]}
    BY <2>4, SourcesUnfold DEF SourcesSolve
  <2>6. \A j \in DOMAIN deps[c] :
          Sources[deps[c][j]] # {} /\ Sources[deps[c][j]] \subseteq Signals
    BY <1>2, <2>1
  <2>7. Sources[c] \subseteq Signals
    BY <2>5, <2>6
  <2>8. Sources[c] # {}
    BY SMTT(30), <2>1, <2>3, <2>5, <2>6
  <2> QED BY <2>7, <2>8
<1>3. made \subseteq T
  <2> HIDE DEF T
  <2> QED BY <1>1, <1>2, Downward
<1> QED BY <1>3

LEMMA PanicFresh ==
  ASSUME IInv, IInv', UInv, Unwind,
         UNCHANGED <<graphVars, val, ver, isDirty, active, seen>>, Blank',
         \A c \in made \cap Derived :
           vsum'[c] = vsum[c] \/ (vsum'[c] = Total(c) /\ Touched(c)')
  PROVE  UInv'
<1>1. /\ UNCHANGED graphVars
      /\ UNCHANGED <<val, ver, isDirty, active, seen, made, deps, fn, subs>>
      /\ stack' = <<>>
      /\ hurt' = hurt \cup {s \in Signals : \E c \in Interrupted : s \in Sources[c]}
  BY DEF Unwind, graphVars
<1>2. /\ GraphFit' /\ Sources' = Sources
  BY <1>1, GraphOn
<1>3. \A c : Touched(c) => Touched(c)'
  BY <1>1, <1>2 DEF Touched
<1>4. \A c \in Derived : \A j \in 1 .. Len(deps[c]) :
        Touched(deps[c][j])' => Touched(c)'
  <2> SUFFICES ASSUME NEW c \in Derived, NEW j \in 1 .. Len(deps[c]),
                      Sources[deps[c][j]] \cap hurt' # {}
               PROVE  Sources[c] \cap hurt' # {}
    BY <1>1, <1>2 DEF Touched
  <2>1. Sources[deps[c][j]] \subseteq Sources[c]
    BY Parts, TouchedUp
  <2> QED BY <2>1
<1>5. /\ \A f \in Calls(stack) : f \in FrameSet /\ Formed(f, made, deps, subs)
      /\ \A c \in Signals : c \in Cells /\ Sources[c] = {c}
  BY StackNow, Parts, SourcesUnfold DEF SourcesSolve, Cells
<1>6. ASSUME NEW f \in Calls(stack), f.op = "SetValue"
      PROVE  f.cell \in hurt'
  <2>1. f.cell \in Signals
    BY <1>5, <1>6 DEF Formed
  <2>2. f.cell \in Interrupted
    BY <1>6, <2>1, CallsNow DEF Nodes
  <2>3. f.cell \in Sources[f.cell]
    BY <1>5, <2>1
  <2> QED BY <1>1, <2>1, <2>2, <2>3
<1>7. ASSUME NEW f \in Calls(stack),
             f.op = "markDirty" \/ (f.op = "value" /\ f.cell \in Effects)
      PROVE  Touched(f.cell)'
  <2>1. PICK k \in 1 .. Len(stack) : f = stack[k]
    BY DEF Calls
  <2>2. PICK i \in 1 .. (k - 1) :
          stack[i].op = "SetValue" /\ stack[i].cell \in Sources[f.cell]
    BY <1>7, <2>1, Parts DEF Caused, CausedAt
  <2>3. stack[i] \in Calls(stack)
    BY StackNow DEF Calls
  <2>4. stack[i].cell \in hurt'
    BY <1>6, <2>2, <2>3
  <2>5. Sources[f.cell] \cap hurt' # {}
    BY <2>2, <2>4
  <2> QED BY <1>2, <2>5 DEF Touched
<1>8. \A x \in Pulling : Touched(x)'
  <2> SUFFICES ASSUME NEW f \in Calls(stack), f.at = "pull" PROVE Touched(f.cell)'
    BY CallsNow DEF Pulls
  <2>1. f.op = "value" /\ f.cell \in made \cap Derived
    BY <1>5 DEF Formed
  <2>2. CASE f.cell \in Effects
    BY <1>7, <2>1, <2>2
  <2>3. CASE f.cell \in Computeds
    <3>1. f.cell \in Interrupted
      BY <2>1, <2>3, CallsNow DEF Nodes
    <3>2. Sources[f.cell] # {} /\ Sources[f.cell] \subseteq Signals
      BY <2>1, Parts, SourcesSome
    <3>3. Sources[f.cell] \subseteq hurt'
      BY <1>1, <3>1, <3>2
    <3> QED BY <1>2, <3>2, <3>3 DEF Touched
  <2> QED BY <2>1, <2>2, <2>3 DEF Derived
<1>9. \A x \in Pending : Touched(x)'
  <2> DEFINE U == {x \in Derived : Touched(x)'}
  <2>1. ASSUME NEW x \in Roots
        PROVE  x \in Derived /\ Touched(x)'
    <3>1. PICK f \in Calls(stack) : x \in Derived /\ WillMark(f, x)
      BY CallsNow
    <3>2. PICK k \in f.arg .. f.last : f.at = "mark" /\ subs[f.cell][k] = x
      BY <3>1 DEF WillMark
    <3>3. /\ f.op \in {"SetValue", "markDirty"} /\ f.last <= Len(subs[f.cell])
          /\ f.cell \in Nodes /\ f.arg \in Nat \ {0} /\ f.last \in Nat
      BY <1>5, <3>2 DEF Formed, FrameSet, Nodes
    <3>4. k \in 1 .. Len(subs[f.cell])
      BY <3>3, GraphFacts
    <3>5. PICK j \in 1 .. Len(deps[x]) : deps[x][j] = f.cell
      BY <3>2, <3>3, <3>4, Parts DEF SubsTrue
    <3>6. Touched(f.cell)'
      <4>1. CASE f.op = "markDirty"
        BY <1>7, <4>1
      <4>2. CASE f.op = "SetValue"
        <5>1. f.cell \in Signals /\ f.cell \in hurt'
          BY <1>5, <1>6, <4>2 DEF Formed
        <5>2. Sources[f.cell] \cap hurt' # {}
          BY <1>5, <5>1
        <5> QED BY <1>2, <5>2 DEF Touched
      <4> QED BY <3>3, <4>1, <4>2
    <3>7. Touched(deps[x][j])'
      <4>1. PICK d : d = f.cell
        OBVIOUS
      <4> QED BY <1>1, <3>5, <3>6, <4>1 DEF Touched
    <3> QED BY <1>4, <3>1, <3>7
  <2>2. ASSUME NEW x \in Watching, NEW j \in 1 .. Len(deps[x]), deps[x][j] \in U
        PROVE  x \in U
    <3>1. x \in Derived
      BY GraphFacts
    <3>2. Touched(deps[x][j])'
      <4>1. PICK d : d = deps[x][j]
        OBVIOUS
      <4> QED BY <1>1, <2>2, <4>1 DEF Touched
    <3> QED BY <1>4, <3>1, <3>2
  <2>3. U \in SUBSET Derived /\ Covers(U)
    BY <2>1, <2>2 DEF Covers, Spreads
  <2> HIDE DEF U
  <2>4. Pending \subseteq U
    BY <2>3 DEF Pending
  <2> QED BY <2>4 DEF U
<1>10. Calls(stack') = {}
  BY <1>1, CallsEmpty
<1>11. InShape' /\ Gathered'
  <2>1. Gathered'
    BY <1>10, GatheredNext
  <2>2. PICK rank \in [Cells -> Nat], n \in Nat : RankedGraph(rank, n)
    BY Parts DEF Ordered
  <2>3. Len(<<>>) = 0 /\ 1 .. 0 = {}
    BY EmptySeq
  <2>4. Shaped(rank, stack')
    BY <1>1, <2>3 DEF Shaped, Falls, Suffix, Starts, Caused
  <2> QED BY <1>1, <2>1, <2>2, <2>4, ShapeNext
<1>12. Meaning' = Meaning
  BY <1>1 DEF Meaning
<1>13. \A ds : Vals(ds)' = Vals(ds) /\ Meanings(ds)' = Meanings(ds)
  BY <1>1, <1>12 DEF Vals, Meanings
<1>14. \A x : /\ Agrees(x)' <=> Agrees(x)
              /\ Total(x)' = Total(x)
              /\ Ready(x) => Ready(x)'
  <2>1. Pulling' = {}
    BY <1>10, PullingNow
  <2> QED BY <1>1, <1>13, <2>1 DEF Agrees, Total, Ready, Stale
<1>15. Positive'
  BY <1>1, Parts DEF Positive
<1>16. SumsTell'
  <2> SUFFICES ASSUME NEW x \in made \cap Derived
               PROVE  /\ vsum'[x] <= Total(x)'
                      /\ vsum'[x] = Total(x)' => Touched(x)' \/ Agrees(x)'
    BY <1>1 DEF SumsTell
  <2>1. CASE vsum'[x] = vsum[x]
    BY <1>3, <1>14, <2>1, Parts DEF SumsTell
  <2>2. CASE vsum'[x] = Total(x) /\ Touched(x)'
    <3>1. Total(x) \in Nat
      BY <1>1, TotalGrows, GraphFacts
    <3> QED BY <1>14, <2>2, <3>1
  <2> QED BY <2>1, <2>2
<1>17. Fresh'
  <2> SUFFICES ASSUME NEW x \in made \cap Computeds PROVE FreshAt(x)'
    BY <1>1 DEF Fresh, FreshAt
  <2>1. FreshAt(x)
    BY Parts DEF Fresh
  <2>2. \A j \in 1 .. Len(deps[x]) : Ready(deps[x][j]) => Ready(deps[x][j])'
    <3> TAKE j \in 1 .. Len(deps[x])
    <3>1. PICK d : d = deps[x][j]
      OBVIOUS
    <3>2. Ready(d) => Ready(d)'
      BY <1>14
    <3> QED BY <1>1, <3>1, <3>2 DEF Ready, Stale
  <2> QED BY <1>1, <1>3, <1>8, <1>9, <1>14, <2>1, <2>2 DEF FreshAt
<1>18. Told'
  <2> SUFFICES ASSUME NEW e \in active PROVE ToldAt(e)'
    BY <1>1 DEF Told, ToldAt
  <2>1. ToldAt(e)
    BY Parts DEF Told
  <2> QED BY <1>1, <1>3, <1>8, <1>9, <1>13, <2>1 DEF ToldAt
<1> QED BY <1>2, <1>11, <1>15, <1>16, <1>17, <1>18 DEF UInv, CallsFit, DataFit

LEMMA CallPanicFresh ==
  ASSUME IInv, IInv', UInv, CallPanic
  PROVE  UInv'
<1>1. /\ Unwind /\ UNCHANGED <<graphVars, val, ver, isDirty, active, seen>>
      /\ UNCHANGED <<vsum, made, deps, isDirty>>
  BY DEF CallPanic, dataVars, graphVars
<1>2. Blank'
  BY <1>1, Parts DEF Blank
<1> QED BY <1>1, <1>2, PanicFresh

LEMMA GetPanicFresh ==
  ASSUME IInv, IInv', UInv, GetPanic
  PROVE  UInv'
<1>1. PICK c : c = Top.cell
  OBVIOUS
<1>2. /\ Calling /\ Collected /\ c \in Computeds
      /\ Unwind /\ UNCHANGED <<graphVars, val, ver, isDirty, active, seen>>
      /\ UNCHANGED <<made, deps, isDirty>>
      /\ vsum' = [vsum EXCEPT ![c] = Top.sum]
  BY <1>1 DEF GetPanic, SumStored, Calling, graphVars
<1>3. /\ ~Idle /\ Top.op = "value" /\ c \in made \cap Derived /\ Top.sum = Total(c)
  BY <1>1, <1>2, Gathering
<1>4. vsum \in [Derived -> 0 .. (VersionModulus - 1)]
  BY DEF IInv, TypeOK, DataType
<1>5. Blank'
  <2> SUFFICES ASSUME NEW x \in Derived \ made
               PROVE  deps'[x] = <<>> /\ vsum'[x] = 0 /\ (x \in Computeds => isDirty'[x])
    BY <1>2 DEF Blank
  <2> QED BY <1>2, <1>3, <1>4, Parts DEF Blank
<1>6. Touched(c)'
  <2>1. Top \in Calls(stack)
    BY <1>3, StackNow
  <2>2. c \in Interrupted
    BY <1>1, <1>2, <1>3, <2>1, CallsNow DEF Nodes
  <2>3. Sources[c] # {} /\ Sources[c] \subseteq Signals
    BY <1>3, Parts, SourcesSome
  <2>4. Sources[c] \subseteq hurt'
    BY <1>2, <2>2, <2>3 DEF Unwind
  <2>5. Sources' = Sources
    BY <1>2 DEF Sources
  <2> QED BY <2>3, <2>4, <2>5 DEF Touched
<1>7. \A x \in made \cap Derived :
        vsum'[x] = vsum[x] \/ (vsum'[x] = Total(x) /\ Touched(x)')
  <2> TAKE x \in made \cap Derived
  <2>1. CASE x = c
    BY <1>2, <1>3, <1>4, <1>6, <2>1
  <2>2. CASE x # c
    BY <1>2, <1>4, <2>2
  <2> QED BY <2>1, <2>2
<1> QED BY <1>2, <1>5, <1>7, PanicFresh
-----------------------------------------------------------------------------
(* The graph grows. *)

LEMMA SignalFresh ==
  ASSUME IInv, IInv', UInv, NEW s \in Signals, NEW v \in Initials, Signal(s, v)
  PROVE  UInv'
<1>1. /\ Running /\ s \notin made /\ made' = made \cup {s}
      /\ val' = [val EXCEPT ![s] = v]
      /\ UNCHANGED <<deps, fn, subs, ver, isDirty, vsum, stack, active, seen, hurt>>
  BY DEF Signal, histVars
<1>2. s \in Nodes /\ s \notin Derived /\ val \in [Nodes -> Values]
  BY Kinds DEF Nodes, Derived, IInv, TypeOK, DataType
<1>3. made' \cap Derived = made \cap Derived /\ Derived \ made' = Derived \ made
      /\ made' \cap Computeds = made \cap Computeds
      /\ \A d \in made \cap Nodes : val'[d] = val[d]
  BY <1>1, <1>2 DEF Derived
<1>4. Sources' = Sources /\ Watching' = Watching
  BY <1>1, <1>3 DEF Sources, Watching
<1>5. GraphFit'
  BY <1>1, <1>4, Parts DEF GraphFit, Linked, SubsTrue
<1>6. \A f \in Calls(stack) : f.at # "pull"
  BY <1>1, RunningFree
<1>7. Calls(stack') = Calls(stack)
  BY <1>1
<1>8. Gathered' /\ InShape'
  <2>1. Gathered'
    BY <1>6, <1>7, GatheredNext
  <2>2. PICK rank \in [Cells -> Nat], n \in Nat :
          RankedGraph(rank, n) /\ Shaped(rank, stack)
    BY Parts, ShapeNow
  <2>3. Shaped(rank, stack')
    BY <1>1, <2>2
  <2> QED BY <1>1, <2>1, <2>2, <2>3, ShapeNext
<1>9. /\ Roots \subseteq Roots' /\ Pulling' = Pulling
      /\ \A U \in SUBSET Derived : Spreads(U)' => Spreads(U)
  BY <1>1, <1>4, <1>7, RootsStay, PullingNow, CallsNow DEF Spreads
<1>10. Pending \subseteq Pending'
  BY <1>9, PendingGrows
<1>11. \A x \in made \cap Derived : /\ Vals(deps[x])' = Vals(deps[x])
                                    /\ Total(x)' = Total(x)
  <2> TAKE x \in made \cap Derived
  <2>1. /\ DOMAIN deps[x] = 1 .. Len(deps[x])
        /\ \A j \in 1 .. Len(deps[x]) : deps[x][j] \in made \cap Nodes
    BY GraphFacts
  <2>2. Vals(deps[x])' = Vals(deps[x])
    BY <1>1, <1>3, <2>1 DEF Vals
  <2> QED BY <1>1, <2>2 DEF Total
<1>12. \A x \in made \cap Derived : Agrees(x)' <=> Agrees(x)
  <2> TAKE x \in made \cap Derived
  <2>1. x \in Computeds => x \in made \cap Nodes
    BY DEF Nodes
  <2> QED BY <1>1, <1>3, <1>11, <2>1 DEF Agrees
<1>13. \A x : (Touched(x)' <=> Touched(x)) /\ (Ready(x)' <=> Ready(x))
  BY <1>1, <1>4, <1>9 DEF Touched, Ready, Stale
<1>14. Blank' /\ Positive' /\ SumsTell'
  BY <1>1, <1>3, <1>11, <1>12, <1>13, Parts DEF Blank, Positive, SumsTell
<1>15. Fresh'
  <2> SUFFICES ASSUME NEW x \in made \cap Computeds PROVE FreshAt(x)'
    BY <1>3 DEF Fresh, FreshAt
  <2>1. FreshAt(x) /\ x \in made \cap Derived
    BY Parts DEF Fresh, Derived
  <2>2. \A j \in 1 .. Len(deps[x]) : Ready(deps[x][j]) => Ready(deps[x][j])'
    <3> TAKE j \in 1 .. Len(deps[x])
    <3>1. PICK d : d = deps[x][j]
      OBVIOUS
    <3>2. Ready(d) => Ready(d)'
      BY <1>13
    <3> QED BY <1>1, <3>1, <3>2 DEF Ready, Stale
  <2> QED BY <1>1, <1>9, <1>10, <1>12, <1>13, <2>1, <2>2 DEF FreshAt
<1>16. Told'
  <2> SUFFICES ASSUME NEW e \in active PROVE ToldAt(e)'
    BY <1>1 DEF Told, ToldAt
  <2>1. ToldAt(e) /\ e \in made \cap Derived
    BY Parts DEF Told, IInv, TypeOK, HistType, Derived
  <2>2. PICK X : X = {}
    OBVIOUS
  <2>3. /\ \A r \in made \cap Signals : r \in X \/ val'[r] = val[r]
        /\ \A x \in made \cap Derived :
             (\E j \in 1 .. Len(deps[x]) : deps[x][j] \in X) => x \in X
    BY <1>3, <2>2 DEF Nodes
  <2>4. Ordered /\ Blank /\ Ordered' /\ made \subseteq made'
        /\ (\A x \in made \cap Derived : deps'[x] = deps[x])
        /\ (\A x \in made \cap Computeds : fn'[x] = fn[x])
    BY <1>1, <1>8, Parts DEF InShape
  <2>5. \A x \in made \cap Derived : x \in X \/ Meanings(deps[x])' = Meanings(deps[x])
    BY <1>14, <2>3, <2>4, MeaningSame
  <2>6. Meanings(deps[e])' = Meanings(deps[e])
    BY <2>1, <2>2, <2>5
  <2> QED BY <1>1, <1>9, <1>10, <1>13, <2>1, <2>6 DEF ToldAt
<1> QED BY <1>5, <1>8, <1>14, <1>15, <1>16 DEF UInv, CallsFit, DataFit

(* An effect that heads all lists leaves them: the others stay linked. *)
LEMMA StopFresh ==
  ASSUME IInv, IInv', UInv, StopsHead, NEW e \in Effects, Stop(e)
  PROVE  UInv'
<1>1. /\ Idle /\ e \in made /\ Heads(e) /\ active' = active \ {e}
      /\ UNCHANGED <<made, deps, fn, dataVars, stack, seen, hurt>>
      /\ UNCHANGED <<made, deps, fn, val, ver, isDirty, vsum, stack, seen, hurt>>
  BY DEF Stop, dataVars
<1>2. Calls(stack) = {} /\ Calls(stack') = {}
  BY <1>1, StackNow
<1>3. Pulling = {} /\ Pulling' = {} /\ Pending = {}
  BY <1>2, PullingNow, CallsNow, PendingNone
<1>4. Sources' = Sources /\ Meaning' = Meaning
  BY <1>1 DEF Sources, Meaning
<1>5. \A ds : Vals(ds)' = Vals(ds) /\ Meanings(ds)' = Meanings(ds)
  BY <1>1, <1>4 DEF Vals, Meanings
<1>6. \A x : /\ Agrees(x)' <=> Agrees(x)
             /\ Touched(x)' <=> Touched(x)
             /\ Ready(x)' <=> Ready(x)
             /\ Total(x)' = Total(x)
  BY <1>1, <1>3, <1>4, <1>5 DEF Agrees, Touched, Ready, Stale, Total
<1>7. Blank' /\ Positive' /\ SumsTell'
  BY <1>1, <1>6, Parts DEF Blank, Positive, SumsTell
<1>8. Fresh' /\ Told'
  BY <1>1, <1>3, <1>5, <1>6, Parts DEF Fresh, FreshAt, Told, ToldAt
<1>9. Gathered' /\ InShape'
  <2>1. Gathered'
    BY <1>2, GatheredNext
  <2>2. PICK rank \in [Cells -> Nat], n \in Nat :
          RankedGraph(rank, n) /\ Shaped(rank, stack)
    BY Parts, ShapeNow
  <2>3. Shaped(rank, stack')
    BY <1>1, <2>2
  <2> QED BY <1>1, <2>1, <2>2, <2>3, ShapeNext
<1>10. Linked'
  <2> SUFFICES ASSUME NEW x \in Watching, x # e, NEW j \in 1 .. Len(deps[x])
               PROVE  \E k \in 1 .. Len(subs'[deps[x][j]]) : subs'[deps[x][j]][k] = x
    BY <1>1, Kinds DEF Linked, Watching
  <2>1. PICK d : d = deps[x][j]
    OBVIOUS
  <2>2. PICK k \in 1 .. Len(subs[d]) : subs[d][k] = x
    BY <2>1, Parts DEF Linked
  <2>3. d \in Nodes
    BY <2>1, GraphFacts
  <2>4. /\ Times(deps[e], d) \in Nat /\ Len(subs[d]) \in Nat
        /\ Len(subs'[d]) = IF Times(deps[e], d) < Len(subs[d])
                           THEN Len(subs[d]) - Times(deps[e], d) ELSE 0
        /\ \A i \in 1 .. Len(subs'[d]) :
             subs'[d][i] = subs[d][i + Times(deps[e], d)]
    BY <2>3, Dropped
  <2>5. ~(k \in 1 .. Times(deps[e], d))
    BY <1>1, <2>2, <2>3 DEF Heads
  <2>6. PICK i \in Nat : i = k - Times(deps[e], d)
    BY <2>4, <2>5
  <2>7. i \in 1 .. Len(subs'[d]) /\ i + Times(deps[e], d) = k
    BY <2>4, <2>5, <2>6
  <2> QED BY <2>1, <2>2, <2>4, <2>7
<1>11. SubsTrue'
  <2> SUFFICES ASSUME NEW d \in Nodes, NEW k \in 1 .. Len(subs'[d])
               PROVE  \E j \in 1 .. Len(deps[subs'[d][k]]) : deps[subs'[d][k]][j] = d
    BY <1>1 DEF SubsTrue
  <2>1. PICK i \in 1 .. Len(subs[d]) : subs'[d][k] = subs[d][i]
    BY Dropped
  <2> QED BY <2>1, Parts DEF SubsTrue
<1> QED BY <1>7, <1>8, <1>9, <1>10, <1>11 DEF UInv, GraphFit, CallsFit, DataFit

LEMMA TimesSome ==
  ASSUME NEW ds \in Seq(Nodes), NEW d
  PROVE  Times(ds, d) > 0 <=> \E j \in 1 .. Len(ds) : ds[j] = d
<1> DEFINE J == {j \in DOMAIN ds : ds[j] = d}
<1>1. Len(ds) \in Nat /\ DOMAIN ds = 1 .. Len(ds)
  BY LenProperties
<1>2. IsFiniteSet(DOMAIN ds)
  BY <1>1, FS_Interval
<1>3. IsFiniteSet(J)
  BY <1>2, FS_Subset
<1>4. Cardinality(J) \in Nat /\ (Cardinality(J) = 0 <=> J = {})
  BY <1>3, FS_CardinalityType, FS_EmptySet
<1>5. J # {} <=> \E j \in 1 .. Len(ds) : ds[j] = d
  BY <1>1
<1>6. Times(ds, d) = Cardinality(J)
  BY DEF Times
<1> HIDE DEF J
<1> QED BY <1>4, <1>5, <1>6

(* The new cell subscribes to what it depends on, and nothing else new. *)
LEMMA JoinedGraph ==
  ASSUME IInv, IInv', UInv, NEW c \in Derived, NEW ds \in Wirings, Subscribe(c, ds),
         active' \in {active, active \cup {c}},
         c \in Computeds => active' = active
  PROVE  /\ GraphFit' /\ Watching \subseteq Watching'
         /\ \A d \in Nodes : \A k \in 1 .. Len(subs[d]) : subs'[d][k] = subs[d][k]
<1>1. /\ c \notin made /\ made' = made \cup {c} /\ ds \in Seq(Nodes) \ {<<>>}
      /\ \A j \in DOMAIN ds : ds[j] \in made
      /\ deps' = [deps EXCEPT ![c] = ds] /\ deps \in [Derived -> Seq(Nodes)]
  BY DataAssumption DEF Subscribe, IInv, TypeOK, GraphType
<1>2. /\ deps'[c] = ds /\ \A a \in made \cap Derived : deps'[a] = deps[a]
      /\ \A d \in Nodes : /\ Len(subs[d]) <= Len(subs'[d])
                          /\ Len(subs[d]) \in Nat
                          /\ Times(ds, d) \in Nat
                          /\ Len(subs'[d]) = Len(subs[d]) + Times(ds, d)
                          /\ \A k \in 1 .. Len(subs'[d]) :
                               \/ /\ k \in 1 .. Len(subs[d])
                                  /\ subs'[d][k] = subs[d][k]
                               \/ k > Len(subs[d]) /\ subs'[d][k] = c
  BY Subscribed
<1>3. \A d \in Nodes : \A k \in 1 .. Len(subs[d]) :
        k \in 1 .. Len(subs'[d]) /\ subs'[d][k] = subs[d][k]
  <2> TAKE d \in Nodes
  <2> TAKE k \in 1 .. Len(subs[d])
  <2>1. k \in 1 .. Len(subs'[d]) /\ ~(k > Len(subs[d]))
    BY <1>2
  <2> QED BY <1>2, <2>1
<1>4. Watching \subseteq Watching' /\ Watching' \subseteq Watching \cup {c}
  BY <1>1 DEF Watching
<1>5. Linked'
  <2> SUFFICES ASSUME NEW x \in Watching', NEW j \in 1 .. Len(deps'[x])
               PROVE  \E k \in 1 .. Len(subs'[deps'[x][j]]) : subs'[deps'[x][j]][k] = x
    BY DEF Linked
  <2>1. PICK d : d = deps'[x][j]
    OBVIOUS
  <2>2. CASE x = c
    <3>1. d \in Nodes /\ Times(ds, d) > 0
      <4>1. d = ds[j] /\ j \in 1 .. Len(ds)
        BY <1>2, <2>1, <2>2
      <4> QED BY <1>1, <4>1, ElementOfSeq, TimesSome
    <3>2. PICK k \in Nat : k = Len(subs[d]) + 1
      BY <1>2, <3>1
    <3>3. k \in 1 .. Len(subs'[d]) /\ k > Len(subs[d])
      BY <1>2, <3>1, <3>2
    <3>4. subs'[d][k] = c
      BY <1>2, <3>1, <3>3
    <3> QED BY <2>1, <2>2, <3>3, <3>4
  <2>3. CASE x # c
    <3>1. x \in Watching /\ x \in made \cap Derived /\ deps'[x] = deps[x]
      BY <1>2, <1>4, <2>3, GraphFacts
    <3>2. PICK k \in 1 .. Len(subs[d]) : subs[d][k] = x
      BY <2>1, <3>1, Parts DEF Linked
    <3>3. d \in Nodes
      BY <2>1, <3>1, GraphFacts
    <3> QED BY <1>3, <2>1, <3>2, <3>3
  <2> QED BY <2>2, <2>3
<1>6. SubsTrue'
  <2> SUFFICES ASSUME NEW d \in Nodes, NEW k \in 1 .. Len(subs'[d])
               PROVE  \E j \in 1 .. Len(deps'[subs'[d][k]]) : deps'[subs'[d][k]][j] = d
    BY DEF SubsTrue
  <2>1. CASE k \in 1 .. Len(subs[d]) /\ subs'[d][k] = subs[d][k]
    <3>1. PICK x : x = subs[d][k]
      OBVIOUS
    <3>2. x \in made \cap Derived
      BY <2>1, <3>1, GraphFacts DEF IInv, SubsMade
    <3>3. \E j \in 1 .. Len(deps[x]) : deps[x][j] = d
      BY <2>1, <3>1, Parts DEF SubsTrue
    <3> QED BY <1>2, <2>1, <3>1, <3>2, <3>3
  <2>2. CASE k > Len(subs[d]) /\ subs'[d][k] = c
    <3>1. Times(ds, d) > 0
      BY <1>2, <2>2
    <3>2. \E j \in 1 .. Len(ds) : ds[j] = d
      BY <1>1, <3>1, TimesSome
    <3> QED BY <1>2, <2>2, <3>2
  <2> QED BY <1>2, <2>1, <2>2
<1> QED BY <1>3, <1>4, <1>5, <1>6 DEF GraphFit

(* It comes last in the order. *)
LEMMA JoinedShape ==
  ASSUME IInv, IInv', UInv, Running, stack' = stack,
         NEW c \in Derived, NEW ds \in Wirings, Subscribe(c, ds)
  PROVE  InShape' /\ \A x \in made : Sources'[x] = Sources[x]
<1>1. /\ c \notin made /\ made' = made \cup {c} /\ ds \in Seq(Nodes) /\ c \in Cells
      /\ \A j \in 1 .. Len(ds) : ds[j] \in made /\ ds[j] \in Nodes
      /\ deps' = [deps EXCEPT ![c] = ds] /\ deps \in [Derived -> Seq(Nodes)]
  <2>1. ds \in Seq(Nodes) /\ DOMAIN ds = 1 .. Len(ds)
    BY DataAssumption, LenProperties
  <2>2. \A j \in 1 .. Len(ds) : ds[j] \in Nodes
    BY <2>1, ElementOfSeq
  <2> QED BY <2>1, <2>2, GraphFacts DEF Subscribe, IInv, TypeOK, GraphType
<1>2. PICK rank \in [Cells -> Nat], n \in Nat :
        RankedGraph(rank, n) /\ Shaped(rank, stack)
  BY Parts, ShapeNow
<1>3. PICK rank2 \in [Cells -> Nat] : rank2 = [rank EXCEPT ![c] = n]
  OBVIOUS
<1>4. Blank
  BY Parts
<1>5. ASSUME NEW x \in Derived, NEW j \in 1 .. Len(deps'[x])
      PROVE  rank2[deps'[x][j]] < rank2[x]
  <2>1. CASE x = c
    <3>1. deps'[x] = ds
      BY <1>1, <2>1
    <3>2. ds[j] \in made /\ ds[j] \in Cells /\ ds[j] # c
      BY <1>1, <1>5, <3>1, GraphFacts
    <3>3. rank2[ds[j]] = rank[ds[j]] /\ rank2[c] = n /\ rank[ds[j]] < n
      BY <1>1, <1>2, <1>3, <3>2 DEF RankedGraph
    <3> QED BY <2>1, <3>1, <3>3
  <2>2. CASE x # c
    <3>1. deps'[x] = deps[x] /\ x \in Cells
      BY <1>1, <2>2, GraphFacts
    <3>2. x \in made
      <4> SUFFICES ASSUME x \notin made PROVE FALSE
        OBVIOUS
      <4>1. deps[x] = <<>> /\ Len(<<>>) = 0
        BY <1>4, EmptySeq DEF Blank
      <4> QED BY <1>5, <3>1, <4>1
    <3>3. deps[x][j] \in made /\ deps[x][j] \in Cells
      BY <1>5, <3>1, <3>2, GraphFacts
    <3>4. rank2[deps[x][j]] = rank[deps[x][j]] /\ rank2[x] = rank[x]
      BY <1>1, <1>3, <2>2, <3>1, <3>3
    <3>5. rank[deps[x][j]] < rank[x]
      BY <1>2, <1>5, <3>1 DEF RankedGraph
    <3> QED BY <3>1, <3>4, <3>5
  <2> QED BY <2>1, <2>2
<1>6. n + 1 \in Nat /\ \A x \in Cells : rank2[x] < n + 1
  BY <1>2, <1>3 DEF RankedGraph
<1>7. \A k \in 1 .. Len(stack') : stack'[k].at # "pull"
  BY RunningFree DEF Calls
<1>8. Ordered'
  <2>1. RankedGraph(rank2, n + 1)'
    BY <1>5, <1>6 DEF RankedGraph
  <2>2. Falls(rank2, stack)'
    BY <1>7 DEF Falls
  <2> QED BY <1>6, <2>1, <2>2 DEF Ordered
<1>9. \A x \in made : Sources'[x] = Sources[x]
  <2>1. made \subseteq made' /\ \A x \in made \cap Derived : deps'[x] = deps[x]
    BY <1>1
  <2> QED BY <1>8, <2>1, Parts, SourcesSame
<1>10. ASSUME NEW x \in Cells, NEW s \in Sources[x]
       PROVE  s \in Sources'[x]
  <2>1. CASE x \in made
    BY <1>9, <1>10, <2>1
  <2>2. CASE x \in Signals
    <3>1. Sources[x] = {x}
      BY <2>2, Parts, SourcesUnfold DEF SourcesSolve, Cells
    <3>2. SourcesSolve'
      <4>1. (IInv /\ Ordered)' => SourcesSolve'
        BY SourcesUnfold, PTL
      <4> QED BY <1>8, <4>1
    <3>3. Sources'[x] = {x}
      BY <2>2, <3>2 DEF SourcesSolve, Cells
    <3> QED BY <1>10, <3>1, <3>3
  <2>3. CASE x \notin made /\ x \notin Signals
    <3>1. x \in Derived /\ deps[x] = <<>> /\ DOMAIN <<>> = {}
      BY <1>4, <1>10, <2>3 DEF Blank, Cells
    <3>2. Sources[x] = UNION {Sources[deps[x][j]] : j \in DOMAIN deps[x]}
      BY <1>10, <2>3, Parts, SourcesUnfold DEF SourcesSolve
    <3>3. Sources[x] = {}
      BY <3>1, <3>2
    <3> QED BY <1>10, <3>3
  <2> QED BY <2>1, <2>2, <2>3
<1>11. Suffix(stack)' /\ Starts(stack)'
  BY Parts DEF Suffix, Starts
<1>12. Caused(stack)'
  <2> DEFINE Led(k) ==
               stack'[k].op = "markDirty" \/
               (stack'[k].op = "value" /\ stack'[k].cell \in Effects) =>
                 \E i \in 1 .. (k - 1) :
                   /\ stack'[i].op = "SetValue"
                   /\ stack'[i].cell \in Sources'[stack'[k].cell]
  <2> SUFFICES ASSUME NEW k \in 1 .. Len(stack) PROVE Led(k)
    <3>1. \A k \in 1 .. Len(stack') : Led(k)
      OBVIOUS
    <3> QED BY <3>1 DEF Caused, CausedAt
  <2>1. PICK f : f = stack[k]
    OBVIOUS
  <2>2. f.cell \in Cells
    <3>1. f \in Calls(stack)
      BY <2>1 DEF Calls
    <3>2. f \in FrameSet
      BY <3>1, StackNow
    <3> QED BY <3>2 DEF FrameSet
  <2>3. f.op = "markDirty" \/ (f.op = "value" /\ f.cell \in Effects) =>
          \E i \in 1 .. (k - 1) :
            stack[i].op = "SetValue" /\ stack[i].cell \in Sources[f.cell]
    BY <2>1, Parts DEF Caused, CausedAt
  <2>4. f.op = "markDirty" \/ (f.op = "value" /\ f.cell \in Effects) =>
          \E i \in 1 .. (k - 1) :
            stack[i].op = "SetValue" /\ stack[i].cell \in Sources'[f.cell]
    BY <1>10, <2>2, <2>3
  <2> QED BY <2>1, <2>4
<1> QED BY <1>8, <1>9, <1>11, <1>12 DEF InShape

(* A sum of versions is not zero. *)
LEMMA TotalSome ==
  ASSUME IInv, Positive, NEW c \in made \cap Derived
  PROVE  Total(c) \in Nat /\ Total(c) >= 1
<1>1. PICK ds \in Seq(Nodes) : ds = deps[c]
  BY GraphFacts
<1>2. Len(ds) \in Nat /\ ds # <<>>
  BY <1>1, DataAssumption, LenProperties DEF IInv, Wired
<1>3. 1 \in 1 .. Len(ds) /\ 1 \in 0 .. Len(ds) /\ Len(ds) \in 0 .. Len(ds)
  BY <1>2, Last
<1>4. ver \in [Nodes -> Nat] /\ ds[1] \in Nodes
  BY <1>1, <1>3, GraphFacts
<1>5. PICK S : S = Sums(ds, ver)
  OBVIOUS
<1>6. S[0] = 0 /\ S \in [0 .. Len(ds) -> Nat] /\ S[1] = S[1 - 1] + ver[ds[1]]
  BY <1>3, <1>4, <1>5, SumsUnfold
<1>7. S[1] <= S[Len(ds)]
  BY <1>3, <1>4, <1>5, SumsParts
<1>8. ver[ds[1]] >= 1 /\ ver[ds[1]] \in Nat
  BY <1>4 DEF Positive
<1>9. S[1] \in Nat /\ S[Len(ds)] \in Nat /\ S[1] = ver[ds[1]]
  BY <1>3, <1>6, <1>8
<1>10. S[Len(ds)] >= 1 /\ S[Len(ds)] \in Nat
  BY <1>7, <1>8, <1>9
<1>11. Total(c) = S[Len(ds)]
  BY <1>1, <1>5 DEF Total
<1> QED BY <1>10, <1>11

TotalsSome ==
  \A c \in made \cap Derived : Total(c) \in Nat /\ Total(c) >= 1
LEMMA TotalsAreSome == IInv /\ Positive => TotalsSome
BY TotalSome DEF TotalsSome

LEMMA JoinedFresh ==
  ASSUME IInv, IInv', UInv, Running, NEW c \in Derived, NEW ds \in Wirings,
         Subscribe(c, ds), UNCHANGED <<dataVars, stack, hurt>>,
         \A a \in made \cap Computeds : fn'[a] = fn[a],
         \A e \in made \cap Effects : seen'[e] = seen[e],
         active' \in {active, active \cup {c}}, c \in Computeds => active' = active,
         c \in Effects => seen'[c] = Meanings(ds)
  PROVE  UInv'
<1>1. /\ c \notin made /\ made' = made \cup {c} /\ made \subseteq made'
      /\ deps'[c] = ds /\ \A x \in made \cap Derived : deps'[x] = deps[x]
      /\ UNCHANGED <<val, ver, isDirty, vsum, stack, hurt>>
  <2>1. c \notin made /\ UNCHANGED <<val, ver, isDirty, vsum, stack, hurt>>
    BY DEF Subscribe, dataVars
  <2>2. /\ made' = made \cup {c} /\ deps'[c] = ds
        /\ \A x \in made \cap Derived : deps'[x] = deps[x]
    BY Subscribed
  <2> QED BY <2>1, <2>2
<1>2. /\ GraphFit' /\ Watching \subseteq Watching'
      /\ \A d \in Nodes : \A k \in 1 .. Len(subs[d]) : subs'[d][k] = subs[d][k]
  BY JoinedGraph
<1>3. InShape' /\ \A x \in made : Sources'[x] = Sources[x]
  BY <1>1, JoinedShape
<1>4. \A f \in Calls(stack) : f.at # "pull"
  BY RunningFree
<1>5. Calls(stack') = Calls(stack)
  BY <1>1
<1>6. Pulling = {} /\ Pulling' = {} /\ Gathered'
  BY <1>4, <1>5, PullingNow, CallsNow, GatheredNext DEF Pulls
<1>7. Roots \subseteq Roots'
  <2> SUFFICES ASSUME NEW x \in Derived, NEW i \in 1 .. Len(stack),
                      WillMark(stack[i], x)
               PROVE  x \in Roots'
    BY DEF Roots
  <2>1. PICK f : f = stack[i]
    OBVIOUS
  <2>2. f \in FrameSet /\ Formed(f, made, deps, subs) /\ f.at = "mark"
    BY <2>1, StackNow DEF Calls, WillMark
  <2>3. PICK k \in f.arg .. f.last : subs[f.cell][k] = x
    BY <2>1 DEF WillMark
  <2>4. f.cell \in Nodes /\ k \in 1 .. Len(subs[f.cell])
    <3>1. /\ f.op \in {"SetValue", "markDirty"} /\ f.last <= Len(subs[f.cell])
          /\ f.cell \in Nodes /\ f.arg \in Nat \ {0} /\ f.last \in Nat
      BY <2>2 DEF Formed, FrameSet, Nodes
    <3> QED BY <3>1, GraphFacts
  <2>5. subs'[f.cell][k] = x
    BY <1>2, <2>3, <2>4
  <2> QED BY <1>1, <2>1, <2>2, <2>3, <2>5 DEF Roots, WillMark
<1>8. \A U \in SUBSET Derived : Spreads(U)' => Spreads(U)
  <2>1. \A x \in Watching : x \in Watching' /\ deps'[x] = deps[x]
    BY <1>1, <1>2, GraphFacts
  <2> QED BY <2>1 DEF Spreads
<1>9. Pending \subseteq Pending'
  BY <1>7, <1>8, PendingGrows
<1>10. Blank' /\ Positive'
  BY <1>1, Parts DEF Blank, Positive, Subscribe
<1>11. \A x \in made \cap Derived : /\ Meanings(deps[x])' = Meanings(deps[x])
                                    /\ Vals(deps[x])' = Vals(deps[x])
                                    /\ Total(x)' = Total(x)
  <2>1. PICK X : X = {}
    OBVIOUS
  <2>2. /\ \A r \in made \cap Signals : r \in X \/ val'[r] = val[r]
        /\ \A x \in made \cap Derived :
             (\E j \in 1 .. Len(deps[x]) : deps[x][j] \in X) => x \in X
    BY <1>1, <2>1
  <2>3. Ordered /\ Blank /\ Ordered'
    BY <1>3, Parts DEF InShape
  <2>4. \A x \in made \cap Derived : x \in X \/ Meanings(deps[x])' = Meanings(deps[x])
    BY <1>1, <1>10, <2>2, <2>3, MeaningSame
  <2> QED BY <1>1, <2>1, <2>4 DEF Vals, Total
<1>12. \A x \in made \cap Derived : /\ Agrees(x)' <=> Agrees(x)
                                    /\ Touched(x)' <=> Touched(x)
  BY <1>1, <1>3, <1>11 DEF Agrees, Touched, Derived
<1>13. SumsTell'
  <2> SUFFICES ASSUME NEW x \in made' \cap Derived
               PROVE  /\ vsum'[x] <= Total(x)'
                      /\ vsum'[x] = Total(x)' => Touched(x)' \/ Agrees(x)'
    BY DEF SumsTell
  <2>1. CASE x = c
    <3>1. (IInv /\ Positive)' => TotalsSome'
      BY TotalsAreSome, PTL
    <3>2. Total(c)' \in Nat /\ Total(c)' >= 1
      BY <1>1, <1>10, <3>1 DEF TotalsSome
    <3>3. vsum'[c] = 0
      BY <1>1, Parts DEF Blank
    <3> QED BY <2>1, <3>2, <3>3
  <2>2. CASE x # c
    BY <1>1, <1>11, <1>12, <2>2, Parts DEF SumsTell
  <2> QED BY <2>1, <2>2
<1>14. \A d : Ready(d)' <=> Ready(d)
  BY <1>1, <1>6 DEF Ready, Stale
<1>15. Fresh'
  <2> SUFFICES ASSUME NEW x \in made' \cap Computeds PROVE FreshAt(x)'
    BY DEF Fresh, FreshAt
  <2>1. CASE x = c
    <3>1. isDirty'[x]
      BY <1>1, <2>1, Parts DEF Blank
    <3> QED BY <3>1 DEF FreshAt
  <2>2. CASE x # c
    <3>1. FreshAt(x) /\ x \in made \cap Derived
      BY <1>1, <2>2, Parts DEF Fresh, Derived
    <3>2. \A j \in 1 .. Len(deps[x]) : Ready(deps[x][j]) => Ready(deps[x][j])'
      <4> TAKE j \in 1 .. Len(deps[x])
      <4>1. PICK d : d = deps[x][j]
        OBVIOUS
      <4>2. Ready(d) => Ready(d)'
        BY <1>14
      <4>3. deps'[x][j] = d
        BY <1>1, <3>1, <4>1
      <4> QED BY <4>1, <4>2, <4>3 DEF Ready, Stale
    <3> QED BY <1>1, <1>6, <1>9, <1>12, <3>1, <3>2 DEF FreshAt
  <2> QED BY <2>1, <2>2
<1>16. Told'
  <2> SUFFICES ASSUME NEW e \in active' PROVE ToldAt(e)'
    BY DEF Told, ToldAt
  <2>1. CASE e \in active
    <3>1. ToldAt(e) /\ e \in made \cap Derived /\ e \in made \cap Effects
      BY <2>1, Parts DEF Told, IInv, TypeOK, HistType, Derived
    <3> QED BY <1>6, <1>9, <1>11, <1>12, <3>1 DEF ToldAt
  <2>2. CASE e = c /\ e \notin active
    <3>1. c \in Effects
      BY <2>2, Kinds DEF Derived
    <3>2. Meanings(ds)' = Meanings(ds)
      <4>1. /\ Len(ds) \in Nat /\ DOMAIN ds = 1 .. Len(ds)
            /\ \A j \in 1 .. Len(ds) : ds[j] \in made \cap Nodes
        <5>1. ds \in Seq(Nodes) /\ DOMAIN ds = 1 .. Len(ds) /\ Len(ds) \in Nat
          BY DataAssumption, LenProperties
        <5>2. \A j \in 1 .. Len(ds) : ds[j] \in Nodes
          BY <5>1, ElementOfSeq
        <5> QED BY <5>1, <5>2 DEF Subscribe
      <4>2. PICK X : X = {}
        OBVIOUS
      <4>3. /\ \A r \in made \cap Signals : r \in X \/ val'[r] = val[r]
            /\ \A x \in made \cap Derived :
                 (\E j \in 1 .. Len(deps[x]) : deps[x][j] \in X) => x \in X
        BY <1>1, <4>2
      <4>4. Ordered /\ Blank /\ Ordered'
        BY <1>3, Parts DEF InShape
      <4>5. \A d \in made \cap Nodes : d \in X \/ Meaning'[d] = Meaning[d]
        BY <1>1, <1>10, <4>3, <4>4, MeaningSame
      <4> QED BY <4>1, <4>2, <4>5 DEF Meanings
    <3> QED BY <1>1, <2>2, <3>1, <3>2 DEF ToldAt
  <2> QED BY <2>1, <2>2
<1> QED BY <1>2, <1>3, <1>6, <1>10, <1>13, <1>15, <1>16 DEF UInv, CallsFit, DataFit

LEMMA ComputedFresh ==
  ASSUME IInv, IInv', UInv, NEW c \in Computeds, NEW ds \in Wirings, NEW g \in Getters,
         Computed(c, ds, g)
  PROVE  UInv'
<1>1. /\ Running /\ Subscribe(c, ds) /\ UNCHANGED <<dataVars, stack, hurt>>
      /\ c \notin made /\ c \in Derived /\ c \notin Effects
      /\ fn' = [fn EXCEPT ![c] = g] /\ UNCHANGED <<active, seen>>
  BY Kinds DEF Computed, Subscribe, histVars, Derived
<1>2. \A a \in made \cap Computeds : fn'[a] = fn[a]
  BY <1>1 DEF IInv, TypeOK, GraphType
<1> QED BY <1>1, <1>2, JoinedFresh

LEMMA EffectFresh ==
  ASSUME IInv, IInv', UInv, NEW e \in Effects, NEW ds \in Wirings, Effect(e, ds)
  PROVE  UInv'
<1>1. /\ Running /\ Subscribe(e, ds) /\ UNCHANGED <<dataVars, stack, hurt>>
      /\ e \notin made /\ e \in Derived /\ e \notin Computeds /\ fn' = fn
      /\ active' = active \cup {e} /\ seen' = [seen EXCEPT ![e] = Meanings(ds)]
  BY Kinds DEF Effect, Subscribe, Derived
<1>2. seen'[e] = Meanings(ds) /\ \A x \in made \cap Effects : seen'[x] = seen[x]
  BY <1>1 DEF IInv, TypeOK, HistType
<1> QED BY <1>1, <1>2, JoinedFresh
-----------------------------------------------------------------------------
(* The theorem. *)

LEMMA InitFresh ==
  ASSUME Init
  PROVE  UInv
<1>1. IInv /\ made = {} /\ active = {} /\ stack = <<>> /\ Len(<<>>) = 0
  BY InitGood, EmptySeq DEF Init
<1>2. /\ \A c \in Derived : deps[c] = <<>> /\ vsum[c] = 0
      /\ \A c \in Computeds : isDirty[c]
      /\ \A c \in Nodes : subs[c] = <<>> /\ ver[c] = 1
  BY DEF Init
<1>3. Linked /\ SubsTrue
  BY <1>1, <1>2 DEF Linked, SubsTrue, Watching
<1>4. InShape /\ Gathered
  <2>1. PICK rank \in [Cells -> Nat] : rank = [c \in Cells |-> 0]
    OBVIOUS
  <2>2. RankedGraph(rank, 1)
    BY <1>1, <1>2, <2>1 DEF RankedGraph
  <2>3. Ordered
    BY <1>1, <2>2 DEF Ordered, Falls
  <2> QED BY <1>1, <2>3 DEF InShape, Gathered, Suffix, Starts, Caused
<1>5. Blank /\ Positive
  BY <1>2, Kinds DEF Blank, Positive, Derived
<1>6. SumsTell /\ Fresh /\ Told
  BY <1>1 DEF SumsTell, Fresh, Told
<1> QED BY <1>3, <1>4, <1>5, <1>6 DEF UInv, GraphFit, CallsFit, DataFit

LEMMA StillFresh ==
  ASSUME IInv, UInv, UNCHANGED vars
  PROVE  UInv'
<1>1. /\ UNCHANGED graphVars /\ UNCHANGED dataVars /\ UNCHANGED histVars
      /\ deps' = deps /\ stack' = stack
  BY DEF vars, graphVars
<1>2. Calls(stack') = Calls(stack)
  BY <1>1
<1>3. PICK rank \in [Cells -> Nat], n \in Nat :
        RankedGraph(rank, n) /\ Shaped(rank, stack)
  BY Parts, ShapeNow
<1>4. Shaped(rank, stack')
  BY <1>1, <1>3
<1>5. InShape'
  BY <1>1, <1>3, <1>4, ShapeNext
<1>6. Pulling' = Pulling
  BY <1>2, PullingNow, CallsNow
<1>7. \A f \in Calls(stack') : f.at = "pull" => Collects(f)
  BY <1>2, Parts, CallsNow
<1> QED BY <1>1, <1>2, <1>5, <1>6, <1>7, Untroubled

LEMMA FreshNext ==
  ASSUME StopsHead, IInv, IInv', UInv, Unwrapped, [Next]_vars
  PROVE  UInv'
<1>1. CASE UNCHANGED vars
  BY <1>1, StillFresh
<1>2. CASE Call
  <2>1. ASSUME NEW s \in Signals, NEW v \in Initials, Signal(s, v) PROVE UInv'
    BY <2>1, SignalFresh
  <2>2. ASSUME NEW s \in Signals, NEW v \in Values, CallSetValue(s, v) PROVE UInv'
    BY <2>2, CallSetValueFresh
  <2>3. ASSUME NEW c \in Computeds, NEW ds \in Wirings, NEW g \in Getters,
               Computed(c, ds, g)
        PROVE  UInv'
    BY <2>3, ComputedFresh
  <2>4. ASSUME NEW e \in Effects, NEW ds \in Wirings, Effect(e, ds) PROVE UInv'
    BY <2>4, EffectFresh
  <2>5. ASSUME NEW e \in Effects, Stop(e) PROVE UInv'
    BY <2>5, StopFresh
  <2>6. ASSUME NEW c \in Nodes, CallValue(c) PROVE UInv'
    BY <2>6, CallValueFresh
  <2> QED BY <1>2, <2>1, <2>2, <2>3, <2>4, <2>5, <2>6 DEF Call
<1>3. CASE Step
  <2>1. CASE ReadClean \/ ReadDirty \/ Return \/ WriteSame \/ Write
    BY <2>1, ReadCleanFresh, ReadDirtyFresh, ReturnFresh, WriteSameFresh, WriteFresh
  <2>2. CASE MarkComputed \/ MarkEffect \/ MarkEnd \/ WriteEnd
    BY <2>2, MarkComputedFresh, MarkEffectFresh, MarkEndFresh, WriteEndFresh
  <2>3. CASE PullArg \/ PullDep \/ PullSame \/ PullGet \/ PullRun
    BY <2>3, PullArgFresh, PullDepFresh, PullSameFresh, PullGetFresh, PullRunFresh
  <2>4. CASE GetPanic \/ CallReturn \/ CallPanic
    BY <2>4, GetPanicFresh, CallReturnFresh, CallPanicFresh
  <2> QED BY <1>3, <2>1, <2>2, <2>3, <2>4 DEF Step
<1> QED BY <1>1, <1>2, <1>3 DEF Next

(* Between the calls a computed that is not marked holds what its getter   *)
(* gives, and no effect has missed a change (the computed and effect tests *)
(* of foo/signals_test.go), in every program and whatever its callbacks    *)
(* write, read, create or panic at, as long as only effects that head      *)
(* their lists are stopped (removeSub()) and no version or sum of versions *)
(* wraps.                                                                  *)
THEOREM UpToDateAlways ==
  ASSUME StopsHead PROVE Spec /\ []Unwrapped => []UpToDate
<1>1. Init => IInv /\ UInv
  BY InitGood, InitFresh
<1>2. IInv /\ UInv /\ Unwrapped /\ [Next]_vars => IInv' /\ UInv'
  BY NextGood, FreshNext
<1>3. IInv /\ UInv => UpToDate
  BY Rests
<1> QED BY <1>1, <1>2, <1>3, PTL DEF Spec
=============================================================================
