------------------------- MODULE RocketFreshProofs -------------------------
(* Proofs about Rocket with one goroutine, no callback that panics and     *)
(* nobody who reads computeds: no effect misses a change and no computed   *)
(* that is not marked is stale, whatever runs in the middle of the marking *)
(* and however callbacks nest their writes.                                *)
EXTENDS RocketProofs, GraphRecursion

(* The program uses the system from one goroutine, no callback panics,     *)
(* creates cells or stops effects, and nobody calls Value() on computeds.  *)
Calm ==
  /\ \E g : Goroutines = {g}
  /\ Faulty = {} /\ ~Restructures /\ ~ReadsComputeds

(* The goroutine, which creates and stops nothing in callbacks, its calls  *)
(* and the one on top. *)
Me == CHOOSE g \in Goroutines : TRUE
Sole == Me \in Goroutines /\ ~Restructures /\ \A g \in Goroutines : g = Me
Mine == stack[Me]
Tip == Top(Me)

IInv == Sole /\ TInv /\ AInv

-----------------------------------------------------------------------------

LEMMA Kinds ==
  /\ Signals \cap Computeds = {} /\ Signals \cap Effects = {}
  /\ Computeds \cap Effects = {}
BY KindsAssumption DEF KindsAssumption, Nodes

(* The only goroutine stays the same. *)
LEMMA SoleStays == /\ Sole' <=> Sole
                   /\ Me' = Me
                   /\ Mine' = stack'[Me]
BY DEF Sole, Me, Mine

(* Sums of versions. *)

LEMMA SumsAre == \A ds, vs : Sums(ds, vs) = PartSums(ds, vs)
BY DEF Sums, PartSums

LEMMA SumsUnfold ==
  ASSUME NEW ds \in Seq(Nodes), NEW vs \in [Nodes -> Nat]
  PROVE  /\ Sums(ds, vs)[0] = 0 /\ Sums(ds, vs) \in [0 .. Len(ds) -> Nat]
         /\ \A n \in 1 .. Len(ds) :
              Sums(ds, vs)[n] = Sums(ds, vs)[n - 1] + vs[ds[n]]
<1>0. PICK S : S = Sums(ds, vs)
  OBVIOUS
<1>1. S = PartSums(ds, vs)
  BY <1>0, SumsAre
<1> QED BY <1>0, <1>1, PartSumsUnfold

(* A sum of versions is as large as any of its parts, and grows with them. *)
LEMMA SumsGrow ==
  ASSUME NEW ds \in Seq(Nodes), NEW vs \in [Nodes -> Nat],
         NEW ws \in [Nodes -> Nat],
         \A j \in 1 .. Len(ds) : vs[ds[j]] <= ws[ds[j]]
  PROVE  /\ \A n \in 0 .. Len(ds) : Sums(ds, vs)[n] <= Sums(ds, ws)[n]
         /\ \A n \in 0 .. Len(ds) :
              (\E j \in 1 .. n : vs[ds[j]] < ws[ds[j]])
                => Sums(ds, vs)[n] < Sums(ds, ws)[n]
BY SumsAre, PartSumsGrow

(* A sum depends on its parts only. *)
LEMMA SumsSame ==
  ASSUME NEW ds \in Seq(Nodes), NEW vs \in [Nodes -> Nat],
         NEW ws \in [Nodes -> Nat],
         NEW m \in 0 .. Len(ds), \A j \in 1 .. m : vs[ds[j]] = ws[ds[j]]
  PROVE  Sums(ds, vs)[m] = Sums(ds, ws)[m]
<1>1. SameParts(Nodes, ds, vs, ws, m)
  BY DEF SameParts
<1> QED BY <1>1, PartSumsSame, SumsAre

(* The parts of a sum that have been added up so far. *)
LEMMA SumsParts ==
  ASSUME NEW ds \in Seq(Nodes), NEW vs \in [Nodes -> Nat], NEW n \in 0 .. Len(ds)
  PROVE  Sums(ds, vs)[n] <= Sums(ds, vs)[Len(ds)]
BY SumsAre, PartSumsParts
-----------------------------------------------------------------------------
(* The invariant: what has not been reached by the marks yet.              *)

(* What subscribes: an effect that was stopped does not. *)
Watching == (made \cap Computeds) \cup active

(* A computed that has not subscribed yet, or an effect that is stopping,  *)
(* is settling.                                                            *)
Settles(f) == f.op \in {"Computed", "Stop"} /\ f.at # "end"
Settling == {x \in Derived : \E i \in 1 .. Len(Mine) :
                               Settles(Mine[i]) /\ Mine[i].cell = x}

(* The marks that the loops in progress have still to make, and whatever   *)
(* these lead to.                                                          *)
WillMark(f, x) ==
  f.at = "mark" /\ \E k \in f.arg .. Len(subs[f.cell]) : subs[f.cell][k] = x
Roots == {x \in Derived : \E i \in 1 .. Len(Mine) : WillMark(Mine[i], x)}
Spreads(U) ==
  \A x \in Watching : (\E j \in 1 .. Len(deps[x]) : deps[x][j] \in U) => x \in U
Covers(U) == Roots \subseteq U /\ Spreads(U)
Pending == {x \in Derived : \A U \in SUBSET Derived : Covers(U) => x \in U}

(* The cells that are being evaluated. *)
Evals(f) == f.at \in {"pull", "first"}
Pulls(f, x) == Evals(f) /\ f.cell = x
Pulling == {x \in Derived : \E i \in 1 .. Len(Mine) : Pulls(Mine[i], x)}

(* A dependency that can be read at once, and is not being evaluated. *)
Ready(d) == ~Stale(d) /\ d \notin Pulling

Vals(ds) == [j \in DOMAIN ds |-> val[ds[j]]]
Agrees(c) ==
  /\ seen[c] = Vals(deps[c])
  /\ c \in Computeds => val[c] = Apply(fn[c], seen[c])

(* Who depends on a cell subscribes to it, unless it is settling; a cell   *)
(* that has not been created has no dependencies, no sum and is dirty.     *)
Linked ==
  \A x \in Watching \ Settling : \A j \in 1 .. Len(deps[x]) :
    \E k \in 1 .. Len(subs[deps[x][j]]) : subs[deps[x][j]][k] = x
Blank ==
  \A c \in Derived \ made :
    deps[c] = <<>> /\ vsum[c] = 0 /\ (c \in Computeds => isDirty[c])

(* No cell depends on itself, and the cells being evaluated depend each on *)
(* the next.                                                               *)
RankedGraph(rank, n) ==
  /\ \A c \in Cells : rank[c] < n
  /\ \A c \in Derived : \A j \in 1 .. Len(deps[c]) : rank[deps[c][j]] < rank[c]
Falls(rank, s) ==
  \A k, l \in 1 .. Len(s) :
    k < l /\ Evals(s[k]) /\ Evals(s[l]) => rank[s[l].cell] < rank[s[k].cell]
Ordered ==
  \E rank \in [Cells -> Nat], n \in Nat : RankedGraph(rank, n) /\ Falls(rank, Mine)

(* Above an evaluation there are only evaluations of computeds, and below  *)
(* the first one of an effect there are no marks.  A write that has not    *)
(* begun its loop starts it at the first subscriber, and no call follows a *)
(* nil pointer.  A constructor and a stop function are alone.              *)
Suffix(s) ==
  \A k, l \in 1 .. Len(s) :
    k < l /\ Evals(s[k]) => s[l].at = "pull" /\ s[l].cell \in Computeds
Unmarked(s) ==
  \A k, l \in 1 .. Len(s) : k < l /\ s[l].at = "first" => s[k].at # "mark"
Poised(f) ==
  /\ f.at # "nil"
  /\ f.op = "SetValue" /\ f.at \in {"lock", "body"} => f.arg = 1
Starts(s) == \A k \in 1 .. Len(s) : Poised(s[k])
Single(s) == \A k \in 1 .. Len(s) : Settles(s[k]) => Len(s) = 1

(* What an evaluation has collected so far is what there is, and stays so  *)
(* until it has collected all.  An effect that has not been run has no sum. *)
Collects(f) ==
  /\ f.sum = Sums(deps[f.cell], ver)[f.arg - 1]
  /\ \A j \in 1 .. (f.arg - 1) :
       Ready(deps[f.cell][j]) /\ f.args[j] = val[deps[f.cell][j]]
Prepared(f) ==
  /\ Evals(f) => Collects(f)
  /\ Early(f) => vsum[f.cell] = 0
Gathered == \A k \in 1 .. Len(Mine) : Prepared(Mine[k])

(* A sum that has not grown belongs to the values that there are. *)
Positive == \A c \in Nodes : ver[c] >= 1
SumsTell ==
  \A c \in Watching :
    /\ vsum[c] <= Total(c)
    /\ vsum[c] = Total(c) => Agrees(c)

(* A computed that is not marked, being evaluated or about to be marked    *)
(* agrees with dependencies that are not marked or being evaluated either; *)
(* an effect that no mark will reach has been told.                        *)
FreshAt(c) ==
  \/ isDirty[c] \/ c \in Pulling \/ c \in Pending
  \/ (Agrees(c) /\ \A j \in 1 .. Len(deps[c]) : Ready(deps[c][j]))
Fresh == \A c \in made \cap Computeds : FreshAt(c)
ToldAt(e) == e \in Pulling \/ e \in Pending \/ seen[e] = DepMeanings(e)
Told == \A e \in active : ToldAt(e)

InShape == /\ Ordered /\ Suffix(Mine) /\ Unmarked(Mine)
           /\ Starts(Mine) /\ Single(Mine)
CallsSet == InShape /\ Gathered
DataFit == Blank /\ Positive /\ SumsTell /\ Fresh /\ Told
UInv == Linked /\ CallsSet /\ DataFit
-----------------------------------------------------------------------------
(* The recursive functions of the model. *)

LEMMA GraphFacts ==
  ASSUME IInv
  PROVE  /\ \A c \in Derived : /\ deps[c] \in Seq(Nodes) /\ Len(deps[c]) \in Nat
                               /\ DOMAIN deps[c] = 1 .. Len(deps[c])
                               /\ \A j \in 1 .. Len(deps[c]) : deps[c][j] \in Nodes
         /\ \A c \in made \cap Derived :
              \A j \in 1 .. Len(deps[c]) : deps[c][j] \in made \cap Nodes
         /\ \A d \in Nodes : /\ subs[d] \in Seq(Derived) /\ Len(subs[d]) \in Nat
                             /\ \A k \in 1 .. Len(subs[d]) : subs[d][k] \in Derived
         /\ Watching \subseteq made \cap Derived /\ Nodes \subseteq Cells
         /\ ver \in [Nodes -> Nat] /\ made \subseteq Cells
         /\ Derived \subseteq Cells /\ Computeds \subseteq Derived
<1>1. deps \in [Derived -> Seq(Nodes)] /\ subs \in [Nodes -> Seq(Derived)]
      /\ made \in SUBSET Cells /\ active \in SUBSET (made \cap Effects)
      /\ ver \in [Nodes -> 0 .. (VersionModulus - 1)]
  BY DEF IInv, TInv, GraphType, HistType, DataType
<1>2. \A c \in Derived : /\ deps[c] \in Seq(Nodes) /\ Len(deps[c]) \in Nat
                         /\ DOMAIN deps[c] = 1 .. Len(deps[c])
                         /\ \A j \in 1 .. Len(deps[c]) : deps[c][j] \in Nodes
  BY <1>1, LenProperties, ElementOfSeq
<1>3. \A d \in Nodes : /\ subs[d] \in Seq(Derived) /\ Len(subs[d]) \in Nat
                       /\ \A k \in 1 .. Len(subs[d]) : subs[d][k] \in Derived
  BY <1>1, LenProperties, ElementOfSeq
<1>4. \A c \in made \cap Derived :
        \A j \in 1 .. Len(deps[c]) : deps[c][j] \in made \cap Nodes
  BY <1>2 DEF IInv, TInv, Wired
<1>5. ver \in [Nodes -> Nat]
  BY <1>1
<1> QED BY <1>1, <1>2, <1>3, <1>4, <1>5 DEF Watching, Derived, Nodes, Cells

(* Meaning solves the equations of the cells that have been created.       *)
MeaningSolves ==
  \A c \in made \cap Nodes :
    Meaning[c] = IF c \in Signals THEN val[c]
                 ELSE Apply(fn[c], DepMeanings(c))

LEMMA MeaningUnfolds == IInv /\ Ordered /\ Blank => MeaningSolves
<1> SUFFICES ASSUME IInv, Ordered, Blank PROVE MeaningSolves
  OBVIOUS
<1> DEFINE M == made \cap Nodes
           ds == [c \in M |-> IF c \in Signals THEN <<>> ELSE deps[c]]
           G == [c \in M |-> [a \in [DOMAIN ds[c] -> Values] |->
                  IF c \in Signals THEN val[c] ELSE Apply(fn[c], a)]]
           Holds(f) == f = [c \in Nodes |->
                  IF c \in Signals THEN val[c]
                  ELSE Apply(fn[c], [j \in DOMAIN deps[c] |-> f[deps[c][j]]])]
<1>1. PICK rank \in [Cells -> Nat], n \in Nat : RankedGraph(rank, n)
  BY DEF Ordered
<1>2. \A c \in M : rank[c] \in Nat /\ rank[c] < n
  BY <1>1, GraphFacts DEF RankedGraph
<1>3. ASSUME NEW c \in M \ Signals
      PROVE  /\ c \in made \cap Derived /\ c \in Computeds
             /\ ds[c] = deps[c] /\ DOMAIN deps[c] = 1 .. Len(deps[c])
  BY GraphFacts DEF Nodes, Derived
<1>4. \A c \in M : \A j \in DOMAIN ds[c] :
        ds[c][j] \in M /\ rank[ds[c][j]] < rank[c]
  <2> TAKE c \in M
  <2>1. CASE c \in Signals
    BY <2>1
  <2>2. CASE c \notin Signals
    BY <2>2, <1>1, <1>3, GraphFacts DEF RankedGraph
  <2> QED BY <2>1, <2>2
<1>5. \A c \in M : \A a \in [DOMAIN ds[c] -> Values] : G[c][a] \in Values
  <2> TAKE c \in M
  <2> TAKE a \in [DOMAIN ds[c] -> Values]
  <2>1. CASE c \in Signals
    BY <2>1 DEF IInv, TInv, DataType
  <2>2. CASE c \notin Signals
    <3>1. deps[c] \in Wirings /\ fn[c] \in Getters
      BY <1>3, <2>2 DEF IInv, TInv, Wired
    <3> QED BY <1>3, <2>2, <3>1, DataAssumption DEF DataAssumption
  <2> QED BY <2>1, <2>2
<1>6. Zero \in Values
  BY DataAssumption DEF DataAssumption
<1>7. PICK f \in [M -> Values] : Solves(M, ds, Values, G, f)
  <2>1. Ranked(M, ds, rank) /\ Giving(M, ds, Values, G)
    BY <1>2, <1>4, <1>5 DEF Ranked, Giving
  <2> HIDE DEF M, ds, G
  <2> QED BY <1>2, <1>6, <2>1, Solution
<1>8. \A c \in M :
        f[c] = IF c \in Signals THEN val[c]
               ELSE Apply(fn[c], [j \in DOMAIN deps[c] |-> f[deps[c][j]]])
  <2> TAKE c \in M
  <2>1. [j \in DOMAIN ds[c] |-> f[ds[c][j]]] \in [DOMAIN ds[c] -> Values]
    BY <1>4
  <2>2. f[c] = IF c \in Signals THEN val[c]
               ELSE Apply(fn[c], [j \in DOMAIN ds[c] |-> f[ds[c][j]]])
    BY <1>7, <2>1 DEF Solves
  <2> QED BY <1>3, <2>2
<1> DEFINE z == [j \in DOMAIN <<>> |-> Zero]
           g == [c \in Nodes |-> IF c \in made THEN f[c]
                                 ELSE IF c \in Signals THEN val[c]
                                 ELSE Apply(fn[c], z)]
<1>9. ASSUME NEW c \in Nodes
      PROVE  g[c] = IF c \in Signals THEN val[c]
                    ELSE Apply(fn[c], [j \in DOMAIN deps[c] |-> g[deps[c][j]]])
  <2>1. CASE c \in made /\ c \in Signals
    BY <1>8, <2>1
  <2>2. CASE c \in made /\ c \notin Signals
    <3>1. \A j \in DOMAIN deps[c] : deps[c][j] \in M
      BY <1>3, <2>2, GraphFacts
    <3>2. [j \in DOMAIN deps[c] |-> g[deps[c][j]]]
            = [j \in DOMAIN deps[c] |-> f[deps[c][j]]]
      BY <3>1
    <3>3. g[c] = f[c]
      BY <2>2
    <3> HIDE DEF g
    <3> QED BY <1>8, <2>2, <3>2, <3>3
  <2>3. CASE c \notin made /\ c \in Signals
    BY <2>3
  <2>4. CASE c \notin made /\ c \notin Signals
    <3>1. deps[c] = <<>>
      BY <2>4 DEF Blank, Nodes, Derived
    <3>2. [j \in DOMAIN deps[c] |-> g[deps[c][j]]] = z
      BY <3>1
    <3>3. g[c] = Apply(fn[c], z)
      BY <2>4
    <3> HIDE DEF g, z
    <3> QED BY <2>4, <3>2, <3>3
  <2> QED BY <2>1, <2>2, <2>3, <2>4
<1>10. Holds(g)
  <2>1. g = [c \in Nodes |-> g[c]]
    OBVIOUS
  <2> HIDE DEF g
  <2> QED BY <1>9, <2>1
<1>11. Meaning = CHOOSE h : Holds(h)
  BY DEF Meaning
<1>12. Holds(Meaning)
  <2> HIDE DEF Holds, g
  <2> QED BY <1>10, <1>11
<1> QED BY <1>12 DEF DepMeanings, MeaningSolves

(* Induction along the dependencies of the cells that have been created.   *)
LEMMA Downward ==
  ASSUME IInv, Ordered, NEW T, \A s \in made \cap Signals : s \in T,
         \A c \in made \cap Derived :
           (\A j \in 1 .. Len(deps[c]) : deps[c][j] \in T) => c \in T
  PROVE  made \subseteq T
<1> DEFINE ds == [c \in made |-> IF c \in Signals THEN <<>> ELSE deps[c]]
<1>1. PICK rank \in [Cells -> Nat], n \in Nat : RankedGraph(rank, n)
  BY DEF Ordered
<1>2. \A c \in made \ Signals :
        /\ c \in made \cap Derived /\ ds[c] = deps[c]
        /\ DOMAIN deps[c] = 1 .. Len(deps[c])
  BY GraphFacts DEF Cells
<1>3. \A c \in made : c \in Signals => DOMAIN ds[c] = {}
  <2>1. DOMAIN <<>> = {}
    OBVIOUS
  <2> QED BY <2>1
<1>4. ASSUME NEW c \in made
      PROVE  /\ rank[c] \in Nat
             /\ \A j \in DOMAIN ds[c] : ds[c][j] \in made /\ rank[ds[c][j]] < rank[c]
  <2>1. rank[c] \in Nat
    BY GraphFacts
  <2>2. CASE c \in Signals
    BY <1>3, <2>1, <2>2
  <2>3. CASE c \notin Signals
    BY <2>1, <2>3, <1>1, <1>2, GraphFacts DEF RankedGraph
  <2> QED BY <2>2, <2>3
<1>5. \A c \in made : (\A j \in DOMAIN ds[c] : ds[c][j] \in T) => c \in T
  BY <1>2
<1> HIDE DEF ds
<1>6. Ranked(made, ds, rank) /\ Hereditary(made, ds, T)
  BY <1>4, <1>5 DEF Ranked, Hereditary
<1> QED BY <1>6, Descent

(* What the cells mean does not change with new cells or values of others. *)
LEMMA MeaningSame ==
  ASSUME IInv, Ordered, Blank, IInv', Ordered', Blank', made \subseteq made',
         \A c \in made \cap Derived : deps'[c] = deps[c],
         \A c \in made \cap Computeds : fn'[c] = fn[c],
         NEW X, \A c \in made \cap Derived :
                  (\E j \in 1 .. Len(deps[c]) : deps[c][j] \in X) => c \in X,
         \A s \in made \cap Signals : s \in X \/ val'[s] = val[s]
  PROVE  /\ \A c \in made \cap Nodes : c \in X \/ Meaning'[c] = Meaning[c]
         /\ \A c \in made \cap Derived :
              c \in X \/ DepMeanings(c)' = DepMeanings(c)
<1> DEFINE T == {c \in made : c \in Nodes => c \in X \/ Meaning'[c] = Meaning[c]}
<1>1. MeaningSolves
  BY MeaningUnfolds
<1>2. MeaningSolves'
  <2>1. (IInv /\ Ordered /\ Blank)' => MeaningSolves'
    BY MeaningUnfolds, PTL
  <2> QED BY <2>1
<1>3. \A s \in made \cap Signals : s \in T
  <2> TAKE s \in made \cap Signals
  <2>1. s \in made' \cap Nodes /\ s \in made \cap Nodes
    BY DEF Nodes
  <2>2. Meaning[s] = val[s] /\ Meaning'[s] = val'[s]
    BY <1>1, <1>2, <2>1 DEF MeaningSolves
  <2> QED BY <2>2
<1>4. ASSUME NEW c \in made \cap Derived, c \notin X,
             \A j \in 1 .. Len(deps[c]) : deps[c][j] \in T
      PROVE  DepMeanings(c)' = DepMeanings(c)
  <2>1. /\ DOMAIN deps[c] = 1 .. Len(deps[c]) /\ deps'[c] = deps[c]
        /\ \A j \in 1 .. Len(deps[c]) : deps[c][j] \in made \cap Nodes
    BY GraphFacts
  <2>2. \A j \in DOMAIN deps[c] : Meaning'[deps[c][j]] = Meaning[deps[c][j]]
    BY <1>4, <2>1
  <2> QED BY <2>1, <2>2 DEF DepMeanings
<1>5. ASSUME NEW c \in made \cap Derived,
             \A j \in 1 .. Len(deps[c]) : deps[c][j] \in T
      PROVE  c \in T
  <2> SUFFICES ASSUME c \in Nodes, c \notin X PROVE Meaning'[c] = Meaning[c]
    OBVIOUS
  <2>1. c \in Computeds /\ c \notin Signals /\ c \in made'
    BY Kinds DEF Nodes, Derived
  <2>2. Meaning[c] = Apply(fn[c], DepMeanings(c))
    BY <1>1, <2>1 DEF MeaningSolves
  <2>3. Meaning'[c] = Apply(fn'[c], DepMeanings(c)')
    BY <1>2, <2>1 DEF MeaningSolves
  <2>4. DepMeanings(c)' = DepMeanings(c) /\ fn'[c] = fn[c]
    BY <1>4, <1>5, <2>1
  <2> QED BY <2>2, <2>3, <2>4
<1>6. made \subseteq T
  <2> HIDE DEF T
  <2> QED BY <1>3, <1>5, Downward
<1>7. ASSUME NEW c \in made \cap Derived, c \notin X
      PROVE  DepMeanings(c)' = DepMeanings(c)
  <2>1. \A j \in 1 .. Len(deps[c]) : deps[c][j] \in made
    BY GraphFacts
  <2> HIDE DEF T
  <2> QED BY <1>4, <1>6, <1>7, <2>1
<1> QED BY <1>6, <1>7
-----------------------------------------------------------------------------
(* The marks that are still to come. *)

(* Who depends on a cell that will be marked will be marked.               *)
LEMMA PendingUp ==
  ASSUME IInv, NEW x \in Watching, NEW j \in 1 .. Len(deps[x]),
         deps[x][j] \in Pending
  PROVE  x \in Pending
<1>1. x \in Derived
  BY GraphFacts
<1>2. ASSUME NEW U \in SUBSET Derived, Covers(U)
      PROVE  x \in U
  <2>1. deps[x][j] \in U
    BY <1>2 DEF Pending
  <2> QED BY <1>2, <2>1 DEF Covers, Spreads
<1> QED BY <1>1, <1>2 DEF Pending

PendingClosed ==
  \A x \in Watching : \A j \in 1 .. Len(deps[x]) :
    deps[x][j] \in Pending => x \in Pending

LEMMA PendingCloses == IInv => PendingClosed
BY PendingUp DEF PendingClosed

LEMMA RootsPending == Roots \subseteq Pending
<1>1. ASSUME NEW x \in Roots, NEW U \in SUBSET Derived, Covers(U)
      PROVE  x \in U
  BY <1>1 DEF Covers
<1>2. Roots \subseteq Derived
  BY DEF Roots
<1> QED BY <1>1, <1>2 DEF Pending

LEMMA PendingNone ==
  ASSUME Roots = {} PROVE Pending = {}
<1>1. Covers({})
  BY DEF Covers, Spreads
<1>2. {} \in SUBSET Derived
  OBVIOUS
<1> QED BY <1>1, <1>2 DEF Pending

LEMMA PendingGrows ==
  ASSUME Roots \subseteq Roots',
         \A U \in SUBSET Derived : Spreads(U)' => Spreads(U)
  PROVE  Pending \subseteq Pending'
<1>1. ASSUME NEW x \in Pending, NEW U \in SUBSET Derived, Covers(U)'
      PROVE  x \in U
  <2>1. Roots' \subseteq U /\ Spreads(U)'
    BY <1>1 DEF Covers
  <2>2. Covers(U)
    BY <2>1 DEF Covers
  <2> QED BY <1>1, <2>2 DEF Pending
<1>2. Pending \subseteq Derived
  BY DEF Pending
<1> QED BY <1>1, <1>2 DEF Pending

(* y has been marked, and who depends on it will be. *)
LEMMA PendingLess ==
  ASSUME UNCHANGED <<deps, made, active>>, NEW y \in Derived,
         Roots \subseteq Roots' \cup {y},
         \A x \in Watching :
           (\E j \in 1 .. Len(deps[x]) : deps[x][j] = y) => x \in Roots'
  PROVE  Pending \subseteq Pending' \cup {y}
<1>1. ASSUME NEW x \in Pending, x # y, NEW U \in SUBSET Derived, Covers(U)'
      PROVE  x \in U
  <2>1. Roots' \subseteq U /\ Spreads(U)'
    BY <1>1 DEF Covers
  <2>2. Watching' = Watching
    BY DEF Watching
  <2>3. Spreads(U)
    BY <2>1, <2>2 DEF Spreads
  <2>4. Spreads(U \cup {y})
    BY <2>1, <2>3 DEF Spreads
  <2>5. Covers(U \cup {y}) /\ U \cup {y} \in SUBSET Derived
    BY <2>1, <2>4 DEF Covers
  <2> QED BY <1>1, <2>5 DEF Pending
<1>2. Pending \subseteq Derived
  BY DEF Pending
<1> QED BY <1>1, <1>2 DEF Pending
-----------------------------------------------------------------------------
(* The calls in progress, as a set. *)

Ongoing(s) == {s[k] : k \in 1 .. Len(s)}
Below(s) == {s[k] : k \in 1 .. (Len(s) - 1)}

LEMMA CallsNow ==
  /\ Roots = {x \in Derived : \E f \in Ongoing(Mine) : WillMark(f, x)}
  /\ Pulling = {x \in Derived : \E f \in Ongoing(Mine) : Pulls(f, x)}
  /\ Settling = {x \in Derived :
                   \E f \in Ongoing(Mine) : Settles(f) /\ f.cell = x}
  /\ Gathered <=> \A f \in Ongoing(Mine) : Prepared(f)
BY DEF Ongoing, Roots, Pulling, Settling, Gathered

LEMMA Exchange ==
  ASSUME NEW S, NEW s \in Seq(S), s # <<>>, NEW f \in S
  PROVE  /\ [s EXCEPT ![Len(s)] = f] \in Seq(S)
         /\ Len([s EXCEPT ![Len(s)] = f]) = Len(s)
         /\ [s EXCEPT ![Len(s)] = f] # <<>>
         /\ [s EXCEPT ![Len(s)] = f][Len(s)] = f
         /\ \A k \in 1 .. (Len(s) - 1) : [s EXCEPT ![Len(s)] = f][k] = s[k]
<1>1. Len(s) \in 1 .. Len(s) /\ Len(s) # 0
  BY Last
<1>2. /\ [s EXCEPT ![Len(s)] = f] \in Seq(S)
      /\ Len([s EXCEPT ![Len(s)] = f]) = Len(s)
      /\ [s EXCEPT ![Len(s)] = f][Len(s)] = f
      /\ \A k \in 1 .. (Len(s) - 1) : [s EXCEPT ![Len(s)] = f][k] = s[k]
  BY <1>1, ExceptSeq
<1>3. [s EXCEPT ![Len(s)] = f] # <<>>
  <2>1. Len([s EXCEPT ![Len(s)] = f]) # 0
    BY <1>1, <1>2
  <2> QED BY <2>1, EmptySeq
<1> QED BY <1>2, <1>3

LEMMA CallsEmpty == Ongoing(<<>>) = {}
BY EmptySeq DEF Ongoing

LEMMA CallsAll ==
  ASSUME NEW s \in Seq(FrameSet), s # <<>>
  PROVE  Ongoing(s) = Below(s) \cup {s[Len(s)]}
<1>1. Len(s) \in 1 .. Len(s)
      /\ \A k \in 1 .. Len(s) : k = Len(s) \/ k \in 1 .. (Len(s) - 1)
  BY Last
<1>2. \A k \in 1 .. (Len(s) - 1) : k \in 1 .. Len(s)
  BY LenProperties
<1> QED BY <1>1, <1>2 DEF Ongoing, Below

LEMMA CallsPop ==
  ASSUME NEW s \in Seq(FrameSet), s # <<>>
  PROVE  Ongoing(SubSeq(s, 1, Len(s) - 1)) = Below(s)
BY Shrink DEF Ongoing, Below

LEMMA CallsTop ==
  ASSUME NEW s \in Seq(FrameSet), s # <<>>, NEW f \in FrameSet
  PROVE  Ongoing([s EXCEPT ![Len(s)] = f]) = Below(s) \cup {f}
<1> DEFINE r == [s EXCEPT ![Len(s)] = f]
<1>1. /\ r \in Seq(FrameSet) /\ Len(r) = Len(s) /\ r # <<>> /\ r[Len(s)] = f
      /\ \A k \in 1 .. (Len(s) - 1) : r[k] = s[k]
  BY Exchange
<1> HIDE DEF r
<1>2. Ongoing(r) = Below(r) \cup {f}
  BY <1>1, CallsAll
<1>3. Below(r) = Below(s)
  BY <1>1 DEF Below
<1> QED BY <1>2, <1>3 DEF r

LEMMA CallsPush ==
  ASSUME NEW s \in Seq(FrameSet), NEW e \in FrameSet
  PROVE  Ongoing(Append(s, e)) = Ongoing(s) \cup {e}
<1> DEFINE r == Append(s, e)
<1>1. /\ r \in Seq(FrameSet) /\ Len(s) \in Nat /\ Len(r) = Len(s) + 1
      /\ \A k \in 1 .. Len(s) : r[k] = s[k]
      /\ r[Len(s) + 1] = e
  BY Push
<1> HIDE DEF r
<1>2. 1 .. Len(r) = (1 .. Len(s)) \cup {Len(s) + 1}
  BY <1>1
<1> QED BY <1>1, <1>2 DEF Ongoing, r
-----------------------------------------------------------------------------
(* The order of the calls. *)

Shaped(rank, s) ==
  Falls(rank, s) /\ Suffix(s) /\ Unmarked(s) /\ Starts(s) /\ Single(s)

LEMMA ShapedPop ==
  ASSUME NEW rank, NEW s \in Seq(FrameSet), s # <<>>, Shaped(rank, s)
  PROVE  Shaped(rank, SubSeq(s, 1, Len(s) - 1))
<1> DEFINE r == SubSeq(s, 1, Len(s) - 1)
<1>1. /\ Len(s) \in Nat \ {0} /\ Len(r) = Len(s) - 1
      /\ \A k \in 1 .. (Len(s) - 1) : r[k] = s[k]
  BY Shrink, Last
<1> HIDE DEF r
<1>2. \A k \in 1 .. Len(r) : k \in 1 .. Len(s) /\ r[k] = s[k]
  BY <1>1
<1>3. Single(r)
  <2> SUFFICES ASSUME NEW k \in 1 .. Len(r), Settles(r[k]) PROVE Len(r) = 1
    BY DEF Single
  <2>1. Len(s) = 1
    BY <1>2 DEF Shaped, Single
  <2> QED BY <1>1, <2>1
<1>4. Falls(rank, r) /\ Suffix(r) /\ Unmarked(r) /\ Starts(r)
  BY <1>2 DEF Shaped, Falls, Suffix, Unmarked, Starts
<1> QED BY <1>3, <1>4 DEF Shaped, r

(* The call on top goes on: it ceases to be an evaluation or to settle, or *)
(* stays what it is.                                                       *)
LEMMA ShapedTop ==
  ASSUME NEW rank, NEW s \in Seq(FrameSet), s # <<>>, Shaped(rank, s),
         NEW f \in FrameSet, f.cell = s[Len(s)].cell, Poised(f),
         Evals(f) => f.at = s[Len(s)].at, Settles(f) => Settles(s[Len(s)]),
         Evals(f) \/ \A k \in 1 .. (Len(s) - 1) : ~Evals(s[k])
  PROVE  Shaped(rank, [s EXCEPT ![Len(s)] = f])
<1> DEFINE r == [s EXCEPT ![Len(s)] = f]
           n == Len(s)
<1>1. /\ Len(r) = n /\ r[n] = f
      /\ \A k \in 1 .. (n - 1) : r[k] = s[k]
  BY Exchange
<1>2. /\ n \in Nat /\ n \in 1 .. n
      /\ \A k \in 1 .. n : k = n \/ k \in 1 .. (n - 1)
      /\ s[n].cell = f.cell /\ (Evals(f) => f.at = s[n].at)
      /\ (Settles(f) => Settles(s[n]))
  BY Last
<1>3. Evals(f) \/ \A k \in 1 .. (n - 1) : ~Evals(s[k])
  OBVIOUS
<1> HIDE DEF r, n
<1>4. \A k \in 1 .. n : /\ r[k].cell = s[k].cell
                        /\ Evals(r[k]) => r[k].at = s[k].at /\ Evals(s[k])
                        /\ Settles(r[k]) => Settles(s[k])
  BY <1>1, <1>2 DEF Evals
<1>5. /\ Falls(rank, s) /\ Suffix(s) /\ Unmarked(s) /\ Starts(s) /\ Single(s)
      /\ Len(s) = n
  BY DEF Shaped, n
<1>6. Falls(rank, r)
  BY <1>1, <1>4, <1>5 DEF Falls
<1>7. Suffix(r)
  <2> SUFFICES ASSUME NEW k \in 1 .. n, NEW l \in 1 .. n, k < l, Evals(r[k])
               PROVE  r[l].at = "pull" /\ r[l].cell \in Computeds
    BY <1>1 DEF Suffix
  <2>1. Evals(s[k]) /\ s[l].at = "pull" /\ s[l].cell \in Computeds
    BY <1>4, <1>5 DEF Suffix
  <2>2. k \in 1 .. (n - 1)
    BY <1>2
  <2>3. Evals(f)
    BY <1>3, <2>1, <2>2
  <2>4. r[l].at = "pull"
    BY <1>1, <1>2, <2>1, <2>3
  <2> QED BY <1>4, <2>1, <2>4
<1>8. Unmarked(r)
  <2> SUFFICES ASSUME NEW k \in 1 .. n, NEW l \in 1 .. n, k < l, r[l].at = "first"
               PROVE  r[k].at # "mark"
    BY <1>1 DEF Unmarked
  <2>1. s[l].at = "first" /\ r[k] = s[k]
    BY <1>1, <1>2, <1>4 DEF Evals
  <2> QED BY <1>5, <2>1 DEF Unmarked
<1>9. Starts(r)
  BY <1>1, <1>2, <1>5 DEF Starts
<1>10. Single(r)
  BY <1>1, <1>4, <1>5 DEF Single
<1> QED BY <1>6, <1>7, <1>8, <1>9, <1>10 DEF Shaped, r

(* A call is made. *)
LEMMA ShapedPush ==
  ASSUME NEW rank, NEW s \in Seq(FrameSet), Shaped(rank, s),
         NEW e \in FrameSet, Poised(e),
         \A f \in Ongoing(s) :
           /\ Evals(f) => /\ e.at = "pull" /\ e.cell \in Computeds
                          /\ rank[e.cell] < rank[f.cell]
           /\ e.at = "first" => f.at # "mark"
           /\ ~Settles(f),
         Settles(e) => s = <<>>
  PROVE  Shaped(rank, Append(s, e))
<1> DEFINE r == Append(s, e)
           n == Len(s)
<1>1. /\ n \in Nat /\ Len(r) = n + 1
      /\ \A k \in 1 .. n : r[k] = s[k]
      /\ r[n + 1] = e
  BY Push
<1>2. \A k \in 1 .. n : s[k] \in Ongoing(s)
  BY DEF Ongoing
<1>3. /\ Falls(rank, s) /\ Suffix(s) /\ Unmarked(s) /\ Starts(s) /\ Single(s)
      /\ Len(s) = n /\ (Settles(e) => n = 0)
  BY EmptySeq DEF Shaped
<1> HIDE DEF r, n
<1>4. \A k \in 1 .. Len(r) : k = n + 1 \/ k \in 1 .. n
  BY <1>1
<1>5. Falls(rank, r)
  <2> SUFFICES ASSUME NEW k \in 1 .. Len(r), NEW l \in 1 .. Len(r), k < l,
                      Evals(r[k]), Evals(r[l])
               PROVE  rank[r[l].cell] < rank[r[k].cell]
    BY DEF Falls
  <2>1. k \in 1 .. n
    BY <1>1, <1>4
  <2>2. CASE l \in 1 .. n
    BY <1>1, <1>3, <2>1, <2>2 DEF Falls
  <2>3. CASE l = n + 1
    BY <1>1, <1>2, <2>1, <2>3
  <2> QED BY <1>4, <2>2, <2>3
<1>6. Suffix(r)
  <2> SUFFICES ASSUME NEW k \in 1 .. Len(r), NEW l \in 1 .. Len(r), k < l,
                      Evals(r[k])
               PROVE  r[l].at = "pull" /\ r[l].cell \in Computeds
    BY DEF Suffix
  <2>1. k \in 1 .. n
    BY <1>1, <1>4
  <2>2. CASE l \in 1 .. n
    BY <1>1, <1>3, <2>1, <2>2 DEF Suffix
  <2>3. CASE l = n + 1
    BY <1>1, <1>2, <2>1, <2>3
  <2> QED BY <1>4, <2>2, <2>3
<1>7. Unmarked(r)
  <2> SUFFICES ASSUME NEW k \in 1 .. Len(r), NEW l \in 1 .. Len(r), k < l,
                      r[l].at = "first"
               PROVE  r[k].at # "mark"
    BY DEF Unmarked
  <2>1. k \in 1 .. n
    BY <1>1, <1>4
  <2>2. CASE l \in 1 .. n
    BY <1>1, <1>3, <2>1, <2>2 DEF Unmarked
  <2>3. CASE l = n + 1
    BY <1>1, <1>2, <2>1, <2>3
  <2> QED BY <1>4, <2>2, <2>3
<1>8. Starts(r)
  BY <1>1, <1>3, <1>4 DEF Starts
<1>9. Single(r)
  <2> SUFFICES ASSUME NEW k \in 1 .. Len(r), Settles(r[k]) PROVE Len(r) = 1
    BY DEF Single
  <2>1. CASE k \in 1 .. n
    BY <1>1, <1>2, <2>1
  <2>2. CASE k = n + 1
    BY <1>1, <1>3, <2>2
  <2> QED BY <1>4, <2>1, <2>2
<1> QED BY <1>5, <1>6, <1>7, <1>8, <1>9 DEF Shaped, r
-----------------------------------------------------------------------------
(* How the calls in progress change in a step that leaves the graph alone. *)

Resting == Mine = <<>>
Swapped(f) == [Mine EXCEPT ![Len(Mine)] = f]
Less == SubSeq(Mine, 1, Len(Mine) - 1)

(* What the actions say of the stack, in terms of the calls.               *)
LEMMA MineNext ==
  ASSUME IInv
  PROVE  /\ Idle(Me) <=> Resting
         /\ \A f : stack' = Moved(Me, f) => Mine' = Swapped(f)
         /\ \A f : stack' = Pushed(Me, f) => Mine' = Append(Mine, f)
         /\ stack' = Popped(Me) => Mine' = Less
         /\ \A f, e :
              stack' = [stack EXCEPT ![Me] = Append(Moved(Me, f)[Me], e)] =>
                Mine' = Append(Swapped(f), e)
         /\ stack' = stack => Mine' = Mine
<1>1. Me \in Goroutines /\ TInv
  BY DEF IInv, Sole
<1>2. /\ stack \in [Goroutines -> Seq(FrameSet)]
      /\ Mine' = stack'[Me] /\ Mine = stack[Me]
  BY <1>1, StackSeq, SoleStays DEF Mine
<1>3. \A f, e :
        stack' = [stack EXCEPT ![Me] = Append(Moved(Me, f)[Me], e)] =>
          Mine' = Append(Swapped(f), e)
  BY <1>1, <1>2 DEF Moved, Swapped
<1> QED BY <1>1, <1>2, <1>3, StackSeq DEF Resting, Swapped, Less

LEMMA ShapeNow ==
  ASSUME InShape
  PROVE  \E rank \in [Cells -> Nat], n \in Nat :
           RankedGraph(rank, n) /\ Shaped(rank, Mine)
BY DEF InShape, Ordered, Shaped

LEMMA ShapeNext ==
  ASSUME deps' = deps, NEW rank \in [Cells -> Nat], NEW n \in Nat,
         RankedGraph(rank, n), Shaped(rank, Mine')
  PROVE  InShape'
<1>1. RankedGraph(rank, n)'
  BY DEF RankedGraph
<1>2. /\ Falls(rank, Mine') /\ Suffix(Mine') /\ Unmarked(Mine')
      /\ Starts(Mine') /\ Single(Mine')
  BY DEF Shaped
<1>3. Falls(rank, Mine)'
  BY <1>2 DEF Falls, Evals
<1>4. Ordered'
  BY <1>1, <1>3 DEF Ordered
<1> QED BY <1>2, <1>4 DEF InShape, Suffix, Unmarked, Starts, Single, Evals,
             Settles, Poised

LEMMA StackNow ==
  ASSUME IInv
  PROVE  /\ Mine \in Seq(FrameSet)
         /\ Resting => Ongoing(Mine) = {}
         /\ ~Resting => /\ Mine # <<>> /\ Len(Mine) \in Nat \ {0}
                        /\ Ongoing(Mine) = Below(Mine) \cup {Tip}
                        /\ Tip = Mine[Len(Mine)] /\ Tip \in FrameSet
                        /\ Formed(Tip, made, deps)
         /\ \A f \in Ongoing(Mine) : f \in FrameSet /\ Formed(f, made, deps)
<1>1. /\ Mine \in Seq(FrameSet) /\ Tip = Mine[Len(Mine)]
      /\ \A k \in 1 .. Len(Mine) : Formed(Mine[k], made, deps)
  BY DEF IInv, Sole, TInv, SInv, StackType, StackFormed, Mine, Tip, Top
<1>2. \A f \in Ongoing(Mine) : f \in FrameSet /\ Formed(f, made, deps)
  BY <1>1, ElementOfSeq DEF Ongoing
<1>3. ~Resting => /\ Mine # <<>> /\ Len(Mine) \in Nat \ {0}
                 /\ Ongoing(Mine) = Below(Mine) \cup {Tip}
                 /\ Tip \in FrameSet
  BY <1>1, CallsAll, Last DEF Resting
<1> QED BY <1>1, <1>2, <1>3, CallsEmpty DEF Resting

(* What the call on top is where the step of an action begins. *)
LEMMA IsTip ==
  ASSUME IInv, NEW at, Is(Me, at)
  PROVE  ~Resting /\ Tip.at = at
BY MineNext DEF Is, Tip

(* Above an evaluation there are only evaluations of computeds.  A call    *)
(* that settles is alone.                                                  *)
LEMMA NoPull ==
  ASSUME IInv, InShape, ~Resting
  PROVE  /\ Tip.at # "pull" => \A f \in Below(Mine) : ~Evals(f)
         /\ Tip.cell \notin Computeds => \A f \in Below(Mine) : ~Evals(f)
         /\ \A f \in Below(Mine) : ~Settles(f)
         /\ Settles(Tip) => Below(Mine) = {} /\ Len(Mine) = 1
<1>1. /\ Len(Mine) \in Nat \ {0} /\ Ongoing(Mine) = Below(Mine) \cup {Tip}
      /\ Tip = Mine[Len(Mine)] /\ Suffix(Mine) /\ Single(Mine)
  BY StackNow DEF InShape
<1>2. ASSUME NEW f \in Below(Mine)
      PROVE  /\ Evals(f) => Tip.at = "pull" /\ Tip.cell \in Computeds
             /\ ~Settles(f) /\ Len(Mine) # 1
  <2>1. PICK k \in 1 .. (Len(Mine) - 1) : f = Mine[k]
    BY DEF Below
  <2>2. /\ k \in 1 .. Len(Mine) /\ Len(Mine) \in 1 .. Len(Mine)
        /\ k < Len(Mine) /\ Len(Mine) # 1
    BY <1>1
  <2> QED BY <1>1, <1>2, <2>1, <2>2 DEF Suffix, Single
<1>3. Settles(Tip) => Len(Mine) = 1
  BY <1>1 DEF Single
<1> QED BY <1>1, <1>2, <1>3

LEMMA PopOn ==
  ASSUME IInv, InShape, ~Resting, deps' = deps, Mine' = Less
  PROVE  InShape' /\ Ongoing(Mine') = Below(Mine)
<1>1. Mine \in Seq(FrameSet) /\ Mine # <<>>
  BY StackNow
<1>2. PICK rank \in [Cells -> Nat], n \in Nat :
        RankedGraph(rank, n) /\ Shaped(rank, Mine)
  BY ShapeNow
<1>3. Shaped(rank, Mine')
  BY <1>1, <1>2, ShapedPop DEF Less
<1>4. Ongoing(Mine') = Below(Mine)
  BY <1>1, CallsPop DEF Less
<1> QED BY <1>2, <1>3, <1>4, ShapeNext

LEMMA TopOn ==
  ASSUME IInv, InShape, ~Resting, deps' = deps,
         NEW f \in FrameSet, Mine' = Swapped(f),
         f.cell = Tip.cell, Poised(f),
         Evals(f) => f.at = Tip.at, Settles(f) => Settles(Tip),
         Evals(f) \/ \A h \in Below(Mine) : ~Evals(h)
  PROVE  InShape' /\ Ongoing(Mine') = Below(Mine) \cup {f}
<1>1. Mine \in Seq(FrameSet) /\ Mine # <<>> /\ Tip = Mine[Len(Mine)]
  BY StackNow
<1>2. PICK rank \in [Cells -> Nat], n \in Nat :
        RankedGraph(rank, n) /\ Shaped(rank, Mine)
  BY ShapeNow
<1>3. Evals(f) \/ \A k \in 1 .. (Len(Mine) - 1) : ~Evals(Mine[k])
  BY DEF Below
<1>4. Shaped(rank, Mine')
  BY <1>1, <1>2, <1>3, ShapedTop DEF Swapped
<1>5. Ongoing(Mine') = Below(Mine) \cup {f}
  BY <1>1, CallsTop DEF Swapped
<1> QED BY <1>2, <1>4, <1>5, ShapeNext

LEMMA PushOn ==
  ASSUME IInv, InShape, deps' = deps,
         NEW e \in FrameSet, Mine' = Append(Mine, e), Poised(e),
         \/ e.at # "first" /\ \A f \in Ongoing(Mine) : ~Evals(f)
         \/ /\ ~Resting /\ Evals(Tip) /\ e.at = "pull" /\ e.cell \in Computeds
            /\ Tip.cell \in Derived
            /\ \E j \in 1 .. Len(deps[Tip.cell]) : e.cell = deps[Tip.cell][j],
         Resting \/ ~Settles(Tip), Settles(e) => Resting
  PROVE  InShape' /\ Ongoing(Mine') = Ongoing(Mine) \cup {e}
<1>1. Mine \in Seq(FrameSet)
  BY StackNow
<1>2. PICK rank \in [Cells -> Nat], n \in Nat :
        RankedGraph(rank, n) /\ Shaped(rank, Mine)
  BY ShapeNow
<1>3. ASSUME NEW f \in Ongoing(Mine), Evals(f)
      PROVE  /\ e.at = "pull" /\ e.cell \in Computeds
             /\ rank[e.cell] < rank[f.cell]
  <2>1. /\ ~Resting /\ Evals(Tip) /\ e.at = "pull" /\ e.cell \in Computeds
        /\ Tip.cell \in Derived
        /\ \E j \in 1 .. Len(deps[Tip.cell]) : e.cell = deps[Tip.cell][j]
    BY <1>3
  <2>2. rank[e.cell] < rank[Tip.cell]
    BY <1>2, <2>1 DEF RankedGraph
  <2>3. CASE f = Tip
    BY <2>1, <2>2, <2>3
  <2>4. CASE f \in Below(Mine)
    <3>1. PICK k \in 1 .. (Len(Mine) - 1) : f = Mine[k]
      BY <2>4 DEF Below
    <3>2. Len(Mine) \in Nat \ {0} /\ Tip = Mine[Len(Mine)]
      BY <2>1, StackNow
    <3>3. k \in 1 .. Len(Mine) /\ Len(Mine) \in 1 .. Len(Mine) /\ k < Len(Mine)
      BY <3>2
    <3>4. rank[Tip.cell] < rank[f.cell]
      BY <1>2, <1>3, <2>1, <3>1, <3>2, <3>3 DEF Shaped, Falls
    <3>5. e.cell \in Cells /\ Tip.cell \in Cells /\ f.cell \in Cells
      BY <1>3, <2>1, StackNow DEF FrameSet
    <3>6. rank[e.cell] \in Nat /\ rank[Tip.cell] \in Nat /\ rank[f.cell] \in Nat
      BY <3>5
    <3> QED BY <2>1, <2>2, <3>4, <3>6
  <2> QED BY <2>1, <2>3, <2>4, StackNow
<1>4. ASSUME NEW f \in Ongoing(Mine) PROVE ~Settles(f)
  <2>1. ~Resting
    BY StackNow
  <2> QED BY <2>1, NoPull, StackNow
<1>5. (Settles(e) => Mine = <<>>) /\ e.at # "first"
  BY DEF Resting
<1>6. Shaped(rank, Mine')
  BY <1>1, <1>2, <1>3, <1>4, <1>5, ShapedPush
<1>7. Ongoing(Mine') = Ongoing(Mine) \cup {e}
  BY <1>1, CallsPush
<1> QED BY <1>2, <1>6, <1>7, ShapeNext

LEMMA TopPushOn ==
  ASSUME IInv, InShape, ~Resting, deps' = deps,
         NEW f \in FrameSet, NEW e \in FrameSet, Mine' = Append(Swapped(f), e),
         f.cell = Tip.cell, ~Evals(f), Poised(f), Poised(e),
         Tip.at # "pull", ~Settles(f), ~Settles(e),
         e.at = "first" => f.at # "mark" /\ Len(Mine) = 1
  PROVE  InShape' /\ Ongoing(Mine') = Below(Mine) \cup {f, e}
<1>1. Mine \in Seq(FrameSet) /\ Mine # <<>> /\ Tip = Mine[Len(Mine)]
      /\ Ongoing(Mine) = Below(Mine) \cup {Tip}
      /\ Len(Mine) \in Nat \ {0}
  BY StackNow
<1>2. PICK rank \in [Cells -> Nat], n \in Nat :
        RankedGraph(rank, n) /\ Shaped(rank, Mine)
  BY ShapeNow
<1>3. \A h \in Below(Mine) : ~Evals(h) /\ ~Settles(h)
  BY <1>1, NoPull
<1>4. \A k \in 1 .. (Len(Mine) - 1) : ~Evals(Mine[k])
  BY <1>3 DEF Below
<1> DEFINE r == Swapped(f)
<1>5. /\ r \in Seq(FrameSet) /\ Ongoing(r) = Below(Mine) \cup {f}
      /\ Mine' = Append(r, e)
  BY <1>1, Exchange, CallsTop DEF Swapped
<1>6. Shaped(rank, r)
  BY <1>1, <1>2, <1>4, ShapedTop DEF Swapped
<1> HIDE DEF r
<1>7. Len(Mine) = 1 => Below(Mine) = {}
  BY DEF Below
<1>8. \A h \in Ongoing(r) : ~Evals(h) /\ ~Settles(h)
                           /\ (e.at = "first" => h.at # "mark")
  BY <1>3, <1>5, <1>7
<1>9. Shaped(rank, Mine')
  BY <1>5, <1>6, <1>8, ShapedPush
<1>10. Ongoing(Mine') = Below(Mine) \cup {f, e}
  BY <1>5, CallsPush
<1> QED BY <1>2, <1>9, <1>10, ShapeNext
-----------------------------------------------------------------------------
(* What the invariant says of the values. *)

LEMMA Parts ==
  ASSUME UInv
  PROVE  /\ Linked /\ InShape /\ Gathered /\ Ordered
         /\ Suffix(Mine) /\ Unmarked(Mine) /\ Starts(Mine) /\ Single(Mine)
         /\ Blank /\ Positive /\ SumsTell /\ Fresh /\ Told
BY DEF UInv, CallsSet, DataFit, InShape

LEMMA CurrentValue ==
  ASSUME IInv, UInv
  PROVE  \A c \in made \cap Nodes :
           c \in Pending \/ ~Ready(c) \/ val[c] = Meaning[c]
<1> DEFINE Fine(c) == c \in Pending \/ ~Ready(c) \/ val[c] = Meaning[c]
           T == {c \in made : c \in Nodes => Fine(c)}
<1>1. Ordered /\ Blank /\ Fresh /\ MeaningSolves
  BY Parts, MeaningUnfolds
<1>2. \A s \in made \cap Signals : s \in T
  BY <1>1 DEF MeaningSolves, Nodes
<1>3. ASSUME NEW c \in made \cap Derived,
             \A j \in 1 .. Len(deps[c]) : deps[c][j] \in T
      PROVE  c \in T
  <2> SUFFICES ASSUME c \in Nodes, c \notin Pending, Ready(c)
               PROVE  val[c] = Meaning[c]
    OBVIOUS
  <2>1. c \in Computeds /\ c \notin Signals /\ c \in made \cap Computeds
    BY Kinds DEF Nodes, Derived
  <2>2. ~isDirty[c] /\ c \notin Pulling
    BY <2>1 DEF Ready, Stale
  <2>3. Agrees(c) /\ \A j \in 1 .. Len(deps[c]) : Ready(deps[c][j])
    BY <1>1, <2>1, <2>2 DEF Fresh, FreshAt
  <2>4. /\ DOMAIN deps[c] = 1 .. Len(deps[c])
        /\ \A j \in 1 .. Len(deps[c]) : deps[c][j] \in made \cap Nodes
    BY GraphFacts
  <2>5. ASSUME NEW j \in 1 .. Len(deps[c])
        PROVE  val[deps[c][j]] = Meaning[deps[c][j]]
    <3>1. deps[c][j] \notin Pending
      BY <2>1, PendingUp DEF Watching
    <3> QED BY <1>3, <2>3, <2>4, <3>1
  <2>6. Vals(deps[c]) = DepMeanings(c)
    BY <2>4, <2>5 DEF Vals, DepMeanings
  <2>7. Meaning[c] = Apply(fn[c], DepMeanings(c))
    BY <1>1, <2>1 DEF MeaningSolves, Nodes
  <2> QED BY <2>1, <2>3, <2>6, <2>7 DEF Agrees
<1>4. made \subseteq T
  <2> HIDE DEF T
  <2> QED BY <1>1, <1>2, <1>3, Downward
<1> QED BY <1>4

(* What a cell is evaluated with is what its dependencies mean.            *)
LEMMA CurrentArgs ==
  ASSUME IInv, UInv, NEW c \in Watching, c \notin Pending,
         \A j \in 1 .. Len(deps[c]) : Ready(deps[c][j])
  PROVE  Vals(deps[c]) = DepMeanings(c)
<1>1. /\ c \in made \cap Derived /\ DOMAIN deps[c] = 1 .. Len(deps[c])
      /\ \A j \in 1 .. Len(deps[c]) : deps[c][j] \in made \cap Nodes
  BY GraphFacts
<1>2. ASSUME NEW j \in 1 .. Len(deps[c])
      PROVE  val[deps[c][j]] = Meaning[deps[c][j]]
  <2>1. deps[c][j] \notin Pending
    BY PendingUp
  <2> QED BY <1>1, <2>1, CurrentValue
<1> QED BY <1>1, <1>2 DEF Vals, DepMeanings

(* Outside of the calls nothing is pending.                                *)
LEMMA Rests ==
  ASSUME IInv, UInv
  PROVE  EffectsSeen /\ CleanFresh
<1> SUFFICES ASSUME Quiet
             PROVE  /\ \A e \in active \cap held : seen[e] = DepMeanings(e)
                    /\ \A c \in held \cap Computeds :
                         isDirty[c] \/ val[c] = Meaning[c]
  BY DEF EffectsSeen, CleanFresh
<1>1. Ongoing(Mine) = {}
  <2>1. Idle(Me)
    BY DEF Quiet, IInv, Sole
  <2> QED BY <2>1, MineNext, StackNow
<1>2. Roots = {} /\ Pulling = {}
  BY <1>1, CallsNow
<1>3. Pending = {}
  BY <1>2, PendingNone
<1>4. ASSUME NEW c \in held \cap Computeds
      PROVE  isDirty[c] \/ val[c] = Meaning[c]
  <2>1. c \in made \cap Nodes
    BY DEF Nodes, IInv, TInv, GraphType
  <2>2. isDirty[c] \/ Ready(c)
    BY <1>2 DEF Ready, Stale
  <2> QED BY <1>3, <2>1, <2>2, CurrentValue
<1>5. Told
  BY Parts
<1> QED BY <1>2, <1>3, <1>4, <1>5 DEF Told, ToldAt
-----------------------------------------------------------------------------
(* Steps that leave the graph alone. *)

LEMMA GraphOn ==
  ASSUME UInv, UNCHANGED <<made, deps, fn, subs>>, active' = active,
         Settling \subseteq Settling'
  PROVE  /\ Linked' /\ Watching' = Watching
         /\ \A U \in SUBSET Derived : Spreads(U)' <=> Spreads(U)
<1>1. Watching' = Watching
  BY DEF Watching
<1>2. Linked'
  BY <1>1, Parts DEF Linked
<1>3. \A U \in SUBSET Derived : Spreads(U)' <=> Spreads(U)
  BY <1>1 DEF Spreads
<1> QED BY <1>1, <1>2, <1>3

LEMMA RootsNext ==
  ASSUME subs' = subs
  PROVE  Roots' = {x \in Derived : \E f \in Ongoing(Mine') : WillMark(f, x)}
<1>1. \A g, x : WillMark(g, x)' <=> WillMark(g, x)
  BY DEF WillMark
<1> QED BY <1>1 DEF Roots, Ongoing, WillMark

(* A mark that is still to come stays so, but for the one of y.            *)
LEMMA RootsStay ==
  ASSUME subs' = subs, NEW Y,
         \A f \in Ongoing(Mine) : \A x \in Derived :
           WillMark(f, x) => \/ x \in Y
                             \/ \E g \in Ongoing(Mine') : WillMark(g, x)
  PROVE  Roots \subseteq Roots' \cup Y
BY RootsNext, CallsNow

LEMMA PullingNow ==
  /\ Pulling' = {x \in Derived : \E f \in Ongoing(Mine') : Pulls(f, x)}
  /\ Settling' = {x \in Derived :
                    \E f \in Ongoing(Mine') : Settles(f) /\ f.cell = x}
BY DEF Pulling, Settling, Ongoing, Pulls, Evals, Settles

LEMMA GatheredNext ==
  ASSUME \A f \in Ongoing(Mine') :
           (Evals(f) => Collects(f)') /\ (Early(f) => vsum'[f.cell] = 0)
  PROVE  Gathered'
<1> SUFFICES ASSUME NEW k \in 1 .. Len(Mine')
             PROVE  Prepared(Mine[k])'
  BY DEF Gathered
<1>1. PICK f : f = Mine'[k]
  OBVIOUS
<1>2. f \in Ongoing(Mine')
  BY <1>1 DEF Ongoing
<1>3. Early(f) => vsum'[f.cell] = 0
  BY <1>2
<1>4. Evals(f) => /\ f.sum = Sums(deps'[f.cell], ver')[f.arg - 1]
                  /\ \A j \in 1 .. (f.arg - 1) :
                       /\ Ready(deps[f.cell][j])'
                       /\ f.args[j] = val'[deps'[f.cell][j]]
  BY <1>2 DEF Collects
<1>5. \A j : Ready(deps[Mine[k].cell][j])' <=> Ready(deps[f.cell][j])'
  BY <1>1 DEF Ready, Stale
<1>6. Evals(f) => Collects(Mine[k])'
  BY <1>1, <1>4, <1>5 DEF Collects
<1> QED BY <1>1, <1>3, <1>6 DEF Prepared, Evals, Early

(* No value, mark or history changes, nor who is evaluated or settles, and *)
(* of the loops only those that have ended do not stay.                    *)
LEMMA Untroubled ==
  ASSUME UInv, UNCHANGED <<made, deps, fn, subs>>,
         UNCHANGED <<val, ver, isDirty, vsum, active, seen>>,
         InShape', Pulling' = Pulling, Settling \subseteq Settling',
         \A f \in Ongoing(Mine') : Prepared(f),
         \A f \in Ongoing(Mine) :
           f.at = "mark" => \/ f \in Ongoing(Mine')
                            \/ \A x \in Derived : ~WillMark(f, x)
  PROVE  UInv'
<1>1. /\ Linked' /\ Watching' = Watching
      /\ \A U \in SUBSET Derived : Spreads(U)' <=> Spreads(U)
  BY GraphOn
<1>2. Roots \subseteq Roots'
  <2>1. \A f \in Ongoing(Mine) : \A x \in Derived :
          WillMark(f, x) => \E g \in Ongoing(Mine') : WillMark(g, x)
    BY DEF WillMark
  <2> QED BY <2>1, RootsStay
<1>3. Pending \subseteq Pending'
  BY <1>1, <1>2, PendingGrows
<1>4. Meaning' = Meaning
  BY DEF Meaning
<1>5. \A ds : Vals(ds)' = Vals(ds)
  BY DEF Vals
<1>6. \A c : DepMeanings(c)' = DepMeanings(c)
  BY <1>4 DEF DepMeanings
<1>7. \A c : /\ Agrees(c)' <=> Agrees(c)
             /\ Ready(c)' <=> Ready(c)
             /\ Total(c)' = Total(c)
  BY <1>5 DEF Agrees, Ready, Stale, Total
<1>8. Blank' /\ Positive' /\ SumsTell'
  BY <1>1, <1>7, Parts DEF Blank, Positive, SumsTell
<1>9. Fresh' /\ Told'
  BY <1>3, <1>6, <1>7, Parts DEF Fresh, FreshAt, Told, ToldAt
<1>10. Gathered'
  <2> SUFFICES ASSUME NEW f \in Ongoing(Mine')
               PROVE  (Evals(f) => Collects(f)') /\ (Early(f) => vsum'[f.cell] = 0)
    BY GatheredNext
  <2> QED BY <1>7 DEF Prepared, Collects
<1> QED BY <1>1, <1>8, <1>9, <1>10 DEF UInv, CallsSet, DataFit

(* A call that does not evaluate, and whose loop has ended, returns.       *)
LEMMA FreshPop ==
  ASSUME IInv, UInv, ~Resting, ~Evals(Tip), ~Settles(Tip),
         Tip.at = "mark" => Tip.arg > Len(subs[Tip.cell]),
         Mine' = Less, UNCHANGED <<made, deps, fn, subs>>,
         UNCHANGED <<val, ver, isDirty, vsum, active, seen>>
  PROVE  UInv'
<1>1. InShape' /\ Ongoing(Mine') = Below(Mine)
  BY Parts, PopOn
<1>2. /\ Ongoing(Mine) = Below(Mine) \cup {Tip} /\ Tip \in FrameSet
      /\ Formed(Tip, made, deps)
  BY StackNow
<1>3. \A x \in Derived : ~WillMark(Tip, x)
  <2> SUFFICES ASSUME Tip.at = "mark" PROVE \A x \in Derived : ~WillMark(Tip, x)
    BY DEF WillMark
  <2>1. Tip.cell \in Nodes /\ Tip.arg \in Nat
    BY <1>2 DEF Formed, Nodes, FrameSet
  <2>2. Len(subs[Tip.cell]) \in Nat
    BY <2>1, GraphFacts
  <2> QED BY <2>1, <2>2 DEF WillMark
<1>4. Pulling' = Pulling /\ Settling' = Settling
  BY <1>1, <1>2, PullingNow, CallsNow DEF Pulls
<1>5. \A f \in Ongoing(Mine') : Prepared(f)
  BY <1>1, <1>2, Parts, CallsNow
<1>6. \A f \in Ongoing(Mine) :
        f.at = "mark" => \/ f \in Ongoing(Mine')
                         \/ \A x \in Derived : ~WillMark(f, x)
  BY <1>1, <1>2, <1>3
<1> QED BY <1>1, <1>4, <1>5, <1>6, Untroubled

(* A call that does not evaluate goes on.                                  *)
LEMMA FreshTop ==
  ASSUME IInv, UInv, ~Resting, ~Evals(Tip), Tip.at # "mark",
         NEW f \in FrameSet, Mine' = Swapped(f), f.cell = Tip.cell, Poised(f),
         ~Evals(f), Settles(f) <=> Settles(Tip), Early(f) => Early(Tip),
         UNCHANGED <<made, deps, fn, subs>>,
         UNCHANGED <<val, ver, isDirty, vsum, active, seen>>
  PROVE  UInv'
<1>1. \A h \in Below(Mine) : ~Evals(h)
  BY Parts, NoPull DEF Evals
<1>2. InShape' /\ Ongoing(Mine') = Below(Mine) \cup {f}
  BY <1>1, Parts, TopOn
<1>3. Ongoing(Mine) = Below(Mine) \cup {Tip}
  BY StackNow
<1>4. Pulling' = Pulling /\ Settling' = Settling
  BY <1>2, <1>3, PullingNow, CallsNow DEF Pulls
<1>5. \A h \in Ongoing(Mine) : Prepared(h)
  BY Parts, CallsNow
<1>6. Prepared(f)
  BY <1>3, <1>5 DEF Prepared
<1>7. \A h \in Ongoing(Mine) :
        h.at = "mark" => \/ h \in Ongoing(Mine')
                         \/ \A x \in Derived : ~WillMark(h, x)
  BY <1>2, <1>3
<1> QED BY <1>2, <1>3, <1>4, <1>5, <1>6, <1>7, Untroubled

(* The body of an operation ends. *)
LEMMA FreshEnd ==
  ASSUME IInv, UInv, Is(Me, "body"), ~Settles(Tip), Goto(Me, "end"),
         UNCHANGED <<made, deps, fn, subs>>,
         UNCHANGED <<val, ver, isDirty, vsum, active, seen>>
  PROVE  UInv'
<1> DEFINE f == [Tip EXCEPT !.at = "end"]
<1>1. ~Resting /\ Tip.at = "body"
  BY IsTip
<1>2. Tip \in FrameSet
  BY <1>1, StackNow
<1>3. /\ f \in FrameSet /\ f.at = "end" /\ f.op = Tip.op /\ f.cell = Tip.cell
      /\ f.arg = Tip.arg
  BY <1>2, GotoType DEF Ats
<1>4. stack' = Moved(Me, f)
  BY DEF Goto, Tip
<1> HIDE DEF f
<1>5. Mine' = Swapped(f)
  BY <1>4, MineNext
<1>6. Poised(f) /\ ~Evals(f) /\ ~Settles(f) /\ ~Early(f) /\ ~Evals(Tip)
  BY <1>1, <1>3 DEF Poised, Evals, Settles, Early
<1> QED BY <1>1, <1>3, <1>5, <1>6, FreshTop

LEMMA ReadBodyFresh ==
  ASSUME IInv, UInv, ReadBody(Me) PROVE UInv'
BY FreshEnd DEF ReadBody, At, Tip, Settles, graphVars, dataVars, histVars

LEMMA WriteSameFresh ==
  ASSUME IInv, UInv, WriteSame(Me) PROVE UInv'
BY FreshEnd DEF WriteSame, At, Tip, Settles, graphVars, dataVars, histVars

LEMMA AcquireFresh ==
  ASSUME IInv, UInv, Acquire(Me) PROVE UInv'
<1> DEFINE f == [Tip EXCEPT !.at = "body", !.locked = TRUE]
<1>1. ~Resting /\ Tip.at = "lock"
  BY IsTip DEF Acquire
<1>2. Tip \in FrameSet /\ Tip = Mine[Len(Mine)] /\ Len(Mine) \in 1 .. Len(Mine)
  BY <1>1, StackNow
<1>3. /\ f \in FrameSet /\ f.at = "body" /\ f.op = Tip.op /\ f.cell = Tip.cell
      /\ f.arg = Tip.arg
  BY <1>2 DEF FrameSet
<1>4. stack' = Moved(Me, f)
  BY DEF Acquire, Tip
<1> HIDE DEF f
<1>5. Mine' = Swapped(f)
  BY <1>4, MineNext
<1>6. Poised(Tip)
  BY <1>2, Parts DEF Starts
<1>7. /\ Poised(f) /\ ~Evals(f) /\ ~Evals(Tip)
      /\ Settles(f) <=> Settles(Tip)
      /\ Early(f) => Early(Tip)
  BY <1>1, <1>3, <1>6 DEF Poised, Evals, Settles, Early
<1> QED BY <1>1, <1>3, <1>5, <1>7, FreshTop
     DEF Acquire, graphVars, dataVars, histVars

LEMMA ReturnFresh ==
  ASSUME IInv, UInv, Return(Me) PROVE UInv'
<1>1. ~Resting /\ Tip.at = "end"
  BY IsTip DEF Return
<1>2. Mine' = Less
  BY MineNext DEF Return
<1> QED BY <1>1, <1>2, FreshPop DEF Return, Evals, Settles, dataVars

LEMMA CallReturnFresh ==
  ASSUME IInv, UInv, CallReturn(Me) PROVE UInv'
<1>1. ~Resting /\ Tip.at = "call"
  BY IsTip DEF CallReturn
<1>2. Mine' = Less
  BY MineNext DEF CallReturn
<1>3. ~Settles(Tip)
  BY <1>1, StackNow DEF Formed, Settles
<1> QED BY <1>1, <1>2, <1>3, FreshPop
     DEF CallReturn, Evals, graphVars, dataVars, histVars

(* The marks of a cell have been made: a write ends, a computed returns.   *)
LEMMA MarkEndFresh ==
  ASSUME IInv, UInv, MarkEnd(Me) PROVE UInv'
<1> DEFINE f == [Tip EXCEPT !.at = "end"]
<1>1. /\ ~Resting /\ Tip.at = "mark" /\ Tip.arg > Len(subs[Tip.cell])
      /\ UNCHANGED <<made, deps, fn, subs>>
      /\ UNCHANGED <<val, ver, isDirty, vsum, active, seen>>
  <2>1. ~Resting /\ Tip.at = "mark" /\ Tip.arg > Len(Tip.over)
    BY IsTip DEF MarkEnd, Tip
  <2>2. Tip.over = subs[Tip.cell]
    BY <2>1, IsTip, TopGood DEF MarkEnd, Good, IInv, Sole, Tip, Is
  <2> QED BY <2>1, <2>2 DEF MarkEnd, graphVars, dataVars, histVars
<1>2. /\ Tip \in FrameSet /\ Formed(Tip, made, deps)
      /\ Ongoing(Mine) = Below(Mine) \cup {Tip}
  BY <1>1, StackNow
<1>3. ~Settles(Tip) /\ ~Evals(Tip)
  BY <1>1, <1>2 DEF Formed, Settles, Evals
<1>4. CASE Tip.op # "SetValue"
  <2>1. Mine' = Less
    BY <1>4, MineNext DEF MarkEnd, Tip
  <2> QED BY <1>1, <1>3, <2>1, FreshPop
<1>5. CASE Tip.op = "SetValue"
  <2>1. /\ f \in FrameSet /\ f.at = "end" /\ f.op = Tip.op /\ f.cell = Tip.cell
        /\ f.arg = Tip.arg
    BY <1>2, GotoType DEF Ats
  <2>2. stack' = Moved(Me, f)
    BY <1>5 DEF MarkEnd, Goto, Tip
  <2> HIDE DEF f
  <2>3. Mine' = Swapped(f)
    BY <2>2, MineNext
  <2>4. Poised(f) /\ ~Evals(f) /\ ~Settles(f) /\ ~Early(f)
    BY <1>1, <2>1 DEF Poised, Evals, Settles, Early
  <2>5. \A h \in Below(Mine) : ~Evals(h)
    BY <1>1, Parts, NoPull
  <2>6. InShape' /\ Ongoing(Mine') = Below(Mine) \cup {f}
    BY <1>1, <2>1, <2>3, <2>4, <2>5, Parts, TopOn
  <2>7. Pulling' = Pulling /\ Settling' = Settling
    BY <1>2, <1>3, <2>4, <2>6, PullingNow, CallsNow DEF Pulls
  <2>8. \A h \in Ongoing(Mine') : Prepared(h)
    BY <1>2, <2>4, <2>6, Parts, CallsNow DEF Prepared
  <2>9. \A x \in Derived : ~WillMark(Tip, x)
    <3>1. Tip.cell \in Nodes /\ Tip.arg \in Nat
      BY <1>1, <1>2 DEF Formed, Nodes, FrameSet
    <3>2. Len(subs[Tip.cell]) \in Nat
      BY <3>1, GraphFacts
    <3> QED BY <1>1, <3>1, <3>2 DEF WillMark
  <2> QED BY <1>1, <1>2, <2>6, <2>7, <2>8, <2>9, Untroubled
<1> QED BY <1>4, <1>5

(* Where the program runs nothing is being evaluated and nothing settles. *)
LEMMA RunningFree ==
  ASSUME IInv, UInv, Idle(Me) \/ Is(Me, "call")
  PROVE  /\ Resting \/ Tip.at = "call"
         /\ \A f \in Ongoing(Mine) : ~Evals(f) /\ ~Settles(f)
<1>1. CASE Idle(Me)
  BY <1>1, MineNext, StackNow
<1>2. CASE ~Idle(Me)
  <2>1. ~Resting /\ Tip.at = "call"
    BY <1>2, IsTip
  <2>2. ~Settles(Tip) /\ ~Evals(Tip)
    BY <2>1, StackNow DEF Formed, Settles, Evals
  <2> QED BY <2>1, <2>2, Parts, NoPull, StackNow
<1> QED BY <1>1, <1>2

(* A call is made that waits. *)
LEMMA FreshPush ==
  ASSUME IInv, UInv, Idle(Me) \/ Is(Me, "call"),
         NEW op \in {"Value", "SetValue", "Stop"}, NEW at \in {"lock", "body"},
         NEW c \in Cells, NEW args \in Seq(Values), op = "Stop" => Idle(Me),
         stack' = Pushed(Me, Frame(op, at, c, args)),
         UNCHANGED <<made, deps, fn, subs>>,
         UNCHANGED <<val, ver, isDirty, vsum, active, seen>>
  PROVE  UInv'
<1> DEFINE e == Frame(op, at, c, args)
<1>1. e \in FrameSet /\ e.op = op /\ e.at = at /\ e.arg = 1
  BY FrameType DEF Ops, Ats, Frame
<1>2. Mine' = Append(Mine, e)
  BY MineNext
<1> HIDE DEF e
<1>3. /\ Resting \/ Tip.at = "call"
      /\ \A f \in Ongoing(Mine) : ~Evals(f) /\ ~Settles(f)
  BY RunningFree
<1>4. /\ Poised(e) /\ ~Evals(e) /\ ~Early(e) /\ e.at # "first"
      /\ Settles(e) => Resting
  BY <1>1, MineNext DEF Poised, Evals, Early, Settles
<1>5. Resting \/ ~Settles(Tip)
  BY <1>3, StackNow
<1>6. InShape' /\ Ongoing(Mine') = Ongoing(Mine) \cup {e}
  BY <1>1, <1>2, <1>3, <1>4, <1>5, Parts, PushOn
<1>7. Pulling' = Pulling /\ Settling \subseteq Settling'
  BY <1>4, <1>6, PullingNow, CallsNow DEF Pulls
<1>8. \A f \in Ongoing(Mine') : Prepared(f)
  BY <1>4, <1>6, Parts, CallsNow DEF Prepared
<1>9. \A f \in Ongoing(Mine) :
        f.at = "mark" => \/ f \in Ongoing(Mine')
                         \/ \A x \in Derived : ~WillMark(f, x)
  BY <1>6
<1> QED BY <1>6, <1>7, <1>8, <1>9, Untroubled

LEMMA CallValueFresh ==
  ASSUME IInv, UInv, NEW s \in Signals, CallValue(Me, s)
  PROVE  UInv'
<1>1. s \in Cells /\ <<>> \in Seq(Values) /\ Gate \in {"lock", "body"}
  BY EmptySeq DEF Cells, Gate
<1>2. Idle(Me) \/ Is(Me, "call")
  BY DEF CallValue, Calls
<1>3. stack' = Pushed(Me, Frame("Value", Gate, s, <<>>))
  BY DEF CallValue, Calls
<1> QED BY <1>1, <1>2, <1>3, FreshPush
     DEF CallValue, graphVars, dataVars, histVars

LEMMA CallSetValueFresh ==
  ASSUME IInv, UInv, NEW s \in Signals, NEW v \in Values, CallSetValue(Me, s, v)
  PROVE  UInv'
<1>1. s \in Cells /\ <<v>> \in Seq(Values) /\ Gate \in {"lock", "body"}
  BY DEF Cells, Gate
<1>2. Idle(Me) \/ Is(Me, "call")
  BY DEF CallSetValue, Calls
<1>3. stack' = Pushed(Me, Frame("SetValue", Gate, s, <<v>>))
  BY DEF CallSetValue, Calls
<1> QED BY <1>1, <1>2, <1>3, FreshPush
     DEF CallSetValue, graphVars, dataVars, histVars

LEMMA CallStopFresh ==
  ASSUME IInv, UInv, NEW e \in Effects, CallStop(Me, e)
  PROVE  UInv'
<1>1. e \in Cells /\ <<>> \in Seq(Values)
  BY EmptySeq DEF Cells, Derived
<1>2. Idle(Me)
  BY DEF CallStop, IInv, Sole
<1>3. stack' = Pushed(Me, Frame("Stop", "lock", e, <<>>))
  BY DEF CallStop, Calls
<1> QED BY <1>1, <1>2, <1>3, FreshPush
     DEF CallStop, graphVars, dataVars, histVars

(* No cell is evaluated twice at a time, nor on top of what depends on it. *)
LEMMA Lower ==
  ASSUME IInv, UInv, ~Resting, Evals(Tip)
  PROVE  /\ Tip.cell \in made \cap Derived
         /\ \A g \in Below(Mine) : Evals(g) => g.cell # Tip.cell
         /\ \A j \in 1 .. Len(deps[Tip.cell]) :
              deps[Tip.cell][j] \notin Pulling /\ deps[Tip.cell][j] # Tip.cell
<1> DEFINE c == Tip.cell
<1>1. /\ Ongoing(Mine) = Below(Mine) \cup {Tip} /\ Len(Mine) \in Nat \ {0}
      /\ Tip = Mine[Len(Mine)]
      /\ \A g \in Ongoing(Mine) : g \in FrameSet /\ Formed(g, made, deps)
  BY StackNow
<1>2. PICK rank \in [Cells -> Nat], m \in Nat :
        RankedGraph(rank, m) /\ Shaped(rank, Mine)
  BY Parts, ShapeNow
<1>3. c \in made \cap Derived /\ c \in Cells /\ rank[c] \in Nat
  BY <1>1 DEF Formed, Cells, Evals
<1>4. ASSUME NEW g \in Below(Mine), Evals(g)
      PROVE  rank[c] < rank[g.cell] /\ rank[g.cell] \in Nat
  <2>1. PICK k \in 1 .. (Len(Mine) - 1) : g = Mine[k]
    BY DEF Below
  <2>2. k \in 1 .. Len(Mine) /\ Len(Mine) \in 1 .. Len(Mine) /\ k < Len(Mine)
    BY <1>1
  <2>3. rank[c] < rank[g.cell]
    BY <1>1, <1>2, <1>4, <2>1, <2>2 DEF Shaped, Falls
  <2> QED BY <1>1, <2>3 DEF FrameSet
<1>5. \A g \in Below(Mine) : Evals(g) => g.cell # c
  <2> SUFFICES ASSUME NEW g \in Below(Mine), Evals(g), g.cell = c
               PROVE  FALSE
    OBVIOUS
  <2>1. rank[c] < rank[c]
    BY <1>4
  <2> QED BY <1>3, <2>1
<1>6. ASSUME NEW j \in 1 .. Len(deps[c])
      PROVE  deps[c][j] \notin Pulling /\ deps[c][j] # c
  <2> DEFINE d == deps[c][j]
  <2>1. d \in Cells /\ rank[d] \in Nat /\ rank[d] < rank[c]
    BY <1>2, <1>3, GraphFacts DEF RankedGraph
  <2>2. d # c
    BY <1>3, <2>1
  <2> HIDE DEF d
  <2>3. ASSUME NEW g \in Ongoing(Mine), Evals(g), g.cell = d
        PROVE  FALSE
    <3>1. g \in Below(Mine)
      BY <1>1, <2>2, <2>3
    <3>2. rank[c] < rank[d]
      BY <1>4, <2>3, <3>1
    <3> QED BY <1>3, <2>1, <3>2
  <2>4. d \notin Pulling
    BY <2>3, CallsNow DEF Pulls
  <2> QED BY <2>2, <2>4 DEF d
<1> QED BY <1>3, <1>5, <1>6

(* The next argument of an evaluation.  Sums that do not wrap are sums.    *)
LEMMA PullArgFresh ==
  ASSUME IInv, UInv, Unwrapped, PullArg(Me)
  PROVE  UInv'
<1> DEFINE c == Tip.cell
           f == [Advanced(Me) EXCEPT !.args = Append(@, val[Dep(Me)]),
                                 !.sum = Plus(@, ver[Dep(Me)])]
           n == Tip.arg
<1>1. /\ ~Resting /\ Evals(Tip) /\ n <= Len(deps[c]) /\ ~Stale(Dep(Me))
      /\ UNCHANGED <<made, deps, fn, subs>>
      /\ UNCHANGED <<val, ver, isDirty, vsum, active, seen>>
      /\ Mine' = Swapped(f)
  <2>1. Is(Me, "pull") \/ Is(Me, "first")
    BY DEF PullArg, Collecting
  <2>2. ~Resting /\ Evals(Tip)
    BY <2>1, IsTip DEF Evals
  <2>3. stack' = Moved(Me, f)
    BY DEF PullArg
  <2>4. Mine' = Swapped(f)
    BY <2>3, MineNext
  <2> QED BY <2>2, <2>4 DEF PullArg, Collecting, Tip, graphVars, dataVars, histVars
<1>2. Tip \in FrameSet /\ Formed(Tip, made, deps)
  BY <1>1, StackNow
<1>3. c \in made \cap Derived /\ Tip.op = "value" /\ Len(Tip.args) = n - 1
  BY <1>1, <1>2 DEF Formed, Evals
<1>4. deps[c] \in Seq(Nodes) /\ Len(deps[c]) \in Nat
  BY <1>3, GraphFacts
<1>5. n \in Nat \ {0} /\ n \in 1 .. Len(deps[c]) /\ Tip.args \in Seq(Values)
      /\ n - 1 \in 0 .. Len(deps[c]) /\ n \in 0 .. Len(deps[c])
  BY <1>1, <1>2, <1>4 DEF FrameSet
<1>6. Dep(Me) = deps[c][n] /\ Dep(Me) \in made \cap Nodes
  BY <1>3, <1>5, GraphFacts DEF Dep, Tip
<1>7. val[Dep(Me)] \in Values /\ ver[Dep(Me)] \in Nat /\ ver \in [Nodes -> Nat]
  BY <1>6, GraphFacts DEF IInv, TInv, DataType
<1>8. Collects(Tip)
  BY <1>1, Parts, StackNow, CallsNow DEF Prepared
<1>9. Plus(Tip.sum, ver[Dep(Me)]) = Sums(deps[c], ver)[n]
  <2> DEFINE S == Sums(deps[c], ver)
  <2>1. S \in [0 .. Len(deps[c]) -> Nat] /\ S[n] = S[n - 1] + ver[deps[c][n]]
    BY <1>4, <1>5, <1>7, SumsUnfold
  <2>2. S[n] <= S[Len(deps[c])]
    BY <1>4, <1>5, <1>7, SumsParts
  <2>3. S[Len(deps[c])] < VersionModulus
    BY <1>3 DEF Unwrapped, Total
  <2>4. Tip.sum = S[n - 1]
    BY <1>8 DEF Collects
  <2> HIDE DEF S
  <2>5. S[n] \in Nat /\ S[Len(deps[c])] \in Nat /\ VersionModulus \in Nat \ {0}
    <3>1. Len(deps[c]) \in 0 .. Len(deps[c])
      BY <1>4
    <3> QED BY <1>5, <2>1, <3>1, BoundsAssumption DEF BoundsAssumption
  <2>6. S[n] < VersionModulus
    BY <2>2, <2>3, <2>5
  <2>7. Tip.sum + ver[Dep(Me)] = S[n]
    BY <1>6, <2>1, <2>4
  <2>8. S[n] % VersionModulus = S[n]
    BY <2>5, <2>6
  <2> QED BY <2>7, <2>8 DEF Plus, S
<1>10. /\ Append(Tip.args, val[Dep(Me)]) \in Seq(Values)
       /\ \A j \in 1 .. (n - 1) : Append(Tip.args, val[Dep(Me)])[j] = Tip.args[j]
       /\ Append(Tip.args, val[Dep(Me)])[n] = val[Dep(Me)]
  <2>1. /\ Append(Tip.args, val[Dep(Me)]) \in Seq(Values)
        /\ \A j \in 1 .. Len(Tip.args) :
             Append(Tip.args, val[Dep(Me)])[j] = Tip.args[j]
        /\ Append(Tip.args, val[Dep(Me)])[Len(Tip.args) + 1] = val[Dep(Me)]
    BY <1>5, <1>7, Push
  <2>2. Len(Tip.args) + 1 = n
    BY <1>3, <1>5
  <2> QED BY <1>3, <2>1, <2>2
<1>11. /\ Advanced(Me) \in FrameSet /\ Advanced(Me).op = Tip.op
       /\ Advanced(Me).at = Tip.at /\ Advanced(Me).cell = Tip.cell
       /\ Advanced(Me).args = Tip.args /\ Advanced(Me).arg = n + 1
       /\ Advanced(Me).sum = Tip.sum
  BY <1>2 DEF Advanced, FrameSet, Tip
<1>12. Plus(Tip.sum, ver[Dep(Me)]) \in 0 .. (VersionModulus - 1)
  <2>1. Tip.sum \in Nat
    BY <1>2 DEF FrameSet
  <2> QED BY <1>7, <2>1, PlusType
<1>13. /\ f \in FrameSet /\ f.op = "value" /\ f.at = Tip.at /\ f.cell = c
       /\ f.args = Append(Tip.args, val[Dep(Me)]) /\ f.arg = n + 1
       /\ f.sum = Sums(deps[c], ver)[n]
  BY <1>1, <1>3, <1>9, <1>10, <1>11, <1>12 DEF FrameSet
<1> HIDE DEF f
<1>14. /\ Evals(f) /\ Poised(f) /\ ~Settles(f) /\ ~Settles(Tip) /\ ~Early(f)
  BY <1>1, <1>3, <1>13 DEF Evals, Poised, Settles, Early
<1>15. InShape' /\ Ongoing(Mine') = Below(Mine) \cup {f}
  BY <1>1, <1>13, <1>14, Parts, TopOn
<1>20. Ongoing(Mine) = Below(Mine) \cup {Tip}
  BY <1>1, StackNow
<1>16. Pulling' = Pulling /\ Settling' = Settling
  BY <1>1, <1>13, <1>14, <1>15, <1>20, PullingNow, CallsNow DEF Pulls
<1>17. Collects(f)
  <2> DEFINE Have(j) == Ready(deps[c][j]) /\ f.args[j] = val[deps[c][j]]
  <2>1. \A j \in 1 .. (n - 1) : Have(j)
    BY <1>8, <1>10, <1>13 DEF Collects
  <2>2. Dep(Me) \notin Pulling
    BY <1>1, <1>5, <1>6, Lower
  <2>3. Have(n)
    BY <1>1, <1>6, <1>10, <1>13, <2>2 DEF Ready
  <2>4. \A j \in 1 .. n : j = n \/ j \in 1 .. (n - 1)
    BY <1>5
  <2>5. \A j \in 1 .. n : Have(j)
    <3> HIDE DEF Have
    <3> QED BY <2>1, <2>3, <2>4
  <2>6. f.arg - 1 = n
    BY <1>5, <1>13
  <2> QED BY <1>13, <2>5, <2>6 DEF Collects
<1>18. \A h \in Ongoing(Mine') : Prepared(h)
  BY <1>14, <1>15, <1>17, <1>20, Parts, CallsNow DEF Prepared
<1>19. \A h \in Ongoing(Mine) :
         h.at = "mark" => \/ h \in Ongoing(Mine')
                          \/ \A x \in Derived : ~WillMark(h, x)
  BY <1>1, <1>15, <1>20 DEF Evals
<1> QED BY <1>1, <1>15, <1>16, <1>18, <1>19, Untroubled

-----------------------------------------------------------------------------
(* Steps that change marks only, and begin evaluations. *)

LEMMA Steady ==
  ASSUME UInv, UNCHANGED <<made, deps, fn, subs>>, UNCHANGED <<val, ver, seen>>
  PROVE  /\ \A ds : Vals(ds)' = Vals(ds)
         /\ \A c : /\ DepMeanings(c)' = DepMeanings(c)
                   /\ Agrees(c)' <=> Agrees(c)
                   /\ Total(c)' = Total(c)
         /\ Positive'
<1>1. Meaning' = Meaning
  BY DEF Meaning
<1>2. \A ds : Vals(ds)' = Vals(ds)
  BY DEF Vals
<1>3. \A c : DepMeanings(c)' = DepMeanings(c)
  BY <1>1 DEF DepMeanings
<1>4. Positive'
  BY Parts DEF Positive
<1> QED BY <1>2, <1>3, <1>4 DEF Agrees, Total

LEMMA MarksOn ==
  ASSUME UInv, UNCHANGED <<made, deps, fn, subs>>,
         UNCHANGED <<val, ver, vsum, active, seen>>, InShape',
         Settling \subseteq Settling',
         \A c \in Derived \ made : c \in Computeds => isDirty'[c],
         \A c \in made \cap Computeds :
           /\ isDirty[c] \/ c \in Pulling \/ c \in Pending
                => isDirty'[c] \/ c \in Pulling' \/ c \in Pending'
           /\ \A j \in 1 .. Len(deps[c]) :
                Ready(deps[c][j]) => \/ isDirty'[c] \/ c \in Pulling'
                                     \/ c \in Pending' \/ Ready(deps[c][j])',
         \A e \in active :
           e \in Pulling \/ e \in Pending => e \in Pulling' \/ e \in Pending',
         \A f \in Ongoing(Mine') : (Evals(f) => Collects(f)') /\ ~Early(f)
  PROVE  UInv'
<1>1. Linked' /\ Watching' = Watching
  BY GraphOn
<1>2. /\ \A ds : Vals(ds)' = Vals(ds)
      /\ \A c : /\ DepMeanings(c)' = DepMeanings(c)
                /\ Agrees(c)' <=> Agrees(c)
                /\ Total(c)' = Total(c)
      /\ Positive'
  BY Steady
<1>3. Blank'
  BY Parts DEF Blank
<1>4. SumsTell'
  BY <1>1, <1>2, Parts DEF SumsTell
<1>5. Told'
  BY <1>2, Parts DEF Told, ToldAt
<1>6. Fresh'
  <2> SUFFICES ASSUME NEW c \in made \cap Computeds
               PROVE  FreshAt(c)'
    BY DEF Fresh
  <2>1. FreshAt(c)
    BY Parts DEF Fresh
  <2>2. CASE isDirty[c] \/ c \in Pulling \/ c \in Pending
    BY <2>2 DEF FreshAt
  <2>3. CASE Agrees(c) /\ \A j \in 1 .. Len(deps[c]) : Ready(deps[c][j])
    BY <1>2, <2>3 DEF FreshAt
  <2> QED BY <2>1, <2>2, <2>3 DEF FreshAt
<1>7. Gathered'
  BY GatheredNext
<1> QED BY <1>1, <1>2, <1>3, <1>4, <1>5, <1>6, <1>7
        DEF UInv, CallsSet, DataFit

(* What has been collected stays, unless a dependency is evaluated again.  *)
LEMMA CollectsOn ==
  ASSUME UNCHANGED <<val, ver, deps>>, NEW f, Collects(f),
         \A j \in 1 .. (f.arg - 1) :
           Ready(deps[f.cell][j]) => Ready(deps[f.cell][j])'
  PROVE  Collects(f)'
BY DEF Collects

(* An evaluation that begins has collected nothing.                        *)
LEMMA CollectsNone ==
  ASSUME IInv', NEW c \in Derived, NEW at
  PROVE  Collects(Frame("value", at, c, <<>>))'
<1> DEFINE f == Frame("value", at, c, <<>>)
<1>1. f.arg = 1 /\ f.cell = c /\ f.sum = 0
  BY DEF Frame
<1>2. /\ deps' \in [Derived -> Seq(Nodes)]
      /\ ver' \in [Nodes -> 0 .. (VersionModulus - 1)]
  BY DEF IInv, TInv, GraphType, DataType
<1>3. deps'[c] \in Seq(Nodes) /\ ver' \in [Nodes -> Nat]
  BY <1>2
<1>4. Sums(deps'[c], ver')[0] = 0
  BY <1>3, SumsUnfold
<1>5. \A j \in 1 .. (f.arg - 1) : FALSE
  BY <1>1
<1> HIDE DEF f
<1>6. Collects(f)'
  BY <1>1, <1>4, <1>5 DEF Collects
<1> QED BY <1>6 DEF f

(* The frame of an evaluation. *)
LEMMA EvalFrame ==
  ASSUME NEW c \in Derived, NEW at \in {"pull", "first"}
  PROVE  LET e == Frame("value", at, c, <<>>)
         IN  /\ e \in FrameSet /\ e.op = "value" /\ e.at = at /\ e.cell = c
             /\ e.arg = 1 /\ Evals(e) /\ Poised(e) /\ ~Settles(e) /\ ~Early(e)
<1> DEFINE e == Frame("value", at, c, <<>>)
<1>1. c \in Cells /\ <<>> \in Seq(Values)
  BY EmptySeq DEF Cells
<1>2. e \in FrameSet /\ e.op = "value" /\ e.at = at /\ e.cell = c /\ e.arg = 1
  BY <1>1, FrameType DEF Ops, Ats, Frame
<1> HIDE DEF e
<1>3. Evals(e) /\ Poised(e) /\ ~Settles(e) /\ ~Early(e)
  BY <1>2 DEF Evals, Poised, Settles, Early
<1> QED BY <1>2, <1>3 DEF e

(* Nothing that evaluates or marks is new, and no new effect waits below.  *)
LEMMA NotEarly ==
  ASSUME IInv, ~Resting, ~Early(Tip)
  PROVE  \A f \in Ongoing(Mine) : ~Early(f)
<1>1. /\ Ongoing(Mine) = Below(Mine) \cup {Tip} /\ Len(Mine) \in Nat \ {0}
      /\ Tip = Mine[Len(Mine)]
  BY StackNow
<1>2. \A k \in 1 .. Len(Mine) : Solo(Mine[k]) => Len(Mine) = 1
  BY DEF IInv, Sole, AInv, CallsFit, Fits, Mine
<1>3. ASSUME NEW f \in Below(Mine), Early(f) PROVE FALSE
  <2>1. PICK k \in 1 .. (Len(Mine) - 1) : f = Mine[k]
    BY DEF Below
  <2>2. k \in 1 .. Len(Mine) /\ Len(Mine) # 1
    BY <1>1
  <2>3. Solo(Mine[k])
    BY <1>3, <2>1 DEF Solo
  <2> QED BY <1>2, <2>2, <2>3
<1> QED BY <1>1, <1>3

(* depJ.value() on a dirty computed: it is entered, and clean. *)
LEMMA PullDepFresh ==
  ASSUME IInv, IInv', UInv, PullDep(Me)
  PROVE  UInv'
<1> DEFINE c == Tip.cell
<1>d. PICK d : d = Dep(Me)
  OBVIOUS
<1>e. PICK e : e = Frame("value", "pull", d, <<>>)
  OBVIOUS
<1>1. /\ ~Resting /\ Evals(Tip) /\ Tip.arg <= Len(deps[c]) /\ Stale(d)
      /\ UNCHANGED <<made, deps, fn, subs>>
      /\ UNCHANGED <<val, ver, vsum, active, seen>>
      /\ Mine' = Append(Mine, e)
      /\ isDirty' = [isDirty EXCEPT ![d] = FALSE]
  <2>1. Is(Me, "pull") \/ Is(Me, "first")
    BY DEF PullDep, Collecting
  <2>2. ~Resting /\ Evals(Tip)
    BY <2>1, IsTip DEF Evals
  <2>3. Mine' = Append(Mine, e)
    BY <1>d, <1>e, MineNext DEF PullDep
  <2> QED BY <1>d, <1>e, <2>2, <2>3 DEF PullDep, Collecting, Tip, graphVars, histVars
<1>2. Tip \in FrameSet /\ c \in made \cap Derived
  BY <1>1, StackNow, Lower
<1>3. Tip.arg \in 1 .. Len(deps[c]) /\ d = deps[c][Tip.arg]
  BY <1>d, <1>1, <1>2, GraphFacts DEF FrameSet, Dep, Tip
<1>4. d \in made \cap Computeds /\ isDirty[d] /\ d \in Derived
  BY <1>1, <1>2, <1>3, GraphFacts DEF Stale, Derived
<1>5. /\ e \in FrameSet /\ e.op = "value" /\ e.at = "pull" /\ e.cell = d
      /\ e.arg = 1 /\ Evals(e) /\ Poised(e) /\ ~Settles(e) /\ ~Early(e)
  BY <1>e, <1>4, EvalFrame
<1>6. Collects(e)'
  BY <1>e, <1>4, CollectsNone
<1>7. ~Settles(Tip) /\ ~Early(Tip)
  BY <1>1, StackNow DEF Evals, Settles, Early, Formed
<1>8. InShape' /\ Ongoing(Mine') = Ongoing(Mine) \cup {e}
  BY <1>1, <1>2, <1>3, <1>4, <1>5, <1>7, Parts, PushOn
<1>9. Roots \subseteq Roots'
  BY <1>1, <1>8, RootsStay
<1>10. Pending \subseteq Pending'
  <2>1. Settling \subseteq Settling'
    BY <1>8, PullingNow, CallsNow
  <2>2. \A U \in SUBSET Derived : Spreads(U)' <=> Spreads(U)
    BY <1>1, <2>1, GraphOn
  <2> QED BY <1>9, <2>2, PendingGrows
<1>11. Pulling' = Pulling \cup {d} /\ Settling' = Settling
  BY <1>4, <1>5, <1>8, PullingNow, CallsNow DEF Pulls
<1>12. isDirty \in [Computeds -> BOOLEAN]
  BY DEF IInv, TInv, DataType
<1>13. \A x : Ready(x) => Ready(x)'
  <2> SUFFICES ASSUME NEW x, Ready(x) PROVE Ready(x)'
    OBVIOUS
  <2>1. ~Stale(x) /\ x \notin Pulling
    BY DEF Ready
  <2>2. x # d
    BY <1>4, <2>1 DEF Stale
  <2>3. ~Stale(x)' /\ x \notin Pulling'
    BY <1>1, <1>11, <1>12, <2>1, <2>2 DEF Stale
  <2> QED BY <2>3 DEF Ready
<1>14. \A x \in Derived \ made : x \in Computeds => isDirty'[x]
  BY <1>1, <1>4, <1>12, Parts DEF Blank
<1>15. \A x \in made \cap Computeds :
         /\ isDirty[x] \/ x \in Pulling \/ x \in Pending
              => isDirty'[x] \/ x \in Pulling' \/ x \in Pending'
         /\ \A j \in 1 .. Len(deps[x]) :
              Ready(deps[x][j]) => \/ isDirty'[x] \/ x \in Pulling'
                                   \/ x \in Pending' \/ Ready(deps[x][j])'
  <2>1. \A x \in made \cap Computeds :
          isDirty[x] \/ x \in Pulling \/ x \in Pending
            => isDirty'[x] \/ x \in Pulling' \/ x \in Pending'
    BY <1>1, <1>10, <1>11, <1>12
  <2> QED BY <1>1, <1>13, <2>1
<1>16. \A x \in active :
         x \in Pulling \/ x \in Pending => x \in Pulling' \/ x \in Pending'
  BY <1>10, <1>11
<1>17. ASSUME NEW f \in Ongoing(Mine')
       PROVE  (Evals(f) => Collects(f)') /\ ~Early(f)
  <2>1. CASE f = e
    BY <1>5, <1>6, <2>1
  <2>2. CASE f \in Ongoing(Mine)
    <3>1. Evals(f) => Collects(f)
      BY <2>2, Parts, CallsNow DEF Prepared
    <3>2. ~Early(f)
      BY <1>1, <1>7, <2>2, NotEarly
    <3> QED BY <1>1, <1>13, <3>1, <3>2, CollectsOn
  <2> QED BY <1>8, <2>1, <2>2
<1> QED BY <1>1, <1>8, <1>11, <1>14, <1>15, <1>16, <1>17, MarksOn
-----------------------------------------------------------------------------
(* The marks. *)

(* The loop of the call on top goes on. *)
LEMMA NextOne ==
  ASSUME Tip \in FrameSet
  PROVE  /\ Advanced(Me) \in FrameSet /\ Advanced(Me).op = Tip.op
         /\ Advanced(Me).at = Tip.at /\ Advanced(Me).cell = Tip.cell
         /\ Advanced(Me).args = Tip.args /\ Advanced(Me).arg = Tip.arg + 1
BY DEF Advanced, FrameSet, Tip

(* A mark goes to what depends on the cell; nothing is being evaluated, and *)
(* no cell is settling.                                                    *)
LEMMA MarkCause ==
  ASSUME IInv, UInv, Marking(Me)
  PROVE  /\ ~Resting /\ Tip \in FrameSet /\ Tip.at = "mark" /\ Tip.cell \in Nodes
         /\ Sub(Me) \in made \cap Derived /\ Sub(Me) = subs[Tip.cell][Tip.arg]
         /\ Sub(Me) \in Watching /\ Reached(Me) = {Sub(Me)}
         /\ Tip.arg \in 1 .. Len(subs[Tip.cell])
         /\ \A f \in Ongoing(Mine) : ~Evals(f) /\ ~Settles(f) /\ ~Early(f)
         /\ Ongoing(Mine) = Below(Mine) \cup {Tip}
<1> DEFINE c == Tip.cell
<1>0. Reached(Me) = {Sub(Me)} /\ Tip.arg \in 1 .. Len(subs[c])
  BY SubEntry DEF IInv, Sole, Tip
<1>1. ~Resting /\ Tip.at = "mark"
  BY IsTip DEF Marking
<1>2. /\ Tip \in FrameSet /\ Formed(Tip, made, deps)
      /\ Ongoing(Mine) = Below(Mine) \cup {Tip}
  BY <1>1, StackNow
<1>3. c \in Nodes /\ Tip.op \in {"SetValue", "markDirty"}
  BY <1>1, <1>2 DEF Formed, Nodes
<1>4. Tip.arg \in 1 .. Len(subs[c])
  BY <1>0
<1>5. Sub(Me) = subs[c][Tip.arg] /\ Sub(Me) \in Derived
  BY <1>3, <1>4, GraphFacts DEF Sub, Tip
<1>6. Sub(Me) \in made
  BY <1>3, <1>4, <1>5 DEF IInv, TInv, SubsMade
<1>7. Sub(Me) \in Effects => Sub(Me) \in active
  BY <1>3, <1>4, <1>5 DEF IInv, AInv, SubsWired
<1>8. Sub(Me) \in Watching
  BY <1>5, <1>6, <1>7 DEF Watching, Derived
<1>9. ~Evals(Tip) /\ ~Settles(Tip) /\ ~Early(Tip)
  BY <1>1, <1>3 DEF Evals, Settles, Early
<1>10. \A f \in Ongoing(Mine) : ~Evals(f) /\ ~Settles(f) /\ ~Early(f)
  <2>1. \A f \in Below(Mine) : ~Evals(f) /\ ~Settles(f)
    BY <1>1, Parts, NoPull
  <2>2. \A f \in Ongoing(Mine) : ~Early(f)
    BY <1>1, <1>9, NotEarly
  <2> QED BY <1>2, <1>9, <2>1, <2>2
<1> QED BY <1>0, <1>1, <1>2, <1>3, <1>4, <1>5, <1>6, <1>8, <1>10

(* The loop goes on, without the mark that is made now.                    *)
LEMMA MarkRoots ==
  ASSUME IInv, UInv, Marking(Me), subs' = subs,
         NEW e, Ongoing(Mine') = Below(Mine) \cup {Advanced(Me), e}
  PROVE  Roots \subseteq Roots' \cup {Sub(Me)}
<1>1. /\ Tip \in FrameSet /\ Tip.at = "mark"
      /\ Sub(Me) = subs[Tip.cell][Tip.arg] /\ Tip.cell \in Nodes
      /\ Ongoing(Mine) = Below(Mine) \cup {Tip}
  BY MarkCause
<1>2. /\ Advanced(Me).at = "mark" /\ Advanced(Me).cell = Tip.cell
      /\ Advanced(Me).arg = Tip.arg + 1 /\ Tip.arg \in Nat
      /\ Len(subs[Tip.cell]) \in Nat
  BY <1>1, NextOne, GraphFacts DEF FrameSet
<1>3. ASSUME NEW x, WillMark(Tip, x), x # Sub(Me)
      PROVE  WillMark(Advanced(Me), x)
  <2>1. PICK k \in Tip.arg .. Len(subs[Tip.cell]) : subs[Tip.cell][k] = x
    BY <1>3 DEF WillMark
  <2>2. k # Tip.arg
    BY <1>1, <1>3, <2>1
  <2>3. k \in (Tip.arg + 1) .. Len(subs[Tip.cell])
    BY <1>2, <2>1, <2>2
  <2> QED BY <1>2, <2>1, <2>3 DEF WillMark
<1>4. \A f \in Ongoing(Mine) : \A x \in Derived :
        WillMark(f, x) => \/ x \in {Sub(Me)}
                          \/ \E g \in Ongoing(Mine') : WillMark(g, x)
  BY <1>1, <1>3
<1>5. PICK Y : Y = {Sub(Me)}
  OBVIOUS
<1>6. Roots \subseteq Roots' \cup Y
  BY <1>4, <1>5, RootsStay
<1> QED BY <1>5, <1>6

(* A mark reaches an effect, which begins to pull in the middle of the     *)
(* marking: what it reads unmarked while marks on their way will still     *)
(* reach it, it will be told of.                                           *)
LEMMA MarkEffectFresh ==
  ASSUME IInv, IInv', UInv, MarkEffect(Me)
  PROVE  UInv'
<1>s. PICK s : s = Sub(Me)
  OBVIOUS
<1>e. PICK e : e = Frame("value", "pull", s, <<>>)
  OBVIOUS
<1>1. /\ Marking(Me) /\ s \in Effects
      /\ UNCHANGED <<made, deps, fn, subs>>
      /\ UNCHANGED <<val, ver, isDirty, vsum, active, seen>>
      /\ Mine' = Append(Swapped(Advanced(Me)), e)
  <2>1. Marking(Me) /\ Reached(Me) = {s}
    BY <1>s, MarkCause DEF MarkEffect
  <2>2. /\ s \in Effects
        /\ stack' = [stack EXCEPT ![Me] = Append(Moved(Me, Advanced(Me))[Me], e)]
    BY <1>e, <2>1 DEF MarkEffect
  <2> QED BY <2>1, <2>2, MineNext DEF MarkEffect, graphVars, dataVars, histVars
<1>2. /\ ~Resting /\ Tip \in FrameSet /\ Tip.at = "mark" /\ s \in made \cap Derived
      /\ \A f \in Ongoing(Mine) : ~Evals(f) /\ ~Settles(f) /\ ~Early(f)
      /\ Ongoing(Mine) = Below(Mine) \cup {Tip} /\ s \in Watching
  BY <1>s, <1>1, MarkCause
<1>3. s \in Cells /\ s \notin Computeds /\ s \notin Nodes
  BY <1>1, <1>2, Kinds, GraphFacts DEF Cells, Nodes
<1>4. /\ e \in FrameSet /\ e.op = "value" /\ e.at = "pull" /\ e.cell = s
      /\ e.arg = 1 /\ Evals(e) /\ Poised(e) /\ ~Settles(e) /\ ~Early(e)
  BY <1>e, <1>2, EvalFrame
<1>f. PICK f : f = Advanced(Me)
  OBVIOUS
<1>5. /\ f \in FrameSet /\ f.op = Tip.op /\ f.cell = Tip.cell /\ f.at = "mark"
      /\ ~Evals(f) /\ ~Settles(f) /\ ~Early(f) /\ Poised(f)
  <2>1. /\ f \in FrameSet /\ f.op = Tip.op /\ f.cell = Tip.cell /\ f.at = "mark"
    BY <1>f, <1>2, NextOne
  <2>2. Formed(Tip, made, deps)
    BY <1>2, StackNow
  <2> QED BY <1>2, <2>1, <2>2 DEF Evals, Settles, Early, Poised, Formed
<1>6. InShape' /\ Ongoing(Mine') = Below(Mine) \cup {f, e}
  BY <1>f, <1>1, <1>2, <1>4, <1>5, Parts, TopPushOn
<1>8. Roots \subseteq Roots' \cup {s}
  BY <1>f, <1>s, <1>1, <1>6, MarkRoots
<1>9. \A x \in Watching : \A j \in 1 .. Len(deps[x]) : deps[x][j] # s
  BY <1>3, GraphFacts
<1>10. Pending \subseteq Pending' \cup {s}
  BY <1>1, <1>2, <1>8, <1>9, PendingLess
<1>11. Pulling = {} /\ Pulling' = {s} /\ Settling = {}
  <2>1. Pulling = {} /\ Settling = {}
    BY <1>2, CallsNow DEF Pulls
  <2>2. \A x \in Derived : (\E h \in Ongoing(Mine') : Pulls(h, x)) <=> x = s
    BY <1>2, <1>4, <1>5, <1>6 DEF Pulls
  <2> QED BY <1>2, <2>1, <2>2, PullingNow
<1>12. \A c \in Nodes : Ready(c) => Ready(c)'
  <2> SUFFICES ASSUME NEW c \in Nodes, Ready(c) PROVE Ready(c)'
    OBVIOUS
  <2>1. c # s
    BY <1>3
  <2> QED BY <1>1, <1>11, <2>1 DEF Ready, Stale
<1>13. \A h \in Ongoing(Mine') : (Evals(h) => Collects(h)') /\ ~Early(h)
  <2>1. Collects(e)'
    BY <1>e, <1>2, CollectsNone
  <2> QED BY <1>2, <1>4, <1>5, <1>6, <2>1
<1>14. \A c \in Derived \ made : c \in Computeds => isDirty'[c]
  BY <1>1, Parts DEF Blank
<1>15. \A c \in made \cap Computeds :
         /\ isDirty[c] \/ c \in Pulling \/ c \in Pending
              => isDirty'[c] \/ c \in Pulling' \/ c \in Pending'
         /\ \A j \in 1 .. Len(deps[c]) :
              Ready(deps[c][j]) => \/ isDirty'[c] \/ c \in Pulling'
                                   \/ c \in Pending' \/ Ready(deps[c][j])'
  <2> TAKE c \in made \cap Computeds
  <2>1. c # s /\ c \in Derived
    BY <1>3 DEF Derived
  <2>2. \A j \in 1 .. Len(deps[c]) : deps[c][j] \in Nodes
    BY <2>1, GraphFacts
  <2>3. \A j \in 1 .. Len(deps[c]) : Ready(deps[c][j]) => Ready(deps[c][j])'
    <3> SUFFICES ASSUME NEW j \in 1 .. Len(deps[c]), Ready(deps[c][j])
                 PROVE  Ready(deps[c][j])'
      OBVIOUS
    <3>1. PICK d : d = deps[c][j]
      OBVIOUS
    <3>2. Ready(d)'
      BY <1>12, <2>2, <3>1
    <3> QED BY <1>1, <3>1, <3>2 DEF Ready, Stale
  <2> QED BY <1>1, <1>10, <1>11, <2>1, <2>3
<1>16. \A c \in active :
         c \in Pulling \/ c \in Pending => c \in Pulling' \/ c \in Pending'
  BY <1>10, <1>11
<1> QED BY <1>1, <1>6, <1>11, <1>13, <1>14, <1>15, <1>16, MarksOn

(* A mark reaches a computed, which passes it on.                          *)
LEMMA MarkComputedFresh ==
  ASSUME IInv, IInv', UInv, MarkComputed(Me)
  PROVE  UInv'
<1>x. PICK x : x = Sub(Me)
  OBVIOUS
<1>e. PICK e : e = MarkFrame(x)
  OBVIOUS
<1>f. PICK f : f = Advanced(Me)
  OBVIOUS
<1>1. /\ Marking(Me) /\ x \in Computeds
      /\ UNCHANGED <<made, deps, fn, subs>>
      /\ UNCHANGED <<val, ver, vsum, active, seen>>
      /\ isDirty' = [isDirty EXCEPT ![x] = TRUE]
      /\ Mine' = Append(Swapped(f), e)
  <2>1. Marking(Me) /\ Reached(Me) = {x}
    BY <1>x, MarkCause DEF MarkComputed
  <2>2. /\ x \in Computeds /\ isDirty' = [isDirty EXCEPT ![x] = TRUE]
        /\ stack' = [stack EXCEPT ![Me] = Append(Moved(Me, f)[Me], e)]
    BY <1>e, <1>f, <2>1 DEF MarkComputed
  <2> QED BY <2>1, <2>2, MineNext DEF MarkComputed, graphVars, histVars
<1>2. /\ ~Resting /\ Tip \in FrameSet /\ Tip.at = "mark" /\ x \in made \cap Derived
      /\ \A h \in Ongoing(Mine) : ~Evals(h) /\ ~Settles(h) /\ ~Early(h)
      /\ Ongoing(Mine) = Below(Mine) \cup {Tip}
  BY <1>x, <1>1, MarkCause
<1>3. x \in Cells /\ x \notin Effects /\ x \in Nodes /\ Len(subs[x]) \in Nat
  BY <1>1, <1>2, Kinds, GraphFacts DEF Cells, Nodes
<1>4. /\ e \in FrameSet /\ e.op = "markDirty" /\ e.at = "mark" /\ e.cell = x
      /\ e.arg = 1 /\ ~Evals(e) /\ ~Settles(e) /\ ~Early(e) /\ Poised(e)
  <2>1. /\ e \in FrameSet /\ e.op = "markDirty" /\ e.at = "mark" /\ e.cell = x
        /\ e.arg = 1
    BY <1>e, <1>1, MarkFrameType DEF IInv
  <2> QED BY <2>1 DEF Evals, Settles, Early, Poised
<1>5. /\ f \in FrameSet /\ f.op = Tip.op /\ f.cell = Tip.cell /\ f.at = "mark"
      /\ ~Evals(f) /\ ~Settles(f) /\ ~Early(f) /\ Poised(f)
  <2>1. /\ f \in FrameSet /\ f.op = Tip.op /\ f.cell = Tip.cell /\ f.at = "mark"
    BY <1>f, <1>2, NextOne
  <2>2. Formed(Tip, made, deps)
    BY <1>2, StackNow
  <2> QED BY <1>2, <2>1, <2>2 DEF Evals, Settles, Early, Poised, Formed
<1>7. InShape' /\ Ongoing(Mine') = Below(Mine) \cup {f, e}
  BY <1>1, <1>2, <1>4, <1>5, Parts, TopPushOn
<1>9. Roots \subseteq Roots' \cup {x}
  BY <1>x, <1>f, <1>1, <1>7, MarkRoots
<1>12. Pulling = {} /\ Pulling' = {} /\ Settling = {} /\ Settling' = {}
  <2>1. Pulling = {} /\ Settling = {}
    BY <1>2, CallsNow DEF Pulls
  <2>2. \A h \in Ongoing(Mine') : ~Evals(h) /\ ~Settles(h)
    BY <1>2, <1>4, <1>5, <1>7
  <2> QED BY <2>1, <2>2, PullingNow DEF Pulls
<1>10. ASSUME NEW y \in Watching, \E j \in 1 .. Len(deps[y]) : deps[y][j] = x
       PROVE  y \in Roots'
  <2>1. PICK k \in 1 .. Len(subs[x]) : subs[x][k] = y
    BY <1>10, <1>12, Parts DEF Linked
  <2>2. WillMark(e, y)' /\ e \in Ongoing(Mine') /\ y \in Derived
    BY <1>1, <1>4, <1>7, <2>1, GraphFacts DEF WillMark
  <2>3. WillMark(e, y)
    BY <1>4, <2>1 DEF WillMark
  <2> QED BY <1>1, <2>2, <2>3, RootsNext
<1>11. Pending \subseteq Pending' \cup {x}
  BY <1>1, <1>2, <1>9, <1>10, PendingLess
<1>13. isDirty \in [Computeds -> BOOLEAN]
  BY DEF IInv, TInv, DataType
<1>14. \A c \in Nodes : c # x /\ Ready(c) => Ready(c)'
  BY <1>1, <1>12, <1>13 DEF Ready, Stale
<1>15. \A h \in Ongoing(Mine') : (Evals(h) => Collects(h)') /\ ~Early(h)
  BY <1>2, <1>4, <1>5, <1>7
<1>16. \A c \in Derived \ made : c \in Computeds => isDirty'[c]
  BY <1>1, <1>13, Parts DEF Blank
<1>17. \A c \in made \cap Computeds :
         /\ isDirty[c] \/ c \in Pulling \/ c \in Pending
              => isDirty'[c] \/ c \in Pulling' \/ c \in Pending'
         /\ \A j \in 1 .. Len(deps[c]) :
              Ready(deps[c][j]) => \/ isDirty'[c] \/ c \in Pulling'
                                   \/ c \in Pending' \/ Ready(deps[c][j])'
  <2> TAKE c \in made \cap Computeds
  <2>1. \A j \in 1 .. Len(deps[c]) : deps[c][j] \in Nodes
    BY GraphFacts DEF Derived
  <2>2. isDirty'[x] /\ (isDirty[c] => isDirty'[c])
    BY <1>1, <1>13
  <2>3. ASSUME NEW j \in 1 .. Len(deps[c]), Ready(deps[c][j])
        PROVE  c \in Pending' \/ Ready(deps[c][j])'
    <3>1. CASE deps[c][j] = x
      <4>1. c \in Roots'
        BY <1>10, <3>1 DEF Watching
      <4>2. (Roots \subseteq Pending)'
        BY RootsPending, PTL
      <4> QED BY <4>1, <4>2
    <3>2. CASE deps[c][j] # x
      <4>1. PICK d : d = deps[c][j]
        OBVIOUS
      <4>2. Ready(d)'
        BY <1>14, <2>1, <2>3, <3>2, <4>1
      <4> QED BY <1>1, <4>1, <4>2 DEF Ready, Stale
    <3> QED BY <3>1, <3>2
  <2> QED BY <1>11, <1>12, <2>2, <2>3
<1>18. \A c \in active :
         c \in Pulling \/ c \in Pending => c \in Pulling' \/ c \in Pending'
  <2>1. \A c \in active : c # x
    BY <1>3 DEF IInv, TInv, HistType
  <2> QED BY <1>11, <1>12, <2>1
<1> QED BY <1>1, <1>7, <1>12, <1>15, <1>16, <1>17, <1>18, MarksOn
-----------------------------------------------------------------------------
(* A write. *)

LEMMA TotalGrows ==
  ASSUME IInv, IInv', deps' = deps, NEW c \in Derived,
         \A d \in Nodes : ver[d] <= ver'[d]
  PROVE  /\ Total(c) \in Nat /\ Total(c)' \in Nat /\ Total(c) <= Total(c)'
         /\ (\E j \in 1 .. Len(deps[c]) : ver[deps[c][j]] < ver'[deps[c][j]])
              => Total(c) < Total(c)'
<1>1. /\ deps[c] \in Seq(Nodes) /\ Len(deps[c]) \in Nat
      /\ \A j \in 1 .. Len(deps[c]) : deps[c][j] \in Nodes
      /\ ver \in [Nodes -> Nat]
  BY GraphFacts
<1>2. ver' \in [Nodes -> Nat]
  BY DEF IInv, TInv, DataType
<1>3. Len(deps[c]) \in 0 .. Len(deps[c])
  BY <1>1
<1>4. PICK ws \in [Nodes -> Nat] : ws = ver'
  BY <1>2
<1>5. Total(c)' = Sums(deps[c], ws)[Len(deps[c])]
      /\ Total(c) = Sums(deps[c], ver)[Len(deps[c])]
  BY <1>4 DEF Total
<1>6. /\ Sums(deps[c], ws)[Len(deps[c])] \in Nat
      /\ Sums(deps[c], ver)[Len(deps[c])] \in Nat
  BY <1>1, <1>3, SumsUnfold
<1>7. \A j \in 1 .. Len(deps[c]) : ver[deps[c][j]] <= ws[deps[c][j]]
  BY <1>1, <1>4
<1>8. /\ \A n \in 0 .. Len(deps[c]) : Sums(deps[c], ver)[n] <= Sums(deps[c], ws)[n]
      /\ \A n \in 0 .. Len(deps[c]) :
           (\E j \in 1 .. n : ver[deps[c][j]] < ws[deps[c][j]])
             => Sums(deps[c], ver)[n] < Sums(deps[c], ws)[n]
  BY <1>1, <1>7, SumsGrow
<1>9. /\ Sums(deps[c], ver)[Len(deps[c])] <= Sums(deps[c], ws)[Len(deps[c])]
      /\ (\E j \in 1 .. Len(deps[c]) : ver[deps[c][j]] < ws[deps[c][j]])
           => Sums(deps[c], ver)[Len(deps[c])] < Sums(deps[c], ws)[Len(deps[c])]
  BY <1>3, <1>8
<1> QED BY <1>4, <1>5, <1>6, <1>9

(* A cell with values that have not grown agrees with them as before.      *)
LEMMA TellOn ==
  ASSUME IInv, IInv', SumsTell, made' = made, deps' = deps, fn' = fn,
         NEW c \in Watching, vsum'[c] = vsum[c],
         \A d \in Nodes : ver[d] <= ver'[d],
         \A j \in 1 .. Len(deps[c]) :
           val'[deps[c][j]] # val[deps[c][j]] => ver[deps[c][j]] < ver'[deps[c][j]],
         c \in Computeds => val'[c] = val[c], seen'[c] = seen[c]
  PROVE  /\ vsum'[c] <= Total(c)'
         /\ vsum'[c] = Total(c)' => Agrees(c)'
<1>0. c \in made \cap Derived
  BY GraphFacts
<1>1. /\ Total(c) \in Nat /\ Total(c)' \in Nat /\ Total(c) <= Total(c)'
      /\ (\E j \in 1 .. Len(deps[c]) : ver[deps[c][j]] < ver'[deps[c][j]])
              => Total(c) < Total(c)'
  BY <1>0, TotalGrows
<1>2. vsum[c] \in Nat
  BY <1>0 DEF IInv, TInv, DataType
<1>3. /\ vsum[c] <= Total(c)
      /\ vsum[c] = Total(c) => Agrees(c)
  BY DEF SumsTell
<1>4. vsum'[c] <= Total(c)'
  BY <1>1, <1>2, <1>3
<1>5. ASSUME vsum'[c] = Total(c)'
      PROVE  Agrees(c)'
  <2>1. /\ Total(c) = Total(c)' /\ vsum[c] = Total(c)
        /\ ~(Total(c) < Total(c)')
    BY <1>1, <1>2, <1>3, <1>5
  <2>2. \A j \in 1 .. Len(deps[c]) : val'[deps[c][j]] = val[deps[c][j]]
    BY <1>1, <2>1
  <2>3. DOMAIN deps[c] = 1 .. Len(deps[c])
    BY <1>0, GraphFacts
  <2>4. Vals(deps[c])' = Vals(deps[c])
    BY <2>2, <2>3 DEF Vals
  <2>5. Agrees(c) => Agrees(c)'
    BY <2>4 DEF Agrees
  <2> QED BY <1>3, <2>1, <2>5
<1> QED BY <1>4, <1>5

(* A signal gets a value: whoever depends on it will be marked, and its    *)
(* version grows if anybody does.                                          *)
LEMMA Written ==
  ASSUME IInv, IInv', UInv, UNCHANGED <<made, deps, fn, subs>>,
         UNCHANGED <<isDirty, vsum, active, seen>>,
         NEW s \in Signals, NEW v, val' = [val EXCEPT ![s] = v],
         \A d \in Nodes : d # s => ver'[d] = ver[d], ver[s] <= ver'[s],
         InShape', Settling \subseteq Settling', Roots \subseteq Roots',
         \A g \in Ongoing(Mine) \cup Ongoing(Mine') : ~Evals(g) /\ ~Early(g),
         \A x \in Watching :
           (\E j \in 1 .. Len(deps[x]) : deps[x][j] = s) =>
             x \in Pending' /\ ver[s] < ver'[s]
  PROVE  UInv'
<1>3. s \in Nodes /\ s \notin Computeds /\ s \notin Derived
  BY Kinds DEF Nodes, Derived
<1>8. Pulling = {} /\ Pulling' = {}
  BY PullingNow, CallsNow DEF Pulls
<1>11. /\ Linked' /\ Watching' = Watching
       /\ \A U \in SUBSET Derived : Spreads(U)' <=> Spreads(U)
  BY GraphOn
<1>12. Pending \subseteq Pending'
  BY <1>11, PendingGrows
<1>13. val \in [Nodes -> Values] /\ ver \in [Nodes -> Nat] /\ ver' \in [Nodes -> Nat]
  BY DEF IInv, TInv, DataType
<1>14. \A d \in Nodes : d # s => val'[d] = val[d]
  BY <1>13
<1>15. \A d \in Nodes : ver[d] <= ver'[d]
  <2> TAKE d \in Nodes
  <2>1. ver[d] \in Nat
    BY <1>13
  <2> QED BY <2>1
<1>16. Positive'
  <2> SUFFICES ASSUME NEW d \in Nodes PROVE ver'[d] >= 1
    BY DEF Positive
  <2>1. /\ ver[d] \in Nat /\ ver[d] >= 1 /\ ver[d] <= ver'[d] /\ ver'[d] \in Nat
    BY <1>13, <1>15, Parts DEF Positive
  <2> QED BY <2>1
<1>17. Blank'
  BY Parts DEF Blank
<1>19. SumsTell'
  <2> SUFFICES ASSUME NEW c \in Watching
               PROVE  /\ vsum'[c] <= Total(c)'
                      /\ vsum'[c] = Total(c)' => Agrees(c)'
    BY <1>11 DEF SumsTell
  <2>1. \A j \in 1 .. Len(deps[c]) : deps[c][j] \in Nodes
    BY GraphFacts
  <2>2. c \in Computeds => val'[c] = val[c]
    BY <1>3, <1>14 DEF Nodes
  <2>3. \A j \in 1 .. Len(deps[c]) :
          val'[deps[c][j]] # val[deps[c][j]] => ver[deps[c][j]] < ver'[deps[c][j]]
    BY <1>14, <2>1
  <2> QED BY <1>15, <2>2, <2>3, Parts, TellOn
<1>20. \A x : Ready(x)' <=> Ready(x)
  BY <1>8 DEF Ready, Stale
<1>21. Fresh'
  <2> SUFFICES ASSUME NEW c \in made \cap Computeds, c \notin Pending'
               PROVE  FreshAt(c)'
    BY DEF Fresh, FreshAt
  <2>1. c \in Watching /\ c \in Derived /\ c # s /\ c \in Nodes
    BY <1>3 DEF Watching, Derived, Nodes
  <2>2. /\ DOMAIN deps[c] = 1 .. Len(deps[c])
        /\ \A j \in 1 .. Len(deps[c]) : deps[c][j] \in Nodes
    BY <2>1, GraphFacts
  <2>3. \A j \in 1 .. Len(deps[c]) : val'[deps[c][j]] = val[deps[c][j]]
    BY <1>14, <2>1, <2>2
  <2>4. Vals(deps[c])' = Vals(deps[c]) /\ val'[c] = val[c]
    BY <1>14, <2>1, <2>2, <2>3 DEF Vals
  <2>5. Agrees(c) => Agrees(c)'
    BY <2>1, <2>4 DEF Agrees
  <2>6. FreshAt(c) /\ c \notin Pending
    BY <1>12, Parts DEF Fresh
  <2> QED BY <1>8, <1>20, <2>5, <2>6 DEF FreshAt
<1>22. Told'
  <2> DEFINE X == Pending' \cup {s} \cup (Effects \ active)
  <2>1. \A c \in made \cap Derived :
          (\E j \in 1 .. Len(deps[c]) : deps[c][j] \in X) => c \in X
    <3> SUFFICES ASSUME NEW c \in made \cap Derived, NEW j \in 1 .. Len(deps[c]),
                        deps[c][j] \in X, c \notin Effects \ active
                 PROVE  c \in Pending'
      OBVIOUS
    <3>1. c \in Watching
      BY DEF Watching, Derived
    <3>2. deps[c][j] \notin Effects
      BY GraphFacts, KindsAssumption DEF KindsAssumption
    <3>3. CASE deps[c][j] = s
      BY <3>1, <3>3
    <3>4. CASE deps[c][j] \in Pending'
      <4>1. PendingClosed'
        BY PendingCloses, PTL
      <4>2. deps' = deps /\ Watching' = Watching
        BY <1>11
      <4> QED BY <3>1, <3>4, <4>1, <4>2 DEF PendingClosed
    <3> QED BY <3>2, <3>3, <3>4
  <2>2. \A r \in made \cap Signals : r \in X \/ val'[r] = val[r]
    BY <1>14 DEF Nodes
  <2> HIDE DEF X
  <2>3. Ordered /\ Blank /\ Ordered'
    BY Parts DEF InShape
  <2>4. \A c \in made \cap Derived : c \in X \/ DepMeanings(c)' = DepMeanings(c)
    BY <1>17, <2>1, <2>2, <2>3, MeaningSame
  <2> SUFFICES ASSUME NEW e \in active, e \notin Pending' PROVE ToldAt(e)'
    BY DEF Told, ToldAt
  <2>5. e \in made \cap Derived /\ e # s /\ e \in Effects
    BY <1>3 DEF IInv, TInv, HistType, Derived
  <2>6. DepMeanings(e)' = DepMeanings(e)
    BY <2>4, <2>5 DEF X
  <2>7. ToldAt(e) /\ e \notin Pending
    BY <1>12, Parts DEF Told
  <2> QED BY <1>8, <2>6, <2>7 DEF ToldAt
<1>23. Gathered'
  BY GatheredNext
<1> QED BY <1>11, <1>16, <1>17, <1>19, <1>21, <1>22, <1>23
        DEF UInv, CallsSet, DataFit

(* The call that writes: nothing is being evaluated or settling, and its   *)
(* loop begins at the first subscriber.                                    *)
LEMMA Writing ==
  ASSUME IInv, UInv, At(Me, "SetValue"), deps' = deps, subs' = subs,
         NEW f \in FrameSet, stack' = Moved(Me, f), f.at \in {"mark", "end"},
         f.op = Tip.op, f.cell = Tip.cell, f.arg = Tip.arg
  PROVE  /\ ~Resting /\ Tip.cell \in Signals /\ Tip.cell \in Nodes
         /\ Tip \in FrameSet /\ Tip.args[1] \in Values /\ f.arg = 1
         /\ InShape' /\ Ongoing(Mine') = Below(Mine) \cup {f}
         /\ \A g \in Ongoing(Mine) \cup Ongoing(Mine') : ~Evals(g) /\ ~Early(g)
         /\ Settling = {} /\ Roots \subseteq Roots'
<1>1. ~Resting /\ Tip.at = "body" /\ Tip.op = "SetValue"
  BY IsTip DEF At, Tip
<1>2. /\ Tip \in FrameSet /\ Formed(Tip, made, deps)
      /\ Ongoing(Mine) = Below(Mine) \cup {Tip}
      /\ Tip = Mine[Len(Mine)] /\ Len(Mine) \in Nat \ {0}
  BY <1>1, StackNow
<1>3. Tip.cell \in Signals /\ Tip.cell \in Nodes /\ Tip.args[1] \in Values
  <2>1. Tip.args \in Seq(Values) /\ Len(Tip.args) = 1 /\ Tip.cell \in Signals
    BY <1>1, <1>2 DEF Formed, FrameSet
  <2>2. 1 \in 1 .. Len(Tip.args)
    BY <2>1
  <2> QED BY <2>1, <2>2, ElementOfSeq DEF Nodes
<1>4. Tip.arg = 1
  <2>1. Len(Mine) \in 1 .. Len(Mine)
    BY <1>2
  <2> QED BY <1>1, <1>2, <2>1, Parts DEF Starts, Poised
<1>5. f.op = "SetValue" /\ f.arg = 1
  BY <1>1, <1>4
<1>6. Mine' = Swapped(f)
  BY MineNext
<1>7. \A g \in Ongoing(Mine) : ~Evals(g) /\ ~Early(g) /\ ~Settles(g)
  <2>1. ~Evals(Tip) /\ ~Early(Tip) /\ ~Settles(Tip)
    BY <1>1 DEF Evals, Early, Settles
  <2>2. \A g \in Below(Mine) : ~Evals(g) /\ ~Settles(g)
    BY <1>1, Parts, NoPull
  <2>3. \A g \in Ongoing(Mine) : ~Early(g)
    BY <1>1, <2>1, NotEarly
  <2> QED BY <1>2, <2>1, <2>2, <2>3
<1>8. ~Evals(f) /\ ~Early(f) /\ ~Settles(f) /\ Poised(f)
  BY <1>5 DEF Evals, Early, Settles, Poised
<1>9. InShape' /\ Ongoing(Mine') = Below(Mine) \cup {f}
  BY <1>1, <1>2, <1>5, <1>6, <1>7, <1>8, Parts, TopOn
<1>10. Settling = {}
  BY <1>7, CallsNow
<1>11. Roots \subseteq Roots'
  <2>1. \A g \in Ongoing(Mine) : \A x \in Derived :
          WillMark(g, x) => \/ x \in {}
                            \/ \E h \in Ongoing(Mine') : WillMark(h, x)
    BY <1>1, <1>2, <1>9 DEF WillMark
  <2>2. PICK Y : Y = {}
    OBVIOUS
  <2>3. Roots \subseteq Roots' \cup Y
    BY <2>1, <2>2, RootsStay
  <2> QED BY <2>2, <2>3
<1> QED BY <1>1, <1>2, <1>3, <1>5, <1>7, <1>8, <1>9, <1>10, <1>11

(* A write to a signal nobody subscribes to, which keeps its version.      *)
LEMMA WriteQuietFresh ==
  ASSUME IInv, IInv', UInv, WriteQuiet(Me)
  PROVE  UInv'
<1>s. PICK s : s = Tip.cell
  OBVIOUS
<1>v. PICK v : v = Tip.args[1]
  OBVIOUS
<1>1. /\ At(Me, "SetValue") /\ Goto(Me, "end") /\ subs[s] = <<>>
      /\ UNCHANGED <<made, deps, fn, subs>>
      /\ UNCHANGED <<isDirty, vsum, active, seen>> /\ ver' = ver
      /\ val' = [val EXCEPT ![s] = v]
  BY <1>s, <1>v DEF WriteQuiet, Tip, graphVars, histVars
<1>2. /\ s \in Signals /\ s \in Nodes /\ InShape'
      /\ \A g \in Ongoing(Mine) \cup Ongoing(Mine') : ~Evals(g) /\ ~Early(g)
      /\ Settling = {} /\ Roots \subseteq Roots'
  <2>1. PICK f : f = [Tip EXCEPT !.at = "end"]
    OBVIOUS
  <2>2. Tip \in FrameSet
    BY <1>1, IsTip, StackNow DEF At
  <2>3. /\ f \in FrameSet /\ f.at = "end" /\ f.op = Tip.op /\ f.cell = Tip.cell
        /\ f.arg = Tip.arg
    BY <2>1, <2>2, GotoType DEF Ats
  <2>4. stack' = Moved(Me, f)
    BY <1>1, <2>1 DEF Goto, Tip
  <2> QED BY <1>s, <1>1, <2>3, <2>4, Writing
<1>3. \A x \in Watching : ~ \E j \in 1 .. Len(deps[x]) : deps[x][j] = s
  <2> SUFFICES ASSUME NEW x \in Watching, NEW j \in 1 .. Len(deps[x]), deps[x][j] = s
               PROVE  FALSE
    OBVIOUS
  <2>1. PICK k \in 1 .. Len(subs[s]) : subs[s][k] = x
    BY <1>2, Parts DEF Linked
  <2>2. Len(subs[s]) = 0
    BY <1>1
  <2> QED BY <2>1, <2>2
<1>4. ver[s] <= ver'[s]
  <2>1. ver[s] \in Nat
    BY <1>2, GraphFacts
  <2> QED BY <1>1, <2>1
<1>5. \A d \in Nodes : d # s => ver'[d] = ver[d]
  BY <1>1
<1>6. Settling \subseteq Settling'
  BY <1>2
<1> QED BY <1>1, <1>2, <1>3, <1>4, <1>5, <1>6, Written

(* A write that marks: its own loop will reach all that depends on it.     *)
LEMMA WriteMarkFresh ==
  ASSUME IInv, IInv', UInv, Unwrapped, WriteMark(Me)
  PROVE  UInv'
<1>s. PICK s : s = Tip.cell
  OBVIOUS
<1>v. PICK v : v = Tip.args[1]
  OBVIOUS
<1>1. /\ At(Me, "SetValue") /\ stack' = Moved(Me, Ranging(Me))
      /\ UNCHANGED <<made, deps, fn, subs>>
      /\ UNCHANGED <<isDirty, vsum, active, seen>>
      /\ val' = [val EXCEPT ![s] = v]
      /\ ver' = [ver EXCEPT ![s] = Plus(@, 1)]
  BY <1>s, <1>v DEF WriteMark, Tip, graphVars, histVars
<1>f. PICK f : f = Ranging(Me)
  OBVIOUS
<1>2. /\ s \in Signals /\ s \in Nodes /\ InShape'
      /\ f.at = "mark" /\ f.cell = s /\ f.arg = 1 /\ f \in Ongoing(Mine')
      /\ \A g \in Ongoing(Mine) \cup Ongoing(Mine') : ~Evals(g) /\ ~Early(g)
      /\ Settling = {} /\ Roots \subseteq Roots'
  <2>1. ~Resting /\ ~Idle(Me) /\ Tip.op = "SetValue"
    BY <1>1, IsTip DEF At, Is, Tip
  <2>2. Formed(Tip, made, deps)
    BY <2>1, StackNow
  <2>3. Tip.cell \in Nodes
    BY <2>1, <2>2 DEF Formed, Nodes
  <2>4. /\ f \in FrameSet /\ f.at = "mark" /\ f.op = Tip.op /\ f.cell = Tip.cell
        /\ f.arg = Tip.arg
    BY <1>f, <2>1, <2>3, RangingType DEF IInv, Sole, Tip
  <2> QED BY <1>s, <1>f, <1>1, <2>4, Writing
<1>3. ver \in [Nodes -> Nat] /\ ver[s] \in Nat /\ Plus(ver[s], 1) = ver[s] + 1
  <2>1. ver \in [Nodes -> Nat] /\ ver[s] \in Nat /\ VersionModulus \in Nat \ {0}
    BY <1>2, GraphFacts, BoundsAssumption DEF BoundsAssumption
  <2>2. ver[s] + 1 < VersionModulus
    BY <1>2 DEF Unwrapped
  <2>3. (ver[s] + 1) % VersionModulus = ver[s] + 1
    BY <2>1, <2>2
  <2> QED BY <2>1, <2>3 DEF Plus
<1>4. /\ \A d \in Nodes : d # s => ver'[d] = ver[d]
      /\ ver'[s] = ver[s] + 1
  BY <1>1, <1>2, <1>3
<1>5. ver[s] <= ver'[s] /\ ver[s] < ver'[s]
  BY <1>3, <1>4
<1>6. ASSUME NEW x \in Watching, NEW j \in 1 .. Len(deps[x]), deps[x][j] = s
      PROVE  x \in Pending'
  <2>1. PICK k \in 1 .. Len(subs[s]) : subs[s][k] = x
    <3>1. x \in Watching \ Settling
      BY <1>2
    <3>2. \E k \in 1 .. Len(subs[deps[x][j]]) : subs[deps[x][j]][k] = x
      BY <3>1, Parts DEF Linked
    <3> QED BY <1>6, <3>2
  <2>2. WillMark(f, x) /\ x \in Derived
    BY <1>2, <2>1, GraphFacts DEF WillMark
  <2>3. WillMark(f, x)'
    BY <1>1, <2>2 DEF WillMark
  <2>4. x \in Roots'
    BY <1>1, <1>2, <2>2, <2>3, RootsNext
  <2>5. (Roots \subseteq Pending)'
    BY RootsPending, PTL
  <2> QED BY <2>4, <2>5
<1>7. Settling \subseteq Settling'
  BY <1>2
<1> QED BY <1>1, <1>2, <1>4, <1>5, <1>6, <1>7, Written
-----------------------------------------------------------------------------
(* An evaluation that has collected all. *)

(* What is evaluated subscribes, and nothing settles meanwhile. *)
LEMMA Evaluated ==
  ASSUME IInv, UInv, ~Resting, Evals(Tip)
  PROVE  /\ Tip \in FrameSet /\ Tip.op = "value" /\ Formed(Tip, made, deps)
         /\ Tip.cell \in made \cap Derived /\ Tip.cell \in Watching
         /\ ~Settles(Tip) /\ ~Early(Tip) /\ Settling = {}
         /\ \A f \in Ongoing(Mine) : ~Early(f)
         /\ Ongoing(Mine) = Below(Mine) \cup {Tip}
<1>1. /\ Tip \in FrameSet /\ Formed(Tip, made, deps)
      /\ Ongoing(Mine) = Below(Mine) \cup {Tip}
      /\ Tip = Mine[Len(Mine)] /\ Len(Mine) \in Nat \ {0}
  BY StackNow
<1>2. Tip.op = "value" /\ Tip.cell \in made \cap Derived
  BY <1>1 DEF Evals, Formed
<1>3. ~Settles(Tip) /\ ~Early(Tip)
  BY <1>2 DEF Settles, Early
<1>4. Tip.cell \in Effects => Tip.cell \in active
  <2>1. Len(Mine) \in 1 .. Len(Mine)
    BY <1>1
  <2>2. Good(Tip, active, subs, deps, inEffect)
    BY <1>1, <2>1 DEF IInv, Sole, AInv, CallsFit, Fits, Mine
  <2> QED BY <1>2, <2>2 DEF Good
<1>5. Tip.cell \in Watching
  BY <1>2, <1>4 DEF Watching, Derived
<1>6. Settling = {}
  BY <1>1, <1>3, Parts, NoPull, CallsNow
<1>7. \A f \in Ongoing(Mine) : ~Early(f)
  BY <1>3, NotEarly
<1> QED BY <1>1, <1>2, <1>3, <1>5, <1>6, <1>7

LEMMA Gathering ==
  ASSUME IInv, UInv, ~Resting, Evals(Tip), Tip.arg > Len(deps[Tip.cell])
  PROVE  /\ Tip \in FrameSet /\ Tip.op = "value"
         /\ Tip.cell \in made \cap Derived /\ Tip.cell \in Watching
         /\ Tip.sum = Total(Tip.cell)
         /\ \A j \in 1 .. Len(deps[Tip.cell]) :
              Ready(deps[Tip.cell][j]) /\ deps[Tip.cell][j] # Tip.cell
         /\ Tip.args = Vals(deps[Tip.cell])
<1> DEFINE c == Tip.cell
<1>2. /\ Tip \in FrameSet /\ Formed(Tip, made, deps) /\ Tip.op = "value"
      /\ c \in made \cap Derived /\ c \in Watching
      /\ Ongoing(Mine) = Below(Mine) \cup {Tip}
  BY Evaluated
<1>3. Len(deps[c]) \in Nat /\ DOMAIN deps[c] = 1 .. Len(deps[c])
  BY <1>2, GraphFacts
<1>4. Tip.arg - 1 = Len(deps[c]) /\ Len(Tip.args) = Len(deps[c])
  BY <1>2, <1>3 DEF Formed, FrameSet
<1>5. Collects(Tip)
  BY <1>2, Parts, CallsNow DEF Prepared
<1>6. /\ Tip.sum = Total(c)
      /\ \A j \in 1 .. Len(deps[c]) :
           Ready(deps[c][j]) /\ Tip.args[j] = val[deps[c][j]]
  BY <1>4, <1>5 DEF Collects, Total
<1>7. \A j \in 1 .. Len(deps[c]) : deps[c][j] # c
  BY Lower
<1>8. Tip.args = Vals(deps[c])
  <2>1. Tip.args \in Seq(Values)
    BY <1>2 DEF FrameSet
  <2>2. Tip.args \in [1 .. Len(deps[c]) -> Values]
    BY <1>4, <2>1
  <2> QED BY <1>3, <1>6, <2>2 DEF Vals
<1> QED BY <1>2, <1>6, <1>7, <1>8

(* It returns, or calls back. *)
LEMMA Finishing ==
  ASSUME IInv, UInv, ~Resting, Evals(Tip),
         UNCHANGED <<made, deps, fn, subs>>, active' = active,
         isDirty' = isDirty, NEW G, \A f \in G : ~Evals(f) /\ ~Early(f),
         Ongoing(Mine') = Below(Mine) \cup G
  PROVE  /\ Pulling = Pulling' \cup {Tip.cell} /\ Tip.cell \notin Pulling'
         /\ Pending \subseteq Pending' /\ Settling = {}
         /\ \A d : Ready(d) => Ready(d)'
         /\ \A f \in Ongoing(Mine') : (Evals(f) => Collects(f)) /\ ~Early(f)
<1>1. /\ Tip.cell \in Derived /\ Ongoing(Mine) = Below(Mine) \cup {Tip}
      /\ Settling = {} /\ \A f \in Ongoing(Mine) : ~Early(f)
  BY Evaluated
<1>2. \A f \in Ongoing(Mine') : Evals(f) <=> f \in Below(Mine) /\ Evals(f)
  OBVIOUS
<1>3. Pulling = Pulling' \cup {Tip.cell}
  BY <1>1, <1>2, PullingNow, CallsNow DEF Pulls
<1>4. Tip.cell \notin Pulling'
  BY <1>1, <1>2, Lower, PullingNow DEF Pulls
<1>5. \A d : Ready(d) => Ready(d)'
  BY <1>3 DEF Ready, Stale
<1>6. \A f \in Ongoing(Mine') : (Evals(f) => Collects(f)) /\ ~Early(f)
  BY <1>1, <1>2, Parts, CallsNow DEF Prepared
<1>7. /\ subs' = subs
      /\ \A U \in SUBSET Derived : Spreads(U)' <=> Spreads(U)
  BY <1>1, GraphOn
<1>8. Roots \subseteq Roots'
  <2>1. \A f \in Ongoing(Mine) : \A x \in Derived :
          WillMark(f, x) => \/ x \in {}
                            \/ \E g \in Ongoing(Mine') : WillMark(g, x)
    BY <1>1 DEF WillMark, Evals
  <2>2. PICK Y : Y = {}
    OBVIOUS
  <2>3. Roots \subseteq Roots' \cup Y
    BY <1>7, <2>1, <2>2, RootsStay
  <2> QED BY <2>2, <2>3
<1>9. Pending \subseteq Pending'
  BY <1>7, <1>8, PendingGrows
<1> QED BY <1>1, <1>3, <1>4, <1>5, <1>6, <1>9

(* The evaluation on top returns. *)
LEMMA Returning ==
  ASSUME IInv, UInv, Collected(Me),
         UNCHANGED <<made, deps, fn, subs>>, active' = active,
         isDirty' = isDirty, stack' = Popped(Me)
  PROVE  /\ ~Resting /\ Evals(Tip) /\ Tip.arg > Len(deps[Tip.cell])
         /\ InShape' /\ Ongoing(Mine') = Below(Mine)
         /\ Pulling = Pulling' \cup {Tip.cell} /\ Tip.cell \notin Pulling'
         /\ Pending \subseteq Pending' /\ Settling \subseteq Settling'
         /\ \A d : Ready(d) => Ready(d)'
         /\ \A f \in Ongoing(Mine') : (Evals(f) => Collects(f)) /\ ~Early(f)
<1>1. ~Resting /\ Evals(Tip) /\ Tip.arg > Len(deps[Tip.cell])
  BY IsTip DEF Collected, Evals, Tip
<1>2. Mine' = Less
  BY MineNext
<1>3. InShape' /\ Ongoing(Mine') = Below(Mine)
  BY <1>1, <1>2, Parts, PopOn
<1>4. PICK G : G = {}
  OBVIOUS
<1>5. (\A f \in G : ~Evals(f) /\ ~Early(f)) /\ Ongoing(Mine') = Below(Mine) \cup G
  BY <1>3, <1>4
<1>6. /\ Pulling = Pulling' \cup {Tip.cell} /\ Tip.cell \notin Pulling'
      /\ Pending \subseteq Pending' /\ Settling = {}
      /\ \A d : Ready(d) => Ready(d)'
      /\ \A f \in Ongoing(Mine') : (Evals(f) => Collects(f)) /\ ~Early(f)
  BY <1>1, <1>5, Finishing
<1> QED BY <1>1, <1>3, <1>6

(* A sum that has not changed belongs to the values of the last call.      *)
LEMMA PullSkipFresh ==
  ASSUME IInv, UInv, PullSkip(Me)
  PROVE  UInv'
<1>c. PICK c : c = Tip.cell
  OBVIOUS
<1>1. /\ Collected(Me) /\ Tip.sum = vsum[c]
      /\ UNCHANGED <<val, ver, isDirty, vsum, active, seen>>
      /\ UNCHANGED <<made, deps, fn, subs>> /\ stack' = Popped(Me)
  BY <1>c DEF PullSkip, Tip, graphVars, dataVars, histVars
<1>r. /\ ~Resting /\ Evals(Tip) /\ Tip.arg > Len(deps[c])
      /\ InShape' /\ Ongoing(Mine') = Below(Mine) /\ Settling \subseteq Settling'
      /\ Pulling = Pulling' \cup {c} /\ c \notin Pulling'
      /\ Pending \subseteq Pending'
      /\ \A d : Ready(d) => Ready(d)'
      /\ \A f \in Ongoing(Mine') : (Evals(f) => Collects(f)) /\ ~Early(f)
  BY <1>c, <1>1, Returning
<1>2. /\ c \in made \cap Derived /\ c \in Watching /\ Tip.sum = Total(c)
      /\ \A j \in 1 .. Len(deps[c]) : Ready(deps[c][j])
  BY <1>c, <1>r, Gathering
<1>5. /\ \A ds : Vals(ds)' = Vals(ds)
      /\ \A x : /\ DepMeanings(x)' = DepMeanings(x)
                /\ Agrees(x)' <=> Agrees(x)
                /\ Total(x)' = Total(x)
      /\ Positive' /\ Linked' /\ Watching' = Watching
  BY <1>1, <1>r, Steady, GraphOn
<1>6. SumsTell' /\ Blank'
  BY <1>1, <1>5, Parts DEF SumsTell, Blank
<1>7. Agrees(c)
  BY <1>1, <1>2, Parts DEF SumsTell
<1>8. Gathered'
  <2> SUFFICES ASSUME NEW f \in Ongoing(Mine'), Evals(f) PROVE Collects(f)'
    BY <1>r, GatheredNext
  <2> QED BY <1>1, <1>r, CollectsOn
<1>9. Fresh'
  <2> SUFFICES ASSUME NEW x \in made \cap Computeds PROVE FreshAt(x)'
    BY <1>1 DEF Fresh, FreshAt
  <2>1. FreshAt(x)
    BY Parts DEF Fresh
  <2>2. \A j \in 1 .. Len(deps[x]) : Ready(deps[x][j]) => Ready(deps[x][j])'
    <3> TAKE j \in 1 .. Len(deps[x])
    <3>1. PICK d : d = deps[x][j]
      OBVIOUS
    <3>2. Ready(d) => Ready(d)'
      BY <1>r
    <3> QED BY <1>1, <3>1, <3>2 DEF Ready, Stale
  <2>3. CASE x = c
    <3>1. Agrees(x)'
      BY <1>5, <1>7, <2>3
    <3>2. \A j \in 1 .. Len(deps[x]) : Ready(deps[x][j])'
      BY <1>2, <2>2, <2>3
    <3> QED BY <1>1, <3>1, <3>2 DEF FreshAt
  <2>4. CASE x # c
    BY <1>1, <1>r, <1>5, <2>1, <2>2, <2>4 DEF FreshAt
  <2> QED BY <2>3, <2>4
<1>10. Told'
  <2> SUFFICES ASSUME NEW e \in active PROVE ToldAt(e)'
    BY <1>1 DEF Told, ToldAt
  <2>1. ToldAt(e)
    BY Parts DEF Told
  <2>2. CASE e = c
    <3> SUFFICES ASSUME e \notin Pending
                 PROVE  seen[e] = DepMeanings(e)
      BY <1>1, <1>r, <1>5 DEF ToldAt
    <3>2. Vals(deps[c]) = DepMeanings(c)
      BY <1>2, <2>2, CurrentArgs
    <3> QED BY <1>7, <2>2, <3>2 DEF Agrees
  <2>3. CASE e # c
    BY <1>1, <1>r, <1>5, <2>1, <2>3 DEF ToldAt
  <2> QED BY <2>2, <2>3
<1> QED BY <1>r, <1>5, <1>6, <1>8, <1>9, <1>10 DEF UInv, CallsSet, DataFit

LEMMA SumsKept ==
  ASSUME IInv, IInv', NEW x \in made \cap Derived, NEW m \in 0 .. Len(deps[x]),
         \A j \in 1 .. m : ver'[deps[x][j]] = ver[deps[x][j]]
  PROVE  /\ Sums(deps[x], ver)[m] \in Nat
         /\ Sums(deps[x], ver)[m] = Sums(deps[x], ver')[m]
<1>1. PICK ds \in Seq(Nodes) : ds = deps[x]
  BY GraphFacts
<1>2. PICK vs \in [Nodes -> Nat] : vs = ver
  BY GraphFacts
<1>3. PICK ws \in [Nodes -> Nat] : ws = ver'
  BY DEF IInv, TInv, DataType
<1>4. m \in 0 .. Len(ds) /\ \A j \in 1 .. m : vs[ds[j]] = ws[ds[j]]
  BY <1>1, <1>2, <1>3
<1>5. Sums(ds, vs)[m] = Sums(ds, ws)[m]
  BY <1>4, SumsSame
<1>6. Sums(ds, vs) \in [0 .. Len(ds) -> Nat]
  BY SumsUnfold
<1>7. Sums(ds, vs)[m] \in Nat
  BY <1>4, <1>6
<1> QED BY <1>1, <1>2, <1>3, <1>5, <1>7

(* The getter is pure, and its version tells whether the value changes. *)
LEMMA PullGetFresh ==
  ASSUME IInv, IInv', UInv, Unwrapped, PullGet(Me)
  PROVE  UInv'
<1> DEFINE v == Apply(fn[Tip.cell], Tip.args)
<1>1. PICK c : c = Tip.cell
  OBVIOUS
<1>2. /\ Collected(Me) /\ c \in Computeds
      /\ UNCHANGED <<isDirty, active, made, deps, fn, subs>>
      /\ val' = [val EXCEPT ![c] = v]
      /\ ver' = IF v = val[c] THEN ver ELSE [ver EXCEPT ![c] = Plus(@, 1)]
      /\ vsum' = [vsum EXCEPT ![c] = Tip.sum] /\ stack' = Popped(Me)
      /\ seen' = [seen EXCEPT ![c] = Tip.args]
  BY <1>1 DEF PullGet, Calling, Noted, Tip, graphVars
<1>6. /\ ~Resting /\ Evals(Tip) /\ Tip.arg > Len(deps[c])
      /\ InShape' /\ Ongoing(Mine') = Below(Mine) /\ Settling \subseteq Settling'
      /\ Pulling = Pulling' \cup {c} /\ c \notin Pulling'
      /\ Pending \subseteq Pending'
      /\ \A d : Ready(d) => Ready(d)'
      /\ \A f \in Ongoing(Mine') : (Evals(f) => Collects(f)) /\ ~Early(f)
  BY <1>1, <1>2, Returning
<1>3. /\ c \in made \cap Derived /\ Tip.sum = Total(c) /\ c \in Watching
      /\ \A j \in 1 .. Len(deps[c]) : Ready(deps[c][j]) /\ deps[c][j] # c
      /\ Tip.args = Vals(deps[c]) /\ v = Apply(fn[c], Vals(deps[c]))
  BY <1>1, <1>6, Gathering
<1> HIDE DEF v
<1>4. /\ c \in Nodes /\ c \notin Signals /\ c \notin Effects
      /\ val \in [Nodes -> Values] /\ ver \in [Nodes -> Nat]
      /\ vsum \in [Derived -> 0 .. (VersionModulus - 1)]
      /\ isDirty \in [Computeds -> BOOLEAN] /\ seen \in [Derived -> Seq(Values)]
  BY <1>2, Kinds, GraphFacts DEF Nodes, IInv, TInv, DataType, HistType
<1>7. Linked' /\ Watching' = Watching
  BY <1>2, <1>6, GraphOn
<1>9. Plus(ver[c], 1) = ver[c] + 1
  <2>1. ver[c] \in Nat /\ ver[c] + 1 < VersionModulus /\ VersionModulus \in Nat \ {0}
    BY <1>4, BoundsAssumption DEF Unwrapped
  <2>2. (ver[c] + 1) % VersionModulus = ver[c] + 1
    BY <2>1
  <2> QED BY <2>2 DEF Plus
<1>10. /\ \A d \in Nodes : d # c => val'[d] = val[d] /\ ver'[d] = ver[d]
       /\ val'[c] = v /\ (val'[c] # val[c] => ver'[c] = ver[c] + 1)
       /\ (val'[c] = val[c] => ver'[c] = ver[c])
  BY <1>2, <1>4, <1>9
<1>11. \A d \in Nodes : /\ ver[d] <= ver'[d]
                        /\ val'[d] # val[d] => ver[d] < ver'[d]
  <2> TAKE d \in Nodes
  <2>1. ver[d] \in Nat
    BY <1>4
  <2> QED BY <1>10, <2>1
<1>12. Positive'
  <2> SUFFICES ASSUME NEW d \in Nodes PROVE ver'[d] >= 1
    BY DEF Positive
  <2>1. ver[d] \in Nat /\ ver[d] >= 1 /\ (ver'[d] = ver[d] \/ ver'[d] = ver[d] + 1)
    BY <1>4, <1>10, Parts DEF Positive
  <2> QED BY <2>1
<1>13. Blank'
  <2> SUFFICES ASSUME NEW x \in Derived \ made
               PROVE  /\ deps'[x] = <<>> /\ vsum'[x] = 0
                      /\ x \in Computeds => isDirty'[x]
    BY <1>2 DEF Blank
  <2>1. x # c
    BY <1>3
  <2> QED BY <1>2, <1>4, <2>1, Parts DEF Blank
<1>14. ASSUME NEW x \in made \cap Derived, \A j \in 1 .. Len(deps[x]) : deps[x][j] # c
       PROVE  Vals(deps[x])' = Vals(deps[x])
  <2>1. /\ DOMAIN deps[x] = 1 .. Len(deps[x])
        /\ \A j \in 1 .. Len(deps[x]) : deps[x][j] \in Nodes
    BY GraphFacts
  <2> QED BY <1>2, <1>10, <1>14, <2>1 DEF Vals
<1>15. Agrees(c)'
  BY <1>2, <1>3, <1>4, <1>10, <1>14 DEF Agrees
<1>16. Total(c)' = Total(c) /\ Total(c) \in Nat
  <2>1. /\ deps[c] \in Seq(Nodes) /\ Len(deps[c]) \in Nat
        /\ \A j \in 1 .. Len(deps[c]) : deps[c][j] \in Nodes
    BY <1>3, GraphFacts
  <2>2. \A j \in 1 .. Len(deps[c]) : ver'[deps[c][j]] = ver[deps[c][j]]
    BY <1>3, <1>10, <2>1
  <2>3. PICK m \in 0 .. Len(deps[c]) : m = Len(deps[c])
    BY <2>1
  <2>4. /\ Sums(deps[c], ver)[m] \in Nat
        /\ Sums(deps[c], ver)[m] = Sums(deps[c], ver')[m]
    BY <1>3, <2>2, <2>3, SumsKept
  <2> QED BY <1>2, <2>3, <2>4 DEF Total
<1>8. \A x \in Derived : x # c => seen'[x] = seen[x] /\ vsum'[x] = vsum[x]
  BY <1>2, <1>4
<1>17. SumsTell'
  <2> SUFFICES ASSUME NEW x \in Watching
               PROVE  /\ vsum'[x] <= Total(x)'
                      /\ vsum'[x] = Total(x)' => Agrees(x)'
    BY <1>7 DEF SumsTell
  <2>1. CASE x = c
    <3>1. vsum'[c] = Total(c)' /\ Total(c)' \in Nat
      BY <1>2, <1>3, <1>4, <1>16
    <3> QED BY <1>15, <2>1, <3>1
  <2>2. CASE x # c
    <3>0. x \in Derived /\ \A j \in 1 .. Len(deps[x]) : deps[x][j] \in Nodes
      BY GraphFacts
    <3>1. /\ vsum'[x] = vsum[x] /\ seen'[x] = seen[x]
          /\ x \in Computeds => val'[x] = val[x]
      BY <1>8, <1>10, <2>2, <3>0 DEF Nodes
    <3>3. \A j \in 1 .. Len(deps[x]) :
            val'[deps[x][j]] # val[deps[x][j]] => ver[deps[x][j]] < ver'[deps[x][j]]
      BY <1>11, <3>0
    <3> QED BY <1>2, <1>11, <3>1, <3>3, Parts, TellOn
  <2> QED BY <2>1, <2>2
<1>18. Fresh'
  <2> SUFFICES ASSUME NEW x \in made \cap Computeds PROVE FreshAt(x)'
    BY <1>2 DEF Fresh, FreshAt
  <2>1. FreshAt(x) /\ x \in made \cap Derived /\ x \in Nodes
    BY Parts DEF Fresh, Derived, Nodes
  <2>2. \A j \in 1 .. Len(deps[x]) : Ready(deps[x][j]) => Ready(deps[x][j])'
    <3> TAKE j \in 1 .. Len(deps[x])
    <3>1. PICK d : d = deps[x][j]
      OBVIOUS
    <3>2. Ready(d) => Ready(d)'
      BY <1>6
    <3> QED BY <1>2, <3>1, <3>2 DEF Ready, Stale
  <2>3. CASE x = c
    <3>1. \A j \in 1 .. Len(deps[x]) : Ready(deps[x][j])'
      BY <1>3, <2>2, <2>3
    <3>2. Agrees(x)'
      BY <1>15, <2>3
    <3> QED BY <1>2, <3>1, <3>2 DEF FreshAt
  <2>4. CASE x # c /\ Agrees(x) /\ \A j \in 1 .. Len(deps[x]) : Ready(deps[x][j])
    <3>1. \A j \in 1 .. Len(deps[x]) : deps[x][j] # c
      BY <1>6, <2>4 DEF Ready
    <3>2. Agrees(x)'
      BY <1>2, <1>8, <1>10, <1>14, <2>1, <2>4, <3>1 DEF Agrees
    <3> QED BY <1>2, <2>2, <2>4, <3>2 DEF FreshAt
  <2>5. CASE x # c /\ ~(Agrees(x) /\ \A j \in 1 .. Len(deps[x]) : Ready(deps[x][j]))
    BY <1>2, <1>6, <2>1, <2>5 DEF FreshAt
  <2> QED BY <2>3, <2>4, <2>5
<1>19. Told'
  <2> SUFFICES ASSUME NEW e \in active PROVE ToldAt(e)'
    BY <1>2 DEF Told, ToldAt
  <2>1. ToldAt(e) /\ e \in made \cap Derived /\ e # c
    BY <1>4, Parts DEF Told, IInv, TInv, HistType, Derived
  <2>2. \A s \in made \cap Signals : s \in {} \/ val'[s] = val[s]
    BY <1>4, <1>10 DEF Nodes
  <2>3. \A x \in made \cap Derived :
          (\E j \in 1 .. Len(deps[x]) : deps[x][j] \in {}) => x \in {}
    OBVIOUS
  <2>4. Ordered /\ Blank /\ Ordered' /\ made \subseteq made'
        /\ (\A x \in made \cap Derived : deps'[x] = deps[x])
        /\ (\A x \in made \cap Computeds : fn'[x] = fn[x])
    BY <1>2, <1>6, Parts DEF InShape
  <2>5. PICK X : X = {}
    OBVIOUS
  <2>6. \A x \in made \cap Derived : x \in X \/ DepMeanings(x)' = DepMeanings(x)
    <3>1. (\A s \in made \cap Signals : s \in X \/ val'[s] = val[s])
          /\ (\A x \in made \cap Derived :
                (\E j \in 1 .. Len(deps[x]) : deps[x][j] \in X) => x \in X)
      BY <2>2, <2>3, <2>5
    <3> QED BY <1>13, <2>4, <3>1, MeaningSame
  <2>7. DepMeanings(e)' = DepMeanings(e)
    BY <2>1, <2>5, <2>6
  <2> QED BY <1>2, <1>6, <1>8, <2>1, <2>7 DEF ToldAt
<1>20. Gathered'
  <2> SUFFICES ASSUME NEW f \in Ongoing(Mine'), Evals(f) PROVE Collects(f)'
    BY <1>6, GatheredNext
  <2>1. Collects(f) /\ f \in FrameSet /\ Formed(f, made, deps)
    BY <1>6, StackNow
  <2>2. PICK x : x = f.cell
    OBVIOUS
  <2>3. x \in made \cap Derived /\ f.arg <= Len(deps[x]) + 1
    BY <2>1, <2>2 DEF Formed, Evals
  <2>4. deps[x] \in Seq(Nodes) /\ Len(deps[x]) \in Nat
        /\ \A j \in 1 .. Len(deps[x]) : deps[x][j] \in Nodes
    BY <2>3, GraphFacts
  <2>5. f.arg - 1 \in 0 .. Len(deps[x])
    BY <2>1, <2>3, <2>4 DEF FrameSet
  <2>6. \A j \in 1 .. (f.arg - 1) :
          /\ Ready(deps[x][j]) /\ deps[x][j] # c /\ j \in 1 .. Len(deps[x])
          /\ f.args[j] = val[deps[x][j]]
    BY <1>6, <2>1, <2>2, <2>4, <2>5 DEF Collects, Ready
  <2>7. \A j \in 1 .. (f.arg - 1) : /\ val'[deps[x][j]] = val[deps[x][j]]
                                    /\ ver'[deps[x][j]] = ver[deps[x][j]]
    BY <1>10, <2>4, <2>6
  <2>10. f.sum = Sums(deps[x], ver')[f.arg - 1]
    <3>1. PICK m \in 0 .. Len(deps[x]) : m = f.arg - 1
      BY <2>5
    <3>2. \A j \in 1 .. m : ver'[deps[x][j]] = ver[deps[x][j]]
      BY <2>7, <3>1
    <3>3. Sums(deps[x], ver)[m] = Sums(deps[x], ver')[m]
      BY <2>3, <3>2, SumsKept
    <3> QED BY <2>1, <2>2, <3>1, <3>3 DEF Collects
  <2>11. \A j \in 1 .. (f.arg - 1) : Ready(deps[x][j])'
    <3> TAKE j \in 1 .. (f.arg - 1)
    <3>1. PICK d : d = deps[x][j]
      OBVIOUS
    <3>2. Ready(d)'
      BY <1>6, <2>6, <3>1
    <3> QED BY <1>2, <3>1, <3>2 DEF Ready, Stale
  <2> QED BY <1>2, <2>2, <2>6, <2>7, <2>10, <2>11 DEF Collects
<1> QED BY <1>6, <1>7, <1>12, <1>13, <1>17, <1>18, <1>19, <1>20
        DEF UInv, CallsSet, DataFit

(* The callback of an effect gets what its dependencies mean. *)
LEMMA RunFresh ==
  ASSUME IInv, IInv', UInv, ~Resting, Evals(Tip),
         Tip.arg > Len(deps[Tip.cell]), Goto(Me, "call"),
         UNCHANGED <<made, deps, fn, subs>>, UNCHANGED <<val, ver, isDirty, active>>,
         Tip.cell \in Effects, seen' = [seen EXCEPT ![Tip.cell] = Tip.args],
         NEW w, w \in {Tip.sum, vsum[Tip.cell]},
         vsum' = [vsum EXCEPT ![Tip.cell] = w]
  PROVE  UInv'
<1>1. PICK c : c = Tip.cell
  OBVIOUS
<1>3. /\ Tip \in FrameSet /\ Tip.op = "value" /\ c \in Watching
      /\ c \in made \cap Derived /\ Tip.sum = Total(c)
      /\ \A j \in 1 .. Len(deps[c]) : Ready(deps[c][j])
      /\ Tip.args = Vals(deps[c])
  BY <1>1, Gathering
<1>4. /\ c \notin Nodes /\ c \notin Computeds
      /\ vsum \in [Derived -> 0 .. (VersionModulus - 1)]
      /\ seen \in [Derived -> Seq(Values)]
  BY <1>1, Kinds DEF Nodes, IInv, TInv, DataType, HistType
<1>f. PICK f : f = [Tip EXCEPT !.at = "call"]
  OBVIOUS
<1>5. /\ f \in FrameSet /\ f.op = "value" /\ f.cell = c /\ f.at = "call"
      /\ Mine' = Swapped(f)
  <2>1. "call" \in Ats
    BY DEF Ats
  <2>2. Mine' = Swapped(f)
    BY <1>f, MineNext DEF Goto, Tip
  <2> QED BY <1>f, <1>1, <1>3, <2>1, <2>2, GotoType
<1>s. ~Evals(f) /\ ~Early(f) /\ ~Settles(f) /\ Poised(f)
  BY <1>5 DEF Evals, Early, Settles, Poised
<1>6. \A g \in Below(Mine) : ~Evals(g)
  BY <1>1, <1>4, Parts, NoPull
<1>7. InShape' /\ Ongoing(Mine') = Below(Mine) \cup {f}
  BY <1>1, <1>5, <1>s, <1>6, Parts, TopOn
<1>8. /\ Pulling = Pulling' \cup {c} /\ Pending \subseteq Pending'
      /\ \A d : Ready(d) => Ready(d)'
      /\ \A g \in Ongoing(Mine') : (Evals(g) => Collects(g)) /\ ~Early(g)
      /\ Settling \subseteq Settling'
  <2>1. PICK G : G = {f}
    OBVIOUS
  <2>2. (\A g \in G : ~Evals(g) /\ ~Early(g)) /\ Ongoing(Mine') = Below(Mine) \cup G
    BY <1>s, <1>7, <2>1
  <2> QED BY <1>1, <2>2, Finishing
<1>9. Linked' /\ Watching' = Watching
  BY <1>8, GraphOn
<1>10. Meaning' = Meaning
  BY DEF Meaning
<1>11. /\ \A ds : Vals(ds)' = Vals(ds)
       /\ \A x : DepMeanings(x)' = DepMeanings(x) /\ Total(x)' = Total(x)
  BY <1>10 DEF Vals, DepMeanings, Total
<1>12. \A x \in Derived : x # c => vsum'[x] = vsum[x] /\ seen'[x] = seen[x]
  BY <1>1, <1>4
<1>13. Positive' /\ Blank'
  BY <1>3, <1>4, <1>12, Parts DEF Positive, Blank
<1>14. Agrees(c)' /\ seen'[c] = Vals(deps[c])
  BY <1>1, <1>3, <1>4, <1>11 DEF Agrees
<1>15. \A x \in Derived : x # c => (Agrees(x)' <=> Agrees(x))
  BY <1>11, <1>12 DEF Agrees
<1>16. Total(c) \in Nat
  BY <1>3, TotalGrows, GraphFacts
<1>17. SumsTell'
  <2> SUFFICES ASSUME NEW x \in Watching
               PROVE  /\ vsum'[x] <= Total(x)'
                      /\ vsum'[x] = Total(x)' => Agrees(x)'
    BY <1>9 DEF SumsTell
  <2>1. CASE x = c
    <3>1. vsum'[c] = w /\ Total(c)' = Total(c)
      BY <1>1, <1>3, <1>4, <1>11
    <3>2. w <= Total(c)
      BY <1>1, <1>3, <1>16, Parts DEF SumsTell
    <3> QED BY <1>14, <2>1, <3>1, <3>2
  <2>2. CASE x # c
    <3>1. x \in Derived
      BY GraphFacts
    <3> QED BY <1>11, <1>12, <1>15, <2>2, <3>1, Parts DEF SumsTell
  <2> QED BY <2>1, <2>2
<1>18. Fresh'
  <2> SUFFICES ASSUME NEW x \in made \cap Computeds PROVE FreshAt(x)'
    BY DEF Fresh, FreshAt
  <2>1. FreshAt(x) /\ x # c /\ x \in Derived
    BY <1>4, Parts DEF Fresh, Derived
  <2>2. \A j \in 1 .. Len(deps[x]) : Ready(deps[x][j]) => Ready(deps[x][j])'
    <3> TAKE j \in 1 .. Len(deps[x])
    <3>1. PICK d : d = deps[x][j]
      OBVIOUS
    <3>2. Ready(d) => Ready(d)'
      BY <1>8
    <3> QED BY <3>1, <3>2 DEF Ready, Stale
  <2>3. x \in Pulling => x \in Pulling'
    BY <1>8, <2>1
  <2> QED BY <1>8, <1>15, <2>1, <2>2, <2>3 DEF FreshAt
<1>19. Told'
  <2> SUFFICES ASSUME NEW e \in active PROVE ToldAt(e)'
    BY DEF Told, ToldAt
  <2>1. CASE e = c
    <3> SUFFICES ASSUME c \notin Pending
                 PROVE  seen'[c] = DepMeanings(c)
      BY <1>8, <1>11, <2>1 DEF ToldAt
    <3>2. Vals(deps[c]) = DepMeanings(c)
      BY <1>3, CurrentArgs
    <3> QED BY <1>14, <3>2
  <2>2. CASE e # c
    <3>1. e \in Derived
      BY DEF IInv, TInv, HistType, Derived
    <3> QED BY <1>8, <1>11, <1>12, <2>2, <3>1, Parts DEF Told, ToldAt
  <2> QED BY <2>1, <2>2
<1>20. Gathered'
  <2>1. \A g \in Ongoing(Mine') : ~Evals(g)
    BY <1>6, <1>7, <1>s
  <2> QED BY <1>8, <2>1, GatheredNext
<1> QED BY <1>7, <1>9, <1>13, <1>17, <1>18, <1>19, <1>20
        DEF UInv, CallsSet, DataFit

LEMMA PullRunFresh ==
  ASSUME IInv, IInv', UInv, PullRun(Me)
  PROVE  UInv'
<1>1. /\ ~Resting /\ Evals(Tip) /\ Tip.arg > Len(deps[Tip.cell])
      /\ Tip.cell \in Effects
  BY IsTip DEF PullRun, Calling, Collected, Evals, Tip
<1>2. /\ Goto(Me, "call") /\ UNCHANGED <<made, deps, fn, subs>>
      /\ UNCHANGED <<val, ver, isDirty, active>>
      /\ seen' = [seen EXCEPT ![Tip.cell] = Tip.args]
      /\ vsum' = [vsum EXCEPT ![Tip.cell] = Tip.sum]
  BY DEF PullRun, Noted, Tip, graphVars
<1> QED BY <1>1, <1>2, RunFresh

(* The first call stores no sum: the effect keeps 0, which is too small.   *)
LEMMA FirstRunFresh ==
  ASSUME IInv, IInv', UInv, FirstRun(Me)
  PROVE  UInv'
<1>1. /\ ~Resting /\ Evals(Tip) /\ Tip.arg > Len(deps[Tip.cell]) /\ Tip.at = "first"
  BY IsTip DEF FirstRun, Evals, Tip
<1>2. Formed(Tip, made, deps)
  BY <1>1, StackNow
<1>3. Tip.cell \in Effects /\ Tip.cell \in Derived
  BY <1>1, <1>2 DEF Formed, Derived
<1>4. /\ Goto(Me, "call") /\ UNCHANGED <<made, deps, fn, subs>>
      /\ UNCHANGED <<val, ver, isDirty, active>> /\ vsum' = vsum
      /\ seen' = [seen EXCEPT ![Tip.cell] = Tip.args]
  BY DEF FirstRun, Noted, Tip, graphVars, dataVars
<1>5. vsum' = [vsum EXCEPT ![Tip.cell] = vsum[Tip.cell]]
  <2>1. vsum \in [Derived -> 0 .. (VersionModulus - 1)]
    BY DEF IInv, TInv, DataType
  <2> QED BY <1>3, <1>4, <2>1
<1> QED BY <1>1, <1>3, <1>4, <1>5, RunFresh
-----------------------------------------------------------------------------
(* The graph grows. *)

(* A sum of versions is not zero. *)
LEMMA TotalSome ==
  ASSUME IInv, Positive, NEW c \in made \cap Derived
  PROVE  Total(c) \in Nat /\ Total(c) >= 1
<1>1. PICK ds \in Seq(Nodes) : ds = deps[c]
  BY GraphFacts
<1>2. Len(ds) \in Nat /\ ds # <<>>
  <2>1. deps[c] \in Wirings
    BY DEF IInv, TInv, Wired
  <2> QED BY <1>1, <2>1, DataAssumption, LenProperties DEF DataAssumption
<1>3. 1 \in 1 .. Len(ds) /\ 1 \in 0 .. Len(ds) /\ Len(ds) \in 0 .. Len(ds)
  BY <1>2, Last
<1>4. ver \in [Nodes -> Nat] /\ ds[1] \in Nodes
  BY <1>1, <1>3, GraphFacts
<1>5. PICK S : S = Sums(ds, ver)
  OBVIOUS
<1>6. S[0] = 0 /\ S \in [0 .. Len(ds) -> Nat] /\ S[1] = S[1 - 1] + ver[ds[1]]
  BY <1>3, <1>4, <1>5, SumsUnfold
<1>7. S[1] <= S[Len(ds)]
  BY <1>3, <1>4, <1>5, SumsParts
<1>8. ver[ds[1]] >= 1 /\ ver[ds[1]] \in Nat
  BY <1>4 DEF Positive
<1>9. S[1] \in Nat /\ S[Len(ds)] \in Nat /\ S[1] = ver[ds[1]]
  BY <1>3, <1>6, <1>8
<1>10. S[Len(ds)] >= 1 /\ S[Len(ds)] \in Nat
  BY <1>7, <1>8, <1>9
<1>11. Total(c) = S[Len(ds)]
  BY <1>1, <1>5 DEF Total
<1> QED BY <1>10, <1>11

TotalsSome ==
  \A c \in made \cap Derived : Total(c) \in Nat /\ Total(c) >= 1
LEMMA TotalsAreSome == IInv /\ Positive => TotalsSome
BY TotalSome DEF TotalsSome

(* Between the calls a cell is created: what there was means the same, and *)
(* nothing depends on the new one yet.                                     *)
LEMMA Grown ==
  ASSUME IInv, IInv', UInv, Resting, NEW c \in Cells, c \notin made,
         made' = made \cup {c},
         \A x \in Derived \ {c} : deps'[x] = deps[x],
         \A x \in Computeds \ {c} : fn'[x] = fn[x],
         \A x \in Nodes \ {c} : val'[x] = val[x],
         UNCHANGED <<subs, ver, isDirty, vsum, active, seen>>,
         InShape', Gathered', Pulling' = {}, c \in Computeds => c \in Settling'
  PROVE  UInv'
<1>1. Ongoing(Mine) = {}
  BY StackNow
<1>2. Pulling = {} /\ Pending = {} /\ Settling = {}
  BY <1>1, CallsNow, PendingNone
<1>3. \A x \in made \cap Derived :
        /\ deps'[x] = deps[x] /\ DOMAIN deps[x] = 1 .. Len(deps[x])
        /\ \A j \in 1 .. Len(deps[x]) :
             deps[x][j] \in made \cap Nodes /\ val'[deps[x][j]] = val[deps[x][j]]
  BY GraphFacts
<1>4. Watching \subseteq Watching' /\ Watching' \subseteq Watching \cup {c}
      /\ Watching \subseteq made \cap Derived /\ (c \in Watching' => c \in Settling')
  <2>1. c \notin active
    BY DEF IInv, TInv, HistType
  <2> QED BY <2>1, GraphFacts DEF Watching
<1>5. Linked'
  <2> SUFFICES ASSUME NEW x \in Watching, NEW j \in 1 .. Len(deps'[x]), x # c
               PROVE  \E k \in 1 .. Len(subs'[deps'[x][j]]) :
                        subs'[deps'[x][j]][k] = x
    BY <1>4 DEF Linked
  <2>1. PICK d : d = deps[x][j]
    OBVIOUS
  <2>2. deps'[x] = deps[x]
    BY <1>3, <1>4
  <2>3. \E k \in 1 .. Len(subs[d]) : subs[d][k] = x
    BY <1>2, <2>1, <2>2, Parts DEF Linked
  <2> QED BY <2>1, <2>2, <2>3
<1>6. Blank' /\ Positive'
  BY Parts DEF Blank, Positive
<1>7. \A x \in made \cap Derived : /\ Vals(deps[x])' = Vals(deps[x])
                                   /\ Total(x)' = Total(x)
  BY <1>3 DEF Vals, Total
<1>8. \A x \in made \cap Derived : Agrees(x)' <=> Agrees(x)
  <2> TAKE x \in made \cap Derived
  <2>1. x \in Computeds => val'[x] = val[x] /\ fn'[x] = fn[x]
    BY DEF Nodes
  <2> QED BY <1>7, <2>1 DEF Agrees
<1>9. \A x \in made \cap Derived : DepMeanings(x)' = DepMeanings(x)
  <2>1. PICK X : X = {}
    OBVIOUS
  <2>2. /\ \A r \in made \cap Signals : r \in X \/ val'[r] = val[r]
        /\ \A x \in made \cap Derived :
             (\E j \in 1 .. Len(deps[x]) : deps[x][j] \in X) => x \in X
    BY <2>1 DEF Nodes
  <2>3. Ordered /\ Blank /\ Ordered' /\ made \subseteq made'
        /\ (\A x \in made \cap Derived : deps'[x] = deps[x])
        /\ (\A x \in made \cap Computeds : fn'[x] = fn[x])
    BY <1>3, Parts DEF InShape
  <2>4. \A x \in made \cap Derived : x \in X \/ DepMeanings(x)' = DepMeanings(x)
    BY <1>6, <2>2, <2>3, MeaningSame
  <2> QED BY <2>1, <2>4
<1>10. SumsTell'
  <2> SUFFICES ASSUME NEW x \in Watching'
               PROVE  /\ vsum'[x] <= Total(x)'
                      /\ vsum'[x] = Total(x)' => Agrees(x)'
    BY DEF SumsTell
  <2>1. CASE x = c
    <3>1. (IInv /\ Positive)' => TotalsSome'
      BY TotalsAreSome, PTL
    <3>2. c \in Derived
      BY <1>4, <2>1, GraphFacts DEF Settling
    <3>3. Total(c)' \in Nat /\ Total(c)' >= 1
      BY <1>6, <3>1, <3>2 DEF TotalsSome
    <3>4. vsum'[c] = 0
      BY <3>2, Parts DEF Blank
    <3> QED BY <2>1, <3>3, <3>4
  <2>2. CASE x # c
    BY <1>4, <1>7, <1>8, <2>2, Parts DEF SumsTell
  <2> QED BY <2>1, <2>2
<1>11. \A d : Ready(d)' <=> Ready(d)
  BY <1>2 DEF Ready, Stale
<1>12. Fresh'
  <2> SUFFICES ASSUME NEW x \in made' \cap Computeds PROVE FreshAt(x)'
    BY DEF Fresh, FreshAt
  <2>1. CASE x = c
    <3>1. isDirty'[x]
      BY <2>1, Parts DEF Blank, Derived
    <3> QED BY <3>1 DEF FreshAt
  <2>2. CASE x # c
    <3>1. FreshAt(x) /\ x \in made \cap Derived
      BY <2>2, Parts DEF Fresh, Derived
    <3>2. \A j \in 1 .. Len(deps[x]) : Ready(deps[x][j]) => Ready(deps[x][j])'
      <4> TAKE j \in 1 .. Len(deps[x])
      <4>1. PICK d : d = deps[x][j]
        OBVIOUS
      <4>2. Ready(d) => Ready(d)'
        BY <1>11
      <4>3. deps'[x][j] = d
        BY <1>3, <3>1, <4>1
      <4> QED BY <4>1, <4>2, <4>3 DEF Ready, Stale
    <3> QED BY <1>2, <1>3, <1>8, <3>1, <3>2 DEF FreshAt
  <2> QED BY <2>1, <2>2
<1>13. Told'
  <2> SUFFICES ASSUME NEW e \in active PROVE ToldAt(e)'
    BY DEF Told, ToldAt
  <2>1. ToldAt(e) /\ e \in made \cap Derived
    BY Parts DEF Told, IInv, TInv, HistType, Derived
  <2> QED BY <1>2, <1>9, <2>1 DEF ToldAt
<1> QED BY <1>5, <1>6, <1>10, <1>12, <1>13 DEF UInv, CallsSet, DataFit

LEMMA SignalFresh ==
  ASSUME IInv, IInv', UInv, NEW s \in Signals, NEW v \in Values, Signal(Me, s, v)
  PROVE  UInv'
<1>1. /\ Resting /\ s \notin made /\ made' = made \cup {s}
      /\ val' = [val EXCEPT ![s] = v] /\ Mine' = Mine
      /\ UNCHANGED <<deps, fn, subs, ver, isDirty, vsum, active, seen>>
  <2>1. Resting /\ stack' = stack
    BY MineNext DEF Signal, IInv, Sole
  <2> QED BY <2>1, MineNext DEF Signal, histVars, Mine
<1>2. s \in Cells /\ s \notin Computeds /\ s \notin Derived
      /\ val \in [Nodes -> Values]
  BY Kinds DEF Cells, Derived, IInv, TInv, DataType
<1>3. Ongoing(Mine') = {}
  BY <1>1, StackNow
<1>4. Gathered' /\ Pulling' = {}
  BY <1>3, GatheredNext, PullingNow
<1>5. InShape'
  <2>1. PICK rank \in [Cells -> Nat], n \in Nat :
          RankedGraph(rank, n) /\ Shaped(rank, Mine)
    BY Parts, ShapeNow
  <2>2. Shaped(rank, Mine')
    BY <1>1, <2>1
  <2> QED BY <1>1, <2>1, <2>2, ShapeNext
<1>6. \A x \in Nodes \ {s} : val'[x] = val[x]
  BY <1>1, <1>2
<1>7. /\ \A x \in Derived \ {s} : deps'[x] = deps[x]
      /\ \A x \in Computeds \ {s} : fn'[x] = fn[x]
      /\ UNCHANGED <<subs, ver, isDirty, vsum, active, seen>>
  BY <1>1
<1> QED BY <1>1, <1>2, <1>4, <1>5, <1>6, <1>7, Grown

(* The new cell comes last in the order.                                   *)
LEMMA JoinedShape ==
  ASSUME IInv, UInv, Resting, NEW c \in Derived, c \notin made,
         NEW ds \in Wirings, \A j \in DOMAIN ds : ds[j] \in made,
         deps' = [deps EXCEPT ![c] = ds],
         NEW f \in FrameSet, Mine' = Append(Mine, f), ~Evals(f), Poised(f)
  PROVE  InShape' /\ Ongoing(Mine') = {f}
<1>1. /\ ds \in Seq(Nodes) /\ c \in Cells
      /\ \A j \in 1 .. Len(ds) : ds[j] \in made /\ ds[j] \in Nodes
      /\ deps \in [Derived -> Seq(Nodes)]
  <2>1. ds \in Seq(Nodes) /\ DOMAIN ds = 1 .. Len(ds)
    BY DataAssumption, LenProperties DEF DataAssumption
  <2>2. \A j \in 1 .. Len(ds) : ds[j] \in Nodes
    BY <2>1, ElementOfSeq
  <2> QED BY <2>1, <2>2, GraphFacts DEF IInv, TInv, GraphType
<1>2. PICK rank \in [Cells -> Nat], n \in Nat :
        RankedGraph(rank, n) /\ Shaped(rank, Mine)
  BY Parts, ShapeNow
<1>3. PICK rank2 \in [Cells -> Nat] : rank2 = [rank EXCEPT ![c] = n]
  OBVIOUS
<1>4. Blank
  BY Parts
<1>5. ASSUME NEW x \in Derived, NEW j \in 1 .. Len(deps'[x])
      PROVE  rank2[deps'[x][j]] < rank2[x]
  <2>1. CASE x = c
    <3>1. deps'[x] = ds
      BY <1>1, <2>1
    <3>2. ds[j] \in made /\ ds[j] \in Cells /\ ds[j] # c
      BY <1>1, <1>5, <3>1, GraphFacts
    <3>3. rank2[ds[j]] = rank[ds[j]] /\ rank2[c] = n /\ rank[ds[j]] < n
      BY <1>1, <1>2, <1>3, <3>2 DEF RankedGraph
    <3> QED BY <2>1, <3>1, <3>3
  <2>2. CASE x # c
    <3>1. deps'[x] = deps[x] /\ x \in Cells
      BY <1>1, <2>2, GraphFacts
    <3>2. x \in made
      <4> SUFFICES ASSUME x \notin made PROVE FALSE
        OBVIOUS
      <4>1. deps[x] = <<>> /\ Len(<<>>) = 0
        BY <1>4, EmptySeq DEF Blank
      <4> QED BY <1>5, <3>1, <4>1
    <3>3. deps[x][j] \in made /\ deps[x][j] \in Cells
      BY <1>5, <3>1, <3>2, GraphFacts
    <3>4. rank2[deps[x][j]] = rank[deps[x][j]] /\ rank2[x] = rank[x]
      BY <1>1, <1>3, <2>2, <3>1, <3>3
    <3>5. rank[deps[x][j]] < rank[x]
      BY <1>2, <1>5, <3>1 DEF RankedGraph
    <3> QED BY <3>1, <3>4, <3>5
  <2> QED BY <2>1, <2>2
<1>6. n + 1 \in Nat /\ \A x \in Cells : rank2[x] < n + 1
  BY <1>2, <1>3 DEF RankedGraph
<1>7. Shaped(rank2, Mine') /\ Ongoing(Mine') = {f}
  <2>1. Mine = <<>> /\ Len(<<>>) = 0 /\ Mine \in Seq(FrameSet)
    BY StackNow, EmptySeq DEF Resting
  <2>2. Shaped(rank2, Mine)
    BY <1>2, <2>1 DEF Shaped, Falls
  <2>3. Ongoing(Mine) = {}
    BY <2>1, CallsEmpty
  <2>4. Shaped(rank2, Append(Mine, f))
    BY <2>1, <2>2, <2>3, ShapedPush
  <2>5. Ongoing(Append(Mine, f)) = Ongoing(Mine) \cup {f}
    BY <2>1, CallsPush
  <2> QED BY <2>3, <2>4, <2>5
<1>8. Ordered'
  <2>1. RankedGraph(rank2, n + 1)'
    BY <1>5, <1>6 DEF RankedGraph
  <2>2. Falls(rank2, Mine)'
    BY <1>7 DEF Shaped
  <2> QED BY <1>6, <2>1, <2>2 DEF Ordered
<1> QED BY <1>7, <1>8 DEF InShape, Shaped

(* A constructor is called: the cell exists, and waits to subscribe.       *)
LEMMA Joining ==
  ASSUME IInv, IInv', UInv, Idle(Me), NEW c \in Derived, c \notin made,
         NEW ds \in Wirings, \A j \in DOMAIN ds : ds[j] \in held,
         made' = made \cup {c}, deps' = [deps EXCEPT ![c] = ds],
         \A x \in Computeds \ {c} : fn'[x] = fn[x],
         UNCHANGED <<val, subs, ver, isDirty, vsum, active, seen>>,
         NEW op \in {"Computed", "Effect"}, c \in Computeds => op = "Computed",
         stack' = Pushed(Me, Frame(op, "lock", c, <<>>))
  PROVE  UInv'
<1>f. PICK f : f = Frame(op, "lock", c, <<>>)
  OBVIOUS
<1>1. /\ Resting /\ Mine' = Append(Mine, f) /\ c \in Cells
      /\ \A j \in DOMAIN ds : ds[j] \in made
      /\ deps \in [Derived -> Seq(Nodes)]
  BY <1>f, MineNext, GraphFacts DEF IInv, TInv, GraphType
<1>2. /\ f \in FrameSet /\ f.op = op /\ f.at = "lock" /\ f.cell = c
  <2>1. op \in Ops /\ "lock" \in Ats /\ <<>> \in Seq(Values)
    BY EmptySeq DEF Ops, Ats
  <2> QED BY <1>f, <1>1, <2>1, FrameType DEF Frame
<1>3. ~Evals(f) /\ Poised(f) /\ (c \in Computeds => Settles(f))
  BY <1>2 DEF Evals, Poised, Settles
<1>4. InShape' /\ Ongoing(Mine') = {f}
  BY <1>1, <1>2, <1>3, JoinedShape
<1>5. Pulling' = {} /\ (c \in Computeds => c \in Settling')
  BY <1>2, <1>3, <1>4, PullingNow DEF Pulls
<1>6. Gathered'
  <2>1. vsum'[c] = 0
    BY Parts DEF Blank
  <2> QED BY <1>2, <1>3, <1>4, <2>1, GatheredNext
<1>7. /\ \A x \in Derived \ {c} : deps'[x] = deps[x]
      /\ \A x \in Nodes \ {c} : val'[x] = val[x]
  BY <1>1
<1> QED BY <1>1, <1>4, <1>5, <1>6, <1>7, Grown

LEMMA CallComputedFresh ==
  ASSUME IInv, IInv', UInv, NEW c \in Computeds, NEW ds \in Wirings,
         NEW getter \in Getters, CallComputed(Me, c, ds, getter)
  PROVE  UInv'
<1>1. /\ Idle(Me) /\ c \notin made /\ c \in Derived
      /\ \A j \in DOMAIN ds : ds[j] \in held
      /\ made' = made \cup {c} /\ deps' = [deps EXCEPT ![c] = ds]
      /\ fn' = [fn EXCEPT ![c] = getter]
      /\ stack' = Pushed(Me, Frame("Computed", "lock", c, <<>>))
      /\ UNCHANGED <<val, subs, ver, isDirty, vsum, active, seen>>
  BY DEF CallComputed, Calls, dataVars, histVars, Derived, IInv, Sole
<1>2. \A x \in Computeds \ {c} : fn'[x] = fn[x]
  BY <1>1 DEF IInv, TInv, GraphType
<1>3. PICK op : op = "Computed"
  OBVIOUS
<1> QED BY <1>1, <1>2, <1>3, Joining

LEMMA CallEffectFresh ==
  ASSUME IInv, IInv', UInv, NEW e \in Effects, NEW ds \in Wirings,
         CallEffect(Me, e, ds)
  PROVE  UInv'
<1>1. /\ Idle(Me) /\ e \notin made /\ e \in Derived /\ e \notin Computeds
      /\ \A j \in DOMAIN ds : ds[j] \in held
      /\ made' = made \cup {e} /\ deps' = [deps EXCEPT ![e] = ds] /\ fn' = fn
      /\ stack' = Pushed(Me, Frame("Effect", "lock", e, <<>>))
      /\ UNCHANGED <<val, subs, ver, isDirty, vsum, active, seen>>
  BY Kinds DEF CallEffect, Calls, dataVars, histVars, Derived, IInv, Sole
<1>2. PICK op : op = "Effect"
  OBVIOUS
<1> QED BY <1>1, <1>2, Joining
-----------------------------------------------------------------------------
(* Cells subscribe, and effects stop.                                      *)

Keeps(s, u) == \A k \in 1 .. Len(s) : k \in 1 .. Len(u) /\ u[k] = s[k]
Has(u, c) == \E k \in 1 .. Len(u) : u[k] = c

LEMMA ExtendKeeps ==
  ASSUME NEW S, NEW s \in Seq(S), NEW n \in Nat, NEW c \in S
  PROVE  /\ Keeps(s, s \o Copies(n, c))
         /\ n # 0 => Has(s \o Copies(n, c), c)
<1> DEFINE t == Copies(n, c)
           u == s \o t
           m == Len(s)
<1>1. t \in Seq(S) /\ Len(t) = n /\ \A k \in 1 .. n : t[k] = c
  BY DEF Copies
<1>2. m \in Nat
  BY LenProperties
<1>3. /\ Len(u) = m + n
      /\ \A k \in 1 .. m + n : u[k] = IF k <= m THEN s[k] ELSE t[k - m]
  <2> HIDE DEF t
  <2> QED BY <1>1, ConcatProperties
<1> HIDE DEF t, u, m
<1>4. \A k \in 1 .. m : k \in 1 .. Len(u) /\ u[k] = s[k]
  <2>1. \A k \in 1 .. m : k \in 1 .. m + n /\ k <= m
    BY <1>2
  <2> QED BY <1>3, <2>1
<1>5. ASSUME n # 0 PROVE \E k \in 1 .. Len(u) : u[k] = c
  <2>1. PICK k \in Nat : k = m + 1
    BY <1>2
  <2>2. k \in 1 .. m + n /\ ~(k <= m) /\ k - m = 1 /\ 1 \in 1 .. n
    BY <1>2, <1>5, <2>1
  <2> QED BY <1>1, <1>3, <2>2
<1> QED BY <1>4, <1>5 DEF u, t, m, Keeps, Has

(* Who subscribed before still does, and c does to all its dependencies.   *)
LEMMA SubscribedLinks ==
  ASSUME IInv, NEW c \in Derived, subs' = Subscribed(c)
  PROVE  /\ \A d \in Nodes : \A k \in 1 .. Len(subs[d]) :
              k \in 1 .. Len(subs'[d]) /\ subs'[d][k] = subs[d][k]
         /\ \A j \in 1 .. Len(deps[c]) :
              \E k \in 1 .. Len(subs'[deps[c][j]]) : subs'[deps[c][j]][k] = c
<1>1. ASSUME NEW d \in Nodes
      PROVE  /\ \A k \in 1 .. Len(subs[d]) :
                  k \in 1 .. Len(subs'[d]) /\ subs'[d][k] = subs[d][k]
             /\ Uses(c, d) # {} =>
                  \E k \in 1 .. Len(subs'[d]) : subs'[d][k] = c
  <2>1. PICK n \in Nat : n = Cardinality(Uses(c, d)) /\ (n = 0 <=> Uses(c, d) = {})
    BY UsesFinite DEF IInv
  <2>2. PICK s \in Seq(Derived) : s = subs[d]
    BY GraphFacts
  <2>3. subs'[d] = s \o Copies(n, c)
    BY <2>1, <2>2 DEF Subscribed
  <2>4. /\ Keeps(s, s \o Copies(n, c))
        /\ n # 0 => Has(s \o Copies(n, c), c)
    BY ExtendKeeps
  <2> QED BY <2>1, <2>2, <2>3, <2>4 DEF Keeps, Has
<1>2. ASSUME NEW j \in 1 .. Len(deps[c])
      PROVE  \E k \in 1 .. Len(subs'[deps[c][j]]) : subs'[deps[c][j]][k] = c
  <2>1. deps[c][j] \in Nodes /\ j \in Uses(c, deps[c][j])
    BY GraphFacts DEF Uses
  <2> QED BY <1>1, <2>1
<1> QED BY <1>1, <1>2

(* Without() keeps what is not c. *)
LEMMA WithoutKeeps ==
  ASSUME NEW S, NEW s \in Seq(S), NEW c, NEW k \in 1 .. Len(s), s[k] # c
  PROVE  \E l \in 1 .. Len(Without(s, c)) : Without(s, c)[l] = s[k]
<1>1. Len(s) \in Nat /\ DOMAIN s = 1 .. Len(s)
  BY LenProperties
<1>2. CASE Places(s, c) = {}
  <2>1. ~ \E j \in DOMAIN s : First(s, c, j)
    BY <1>1, <1>2 DEF First, Places
  <2>2. Without(s, c) = s
    BY <2>1 DEF Without
  <2> QED BY <2>2
<1>3. CASE Places(s, c) # {}
  <2>1. PICK i \in Places(s, c) :
          /\ Len(Without(s, c)) = Len(s) - 1
          /\ \A j \in 1 .. (Len(s) - 1) :
               Without(s, c)[j] = s[IF j < i THEN j ELSE j + 1]
    BY <1>3, WithoutPlace
  <2>2. i \in 1 .. Len(s) /\ k # i
    BY <2>1 DEF Places
  <2>3. CASE k < i
    <3>1. k \in 1 .. (Len(s) - 1)
      BY <1>1, <2>2, <2>3
    <3> QED BY <2>1, <2>3, <3>1
  <2>4. CASE k > i
    <3>1. PICK l \in Nat : l = k - 1
      BY <1>1, <2>2, <2>4
    <3>2. l \in 1 .. (Len(s) - 1) /\ ~(l < i) /\ l + 1 = k
      BY <1>1, <2>2, <2>4, <3>1
    <3> QED BY <2>1, <3>2
  <2> QED BY <2>2, <2>3, <2>4
<1> QED BY <1>2, <1>3

(* The only call in progress is at its body: nothing is being evaluated    *)
(* and no mark is on its way.                                              *)
LEMMA SoleBody ==
  ASSUME IInv, UInv, Is(Me, "body"), Settles(Tip) \/ Early(Tip)
  PROVE  /\ ~Resting /\ Tip.at = "body" /\ Tip \in FrameSet
         /\ Formed(Tip, made, deps) /\ Len(Mine) = 1
         /\ Ongoing(Mine) = {Tip} /\ Below(Mine) = {}
         /\ Pulling = {} /\ Roots = {} /\ Pending = {}
         /\ Tip.cell \in made \cap Derived
         /\ Settles(Tip) => Settling = {Tip.cell}
         /\ Early(Tip) => Settling = {}
<1>1. ~Resting /\ Tip.at = "body"
  BY IsTip
<1>2. /\ Tip \in FrameSet /\ Formed(Tip, made, deps) /\ Tip = Mine[Len(Mine)]
      /\ Ongoing(Mine) = Below(Mine) \cup {Tip} /\ Len(Mine) \in Nat \ {0}
  BY <1>1, StackNow
<1>3. Len(Mine) = 1
  <2>1. Len(Mine) \in 1 .. Len(Mine)
    BY <1>2
  <2>2. CASE Settles(Tip)
    BY <1>2, <2>1, <2>2, Parts DEF Single
  <2>3. CASE Early(Tip)
    BY <1>2, <2>1, <2>3 DEF IInv, Sole, AInv, CallsFit, Fits, Mine, Solo
  <2> QED BY <2>2, <2>3
<1>4. Below(Mine) = {} /\ Ongoing(Mine) = {Tip}
  BY <1>2, <1>3 DEF Below
<1>5. Tip.cell \in made \cap Derived
  BY <1>2 DEF Settles, Early, Formed, Derived
<1>6. Pulling = {} /\ Roots = {}
  BY <1>1, <1>4, CallsNow DEF Pulls, Evals, WillMark
<1>7. /\ Settles(Tip) => Settling = {Tip.cell}
      /\ Early(Tip) => Settling = {}
  BY <1>4, <1>5, CallsNow DEF Settles, Early
<1> QED BY <1>1, <1>2, <1>3, <1>4, <1>5, <1>6, <1>7, PendingNone

(* It changes subscriptions only, and perhaps who subscribes.              *)
LEMMA SoleStep ==
  ASSUME IInv, IInv', UInv, Pulling = {}, Pending = {},
         UNCHANGED <<made, deps, fn>>, UNCHANGED <<val, ver, isDirty, vsum, seen>>,
         InShape', Linked', Gathered', Pulling' \cap Nodes = {},
         \A x \in active' \ active : x \in Pulling' /\ vsum[x] = 0
  PROVE  UInv'
<1>1. Meaning' = Meaning
  BY DEF Meaning
<1>2. /\ \A ds : Vals(ds)' = Vals(ds)
      /\ \A x : DepMeanings(x)' = DepMeanings(x) /\ Total(x)' = Total(x)
  BY <1>1 DEF Vals, DepMeanings, Total
<1>3. \A x : Agrees(x)' <=> Agrees(x)
  BY <1>2 DEF Agrees
<1>4. Blank' /\ Positive'
  BY Parts DEF Blank, Positive
<1>5. SumsTell'
  <2> SUFFICES ASSUME NEW x \in Watching'
               PROVE  /\ vsum'[x] <= Total(x)'
                      /\ vsum'[x] = Total(x)' => Agrees(x)'
    BY DEF SumsTell
  <2>1. CASE x \in Watching
    BY <1>2, <1>3, <2>1, Parts DEF SumsTell
  <2>2. CASE x \notin Watching
    <3>1. x \in active' \ active
      BY <2>2 DEF Watching
    <3>2. x \in made \cap Derived
      BY <3>1 DEF IInv, TInv, HistType, Derived
    <3>3. Total(x) \in Nat /\ Total(x) >= 1
      BY <3>2, Parts, TotalSome
    <3> QED BY <1>2, <3>1, <3>3
  <2> QED BY <2>1, <2>2
<1>6. \A d \in Nodes : Ready(d) => Ready(d)'
  BY DEF Ready, Stale
<1>7. Fresh'
  <2> SUFFICES ASSUME NEW x \in made \cap Computeds PROVE FreshAt(x)'
    BY DEF Fresh, FreshAt
  <2>1. FreshAt(x) /\ x \in Derived
    BY Parts DEF Fresh, Derived
  <2>2. \A j \in 1 .. Len(deps[x]) : Ready(deps[x][j]) => Ready(deps[x][j])'
    <3> TAKE j \in 1 .. Len(deps[x])
    <3>1. PICK d : d = deps[x][j]
      OBVIOUS
    <3>2. Ready(d) => Ready(d)'
      BY <1>6, <2>1, <3>1, GraphFacts
    <3> QED BY <3>1, <3>2 DEF Ready, Stale
  <2> QED BY <1>3, <2>1, <2>2 DEF FreshAt
<1>8. Told'
  <2> SUFFICES ASSUME NEW e \in active' PROVE ToldAt(e)'
    BY DEF Told, ToldAt
  <2>1. CASE e \in active
    BY <1>2, <2>1, Parts DEF Told, ToldAt
  <2>2. CASE e \notin active
    BY <2>2 DEF ToldAt
  <2> QED BY <2>1, <2>2
<1> QED BY <1>4, <1>5, <1>7, <1>8 DEF UInv, CallsSet, DataFit

(* A new computed subscribes. *)
LEMMA ComputedBodyFresh ==
  ASSUME IInv, IInv', UInv, ComputedBody(Me)
  PROVE  UInv'
<1>c. PICK c : c = Tip.cell
  OBVIOUS
<1>1. /\ Is(Me, "body") /\ Tip.op = "Computed" /\ subs' = Subscribed(c)
      /\ Goto(Me, "end") /\ UNCHANGED <<made, deps, fn>>
      /\ UNCHANGED <<val, ver, isDirty, vsum, active, seen>>
  BY <1>c DEF ComputedBody, At, Tip, dataVars, histVars
<1>2. Settles(Tip)
  <2>1. Tip.at = "body"
    BY <1>1, IsTip
  <2> QED BY <1>1, <2>1 DEF Settles
<1>3. /\ ~Resting /\ Tip \in FrameSet /\ Below(Mine) = {} /\ Pulling = {}
      /\ Pending = {} /\ c \in made \cap Derived /\ Settling = {c}
  BY <1>c, <1>1, <1>2, SoleBody
<1>f. PICK f : f = [Tip EXCEPT !.at = "end"]
  OBVIOUS
<1>4. /\ f \in FrameSet /\ f.op = "Computed" /\ f.at = "end" /\ f.cell = Tip.cell
      /\ Mine' = Swapped(f)
  <2>1. "end" \in Ats
    BY DEF Ats
  <2>2. Mine' = Swapped(f)
    BY <1>f, <1>1, MineNext DEF Goto, Tip
  <2> QED BY <1>f, <1>1, <1>3, <2>1, <2>2, GotoType
<1>5. ~Evals(f) /\ ~Settles(f) /\ ~Early(f) /\ Poised(f)
  BY <1>4 DEF Evals, Settles, Early, Poised
<1>6. InShape' /\ Ongoing(Mine') = {f}
  BY <1>1, <1>3, <1>4, <1>5, Parts, TopOn
<1>7. Pulling' = {} /\ Settling' = {} /\ Gathered'
  BY <1>5, <1>6, PullingNow, GatheredNext DEF Pulls
<1>8. Linked'
  <2>0. Watching' = Watching /\ deps' = deps
    BY <1>1 DEF Watching
  <2> SUFFICES ASSUME NEW x \in Watching, NEW j \in 1 .. Len(deps[x])
               PROVE  \E k \in 1 .. Len(subs'[deps[x][j]]) :
                        subs'[deps[x][j]][k] = x
    BY <2>0 DEF Linked
  <2>1. CASE x = c
    BY <1>1, <1>3, <2>1, SubscribedLinks
  <2>2. CASE x # c
    <3>1. PICK d : d = deps[x][j]
      OBVIOUS
    <3>2. PICK k \in 1 .. Len(subs[d]) : subs[d][k] = x
      BY <1>3, <2>2, <3>1, Parts DEF Linked
    <3>3. d \in Nodes
      BY <3>1, GraphFacts
    <3> QED BY <1>1, <1>3, <3>1, <3>2, <3>3, SubscribedLinks
  <2> QED BY <2>1, <2>2
<1> QED BY <1>1, <1>3, <1>6, <1>7, <1>8, SoleStep

(* A new effect subscribes, and is evaluated.                              *)
LEMMA EffectBodyFresh ==
  ASSUME IInv, IInv', UInv, EffectBody(Me)
  PROVE  UInv'
<1>c. PICK c : c = Tip.cell
  OBVIOUS
<1>f. PICK f : f = [Tip EXCEPT !.at = "end"]
  OBVIOUS
<1>e. PICK e : e = Frame("value", "first", c, <<>>)
  OBVIOUS
<1>1. /\ Is(Me, "body") /\ Tip.op = "Effect" /\ subs' = Subscribed(c)
      /\ Mine' = Append(Swapped(f), e) /\ active' = active \cup {c}
      /\ UNCHANGED <<made, deps, fn>>
      /\ UNCHANGED <<val, ver, isDirty, vsum, seen>>
  BY <1>c, <1>f, <1>e, MineNext DEF EffectBody, At, Tip, dataVars
<1>2. Early(Tip) /\ Tip.at = "body"
  <2>1. Tip.at = "body"
    BY <1>1, IsTip
  <2> QED BY <1>1, <2>1 DEF Early
<1>3. /\ ~Resting /\ Tip \in FrameSet /\ Below(Mine) = {} /\ Pulling = {}
      /\ Pending = {} /\ c \in made \cap Derived /\ Settling = {} /\ Len(Mine) = 1
      /\ Ongoing(Mine) = {Tip} /\ Formed(Tip, made, deps)
  BY <1>c, <1>1, <1>2, SoleBody
<1>4. c \in Effects /\ c \notin Nodes /\ vsum[c] = 0
  <2>1. c \in Effects
    BY <1>c, <1>1, <1>3 DEF Formed
  <2>2. vsum[c] = 0
    BY <1>c, <1>2, <1>3, Parts, CallsNow DEF Prepared
  <2> QED BY <2>1, <2>2, Kinds DEF Nodes
<1>5. /\ f \in FrameSet /\ f.op = "Effect" /\ f.at = "end" /\ f.cell = Tip.cell
  <2>1. "end" \in Ats
    BY DEF Ats
  <2> QED BY <1>f, <1>1, <1>3, <2>1, GotoType
<1>6. ~Evals(f) /\ ~Settles(f) /\ ~Early(f) /\ Poised(f)
  BY <1>5 DEF Evals, Settles, Early, Poised
<1>7. /\ e \in FrameSet /\ e.op = "value" /\ e.at = "first" /\ e.cell = c
      /\ Evals(e) /\ Poised(e) /\ ~Settles(e) /\ ~Early(e)
  BY <1>e, <1>3, EvalFrame
<1>8. InShape' /\ Ongoing(Mine') = {f, e}
  BY <1>1, <1>2, <1>3, <1>5, <1>6, <1>7, Parts, TopPushOn
<1>9. Pulling' = {c} /\ Settling' = {}
  BY <1>3, <1>6, <1>7, <1>8, PullingNow DEF Pulls
<1>10. Gathered'
  <2>1. Collects(e)'
    BY <1>e, <1>3, CollectsNone
  <2> QED BY <1>6, <1>7, <1>8, <2>1, GatheredNext
<1>11. Linked'
  <2>0. Watching' \subseteq Watching \cup {c} /\ deps' = deps
    BY <1>1 DEF Watching
  <2> SUFFICES ASSUME NEW x \in Watching \cup {c}, NEW j \in 1 .. Len(deps[x])
               PROVE  \E k \in 1 .. Len(subs'[deps[x][j]]) :
                        subs'[deps[x][j]][k] = x
    BY <2>0 DEF Linked
  <2>1. CASE x = c
    <3>1. c \in Derived /\ subs' = Subscribed(c)
      BY <1>1, <1>3
    <3>2. \A i \in 1 .. Len(deps[c]) :
            \E k \in 1 .. Len(subs'[deps[c][i]]) : subs'[deps[c][i]][k] = c
      BY <3>1, SubscribedLinks
    <3> QED BY <2>1, <3>2
  <2>2. CASE x # c
    <3>1. PICK d : d = deps[x][j]
      OBVIOUS
    <3>2. PICK k \in 1 .. Len(subs[d]) : subs[d][k] = x
      BY <1>3, <2>2, <3>1, Parts DEF Linked
    <3>3. d \in Nodes
      BY <2>2, <3>1, GraphFacts
    <3> QED BY <1>1, <1>3, <3>1, <3>2, <3>3, SubscribedLinks
  <2> QED BY <2>1, <2>2
<1> QED BY <1>1, <1>3, <1>4, <1>8, <1>9, <1>10, <1>11, SoleStep

(* An effect leaves a list of subscribers: the others stay linked.         *)
LEMMA StopSubFresh ==
  ASSUME IInv, IInv', UInv, StopSub(Me)
  PROVE  UInv'
<1>c. PICK c : c = Tip.cell
  OBVIOUS
<1>d. PICK d : d = deps[c][Tip.arg]
  OBVIOUS
<1>f. PICK f : f = [Tip EXCEPT !.arg = @ + 1]
  OBVIOUS
<1>1. /\ Is(Me, "body") /\ Tip.op = "Stop" /\ Mine' = Swapped(f)
      /\ subs' = [subs EXCEPT ![d] = Without(@, c)]
      /\ UNCHANGED <<made, deps, fn>>
      /\ UNCHANGED <<val, ver, isDirty, vsum, active, seen>>
  BY <1>c, <1>d, <1>f, MineNext DEF StopSub, At, Tip, dataVars, histVars
<1>2. Settles(Tip) /\ Tip.at = "body"
  <2>1. Tip.at = "body"
    BY <1>1, IsTip
  <2> QED BY <1>1, <2>1 DEF Settles
<1>3. /\ ~Resting /\ Tip \in FrameSet /\ Below(Mine) = {} /\ Pulling = {}
      /\ Pending = {} /\ c \in made \cap Derived /\ Settling = {c}
  BY <1>c, <1>1, <1>2, SoleBody
<1>4. /\ f \in FrameSet /\ f.op = "Stop" /\ f.at = "body" /\ f.cell = c
  BY <1>c, <1>f, <1>1, <1>2, <1>3 DEF FrameSet
<1>5. ~Evals(f) /\ Settles(f) /\ ~Early(f) /\ Poised(f)
  BY <1>4 DEF Evals, Settles, Early, Poised
<1>6. InShape' /\ Ongoing(Mine') = {f}
  BY <1>c, <1>1, <1>2, <1>3, <1>4, <1>5, Parts, TopOn
<1>7. Pulling' = {} /\ Settling' = {c} /\ Gathered'
  BY <1>3, <1>4, <1>5, <1>6, PullingNow, GatheredNext DEF Pulls
<1>8. Linked'
  <2>0. Watching' = Watching /\ deps' = deps
    BY <1>1 DEF Watching
  <2> SUFFICES ASSUME NEW x \in Watching, x # c, NEW j \in 1 .. Len(deps[x])
               PROVE  \E k \in 1 .. Len(subs'[deps[x][j]]) :
                        subs'[deps[x][j]][k] = x
    BY <1>7, <2>0 DEF Linked
  <2>1. PICK b : b = deps[x][j]
    OBVIOUS
  <2>2. PICK k \in 1 .. Len(subs[b]) : subs[b][k] = x
    BY <1>3, <2>1, Parts DEF Linked
  <2>3. b \in Nodes /\ subs[b] \in Seq(Derived) /\ subs \in [Nodes -> Seq(Derived)]
    BY <2>1, GraphFacts DEF IInv, TInv, GraphType
  <2>4. CASE b = d
    <3>1. subs'[b] = Without(subs[b], c)
      BY <1>1, <2>3, <2>4
    <3>2. \E l \in 1 .. Len(Without(subs[b], c)) :
            Without(subs[b], c)[l] = subs[b][k]
      BY <2>2, <2>3, WithoutKeeps
    <3> QED BY <2>1, <2>2, <3>1, <3>2
  <2>5. CASE b # d
    BY <1>1, <2>1, <2>2, <2>3, <2>5
  <2> QED BY <2>4, <2>5
<1> QED BY <1>1, <1>3, <1>6, <1>7, <1>8, SoleStep

LEMMA StopEndFresh ==
  ASSUME IInv, IInv', UInv, StopEnd(Me)
  PROVE  UInv'
<1>c. PICK c : c = Tip.cell
  OBVIOUS
<1>f. PICK f : f = [Tip EXCEPT !.at = "end"]
  OBVIOUS
<1>1. /\ Is(Me, "body") /\ Tip.op = "Stop" /\ Mine' = Swapped(f)
      /\ active' = active \ {c} /\ UNCHANGED <<made, deps, fn, subs>>
      /\ UNCHANGED <<val, ver, isDirty, vsum, seen>>
  BY <1>c, <1>f, MineNext DEF StopEnd, At, Goto, Tip, graphVars, dataVars
<1>2. Settles(Tip) /\ Tip.at = "body"
  <2>1. Tip.at = "body"
    BY <1>1, IsTip
  <2> QED BY <1>1, <2>1 DEF Settles
<1>3. /\ ~Resting /\ Tip \in FrameSet /\ Below(Mine) = {} /\ Pulling = {}
      /\ Pending = {} /\ c \in made \cap Derived /\ Settling = {c}
      /\ Formed(Tip, made, deps)
  BY <1>c, <1>1, <1>2, SoleBody
<1>4. /\ f \in FrameSet /\ f.op = "Stop" /\ f.at = "end" /\ f.cell = Tip.cell
  <2>1. "end" \in Ats
    BY DEF Ats
  <2> QED BY <1>f, <1>1, <1>3, <2>1, GotoType
<1>5. ~Evals(f) /\ ~Settles(f) /\ ~Early(f) /\ Poised(f)
  BY <1>4 DEF Evals, Settles, Early, Poised
<1>6. InShape' /\ Ongoing(Mine') = {f}
  BY <1>1, <1>2, <1>3, <1>4, <1>5, Parts, TopOn
<1>7. Pulling' = {} /\ Settling' = {} /\ Gathered'
  BY <1>5, <1>6, PullingNow, GatheredNext DEF Pulls
<1>8. Linked'
  <2>1. c \notin Computeds
    BY <1>c, <1>1, <1>3, Kinds DEF Formed
  <2>2. Watching' \subseteq Watching \ Settling
    BY <1>1, <1>3, <2>1 DEF Watching
  <2> QED BY <1>1, <2>2, Parts DEF Linked
<1> QED BY <1>1, <1>3, <1>6, <1>7, <1>8, SoleStep
-----------------------------------------------------------------------------
(* The theorems. *)

LEMMA CalmOnes ==
  ASSUME Calm
  PROVE  Sole /\ Alone /\ Faulty = {} /\ ~ReadsComputeds
<1>1. PICK h : Goroutines = {h}
  BY DEF Calm
<1>2. Me \in Goroutines
  BY <1>1 DEF Me
<1> QED BY <1>1, <1>2 DEF Calm, Sole, Alone

LEMMA InitFresh ==
  ASSUME Sole, Init
  PROVE  UInv
<1>1. /\ made = {} /\ active = {} /\ Mine = <<>> /\ Len(<<>>) = 0
      /\ \A c \in Derived : deps[c] = <<>> /\ vsum[c] = 0
      /\ \A c \in Computeds : isDirty[c]
      /\ \A c \in Nodes : ver[c] = 1
  BY DEF Init, Sole, Mine
<1>2. Watching = {}
  BY <1>1 DEF Watching
<1>3. Linked
  BY <1>2 DEF Linked
<1>4. Ordered
  <2>1. PICK rank \in [Cells -> Nat] : rank = [c \in Cells |-> 0]
    OBVIOUS
  <2>2. RankedGraph(rank, 1)
    BY <1>1, <2>1 DEF RankedGraph
  <2>3. Falls(rank, Mine)
    BY <1>1 DEF Falls
  <2> QED BY <2>2, <2>3 DEF Ordered
<1>5. Suffix(Mine) /\ Unmarked(Mine) /\ Starts(Mine) /\ Single(Mine) /\ Gathered
  BY <1>1 DEF Suffix, Unmarked, Starts, Single, Gathered
<1>6. Blank /\ Positive /\ SumsTell /\ Fresh /\ Told
  BY <1>1, <1>2 DEF Blank, Positive, SumsTell, Fresh, Told
<1> QED BY <1>3, <1>4, <1>5, <1>6 DEF UInv, CallsSet, InShape, DataFit

LEMMA StillFresh ==
  ASSUME IInv, UInv, UNCHANGED vars
  PROVE  UInv'
<1>1. /\ UNCHANGED <<made, deps, fn, subs>>
      /\ UNCHANGED <<val, ver, isDirty, vsum, active, seen>>
      /\ Mine' = Mine
  BY MineNext DEF vars, graphVars, dataVars, histVars
<1>2. PICK rank \in [Cells -> Nat], n \in Nat :
        RankedGraph(rank, n) /\ Shaped(rank, Mine)
  BY Parts, ShapeNow
<1>3. InShape'
  BY <1>1, <1>2, ShapeNext
<1>4. Pulling' = Pulling /\ Settling' = Settling
  BY <1>1, PullingNow, CallsNow
<1> QED BY <1>1, <1>3, <1>4, Parts, CallsNow, Untroubled

LEMMA FreshNext ==
  ASSUME Calm, IInv, IInv', UInv, Unwrapped, [Next]_vars
  PROVE  UInv'
<1>1. CASE UNCHANGED vars
  BY <1>1, StillFresh
<1>2. CASE Call(Me)
  <2>1. ASSUME NEW s \in Signals, NEW v \in Values,
               Signal(Me, s, v) \/ CallSetValue(Me, s, v)
        PROVE  UInv'
    BY <2>1, SignalFresh, CallSetValueFresh
  <2>2. ASSUME NEW s \in Signals, CallValue(Me, s) PROVE UInv'
    BY <2>2, CallValueFresh
  <2>3. ASSUME NEW c \in Computeds, CallComputedValue(Me, c) PROVE UInv'
    BY <2>3, CalmOnes DEF CallComputedValue
  <2>4. ASSUME NEW c \in Computeds, NEW ds \in Wirings, NEW f \in Getters,
               CallComputed(Me, c, ds, f)
        PROVE  UInv'
    BY <2>4, CallComputedFresh
  <2>5. ASSUME NEW e \in Effects, NEW ds \in Wirings, CallEffect(Me, e, ds)
        PROVE  UInv'
    BY <2>5, CallEffectFresh
  <2>6. ASSUME NEW e \in Effects, CallStop(Me, e) PROVE UInv'
    BY <2>6, CallStopFresh
  <2> QED BY <1>2, <2>1, <2>2, <2>3, <2>4, <2>5, <2>6 DEF Call
<1>3. CASE Acquire(Me)
  BY <1>3, AcquireFresh
<1>4. CASE Step(Me)
  <2>1. ~NilPanic(Me)
    <3> SUFFICES ASSUME NilPanic(Me) PROVE FALSE
      OBVIOUS
    <3>1. ~Resting /\ Tip.at = "nil"
      BY IsTip DEF NilPanic
    <3>2. Tip = Mine[Len(Mine)] /\ Len(Mine) \in 1 .. Len(Mine)
      BY <3>1, StackNow
    <3> QED BY <3>1, <3>2, Parts DEF Starts, Poised
  <2>2. ~GetPanic(Me) /\ ~CallPanic(Me)
    BY CalmOnes DEF GetPanic, CallPanic
  <2>3. CASE Return(Me) \/ ReadBody(Me) \/ WriteSame(Me)
    BY <2>3, ReturnFresh, ReadBodyFresh, WriteSameFresh
  <2>4. CASE WriteQuiet(Me) \/ WriteMark(Me)
    BY <2>4, WriteQuietFresh, WriteMarkFresh
  <2>5. CASE ComputedBody(Me) \/ EffectBody(Me) \/ StopSub(Me) \/ StopEnd(Me)
    BY <2>5, ComputedBodyFresh, EffectBodyFresh, StopSubFresh, StopEndFresh
  <2>6. CASE MarkComputed(Me) \/ MarkEffect(Me) \/ MarkEnd(Me)
    BY <2>6, MarkComputedFresh, MarkEffectFresh, MarkEndFresh
  <2>7. CASE PullArg(Me) \/ PullDep(Me) \/ PullSkip(Me)
    BY <2>7, PullArgFresh, PullDepFresh, PullSkipFresh
  <2>8. CASE PullGet(Me) \/ PullRun(Me) \/ FirstRun(Me) \/ CallReturn(Me)
    BY <2>8, PullGetFresh, PullRunFresh, FirstRunFresh, CallReturnFresh
  <2> QED BY <1>4, <2>1, <2>2, <2>3, <2>4, <2>5, <2>6, <2>7, <2>8 DEF Step
<1> QED BY <1>1, <1>2, <1>3, <1>4 DEF Next, IInv, Sole

(* The invariants together. *)
LEMMA FreshSpec ==
  ASSUME Calm
  PROVE  Spec /\ []Unwrapped => [](IInv /\ UInv)
<1>1. Sole /\ Alone
  BY CalmOnes
<1>2. Init => UInv
  BY <1>1, InitFresh
<1>3. TInv /\ AInv => IInv
  BY <1>1 DEF IInv
<1>4. IInv /\ IInv' /\ UInv /\ Unwrapped /\ [Next]_vars => UInv'
  BY FreshNext
<1>5. Spec => [](TInv /\ AInv)
  BY <1>1, AloneSpec
<1> QED BY <1>2, <1>3, <1>4, <1>5, PTL DEF Spec

(* Between the calls no effect has missed a change: it was last called     *)
(* with what its dependencies mean now, although the loop of markDirty()   *)
(* evaluates it in the middle of the marking, when parts of the graph it   *)
(* reads are stale and not marked yet, and whatever its callback and those *)
(* of other effects write meanwhile.                                       *)
THEOREM EffectsSeenAlways ==
  ASSUME Calm PROVE Spec /\ []Unwrapped => []EffectsSeen
<1>1. IInv /\ UInv => EffectsSeen
  BY Rests
<1> QED BY <1>1, FreshSpec, PTL

(* Between the calls a computed that is not marked holds what its getter   *)
(* gives: no evaluation of value() that clears isDirty too early leaves    *)
(* it behind the marks.                                                    *)
THEOREM CleanFreshAlways ==
  ASSUME Calm PROVE Spec /\ []Unwrapped => []CleanFresh
<1>1. IInv /\ UInv => CleanFresh
  BY Rests
<1> QED BY <1>1, FreshSpec, PTL

(* When the sum of the versions is the one that value() stored, so are the *)
(* arguments of the last call: the callback that is skipped would have got *)
(* the same (signals.go:103, "value of dependencies changes").             *)
THEOREM SumTellsAlways ==
  ASSUME Calm PROVE Spec /\ []Unwrapped => SumTells
<1>1. IInv /\ UInv /\ [Next]_vars =>
        [\A g \in Goroutines : PullSkip(g) => Top(g).args = seen[Top(g).cell]]_vars
  <2> SUFFICES ASSUME IInv, UInv, NEW g \in Goroutines, PullSkip(g)
               PROVE  Top(g).args = seen[Top(g).cell]
    OBVIOUS
  <2>1. g = Me
    BY DEF IInv, Sole
  <2>2. /\ Is(Me, "pull") /\ Tip.arg > Len(deps[Tip.cell])
        /\ Tip.sum = vsum[Tip.cell]
    BY <2>1 DEF PullSkip, Collected, Tip
  <2>3. ~Resting /\ Evals(Tip)
    BY <2>2, IsTip DEF Evals
  <2>4. /\ Tip.cell \in Watching /\ Tip.sum = Total(Tip.cell)
        /\ Tip.args = Vals(deps[Tip.cell])
    BY <2>2, <2>3, Gathering
  <2>5. Agrees(Tip.cell)
    BY <2>2, <2>4, Parts DEF SumsTell
  <2> QED BY <2>1, <2>4, <2>5 DEF Agrees, Tip
<1> QED BY <1>1, FreshSpec, PTL DEF Spec, SumTells

(* The constructor of an effect calls it with what its dependencies mean:  *)
(* no mark is on its way then.                                             *)
THEOREM FirstCallFreshAlways ==
  ASSUME Calm PROVE Spec /\ []Unwrapped => FirstCallFresh
<1>1. IInv /\ UInv /\ [Next]_vars =>
        [\A g \in Goroutines :
           FirstRun(g) => Top(g).args = DepMeanings(Top(g).cell)]_vars
  <2> SUFFICES ASSUME IInv, UInv, NEW g \in Goroutines, FirstRun(g)
               PROVE  Top(g).args = DepMeanings(Top(g).cell)
    OBVIOUS
  <2>1. g = Me
    BY DEF IInv, Sole
  <2>2. Is(Me, "first") /\ Tip.arg > Len(deps[Tip.cell])
    BY <2>1 DEF FirstRun, Tip
  <2>3. ~Resting /\ Tip.at = "first" /\ Evals(Tip)
    BY <2>2, IsTip DEF Evals
  <2>4. /\ Tip.cell \in Watching /\ Tip.args = Vals(deps[Tip.cell])
        /\ \A j \in 1 .. Len(deps[Tip.cell]) : Ready(deps[Tip.cell][j])
    BY <2>2, <2>3, Gathering
  <2>5. Tip = Mine[Len(Mine)] /\ Len(Mine) \in Nat \ {0}
    BY <2>3, StackNow
  <2>6. \A k \in 1 .. Len(Mine) : Mine[k].at # "mark"
    <3> TAKE k \in 1 .. Len(Mine)
    <3>1. CASE k = Len(Mine)
      BY <2>3, <2>5, <3>1
    <3>2. CASE k < Len(Mine)
      BY <2>3, <2>5, <3>2, Parts DEF Unmarked
    <3> QED BY <2>5, <3>1, <3>2
  <2>7. Pending = {}
    BY <2>6, PendingNone DEF Roots, WillMark
  <2> QED BY <2>1, <2>4, <2>7, CurrentArgs DEF Tip
<1> QED BY <1>1, FreshSpec, PTL DEF Spec, FirstCallFresh
=============================================================================
