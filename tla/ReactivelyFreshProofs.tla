------------------------ MODULE ReactivelyFreshProofs ------------------------
(* Proofs about Reactively: what Read() returns is fresh, a clean cell     *)
(* holds what its function would give, no function runs without a reason,  *)
(* and none twice in a call, with links that come and go, effects that     *)
(* write, cells that are rewired, cleanups and panics.                     *)
EXTENDS ReactivelyProofs

(* What a function may have seen when it takes its next step. *)
Lived(f, seen) ==
  \A k \in 1 .. Len(seen) :
    LET x == Does(f, SubSeq(seen, 1, k - 1))
    IN  /\ x.do \in {"read", "write", "cleanup"}
        /\ seen[k].cell = IF x.do = "read" THEN x.cell ELSE None

(* It reads or writes d then, or asks for a cleanup. *)
Asks(f, seen, d) == Does(f, seen).do = "read" /\ Does(f, seen).cell = d
Puts(f, seen, d) == Does(f, seen).do = "write" /\ Does(f, seen).cell = d
Reads(f) == {d \in Cells : \E seen \in Seq(Seen) : Lived(f, seen) /\ Asks(f, seen, d)}
Writes(f) == {d \in Cells : \E seen \in Seq(Seen) : Lived(f, seen) /\ Puts(f, seen, d)}
Cleans(f) == \E seen \in Seq(Seen) : Lived(f, seen) /\ Does(f, seen).do = "cleanup"

(* What the functions of a cell use, what they read first, and later. *)
Needs(c) == UNION {Uses(f) : f \in FnsOf(c)}
HasRead(seen) == \E k \in 1 .. Len(seen) : seen[k].cell # None
Firsts(c) ==
  {d \in Cells : \E f \in FnsOf(c) : \E seen \in Seq(Seen) :
                   Lived(f, seen) /\ ~HasRead(seen) /\ Asks(f, seen, d)}
Laters(c) ==
  {d \in Cells : \E f \in FnsOf(c) : \E seen \in Seq(Seen) :
                   Lived(f, seen) /\ HasRead(seen) /\ Asks(f, seen, d)}

(* What f writes, and what depends on it, is in U, and what f reads is not. *)
Isolated(f, U) ==
  /\ Writes(f) \subseteq U /\ Reads(f) \cap U = {}
  /\ \A c \in Cells \ Effects : Needs(c) \cap U # {} => c \in U
Area(f) == CHOOSE U \in SUBSET (Cells \ Effects) : Isolated(f, U)

(* The functions of careful programs.  Only effects write, and not what    *)
(* they depend on.  No cell is both written and rewired.  A function that  *)
(* asks for a cleanup is the one of a cell that nobody uses, that is not   *)
(* rewired, and it uses cells without functions.  What a cell reads first  *)
(* it never reads later. *)
Careful ==
  /\ \A c \in Cells : Needs(c) \cap Effects = {}
  /\ \A c \in Cells \ Effects : \A f \in FnsOf(c) : Writes(f) = {}
  /\ \A c \in Effects : \A f \in FnsOf(c) :
       \E U \in SUBSET (Cells \ Effects) : Isolated(f, U)
  /\ \A c \in Rewritable :
       /\ c \notin Writable
       /\ \A d \in Cells : \A f \in FnsOf(d) : c \notin Writes(f)
  /\ \A c \in Cells : \A f \in FnsOf(c) :
       Cleans(f) => /\ c \notin Rewritable /\ \A d \in Cells : c \notin Needs(d)
                    /\ \A d \in Uses(f) : FnsOf(d) = {}
  /\ \A c \in Cells : Firsts(c) \cap Laters(c) = {}

Fixed == Proper /\ Careful

-----------------------------------------------------------------------------
(* The invariant. *)

(* A cell that is marked, and has a function or may get one.               *)
Loose(c) == state[c] # Clean /\ (fn[c] # None \/ c \in Rewritable)
Settled(c) == ~Loose(c)

(* Sources are what the last run has read. *)
Sourced(c) ==
  /\ \A d \in Cells : Has(sources[c], d) =>
       /\ d \in Needs(c) \cap made
       /\ c \notin Rewritable => d \in Uses(fn[c])
  /\ fn[c] = None => sources[c] = <<>>
  /\ fn[c] # None => c \in made /\ Uses(fn[c]) \subseteq made
  /\ sources[c] # <<>> => sources[c][1] \in Firsts(c)
  /\ c \notin made => log[c] = <<>> /\ moved[c]
  /\ fn[c] # None \/ c \in Rewritable =>
       \A d \in Cells : Has(sources[c], d) <=> d \in LogCells(c)
  /\ Has(observers[c], Cleanup) =>
       c \in made /\ \E f \in FnsOf(c) : Cleans(f) /\ fn[c] \in {f, None}
GraphFit == \A c \in Cells : Sourced(c)

(* A cell without a function that may get one is not marked.               *)
Raw ==
  \A c \in Rewritable : fn[c] = None /\ state[c] # Clean =>
    \E i \in 1 .. Len(stack) : stack[i].op = "WriteFn" /\ stack[i].cell = c

(* Who observes a marked cell is marked, or a mark is on its way to it.    *)
Waits(f, c, k) == f.op = "stale" /\ f.cell = c /\ f.arg <= k
Awaited(c, k) == \E i \in 1 .. Len(stack) : Waits(stack[i], c, k)
Reached(c, k) ==
  \/ observers[c][k] = Cleanup \/ state[observers[c][k]] # Clean
  \/ Awaited(c, k)
Spread ==
  \A c \in Cells : Loose(c) => \A k \in 1 .. Len(observers[c]) : Reached(c, k)

(* What a cell that is not dirty has seen is what there is.                *)
Sees(seen) ==
  \A k \in 1 .. Len(seen) :
    seen[k].cell # None => value[seen[k].cell] = seen[k].val
Valid == \A c \in Cells : fn[c] # None /\ state[c] # Dirty => Sees(log[c])

(* A cell is dirty because something it has read has changed or is about   *)
(* to, or its function. *)
Prompts(f, c) ==
  \/ f.op = "Write" /\ value[f.cell] # f.val /\ f.cell \in LogCells(c)
  \/ f.op = "WriteFn" /\ f.cell = c
Due ==
  \A c \in Cells : fn[c] # None /\ state[c] = Dirty =>
    moved[c] \/ \E i \in 1 .. Len(stack) : Prompts(stack[i], c)

DataFit == Raw /\ Spread /\ Valid /\ Due

(* Calls that bring up to date, and calls that mark. *)
Pulls(f) == f.op \in {"Read", "updateIfNecessary", "update"}
Marks(f) == f.op \in {"Write", "WriteFn", "stale"}
Runs(f) == f.op = "update" /\ f.cell \in Effects

(* The bottom call; a call somewhere above another one; and just above it. *)
Grounds(f) ==
  \/ f.op \in {"Write", "WriteFn"} \/ Runs(f)
  \/ f.op = "Read" /\ f.cell \notin Effects
Beside(f, g) ==
  /\ Marks(f) => g.op = "stale"
  /\ Marks(g) => Marks(f) \/ Runs(f)
  /\ Pulls(g) => g.cell \notin Effects
  /\ f.op \in Downward /\ Pulls(g) => Rank[g.cell] < Rank[f.cell]
  /\ Runs(f) /\ Pulls(g) => g.cell \notin Area(f.fn)
  /\ Runs(f) /\ Marks(g) => g.cell \in Area(f.fn) \cup Effects
  /\ Runs(f) /\ g.op = "Write" => g.cell \in Area(f.fn)
Leads(f, g) ==
  \/ f.op = "update" /\ g.op = "Read" /\ Asks(f.fn, f.seen, g.cell)
  \/ Runs(f) /\ g.op = "Write" /\ Puts(f.fn, f.seen, g.cell)
  \/ f.op = "Read" /\ g.op \in Downward /\ g.cell = f.cell
  \/ /\ f.op = "updateIfNecessary" /\ g.op \in Downward
     /\ f.arg > 1 /\ g.cell = f.list[f.arg - 1]
  \/ Marks(f) /\ g.op = "stale"
Shape(s) ==
  /\ s # <<>> => Grounds(s[1])
  /\ \A k, l \in 1 .. Len(s) : k < l => Beside(s[k], s[l])
  /\ \A k \in 1 .. Len(s) : k + 1 \in 1 .. Len(s) => Leads(s[k], s[k + 1])

(* Marks go along the observers. *)
Passes(s) ==
  \A k \in 1 .. Len(s) : k + 1 \in 1 .. Len(s) /\ s[k + 1].op = "stale" =>
    IF s[k].op = "WriteFn" THEN s[k + 1].cell = s[k].cell
    ELSE Has(observers[s[k].cell], s[k + 1].cell)

(* What is true while a call is in progress: what a function has seen is   *)
(* settled; the sources that have been gone over are; who observes what is *)
(* written is dirty already. *)
Settles(seen) ==
  \A k \in 1 .. Len(seen) : seen[k].cell # None => Settled(seen[k].cell)
HoldsUpdate(f) ==
  /\ fn[f.cell] = f.fn /\ state[f.cell] = Dirty /\ value[f.cell] = f.val
  /\ Lived(f.fn, f.seen) /\ Sees(f.seen) /\ Settles(f.seen)
HoldsCheck(f) ==
  /\ f.list = sources[f.cell] /\ f.arg <= Len(f.list) + 1
  /\ \A k \in 1 .. Len(f.list) : k + 1 < f.arg => Settled(f.list[k])
HoldsWrite(f) ==
  /\ fn[f.cell] = None /\ f.cell \notin Rewritable
  /\ \A k \in 1 .. Len(observers[f.cell]) : k < f.arg =>
       observers[f.cell][k] = Cleanup \/ state[observers[f.cell][k]] = Dirty
HoldsWriteFn(f) ==
  /\ state[f.cell] = Dirty /\ f.cell \in Rewritable \cap made
  /\ Uses(f.fn) \subseteq made
Holds(f) ==
  /\ f.op = "update" => HoldsUpdate(f)
  /\ f.op = "updateIfNecessary" => HoldsCheck(f)
  /\ f.op = "Write" => HoldsWrite(f)
  /\ f.op = "WriteFn" => HoldsWriteFn(f)
  /\ f.op = "stale" => FnsOf(f.cell) # {}

(* The call on top: what it has called has settled. *)
Tips(f) ==
  /\ f.op = "Read" => Settled(f.cell)
  /\ f.op = "updateIfNecessary" /\ f.arg > 1 => Settled(f.list[f.arg - 1])

(* The record of what a function has read is what it has seen, and what it *)
(* is reading. *)
Notes(s, k, x) ==
  /\ x[3] = 0
  /\ \A d \in Cells :
       Has(x[2], d) <=>
         \/ \E j \in 1 .. Len(s[k].seen) : s[k].seen[j].cell = d
         \/ k + 1 \in 1 .. Len(s) /\ s[k + 1].op = "Read" /\ s[k + 1].cell = d
  /\ x[2] # <<>> => x[2][1] \in Firsts(s[k].cell)
Noted(s, x) ==
  /\ \A k \in 1 .. Len(s) :
       /\ Updates(s[k]) /\ \A j \in 1 .. Len(s) : k < j => ~Updates(s[j])
       => Notes(s, k, x)
  /\ \A k, l \in 1 .. Len(s) :
       /\ k < l /\ Updates(s[k]) /\ Updates(s[l])
       /\ \A j \in 1 .. Len(s) : k < j /\ j < l => ~Updates(s[j])
       => Notes(s, k, s[l].saved)

CallsSet ==
  /\ Shape(stack) /\ Passes(stack)
  /\ \A k \in 1 .. Len(stack) : Holds(stack[k])
  /\ stack # <<>> => Tips(stack[Len(stack)])
  /\ Noted(stack, context)

(* What a call of the program has run is running or clean, and stays out   *)
(* of the reach of the effect that runs. *)
RanFit ==
  /\ stack = <<>> => ran = {}
  /\ \A c \in ran :
       \/ \E i \in 1 .. Len(stack) : Updates(stack[i]) /\ stack[i].cell = c
       \/ c \notin Effects /\ state[c] = Clean
  /\ stack # <<>> /\ Marks(stack[1]) => ran = {}
  /\ stack # <<>> /\ Runs(stack[1]) => ran \cap Area(stack[1].fn) = {}

FInv == GraphFit /\ DataFit /\ CallsSet /\ RanFit
-----------------------------------------------------------------------------
(* Functions. *)

LEMMA IsolatedArea ==
  ASSUME Careful, NEW c \in Effects, NEW f \in FnsOf(c)
  PROVE  Area(f) \subseteq Cells \ Effects /\ Isolated(f, Area(f))
<1>1. \E U \in SUBSET (Cells \ Effects) : Isolated(f, U)
  BY DEF Careful
<1>2. PICK U \in SUBSET (Cells \ Effects) : Isolated(f, U)
  BY <1>1
<1> DEFINE P(V) == Isolated(f, V)
<1>3. Area(f) = CHOOSE V \in SUBSET (Cells \ Effects) : P(V)
  BY DEF Area
<1>4. P(U)
  BY <1>2
<1> HIDE DEF P
<1>5. Area(f) \in SUBSET (Cells \ Effects) /\ P(Area(f))
  BY <1>2, <1>3, <1>4
<1> QED BY <1>5 DEF P

(* A function takes a step more. *)
LEMMA LivedMore ==
  ASSUME NEW f, NEW seen \in Seq(Seen), NEW r \in Seen, Lived(f, seen),
         Does(f, seen).do \in {"read", "write", "cleanup"},
         r.cell = IF Does(f, seen).do = "read" THEN Does(f, seen).cell ELSE None
  PROVE  Lived(f, Append(seen, r))
<1> DEFINE n == Len(seen)
           more == Append(seen, r)
<1>1. /\ more \in Seq(Seen) /\ n \in Nat /\ Len(more) = n + 1
      /\ \A k \in 1 .. n : more[k] = seen[k]
      /\ more[n + 1] = r
  BY Push
<1>2. ASSUME NEW k \in 1 .. (n + 1)
      PROVE  SubSeq(more, 1, k - 1) = SubSeq(seen, 1, k - 1)
  <2> DEFINE s == SubSeq(seen, 1, k - 1)
             t == SubSeq(more, 1, k - 1)
  <2>1. k - 1 \in Nat /\ k - 1 <= n /\ k - 1 <= Len(more)
    BY <1>1, <1>2
  <2>2. /\ s \in Seq(Seen) /\ Len(s) = k - 1
        /\ \A j \in 1 .. (k - 1) : s[j] = seen[j]
    BY <2>1, Beginning
  <2>3. /\ t \in Seq(Seen) /\ Len(t) = k - 1
        /\ \A j \in 1 .. (k - 1) : t[j] = more[j]
    BY <1>1, <2>1, Beginning
  <2>4. \A j \in 1 .. (k - 1) : j \in 1 .. n
    BY <2>1, <1>1
  <2>5. \A j \in 1 .. (k - 1) : s[j] = t[j]
    BY <1>1, <2>2, <2>3, <2>4
  <2> HIDE DEF s, t, more, n
  <2>6. s = t
    BY <2>2, <2>3, <2>5, SeqEqual
  <2> QED BY <2>6 DEF s, t
<1>3. SubSeq(seen, 1, n) = seen
  <2>1. n \in Nat /\ n <= Len(seen)
    BY <1>1
  <2>2. /\ SubSeq(seen, 1, n) \in Seq(Seen) /\ Len(SubSeq(seen, 1, n)) = n
        /\ \A j \in 1 .. n : SubSeq(seen, 1, n)[j] = seen[j]
    BY <2>1, Beginning
  <2> HIDE DEF n
  <2> QED BY <2>2, SeqEqual DEF n
<1>4. ASSUME NEW k \in 1 .. Len(more)
      PROVE  LET x == Does(f, SubSeq(more, 1, k - 1))
             IN  /\ x.do \in {"read", "write", "cleanup"}
                 /\ more[k].cell = IF x.do = "read" THEN x.cell ELSE None
  <2>1. k \in 1 .. (n + 1)
    BY <1>1, <1>4
  <2>2. CASE k = n + 1
    <3>1. SubSeq(more, 1, k - 1) = seen
      BY <1>1, <1>2, <1>3, <2>1, <2>2
    <3>2. more[k] = r
      BY <1>1, <2>2
    <3> QED BY <3>1, <3>2
  <2>3. CASE k \in 1 .. n
    <3>1. SubSeq(more, 1, k - 1) = SubSeq(seen, 1, k - 1) /\ more[k] = seen[k]
      BY <1>1, <1>2, <2>1, <2>3
    <3> QED BY <2>3, <3>1 DEF Lived
  <2>4. k = n + 1 \/ k \in 1 .. n
    BY <1>1, <2>1
  <2> QED BY <2>2, <2>3, <2>4
<1> QED BY <1>4 DEF Lived

LEMMA LivedNothing == ASSUME NEW f PROVE Lived(f, <<>>) /\ Sees(<<>>) /\ Settles(<<>>)
<1>1. Len(<<>>) = 0 /\ \A k : k \notin 1 .. 0
  OBVIOUS
<1> QED BY <1>1 DEF Lived, Sees, Settles

(* What a function has seen, it has read. *)
LEMMA SeenRead ==
  ASSUME NEW f, NEW seen \in Seq(Seen), Lived(f, seen),
         NEW k \in 1 .. Len(seen), seen[k].cell # None
  PROVE  seen[k].cell \in Cells /\ seen[k].cell \in Reads(f)
<1>1. seen[k] \in Seen /\ Len(seen) \in Nat
  BY ElementOfSeq, LenProperties
<1>2. seen[k].cell \in Cells
  BY <1>1 DEF Seen
<1> DEFINE s == SubSeq(seen, 1, k - 1)
<1>3. k - 1 \in Nat /\ k - 1 <= Len(seen)
  BY <1>1
<1>4. /\ s \in Seq(Seen) /\ Len(s) = k - 1
      /\ \A j \in 1 .. (k - 1) : s[j] = seen[j]
  BY <1>3, Beginning
<1>5. Asks(f, s, seen[k].cell)
  BY DEF Lived, Asks
<1>6. Lived(f, s)
  <2> SUFFICES ASSUME NEW j \in 1 .. Len(s)
               PROVE  LET x == Does(f, SubSeq(s, 1, j - 1))
                      IN  /\ x.do \in {"read", "write", "cleanup"}
                          /\ s[j].cell = IF x.do = "read" THEN x.cell ELSE None
    BY DEF Lived
  <2>1. j \in 1 .. (k - 1) /\ j \in 1 .. Len(seen) /\ j - 1 \in Nat
        /\ j - 1 <= Len(s) /\ j - 1 <= Len(seen)
    BY <1>1, <1>4
  <2> DEFINE a == SubSeq(s, 1, j - 1)
             b == SubSeq(seen, 1, j - 1)
  <2>2. /\ a \in Seq(Seen) /\ Len(a) = j - 1
        /\ \A i \in 1 .. (j - 1) : a[i] = s[i]
    BY <1>4, <2>1, Beginning
  <2>3. /\ b \in Seq(Seen) /\ Len(b) = j - 1
        /\ \A i \in 1 .. (j - 1) : b[i] = seen[i]
    BY <2>1, Beginning
  <2>4. \A i \in 1 .. (j - 1) : i \in 1 .. (k - 1)
    BY <2>1
  <2>5. \A i \in 1 .. (j - 1) : a[i] = b[i]
    BY <1>4, <2>2, <2>3, <2>4
  <2> HIDE DEF a, b
  <2>6. a = b
    BY <2>2, <2>3, <2>5, SeqEqual
  <2>7. s[j] = seen[j]
    BY <1>4, <2>1
  <2> HIDE DEF s
  <2> QED BY <2>1, <2>6, <2>7 DEF Lived, a, b
<1> QED BY <1>2, <1>4, <1>5, <1>6 DEF Reads

(* What a function reads or writes, it uses. *)
LEMMA UsedOnly ==
  ASSUME Fixed, NEW c \in Cells, NEW f \in FnsOf(c)
  PROVE  /\ f \in Fns /\ f # None /\ Uses(f) \subseteq Needs(c)
         /\ Needs(c) \subseteq Cells \ Effects
         /\ \A d \in Needs(c) : Rank[d] < Rank[c]
         /\ Reads(f) \subseteq Uses(f) /\ Writes(f) \subseteq Uses(f)
         /\ Cleans(f) => \A d \in Uses(f) : FnsOf(d) = {}
<1>1. f \in Fns /\ f # None
  BY DataAssumption, KindsAssumption
<1>2. Uses(f) \subseteq Needs(c) /\ Uses(f) \subseteq Cells
  BY <1>1 DEF Needs, Fixed, Proper, Functions
<1>3. Needs(c) \subseteq Cells
  <2> SUFFICES ASSUME NEW g \in FnsOf(c) PROVE Uses(g) \subseteq Cells
    BY DEF Needs
  <2> QED BY DataAssumption DEF Fixed, Proper, Functions
<1>4. Reads(f) \subseteq Uses(f)
  <2> SUFFICES ASSUME NEW d \in Reads(f) PROVE d \in Uses(f)
    OBVIOUS
  <2>1. PICK seen \in Seq(Seen) : Asks(f, seen, d)
    BY DEF Reads
  <2> QED BY <1>1, <2>1 DEF Asks, Fixed, Proper, Functions
<1>5. Writes(f) \subseteq Uses(f)
  <2> SUFFICES ASSUME NEW d \in Writes(f) PROVE d \in Uses(f)
    OBVIOUS
  <2>1. PICK seen \in Seq(Seen) : Puts(f, seen, d)
    BY DEF Writes
  <2> QED BY <1>1, <2>1 DEF Puts, Fixed, Proper, Functions
<1>6. \A d \in Needs(c) : Rank[d] < Rank[c]
  BY RankFalls DEF Needs, Fixed, Proper
<1>7. Needs(c) \cap Effects = {}
  BY DEF Fixed, Careful
<1>8. Cleans(f) => \A d \in Uses(f) : FnsOf(d) = {}
  BY DEF Fixed, Careful
<1> QED BY <1>1, <1>2, <1>3, <1>4, <1>5, <1>6, <1>7, <1>8
-----------------------------------------------------------------------------
(* The calls in progress. *)

LEMMA FrameIs ==
  ASSUME NEW f \in FrameSet
  PROVE  /\ f.cell \in Cells /\ f.seen \in Seq(Seen) /\ f.list \in Seq(Cells)
         /\ f.arg \in Nat \ {0} /\ f.val \in Values
         /\ (Pulls(f) \/ Marks(f)) /\ ~(Pulls(f) /\ Marks(f))
         /\ f.op \in Downward => Pulls(f)
         /\ Updates(f) => f.op \in Downward
BY DEF FrameSet, Pulls, Marks, Downward, Updates

(* A sequence of calls, with and without the one on top. *)
LEMMA Split ==
  ASSUME NEW s \in Seq(FrameSet), s # <<>>
  PROVE  LET n == Len(s)
             r == SubSeq(s, 1, n - 1)
         IN  /\ n \in Nat \ {0} /\ s[n] \in FrameSet
             /\ \A k \in 1 .. n : s[k] \in FrameSet /\ (k = n \/ k \in 1 .. (n - 1))
             /\ r \in Seq(FrameSet) /\ Len(r) = n - 1
             /\ \A k \in 1 .. (n - 1) : r[k] = s[k] /\ k \in 1 .. n
             /\ r = <<>> <=> n = 1
<1>1. \A k \in 1 .. Len(s) : s[k] \in FrameSet
  BY ElementOfSeq
<1>2. /\ Len(s) \in Nat \ {0} /\ s[Len(s)] \in FrameSet
      /\ \A k \in 1 .. Len(s) : k = Len(s) \/ k \in 1 .. (Len(s) - 1)
  BY Last
<1>3. /\ SubSeq(s, 1, Len(s) - 1) \in Seq(FrameSet)
      /\ Len(SubSeq(s, 1, Len(s) - 1)) = Len(s) - 1
      /\ \A k \in 1 .. (Len(s) - 1) : SubSeq(s, 1, Len(s) - 1)[k] = s[k]
  BY Shrink
<1>4. SubSeq(s, 1, Len(s) - 1) = <<>> <=> Len(s) = 1
  <2>1. PICK r : r = SubSeq(s, 1, Len(s) - 1)
    OBVIOUS
  <2>2. r \in Seq(FrameSet) /\ Len(r) = Len(s) - 1
    BY <1>3, <2>1
  <2>3. r = <<>> <=> Len(r) = 0
    BY <2>2, EmptySeq
  <2> QED BY <1>2, <2>1, <2>2, <2>3
<1>5. \A k \in 1 .. (Len(s) - 1) : k \in 1 .. Len(s)
  BY <1>2
<1> QED BY <1>1, <1>2, <1>3, <1>4, <1>5

LEMMA Joined ==
  ASSUME NEW s \in Seq(FrameSet), NEW e \in FrameSet
  PROVE  LET n == Len(s)
             t == Append(s, e)
         IN  /\ n \in Nat /\ t \in Seq(FrameSet) /\ Len(t) = n + 1 /\ t # <<>>
             /\ t[n + 1] = e /\ \A k \in 1 .. n : t[k] = s[k]
             /\ \A k \in 1 .. (n + 1) : k = n + 1 \/ k \in 1 .. n
             /\ n = 0 <=> s = <<>>
<1>1. /\ Append(s, e) \in Seq(FrameSet)
      /\ Len(s) \in Nat /\ Len(Append(s, e)) = Len(s) + 1
      /\ Append(s, e) # <<>>
      /\ \A k \in 1 .. Len(s) : Append(s, e)[k] = s[k]
      /\ Append(s, e)[Len(s) + 1] = e
  BY Push
<1>2. \A k \in 1 .. (Len(s) + 1) : k = Len(s) + 1 \/ k \in 1 .. Len(s)
  BY <1>1
<1>3. Len(s) = 0 <=> s = <<>>
  BY EmptySeq
<1> QED BY <1>1, <1>2, <1>3

(* What the shape says of the call on top. *)
Fits(s, e) ==
  /\ s = <<>> => Grounds(e)
  /\ \A k \in 1 .. Len(s) : Beside(s[k], e)
  /\ s # <<>> => Leads(s[Len(s)], e)

LEMMA ShapeNone == Shape(<<>>) /\ Passes(<<>>)
<1>1. Len(<<>>) = 0 /\ \A k : k \notin 1 .. 0
  OBVIOUS
<1> QED BY <1>1 DEF Shape, Passes

LEMMA ShapePush ==
  ASSUME NEW s \in Seq(FrameSet), NEW e \in FrameSet, Shape(s), Fits(s, e)
  PROVE  Shape(Append(s, e))
<1> DEFINE n == Len(s)
           t == Append(s, e)
<1>1. /\ n \in Nat /\ t \in Seq(FrameSet) /\ Len(t) = n + 1 /\ t # <<>>
      /\ t[n + 1] = e /\ \A k \in 1 .. n : t[k] = s[k]
      /\ \A k \in 1 .. (n + 1) : k = n + 1 \/ k \in 1 .. n
      /\ n = 0 <=> s = <<>>
  BY Joined
<1>2. Grounds(t[1])
  <2>1. CASE s = <<>>
    <3>1. t[1] = e
      BY <1>1, <2>1
    <3> QED BY <2>1, <3>1 DEF Fits
  <2>2. CASE s # <<>>
    <3>1. t[1] = s[1]
      BY <1>1, <2>2
    <3> QED BY <2>2, <3>1 DEF Shape
  <2> QED BY <2>1, <2>2
<1>3. ASSUME NEW k \in 1 .. Len(t), NEW l \in 1 .. Len(t), k < l
      PROVE  Beside(t[k], t[l])
  <2>1. k \in 1 .. n
    BY <1>1, <1>3
  <2>2. CASE l = n + 1
    BY <1>1, <2>1, <2>2 DEF Fits
  <2>3. CASE l \in 1 .. n
    BY <1>1, <1>3, <2>1, <2>3 DEF Shape
  <2> QED BY <1>1, <2>2, <2>3
<1>4. ASSUME NEW k \in 1 .. Len(t), k + 1 \in 1 .. Len(t)
      PROVE  Leads(t[k], t[k + 1])
  <2>1. k \in 1 .. n
    BY <1>1, <1>4
  <2>2. CASE k = n
    <3>1. s # <<>> /\ t[k] = s[Len(s)] /\ t[k + 1] = e
      BY <1>1, <2>1, <2>2
    <3> QED BY <3>1 DEF Fits
  <2>3. CASE k + 1 \in 1 .. n
    BY <1>1, <2>1, <2>3 DEF Shape
  <2>4. k = n \/ k + 1 \in 1 .. n
    BY <1>1, <2>1
  <2> QED BY <2>2, <2>3, <2>4
<1> HIDE DEF t
<1> QED BY <1>2, <1>3, <1>4 DEF Shape, t

LEMMA ShapePop ==
  ASSUME NEW s \in Seq(FrameSet), s # <<>>, Shape(s)
  PROVE  LET r == SubSeq(s, 1, Len(s) - 1)
         IN  Shape(r) /\ Fits(r, s[Len(s)])
<1> DEFINE n == Len(s)
           r == SubSeq(s, 1, n - 1)
<1>1. /\ n \in Nat \ {0} /\ s[n] \in FrameSet
      /\ r \in Seq(FrameSet) /\ Len(r) = n - 1
      /\ \A k \in 1 .. (n - 1) : r[k] = s[k] /\ k \in 1 .. n
      /\ r = <<>> <=> n = 1
  BY Split
<1>2. r # <<>> => r[1] = s[1]
  BY <1>1
<1>3. \A k, l \in 1 .. (n - 1) : k < l => Beside(r[k], r[l])
  BY <1>1 DEF Shape
<1>4. ASSUME NEW k \in 1 .. (n - 1), k + 1 \in 1 .. (n - 1)
      PROVE  Leads(r[k], r[k + 1])
  BY <1>1, <1>4 DEF Shape
<1>5. Shape(r)
  <2> HIDE DEF r, n
  <2> QED BY <1>1, <1>2, <1>3, <1>4 DEF Shape
<1>6. \A k \in 1 .. (n - 1) : Beside(r[k], s[n])
  <2>1. n \in 1 .. n /\ \A k \in 1 .. (n - 1) : k < n
    BY <1>1
  <2> QED BY <1>1, <2>1 DEF Shape
<1>7. r # <<>> => Leads(r[Len(r)], s[n])
  <2> SUFFICES ASSUME n # 1 PROVE Leads(s[n - 1], s[n])
    BY <1>1
  <2>1. n - 1 \in 1 .. n /\ (n - 1) + 1 = n /\ n \in 1 .. n
    BY <1>1
  <2> QED BY <2>1 DEF Shape
<1>8. r = <<>> => Grounds(s[n])
  BY <1>1 DEF Shape
<1> HIDE DEF r
<1> QED BY <1>1, <1>5, <1>6, <1>7, <1>8 DEF Fits, r

(* The call on top becomes one of the same kind about the same cell.       *)
Resembles(f, g) ==
  f.cell = g.cell /\ (f.op = g.op \/ (f.op \in Downward /\ g.op \in Downward))

LEMMA FitsOther ==
  ASSUME NEW s, NEW f \in FrameSet, NEW g \in FrameSet, Resembles(f, g),
         s = <<>> => f.op = g.op, Fits(s, f)
  PROVE  Fits(s, g)
<1>1. \A k \in 1 .. Len(s) : Beside(s[k], g)
  BY DEF Fits, Beside, Resembles, Pulls, Marks, Downward
<1>2. ASSUME NEW h, Leads(h, f) PROVE Leads(h, g)
  BY <1>2 DEF Leads, Resembles, Downward
<1>3. s = <<>> => Grounds(g)
  BY DEF Fits, Resembles, Grounds, Runs
<1> QED BY <1>1, <1>2, <1>3 DEF Fits

LEMMA ShapeSwap ==
  ASSUME NEW s \in Seq(FrameSet), s # <<>>, Shape(s), NEW e \in FrameSet,
         Resembles(s[Len(s)], e), s[Len(s)].op = e.op \/ Len(s) # 1
  PROVE  Shape(Append(SubSeq(s, 1, Len(s) - 1), e))
<1> DEFINE r == SubSeq(s, 1, Len(s) - 1)
<1>1. Shape(r) /\ Fits(r, s[Len(s)])
  BY ShapePop
<1>2. s[Len(s)] \in FrameSet /\ r \in Seq(FrameSet) /\ (r = <<>> <=> Len(s) = 1)
  BY Split
<1> HIDE DEF r
<1>3. Fits(r, e)
  BY <1>1, <1>2, FitsOther
<1> QED BY <1>1, <1>2, <1>3, ShapePush DEF r
-----------------------------------------------------------------------------
(* Marks along the observers. *)

LEMMA PassesPop ==
  ASSUME NEW s \in Seq(FrameSet), s # <<>>, Passes(s)
  PROVE  Passes(SubSeq(s, 1, Len(s) - 1))
<1> DEFINE n == Len(s)
           r == SubSeq(s, 1, n - 1)
<1>1. /\ n \in Nat \ {0} /\ Len(r) = n - 1
      /\ \A k \in 1 .. (n - 1) : r[k] = s[k] /\ k \in 1 .. n
  BY Split
<1> HIDE DEF r
<1> QED BY <1>1 DEF Passes, r

LEMMA PassesPush ==
  ASSUME NEW s \in Seq(FrameSet), NEW e \in FrameSet, Passes(s),
         e.op = "stale" /\ s # <<>> =>
           IF s[Len(s)].op = "WriteFn" THEN e.cell = s[Len(s)].cell
           ELSE Has(observers[s[Len(s)].cell], e.cell)
  PROVE  Passes(Append(s, e))
<1> DEFINE n == Len(s)
           t == Append(s, e)
<1>1. /\ n \in Nat /\ t \in Seq(FrameSet) /\ Len(t) = n + 1
      /\ t[n + 1] = e /\ \A k \in 1 .. n : t[k] = s[k]
      /\ n = 0 <=> s = <<>>
  BY Joined
<1>2. ASSUME NEW k \in 1 .. Len(t), k + 1 \in 1 .. Len(t), t[k + 1].op = "stale"
      PROVE  IF t[k].op = "WriteFn" THEN t[k + 1].cell = t[k].cell
             ELSE Has(observers[t[k].cell], t[k + 1].cell)
  <2>1. k \in 1 .. n
    BY <1>1, <1>2
  <2>2. CASE k = n
    <3>1. s # <<>> /\ t[k] = s[Len(s)] /\ t[k + 1] = e
      BY <1>1, <2>1, <2>2
    <3> QED BY <1>2, <3>1
  <2>3. CASE k + 1 \in 1 .. n
    BY <1>1, <1>2, <2>1, <2>3 DEF Passes
  <2>4. k = n \/ k + 1 \in 1 .. n
    BY <1>1, <2>1
  <2> QED BY <2>2, <2>3, <2>4
<1> HIDE DEF t
<1> QED BY <1>2 DEF Passes, t

(* A loop goes on: its cell and its kind are the same. *)
LEMMA PassesSwap ==
  ASSUME NEW s \in Seq(FrameSet), s # <<>>, Passes(s), NEW e \in FrameSet,
         s[Len(s)].cell = e.cell, s[Len(s)].op = e.op \/ e.op # "stale"
  PROVE  Passes(Append(SubSeq(s, 1, Len(s) - 1), e))
<1> DEFINE n == Len(s)
           r == SubSeq(s, 1, n - 1)
<1>1. /\ n \in Nat \ {0} /\ r \in Seq(FrameSet) /\ Len(r) = n - 1
      /\ \A k \in 1 .. (n - 1) : r[k] = s[k] /\ k \in 1 .. n
      /\ r = <<>> <=> n = 1
  BY Split
<1>2. Passes(r)
  BY PassesPop
<1>3. r # <<>> /\ e.op = "stale" =>
        IF r[Len(r)].op = "WriteFn" THEN e.cell = r[Len(r)].cell
        ELSE Has(observers[r[Len(r)].cell], e.cell)
  <2> SUFFICES ASSUME n # 1, e.op = "stale"
               PROVE  IF s[n - 1].op = "WriteFn" THEN e.cell = s[n - 1].cell
                      ELSE Has(observers[s[n - 1].cell], e.cell)
    BY <1>1
  <2>1. n - 1 \in 1 .. n /\ (n - 1) + 1 = n /\ n \in 1 .. n /\ s[n].op = "stale"
    BY <1>1
  <2> QED BY <2>1 DEF Passes
<1> HIDE DEF r
<1> QED BY <1>1, <1>2, <1>3, PassesPush DEF r

(* Where nothing is being marked, nothing is passed on.                    *)
LEMMA PassesNone ==
  ASSUME NEW s, \A k \in 1 .. Len(s) : s[k].op # "stale" PROVE Passes(s)
BY DEF Passes
-----------------------------------------------------------------------------
(* Records of what functions read. *)

LEMMA NotedNone == ASSUME NEW x PROVE Noted(<<>>, x)
<1>1. Len(<<>>) = 0 /\ \A k : k \notin 1 .. 0
  OBVIOUS
<1> QED BY <1>1 DEF Noted

(* The function at k is the last one. *)
LastRun(s, k) == Updates(s[k]) /\ \A j \in 1 .. Len(s) : k < j => ~Updates(s[j])
NextRun(s, k, l) ==
  /\ k < l /\ Updates(s[k]) /\ Updates(s[l])
  /\ \A j \in 1 .. Len(s) : k < j /\ j < l => ~Updates(s[j])

LEMMA NotedIs ==
  ASSUME NEW s, NEW x
  PROVE  Noted(s, x) <=>
           /\ \A k \in 1 .. Len(s) : LastRun(s, k) => Notes(s, k, x)
           /\ \A k, l \in 1 .. Len(s) : NextRun(s, k, l) => Notes(s, k, s[l].saved)
BY DEF Noted, LastRun, NextRun

(* The record of k is about the call at k and the read just above it.      *)
LEMMA NotesSame ==
  ASSUME NEW s, NEW t, NEW k, NEW x, Notes(s, k, x),
         s[k].seen = t[k].seen, s[k].cell = t[k].cell,
         k + 1 \in 1 .. Len(s) /\ s[k + 1].op = "Read" <=>
           k + 1 \in 1 .. Len(t) /\ t[k + 1].op = "Read",
         k + 1 \in 1 .. Len(s) => s[k + 1].cell = t[k + 1].cell
  PROVE  Notes(t, k, x)
BY DEF Notes

(* The calls up to m have the same functions, and above them there are     *)
(* none: their records are the same but for the last one. *)
LEMMA NotedFrom ==
  ASSUME NEW s \in Seq(FrameSet), NEW t \in Seq(FrameSet), NEW m \in Nat,
         m <= Len(s), m <= Len(t), NEW x, NEW y, Noted(s, x),
         \A k \in 1 .. m : /\ Updates(s[k]) <=> Updates(t[k])
                           /\ s[k].saved = t[k].saved,
         \A k \in 1 .. Len(s) : m < k => ~Updates(s[k]),
         \A k \in 1 .. Len(t) : m < k => ~Updates(t[k]),
         \A k, l \in 1 .. m : k < l /\ Updates(s[k]) /\ Updates(s[l]) =>
           \A z : Notes(s, k, z) => Notes(t, k, z),
         \A k \in 1 .. m : LastRun(s, k) /\ Notes(s, k, x) => Notes(t, k, y)
  PROVE  Noted(t, y)
<1>1. Len(s) \in Nat /\ Len(t) \in Nat
  BY LenProperties
<1>2. ASSUME NEW k \in 1 .. Len(t), LastRun(t, k) PROVE Notes(t, k, y)
  <2>1. k \in 1 .. m /\ k \in 1 .. Len(s) /\ Updates(s[k])
    BY <1>1, <1>2 DEF LastRun
  <2>2. LastRun(s, k)
    <3> SUFFICES ASSUME NEW j \in 1 .. Len(s), k < j PROVE ~Updates(s[j])
      BY <2>1 DEF LastRun
    <3>1. CASE m < j
      BY <3>1
    <3>2. CASE j \in 1 .. m
      <4>1. j \in 1 .. Len(t)
        BY <1>1, <3>2
      <4> QED BY <1>2, <3>2, <4>1 DEF LastRun
    <3> QED BY <1>1, <3>1, <3>2
  <2>3. Notes(s, k, x)
    BY <2>1, <2>2, NotedIs
  <2> QED BY <2>1, <2>2, <2>3
<1>3. ASSUME NEW k \in 1 .. Len(t), NEW l \in 1 .. Len(t), NextRun(t, k, l)
      PROVE  Notes(t, k, t[l].saved)
  <2>1. l \in 1 .. m
    BY <1>1, <1>3 DEF NextRun
  <2>2. k \in 1 .. m /\ k < l
    BY <1>1, <1>3, <2>1 DEF NextRun
  <2>3. /\ k \in 1 .. Len(s) /\ l \in 1 .. Len(s) /\ Updates(s[k]) /\ Updates(s[l])
        /\ s[l].saved = t[l].saved
    BY <1>1, <1>3, <2>1, <2>2 DEF NextRun
  <2>4. NextRun(s, k, l)
    <3> SUFFICES ASSUME NEW j \in 1 .. Len(s), k < j, j < l PROVE ~Updates(s[j])
      BY <2>2, <2>3 DEF NextRun
    <3>1. j \in 1 .. m /\ j \in 1 .. Len(t)
      BY <1>1, <2>1
    <3> QED BY <1>3, <3>1 DEF NextRun
  <2>5. Notes(s, k, s[l].saved)
    BY <2>3, <2>4, NotedIs
  <2> QED BY <2>1, <2>2, <2>3, <2>5
<1> QED BY <1>2, <1>3, NotedIs

(* A call that is not a function's begins, which the function that makes   *)
(* it, if one does, puts on record. *)
LEMMA NotedPush ==
  ASSUME NEW s \in Seq(FrameSet), NEW e \in FrameSet, ~Updates(e),
         NEW x, NEW y, Noted(s, x),
         s = <<>> \/ ~Updates(s[Len(s)]) => y = x,
         s # <<>> /\ Updates(s[Len(s)]) /\ Notes(s, Len(s), x) =>
           Notes(Append(s, e), Len(s), y)
  PROVE  Noted(Append(s, e), y)
<1> DEFINE n == Len(s)
           t == Append(s, e)
<1>1. /\ n \in Nat /\ t \in Seq(FrameSet) /\ Len(t) = n + 1
      /\ t[n + 1] = e /\ \A k \in 1 .. n : t[k] = s[k]
      /\ \A k \in 1 .. (n + 1) : k = n + 1 \/ k \in 1 .. n
      /\ n = 0 <=> s = <<>>
  BY Joined
<1>2. ASSUME NEW k \in 1 .. n, k # n, NEW z, Notes(s, k, z) PROVE Notes(t, k, z)
  <2>1. /\ k + 1 \in 1 .. n /\ k + 1 \in 1 .. Len(s) /\ k + 1 \in 1 .. Len(t)
        /\ t[k] = s[k] /\ t[k + 1] = s[k + 1]
    BY <1>1, <1>2
  <2> HIDE DEF t
  <2> QED BY <1>2, <2>1, NotesSame
<1>3. \A k, l \in 1 .. n : k < l /\ Updates(s[k]) /\ Updates(s[l]) =>
        \A z : Notes(s, k, z) => Notes(t, k, z)
  BY <1>1, <1>2
<1>4. ASSUME NEW k \in 1 .. n, LastRun(s, k), Notes(s, k, x) PROVE Notes(t, k, y)
  <2>1. CASE k = n
    BY <1>1, <1>4, <2>1 DEF LastRun
  <2>2. CASE k # n
    <3>1. ~Updates(s[n]) /\ s # <<>>
      BY <1>1, <1>4, <2>2 DEF LastRun
    <3> QED BY <1>2, <1>4, <2>2, <3>1
  <2> QED BY <2>1, <2>2
<1> HIDE DEF t
<1>5. /\ \A k \in 1 .. Len(t) : n < k => ~Updates(t[k])
      /\ \A k \in 1 .. Len(s) : n < k => ~Updates(s[k])
  BY <1>1
<1>6. \A k \in 1 .. n : (Updates(s[k]) <=> Updates(t[k])) /\ s[k].saved = t[k].saved
  BY <1>1
<1> HIDE DEF n
<1>7. n <= Len(s) /\ n <= Len(t)
  BY <1>1 DEF n
<1>8. \A k \in 1 .. n : LastRun(s, k) /\ Notes(s, k, x) => Notes(t, k, y)
  BY <1>4
<1> QED BY <1>1, <1>3, <1>5, <1>6, <1>7, <1>8, NotedFrom DEF t

(* A call that no function has made ends. *)
LEMMA NotedPop ==
  ASSUME NEW s \in Seq(FrameSet), s # <<>>, NEW x, Noted(s, x),
         ~Updates(s[Len(s)]), Len(s) # 1 => ~Updates(s[Len(s) - 1])
  PROVE  Noted(SubSeq(s, 1, Len(s) - 1), x)
<1> DEFINE n == Len(s)
           r == SubSeq(s, 1, n - 1)
<1>1. /\ n \in Nat \ {0} /\ r \in Seq(FrameSet) /\ Len(r) = n - 1
      /\ \A k \in 1 .. (n - 1) : r[k] = s[k] /\ k \in 1 .. n
      /\ \A k \in 1 .. n : k = n \/ k \in 1 .. (n - 1)
  BY Split
<1> HIDE DEF r
<1>2. ASSUME NEW k \in 1 .. (n - 1), Updates(s[k]), NEW z, Notes(s, k, z)
      PROVE  Notes(r, k, z)
  <2>1. k # n - 1
    BY <1>1, <1>2
  <2>2. /\ k + 1 \in 1 .. (n - 1) /\ k + 1 \in 1 .. Len(s)
        /\ r[k] = s[k] /\ r[k + 1] = s[k + 1]
    BY <1>1, <1>2, <2>1
  <2> QED BY <1>1, <1>2, <2>2, NotesSame
<1>3. /\ \A k \in 1 .. Len(s) : n - 1 < k => ~Updates(s[k])
      /\ \A k \in 1 .. Len(r) : n - 1 < k => ~Updates(r[k])
      /\ n - 1 \in Nat /\ n - 1 <= Len(s) /\ n - 1 <= Len(r)
  <2>1. \A k \in 1 .. Len(s) : n - 1 < k => k = n
    BY <1>1
  <2>2. \A k \in 1 .. Len(r) : ~(n - 1 < k)
    BY <1>1
  <2>3. n - 1 \in Nat /\ n - 1 <= Len(s) /\ n - 1 <= Len(r)
    BY <1>1
  <2> QED BY <2>1, <2>2, <2>3
<1>4. /\ \A k \in 1 .. (n - 1) : (Updates(s[k]) <=> Updates(r[k]))
                                 /\ s[k].saved = r[k].saved
      /\ \A k \in 1 .. (n - 1) : LastRun(s, k) /\ Notes(s, k, x) => Notes(r, k, x)
      /\ \A k, l \in 1 .. (n - 1) : k < l /\ Updates(s[k]) /\ Updates(s[l]) =>
           \A z : Notes(s, k, z) => Notes(r, k, z)
  BY <1>1, <1>2 DEF LastRun
<1> QED BY <1>1, <1>3, <1>4, NotedFrom DEF r

(* A call returns to the function that made it, or goes on itself. *)
LEMMA NotedSwap ==
  ASSUME NEW s \in Seq(FrameSet), s # <<>>, NEW x, Noted(s, x), NEW e \in FrameSet,
         Updates(s[Len(s)]) <=> Updates(e), s[Len(s)].saved = e.saved,
         s[Len(s)].cell = e.cell, s[Len(s)].op = e.op,
         LET t == Append(SubSeq(s, 1, Len(s) - 1), e)
         IN  Updates(e) /\ Notes(s, Len(s), x) => Notes(t, Len(s), x)
  PROVE  Noted(Append(SubSeq(s, 1, Len(s) - 1), e), x)
<1> DEFINE n == Len(s)
           r == SubSeq(s, 1, n - 1)
           t == Append(r, e)
<1>1. /\ n \in Nat \ {0} /\ r \in Seq(FrameSet) /\ Len(r) = n - 1
      /\ \A k \in 1 .. (n - 1) : r[k] = s[k] /\ k \in 1 .. n
      /\ \A k \in 1 .. n : k = n \/ k \in 1 .. (n - 1)
  BY Split
<1>a. Updates(e) /\ Notes(s, n, x) => Notes(t, n, x)
  OBVIOUS
<1> HIDE DEF r
<1>2. /\ t \in Seq(FrameSet) /\ Len(t) = n /\ t[n] = e
      /\ \A k \in 1 .. (n - 1) : t[k] = s[k]
  <2>1. /\ t \in Seq(FrameSet) /\ Len(t) = Len(r) + 1
        /\ t[Len(r) + 1] = e /\ \A k \in 1 .. Len(r) : t[k] = r[k]
    BY <1>1, Joined
  <2> QED BY <1>1, <2>1
<1> HIDE DEF t
<1>3. ASSUME NEW k \in 1 .. (n - 1), NEW z, Notes(s, k, z) PROVE Notes(t, k, z)
  <2>1. /\ k + 1 \in 1 .. Len(s) /\ k + 1 \in 1 .. Len(t) /\ t[k] = s[k]
        /\ k + 1 = n \/ t[k + 1] = s[k + 1]
    BY <1>1, <1>2, <1>3
  <2>2. t[k + 1].op = s[k + 1].op /\ t[k + 1].cell = s[k + 1].cell
    BY <1>2, <2>1
  <2> QED BY <1>3, <2>1, <2>2, NotesSame
<1>4. /\ \A k \in 1 .. Len(s) : n < k => ~Updates(s[k])
      /\ \A k \in 1 .. Len(t) : n < k => ~Updates(t[k])
      /\ n \in Nat /\ n <= Len(s) /\ n <= Len(t)
  BY <1>1, <1>2
<1>5. \A k \in 1 .. n : (Updates(s[k]) <=> Updates(t[k])) /\ s[k].saved = t[k].saved
  BY <1>1, <1>2
<1>6. \A k, l \in 1 .. n : k < l /\ Updates(s[k]) /\ Updates(s[l]) =>
        \A z : Notes(s, k, z) => Notes(t, k, z)
  <2> SUFFICES ASSUME NEW k \in 1 .. n, NEW l \in 1 .. n, k < l, NEW z,
                      Notes(s, k, z)
               PROVE  Notes(t, k, z)
    OBVIOUS
  <2>1. k \in 1 .. (n - 1)
    BY <1>1
  <2> QED BY <1>3, <2>1
<1>7. \A k \in 1 .. n : LastRun(s, k) /\ Notes(s, k, x) => Notes(t, k, x)
  <2> SUFFICES ASSUME NEW k \in 1 .. n, LastRun(s, k), Notes(s, k, x)
               PROVE  Notes(t, k, x)
    OBVIOUS
  <2>1. CASE k = n
    BY <1>a, <2>1 DEF LastRun
  <2>2. CASE k \in 1 .. (n - 1)
    BY <1>3, <2>2
  <2> QED BY <1>1, <2>1, <2>2
<1> QED BY <1>2, <1>4, <1>5, <1>6, <1>7, NotedFrom DEF t, r

(* A function is called: it has read nothing. *)
LEMMA NotedEnter ==
  ASSUME NEW s \in Seq(FrameSet), NEW x, Noted(s, x), NEW e \in FrameSet,
         Updates(e), e.saved = x, e.seen = <<>>,
         s # <<>> => ~Updates(s[Len(s)]), NEW y, y[2] = <<>>, y[3] = 0
  PROVE  Noted(Append(s, e), y)
<1> DEFINE n == Len(s)
           t == Append(s, e)
<1>1. /\ n \in Nat /\ t \in Seq(FrameSet) /\ Len(t) = n + 1
      /\ t[n + 1] = e /\ \A k \in 1 .. n : t[k] = s[k]
      /\ \A k \in 1 .. (n + 1) : k = n + 1 \/ k \in 1 .. n
      /\ n = 0 <=> s = <<>>
  BY Joined
<1> HIDE DEF t
<1>2. ASSUME NEW k \in 1 .. n, Updates(s[k]), NEW z, Notes(s, k, z)
      PROVE  Notes(t, k, z)
  <2>1. k # n
    BY <1>1, <1>2
  <2>2. /\ k + 1 \in 1 .. Len(s) /\ k + 1 \in 1 .. Len(t)
        /\ t[k] = s[k] /\ t[k + 1] = s[k + 1]
    BY <1>1, <1>2, <2>1
  <2> QED BY <1>2, <2>2, NotesSame
<1>3. ASSUME NEW k \in 1 .. Len(t), LastRun(t, k) PROVE Notes(t, k, y)
  <2>1. k = n + 1
    BY <1>1, <1>3 DEF LastRun
  <2>2. /\ \A j : j \notin 1 .. Len(t[k].seen)
        /\ k + 1 \notin 1 .. Len(t)
        /\ \A d : ~Has(y[2], d)
    BY <1>1, <2>1 DEF Has
  <2> QED BY <2>2 DEF Notes
<1>4. ASSUME NEW k \in 1 .. Len(t), NEW l \in 1 .. Len(t), NextRun(t, k, l)
      PROVE  Notes(t, k, t[l].saved)
  <2>1. k \in 1 .. n /\ t[k] = s[k] /\ Updates(s[k])
    BY <1>1, <1>4 DEF NextRun
  <2>2. CASE l = n + 1
    <3>1. \A j \in 1 .. n : k < j => ~Updates(s[j])
      BY <1>1, <1>4, <2>2 DEF NextRun
    <3>2. LastRun(s, k)
      BY <2>1, <3>1 DEF LastRun
    <3>3. Notes(s, k, x)
      BY <2>1, <3>2, NotedIs
    <3> QED BY <1>1, <1>2, <2>1, <2>2, <3>3
  <2>3. CASE l \in 1 .. n
    <3>1. NextRun(s, k, l)
      BY <1>1, <1>4, <2>1, <2>3 DEF NextRun
    <3>2. Notes(s, k, s[l].saved)
      BY <2>1, <2>3, <3>1, NotedIs
    <3> QED BY <1>1, <1>2, <2>1, <2>3, <3>2
  <2> QED BY <1>1, <2>2, <2>3
<1> QED BY <1>3, <1>4, NotedIs DEF t

(* A function ends, and what it has saved is the record of the one below.  *)
LEMMA NotedLeave ==
  ASSUME NEW s \in Seq(FrameSet), s # <<>>, NEW x, Noted(s, x),
         Updates(s[Len(s)]), Len(s) # 1 => ~Updates(s[Len(s) - 1])
  PROVE  Noted(SubSeq(s, 1, Len(s) - 1), s[Len(s)].saved)
<1> DEFINE n == Len(s)
           r == SubSeq(s, 1, n - 1)
<1>1. /\ n \in Nat \ {0} /\ r \in Seq(FrameSet) /\ Len(r) = n - 1
      /\ \A k \in 1 .. (n - 1) : r[k] = s[k] /\ k \in 1 .. n
      /\ \A k \in 1 .. n : k = n \/ k \in 1 .. (n - 1)
  BY Split
<1> HIDE DEF r
<1>2. ASSUME NEW k \in 1 .. (n - 1), Updates(s[k]), NEW z, Notes(s, k, z)
      PROVE  Notes(r, k, z)
  <2>1. k # n - 1
    BY <1>1, <1>2
  <2>2. /\ k + 1 \in 1 .. (n - 1) /\ k + 1 \in 1 .. Len(s)
        /\ r[k] = s[k] /\ r[k + 1] = s[k + 1]
    BY <1>1, <1>2, <2>1
  <2> QED BY <1>1, <1>2, <2>2, NotesSame
<1>3. ASSUME NEW k \in 1 .. Len(r), LastRun(r, k) PROVE Notes(r, k, s[n].saved)
  <2>1. k \in 1 .. (n - 1) /\ k \in 1 .. n /\ n \in 1 .. n /\ k < n /\ Updates(s[k])
    BY <1>1, <1>3 DEF LastRun
  <2>2. NextRun(s, k, n)
    BY <1>1, <1>3, <2>1 DEF LastRun, NextRun
  <2>3. Notes(s, k, s[n].saved)
    BY <2>1, <2>2, NotedIs
  <2> QED BY <1>2, <2>1, <2>3
<1>4. ASSUME NEW k \in 1 .. Len(r), NEW l \in 1 .. Len(r), NextRun(r, k, l)
      PROVE  Notes(r, k, r[l].saved)
  <2>1. /\ k \in 1 .. (n - 1) /\ l \in 1 .. (n - 1) /\ k \in 1 .. n /\ l \in 1 .. n
        /\ r[k] = s[k] /\ r[l] = s[l]
    BY <1>1
  <2>2. NextRun(s, k, l)
    <3>1. ASSUME NEW j \in 1 .. Len(s), k < j, j < l PROVE ~Updates(s[j])
      <4>1. j \in 1 .. (n - 1) /\ j \in 1 .. Len(r) /\ r[j] = s[j]
        BY <1>1, <2>1, <3>1
      <4> QED BY <1>4, <3>1, <4>1 DEF NextRun
    <3> QED BY <1>4, <2>1, <3>1 DEF NextRun
  <2>3. Notes(s, k, s[l].saved) /\ Updates(s[k])
    BY <2>1, <2>2, NotedIs DEF NextRun
  <2> QED BY <1>2, <2>1, <2>3
<1> QED BY <1>3, <1>4, NotedIs DEF r
-----------------------------------------------------------------------------
(* The present state. *)

LEMMA StackNow ==
  ASSUME RInv, ~Idle
  PROVE  LET n == Len(stack)
         IN  /\ stack \in Seq(FrameSet) /\ stack # <<>>
             /\ n \in Nat \ {0} /\ Top = stack[n] /\ Top \in FrameSet
             /\ \A k \in 1 .. n : stack[k] \in FrameSet /\ (k = n \/ k \in 1 .. (n - 1))
             /\ Rest = SubSeq(stack, 1, n - 1)
             /\ Rest \in Seq(FrameSet) /\ Len(Rest) = n - 1
             /\ \A k \in 1 .. (n - 1) : Rest[k] = stack[k] /\ k \in 1 .. n
             /\ Rest = <<>> <=> n = 1
<1>1. stack \in Seq(FrameSet) /\ stack # <<>>
  BY DEF RInv, TypeOK, Idle
<1> QED BY <1>1, Split DEF Top, Rest

LEMMA Typed ==
  ASSUME RInv
  PROVE  /\ made \in SUBSET Cells /\ fn \in [Cells -> Fns \cup {None}]
         /\ value \in [Cells -> Values] /\ state \in [Cells -> {Clean, Check, Dirty}]
         /\ sources \in [Cells -> Seq(Cells)]
         /\ observers \in [Cells -> Seq(Cells \cup {Cleanup})]
         /\ stack \in Seq(FrameSet) /\ Len(stack) \in Nat
         /\ log \in [Cells -> Seq(Seen)] /\ moved \in [Cells -> BOOLEAN]
         /\ ran \in SUBSET Cells /\ gets \in Seq(Cells)
         /\ \A c \in Cells :
              /\ DOMAIN sources[c] = 1 .. Len(sources[c]) /\ Len(sources[c]) \in Nat
              /\ DOMAIN observers[c] = 1 .. Len(observers[c])
              /\ Len(observers[c]) \in Nat
              /\ DOMAIN log[c] = 1 .. Len(log[c]) /\ Len(log[c]) \in Nat
              /\ \A k \in 1 .. Len(log[c]) : log[c][k].cell \in Cells \cup {None}
         /\ Clean # Check /\ Clean # Dirty /\ Check # Dirty
<1>1. /\ made \in SUBSET Cells /\ fn \in [Cells -> Fns \cup {None}]
      /\ value \in [Cells -> Values] /\ state \in [Cells -> {Clean, Check, Dirty}]
      /\ sources \in [Cells -> Seq(Cells)]
      /\ observers \in [Cells -> Seq(Cells \cup {Cleanup})]
      /\ stack \in Seq(FrameSet)
      /\ log \in [Cells -> Seq(Seen)] /\ moved \in [Cells -> BOOLEAN]
      /\ ran \in SUBSET Cells /\ gets \in Seq(Cells)
  BY DEF RInv, TypeOK
<1>2. ASSUME NEW c \in Cells
      PROVE  /\ DOMAIN sources[c] = 1 .. Len(sources[c]) /\ Len(sources[c]) \in Nat
             /\ DOMAIN observers[c] = 1 .. Len(observers[c])
             /\ Len(observers[c]) \in Nat
             /\ DOMAIN log[c] = 1 .. Len(log[c]) /\ Len(log[c]) \in Nat
             /\ \A k \in 1 .. Len(log[c]) : log[c][k].cell \in Cells \cup {None}
  <2>1. sources[c] \in Seq(Cells) /\ log[c] \in Seq(Seen)
    BY <1>1
  <2>2. PICK S : S = Cells \cup {Cleanup}
    OBVIOUS
  <2>3. observers[c] \in Seq(S)
    BY <1>1, <2>2
  <2>4. \A k \in 1 .. Len(log[c]) : log[c][k] \in Seen
    BY <2>1, ElementOfSeq
  <2> QED BY <2>1, <2>3, <2>4, LenProperties DEF Seen
<1>3. Len(stack) \in Nat
  BY <1>1, LenProperties
<1> QED BY <1>1, <1>2, <1>3 DEF Clean, Check, Dirty

(* Observers and sources are each other's. *)
LEMMA Linking ==
  ASSUME RInv
  PROVE  \A c, d \in Cells : Has(sources[c], d) <=> Has(observers[d], c)
BY Mutual DEF RInv

LEMMA CellIs == /\ \A c \in Cells : c # None /\ c # Cleanup
                /\ None \notin Fns /\ Rewritable \subseteq Cells \ Effects
                /\ Writable \subseteq Cells \ Effects /\ Effects \subseteq Cells
BY KindsAssumption DEF Cells

(* What an observed cell and its observer are. *)
LEMMA ObserverIs ==
  ASSUME Fixed, RInv, FInv, NEW c \in Cells, NEW d \in Cells, Has(observers[c], d)
  PROVE  /\ fn[d] # None /\ fn[d] \in FnsOf(d) /\ c \in Needs(d) \cap made
         /\ c \notin Effects /\ Rank[c] < Rank[d] /\ c # d
         /\ d \notin Rewritable => c \in Uses(fn[d])
         /\ c \in LogCells(d)
<1>1. Has(sources[d], c)
  BY Linking
<1>2. Sourced(d)
  BY DEF FInv, GraphFit
<1>3. c \in Needs(d) \cap made /\ (d \notin Rewritable => c \in Uses(fn[d]))
  BY <1>1, <1>2 DEF Sourced
<1>4. fn[d] # None
  BY <1>1, <1>2 DEF Sourced, Has
<1>5. fn[d] \in FnsOf(d)
  BY <1>4 DEF RInv, Sunk
<1>6. c \notin Effects /\ Rank[c] < Rank[d]
  BY <1>3, <1>5, UsedOnly
<1>7. c # d
  BY <1>6, RankFalls DEF Fixed, Proper
<1>8. c \in LogCells(d)
  BY <1>1, <1>2, <1>4 DEF Sourced
<1> QED BY <1>3, <1>4, <1>5, <1>6, <1>7, <1>8

(* Nothing is being marked. *)
Quiet == \A k \in 1 .. Len(stack) : Pulls(stack[k])

LEMMA QuietIdle == ASSUME Idle PROVE Quiet /\ stack = <<>> /\ Len(stack) = 0
BY DEF Idle, Quiet

LEMMA QuietTop ==
  ASSUME RInv, FInv, ~Idle, Pulls(Top)
  PROVE  Quiet
<1> DEFINE n == Len(stack)
<1>1. /\ n \in Nat \ {0} /\ Top = stack[n] /\ Top \in FrameSet
      /\ \A k \in 1 .. n : stack[k] \in FrameSet /\ (k = n \/ k \in 1 .. (n - 1))
  BY StackNow
<1> SUFFICES ASSUME NEW k \in 1 .. n PROVE Pulls(stack[k])
  BY DEF Quiet
<1>2. CASE k = n
  BY <1>1, <1>2
<1>3. CASE k \in 1 .. (n - 1)
  <2>1. Beside(stack[k], stack[n])
    <3>1. Shape(stack) /\ n \in 1 .. n /\ k < n
      BY <1>1, <1>3 DEF FInv, CallsSet
    <3> QED BY <3>1 DEF Shape
  <2>2. stack[n].op # "stale"
    BY <1>1 DEF Pulls
  <2> QED BY <1>1, <2>1, <2>2, FrameIs DEF Beside
<1> QED BY <1>1, <1>2, <1>3

(* The effect whose function runs is at the bottom. *)
LEMMA BesideAll ==
  ASSUME RInv, FInv, NEW k \in 1 .. Len(stack), NEW l \in 1 .. Len(stack), k < l
  PROVE  Beside(stack[k], stack[l])
BY DEF FInv, CallsSet, Shape

(* What is true of the cells when nothing is being marked. *)
LEMMA QuietFacts ==
  ASSUME Fixed, RInv, FInv, Quiet
  PROVE  /\ \A c, d \in Cells : Loose(c) /\ Has(observers[c], d) => state[d] # Clean
         /\ \A c \in Rewritable : fn[c] = None => state[c] = Clean
         /\ \A c \in Cells : fn[c] # None /\ state[c] = Dirty => moved[c]
         /\ \A c \in Cells : fn[c] # None /\ state[c] = Clean =>
              Sees(log[c]) /\ Settles(log[c])
<1>1. \A i \in 1 .. Len(stack) : stack[i].op \notin {"Write", "WriteFn", "stale"}
  BY DEF Quiet, Pulls
<1>2. ASSUME NEW c \in Cells, NEW d \in Cells, Loose(c), Has(observers[c], d)
      PROVE  state[d] # Clean
  <2>1. PICK k \in DOMAIN observers[c] : observers[c][k] = d
    BY <1>2 DEF Has
  <2>2. k \in 1 .. Len(observers[c])
    BY <2>1, Typed
  <2>3. Reached(c, k)
    BY <1>2, <2>2 DEF FInv, DataFit, Spread
  <2> QED BY <1>1, <2>1, <2>3, CellIs DEF Reached, Awaited, Waits
<1>3. \A c \in Rewritable : fn[c] = None => state[c] = Clean
  BY <1>1 DEF FInv, DataFit, Raw
<1>4. \A c \in Cells : fn[c] # None /\ state[c] = Dirty => moved[c]
  BY <1>1 DEF FInv, DataFit, Due, Prompts
<1>5. ASSUME NEW c \in Cells, fn[c] # None, state[c] = Clean
      PROVE  Sees(log[c]) /\ Settles(log[c])
  <2>1. Sees(log[c])
    BY <1>5, Typed DEF FInv, DataFit, Valid
  <2>2. ASSUME NEW k \in 1 .. Len(log[c]), log[c][k].cell # None
        PROVE  Settled(log[c][k].cell)
    <3>1. PICK d \in Cells : d = log[c][k].cell
      BY <1>5, <2>2, Typed
    <3>2. d \in LogCells(c)
      BY <1>5, <2>2, <3>1, Typed DEF LogCells
    <3>3. Has(sources[c], d)
      BY <1>5, <3>2 DEF FInv, GraphFit, Sourced
    <3>4. Has(observers[d], c)
      BY <1>5, <3>3, Linking
    <3> QED BY <1>2, <1>5, <3>1, <3>4 DEF Settled
  <2> QED BY <2>1, <2>2 DEF Settles
<1> QED BY <1>2, <1>3, <1>4, <1>5

-----------------------------------------------------------------------------
(* The next state. *)

(* The calls in the next state, one part at a time. *)
LEMMA CallsNext ==
  ASSUME NEW t, stack' = t, Shape(t), Passes(t)',
         \A k \in 1 .. Len(t) : Holds(t[k])',
         t # <<>> => Tips(t[Len(t)])', Noted(t, context')
  PROVE  CallsSet'
<1>1. Shape(stack)' /\ Passes(stack)'
  OBVIOUS
<1>2. (\A k \in 1 .. Len(stack) : Holds(stack[k]))'
  OBVIOUS
<1>3. (stack # <<>> => Tips(stack[Len(stack)]))'
  OBVIOUS
<1>4. Noted(stack, context)'
  OBVIOUS
<1> QED BY <1>1, <1>2, <1>3, <1>4 DEF CallsSet

LEMMA CallsNone ==
  ASSUME stack' = <<>> PROVE CallsSet'
<1>1. Len(<<>>) = 0 /\ \A k : k \notin 1 .. 0
  OBVIOUS
<1>2. Passes(<<>>)'
  BY <1>1 DEF Passes
<1>3. \A k \in 1 .. Len(<<>>) : Holds(<<>>[k])'
  BY <1>1
<1> QED BY <1>2, <1>3, CallsNext, ShapeNone, NotedNone

(* Nothing but the calls changes. *)
LEMMA HoldsKept ==
  ASSUME UNCHANGED <<made, fn, value, state, sources, observers>>, NEW f
  PROVE  /\ Holds(f)' <=> Holds(f)
         /\ Tips(f)' <=> Tips(f)
BY DEF Holds, HoldsUpdate, HoldsCheck, HoldsWrite, HoldsWriteFn, Sees, Settles,
       Settled, Loose, Tips

LEMMA CallsKept ==
  ASSUME UNCHANGED <<made, fn, value, state, sources, observers>>,
         NEW t, stack' = t, Shape(t), Passes(t),
         \A k \in 1 .. Len(t) : Holds(t[k]),
         t # <<>> => Tips(t[Len(t)]), Noted(t, context')
  PROVE  CallsSet'
<1>1. Passes(t)'
  BY DEF Passes
<1>2. \A k \in 1 .. Len(t) : Holds(t[k])'
  BY HoldsKept
<1>3. t # <<>> => Tips(t[Len(t)])'
  BY HoldsKept
<1> QED BY <1>1, <1>2, <1>3, CallsNext

(* Links that are as they should be where nothing will be marked any more. *)
LEMMA SpreadNext ==
  ASSUME RInv',
         \A c, d \in Cells : Loose(c)' /\ Has(observers'[c], d) => state'[d] # Clean
  PROVE  Spread'
<1> SUFFICES ASSUME NEW c \in Cells, Loose(c)', NEW k \in 1 .. Len(observers'[c])
             PROVE  \/ observers'[c][k] = Cleanup
                    \/ state'[observers'[c][k]] # Clean
  BY DEF Spread, Reached
<1>1. PICK S : S = Cells \cup {Cleanup}
  OBVIOUS
<1>2. observers'[c] \in Seq(S)
  BY <1>1 DEF RInv, TypeOK
<1>3. k \in DOMAIN observers'[c] /\ observers'[c][k] \in S
  BY <1>2, ElementOfSeq, LenProperties
<1> QED BY <1>1, <1>3 DEF Has

LEMMA QuietMarks ==
  ASSUME Fixed, RInv, RInv', FInv, Quiet, UNCHANGED <<fn, state, observers, moved>>
  PROVE  Raw' /\ Due' /\ Spread'
<1>1. Raw' /\ Due'
  BY QuietFacts, CellIs DEF Raw, Due
<1>2. \A c, d \in Cells : Loose(c)' /\ Has(observers'[c], d) => state'[d] # Clean
  BY QuietFacts DEF Loose
<1> QED BY <1>1, <1>2, SpreadNext

LEMMA QuietKept ==
  ASSUME Fixed, RInv, RInv', FInv, Quiet,
         UNCHANGED <<made, fn, value, state, sources, observers, log, moved>>
  PROVE  GraphFit' /\ DataFit'
<1>1. GraphFit'
  BY DEF FInv, GraphFit, Sourced, LogCells
<1>2. Valid'
  BY DEF FInv, DataFit, Valid, Sees
<1> QED BY <1>1, <1>2, QuietMarks DEF DataFit

(* What a call of the program has run. *)
LEMMA RanNone == ASSUME ran' = {} PROVE RanFit'
BY DEF RanFit

LEMMA RanKept ==
  ASSUME RInv, RanFit, NEW t \in Seq(FrameSet), stack' = t,
         ran' = (IF t = <<>> THEN {} ELSE ran),
         NEW m \in Nat, m <= Len(stack), m <= Len(t),
         \A k \in 1 .. m : /\ t[k].op = stack[k].op /\ t[k].cell = stack[k].cell
                           /\ t[k].fn = stack[k].fn,
         \A k \in 1 .. Len(stack) : m < k => ~Updates(stack[k]),
         stack = <<>> \/ t = <<>> \/ m # 0,
         \A c \in ran \ Effects : state[c] = Clean => state'[c] = Clean
  PROVE  RanFit'
<1>1. CASE t = <<>>
  BY <1>1, RanNone
<1>2. CASE t # <<>> /\ stack = <<>>
  <2>1. ran' = {}
    BY <1>2 DEF RanFit
  <2> QED BY <2>1, RanNone
<1>3. CASE t # <<>> /\ stack # <<>>
  <2>1. 1 \in 1 .. m /\ ran' = ran /\ Len(stack) \in Nat /\ Len(t) \in Nat
    BY <1>3, Typed, LenProperties
  <2>2. /\ t[1].op = stack[1].op /\ t[1].cell = stack[1].cell
        /\ t[1].fn = stack[1].fn
    BY <2>1
  <2>3. Marks(t[1]) => ran = {}
    BY <1>3, <2>2 DEF RanFit, Marks
  <2>4. Runs(t[1]) => ran \cap Area(t[1].fn) = {}
    BY <1>3, <2>2 DEF RanFit, Runs
  <2>5. ASSUME NEW c \in ran
        PROVE  \/ \E i \in 1 .. Len(t) : Updates(t[i]) /\ t[i].cell = c
               \/ c \notin Effects /\ state'[c] = Clean
    <3>1. CASE c \notin Effects /\ state[c] = Clean
      BY <2>5, <3>1
    <3>2. CASE \E i \in 1 .. Len(stack) : Updates(stack[i]) /\ stack[i].cell = c
      <4>1. PICK i \in 1 .. Len(stack) : Updates(stack[i]) /\ stack[i].cell = c
        BY <3>2
      <4>2. i \in 1 .. m /\ i \in 1 .. Len(t)
        BY <2>1, <4>1
      <4>3. Updates(t[i]) /\ t[i].cell = c
        BY <4>1, <4>2 DEF Updates
      <4> QED BY <4>2, <4>3
    <3> QED BY <3>1, <3>2 DEF RanFit
  <2> QED BY <2>1, <2>3, <2>4, <2>5 DEF RanFit
<1> QED BY <1>1, <1>2, <1>3
-----------------------------------------------------------------------------
(* One action at a time: cells are created, calls cut short.               *)

LEMMA StutterFresh ==
  ASSUME FInv, UNCHANGED vars PROVE FInv'
<1>1. GraphFit'
  BY DEF FInv, GraphFit, Sourced, LogCells, vars, graphVars, dataVars, histVars
<1>2. Raw' /\ Due'
  BY DEF FInv, DataFit, Raw, Due, Prompts, LogCells, vars, graphVars, dataVars,
         histVars
<1>3. Spread' /\ Valid'
  BY DEF FInv, DataFit, Spread, Reached, Awaited, Loose, Valid, Sees, vars,
         graphVars, dataVars, histVars
<1>4. CallsSet'
  <2>1. PICK t : t = stack
    OBVIOUS
  <2>2. UNCHANGED <<made, fn, value, state, sources, observers>> /\ stack' = t
        /\ context' = context
    BY <2>1 DEF vars, graphVars, dataVars, context
  <2>3. /\ Shape(t) /\ Passes(t) /\ \A k \in 1 .. Len(t) : Holds(t[k])
        /\ t # <<>> => Tips(t[Len(t)])
        /\ Noted(t, context')
    BY <2>1, <2>2 DEF FInv, CallsSet
  <2> QED BY <2>2, <2>3, CallsKept
<1>5. RanFit'
  BY DEF FInv, RanFit, vars, dataVars, histVars
<1> QED BY <1>1, <1>2, <1>3, <1>4, <1>5 DEF FInv, DataFit

LEMMA SignalFresh ==
  ASSUME Fixed, RInv, RInv', FInv, NEW c \in Signals, NEW v \in Values, Signal(c, v)
  PROVE  FInv'
<1>1. Quiet /\ stack = <<>> /\ c \notin made /\ c \in Cells
  BY QuietIdle DEF Signal, Cells
<1>2. /\ made' = made \cup {c} /\ value' = [value EXCEPT ![c] = v]
      /\ UNCHANGED <<fn, sources, observers, state, stack, log, moved, ran>>
  BY DEF Signal
<1>3. GraphFit'
  <2> SUFFICES ASSUME NEW d \in Cells, Sourced(d) PROVE Sourced(d)'
    BY DEF FInv, GraphFit
  <2>1. made \subseteq made'
    BY <1>2
  <2> QED BY <1>2, <2>1 DEF Sourced, LogCells
<1>4. Valid'
  <2> SUFFICES ASSUME NEW d \in Cells, fn[d] # None, state[d] # Dirty,
                      NEW k \in 1 .. Len(log[d]), log[d][k].cell # None
               PROVE  value'[log[d][k].cell] = log[d][k].val
    BY <1>2 DEF Valid, Sees
  <2>1. log[d][k].cell \in Cells /\ log[d][k].cell \in LogCells(d)
    BY Typed DEF LogCells
  <2>2. Has(sources[d], log[d][k].cell)
    BY <2>1 DEF FInv, GraphFit, Sourced
  <2>3. log[d][k].cell # c
    BY <1>1, <2>1, <2>2 DEF FInv, GraphFit, Sourced
  <2>4. value[log[d][k].cell] = log[d][k].val
    BY DEF FInv, DataFit, Valid, Sees
  <2> QED BY <1>2, <2>1, <2>3, <2>4, Typed
<1>5. Raw' /\ Due' /\ Spread'
  BY <1>1, <1>2, QuietMarks
<1>6. CallsSet'
  BY <1>1, <1>2, CallsNone
<1>7. RanFit'
  BY <1>1, <1>2, RanNone DEF FInv, RanFit
<1> QED BY <1>3, <1>4, <1>5, <1>6, <1>7 DEF FInv, DataFit

(* A new cell with a function is marked, and nobody observes it.           *)
LEMMA Created ==
  ASSUME Fixed, RInv, RInv', FInv, Idle, NEW c \in Cells \ made, NEW f \in Ready(c),
         made' = made \cup {c}, fn' = [fn EXCEPT ![c] = f],
         state' = [state EXCEPT ![c] = Dirty],
         UNCHANGED <<sources, observers, value, log, moved>>
  PROVE  GraphFit' /\ DataFit'
<1>1. /\ Quiet /\ Sourced(c) /\ f \in FnsOf(c) /\ f # None /\ Uses(f) \subseteq made
      /\ made \subseteq made'
  BY QuietIdle, UsedOnly DEF FInv, GraphFit, Ready
<1>2. /\ fn[c] = None /\ sources[c] = <<>> /\ log[c] = <<>> /\ moved[c]
      /\ ~Has(observers[c], Cleanup)
  BY <1>1 DEF Sourced
<1>3. \A d \in Cells : ~Has(observers[c], d)
  BY ObserverIs
<1>4. /\ fn'[c] = f /\ state'[c] = Dirty
      /\ \A d \in Cells : d # c => fn'[d] = fn[d] /\ state'[d] = state[d]
  BY Typed
<1>5. Sourced(c)'
  <2>1. /\ \A d : ~Has(<<>>, d)
        /\ \A d \in Cells : d \notin {log[c][k].cell : k \in DOMAIN log[c]}
    BY <1>2 DEF Has
  <2> QED BY <1>1, <1>2, <1>4, <2>1 DEF Sourced, LogCells
<1>6. ASSUME NEW d \in Cells, d # c PROVE Sourced(d)'
  <2>1. Sourced(d) /\ fn'[d] = fn[d]
    BY <1>4, <1>6 DEF FInv, GraphFit
  <2> QED BY <1>1, <1>6, <2>1 DEF Sourced, LogCells
<1>7. Raw'
  BY <1>1, <1>4, QuietFacts, CellIs DEF Raw
<1>8. Due'
  BY <1>1, <1>2, <1>4, QuietFacts DEF Due
<1>9. Valid'
  BY <1>4 DEF FInv, DataFit, Valid, Sees
<1>10. Spread'
  <2>1. ASSUME NEW x \in Cells, NEW d \in Cells, Loose(x)', Has(observers[x], d)
        PROVE  state'[d] # Clean
    <3>1. x # c
      BY <1>3, <2>1
    <3>2. Loose(x)
      BY <1>4, <2>1, <3>1 DEF Loose
    <3> QED BY <1>1, <1>4, <2>1, <3>2, QuietFacts, Typed
  <2> QED BY <2>1, SpreadNext
<1> QED BY <1>5, <1>6, <1>7, <1>8, <1>9, <1>10 DEF GraphFit, DataFit

LEMMA MemoFresh ==
  ASSUME Fixed, RInv, RInv', FInv, NEW c \in Memos, NEW f \in FnsOf(c), Memo(c, f)
  PROVE  FInv'
<1>1. GraphFit' /\ DataFit'
  <2>1. c \in Cells \ made /\ f \in Ready(c) /\ Idle
    BY DEF Memo, Cells
  <2> QED BY <2>1, Created DEF Memo
<1>2. stack' = <<>> /\ ran' = {}
  BY QuietIdle DEF Memo, FInv, RanFit
<1> QED BY <1>1, <1>2, CallsNone, RanNone DEF FInv

(* A function is called. *)
LEMMA Entering ==
  ASSUME RInv, NEW c \in Cells, NEW f \in FnsOf(c), NEW s, Enter(c, f, s)
  PROVE  \E e \in FrameSet :
           /\ stack' = Append(s, e) /\ e.op = "update" /\ Updates(e)
           /\ e.cell = c /\ e.fn = f /\ e.val = value[c] /\ e.seen = <<>>
           /\ e.saved = context
           /\ context' = <<c, <<>>, 0>> /\ ran' = ran \cup {c}
<1> DEFINE X == (Cells \cup {None}) \X Seq(Cells) \X Nat
           d == Frame("update", c, value[c], f)
           e == [d EXCEPT !.saved = <<current, gets, index>>]
<1>1. f \in Fns /\ value[c] \in Values
  BY DataAssumption DEF RInv, TypeOK
<1>2. context \in X
  BY DEF RInv, TypeOK, context
<1>3. /\ d \in FrameSet /\ d.op = "update" /\ d.cell = c /\ d.fn = f
      /\ d.val = value[c] /\ d.seen = <<>>
  BY <1>1, NewFrame DEF Frame
<1>4. FrameSet =
        [op : {"Read", "Write", "WriteFn", "stale", "updateIfNecessary",
               "update"},
         cell : Cells, arg : Nat \ {0}, val : Values, fn : Fns \cup {None},
         list : Seq(Cells), seen : Seq(Seen), saved : X]
  BY DEF FrameSet
<1> HIDE DEF X, d
<1>5. /\ e \in FrameSet /\ e.op = "update" /\ e.cell = c /\ e.fn = f
      /\ e.saved = context /\ e.val = value[c] /\ e.seen = <<>>
  BY <1>2, <1>3, <1>4 DEF context
<1>6. /\ stack' = Append(s, e) /\ context' = <<c, <<>>, 0>> /\ ran' = ran \cup {c}
  BY DEF Enter, d, context
<1> HIDE DEF e
<1> QED BY <1>5, <1>6 DEF Updates

LEMMA EffectFresh ==
  ASSUME Fixed, RInv, RInv', FInv, NEW c \in Effects, NEW f \in FnsOf(c), Effect(c, f)
  PROVE  FInv'
<1>1. /\ c \in Cells \ made /\ f \in Ready(c) /\ Idle /\ stack = <<>> /\ ran = {}
      /\ context = context
  BY CellIs DEF Effect, Idle, FInv, RanFit
<1>2. GraphFit' /\ DataFit'
  BY <1>1, Created DEF Effect
<1>3. PICK e \in FrameSet :
        /\ stack' = Append(<<>>, e) /\ e.op = "update" /\ Updates(e)
        /\ e.cell = c /\ e.fn = f /\ e.val = value[c] /\ e.seen = <<>>
        /\ e.saved = context
        /\ context' = <<c, <<>>, 0>> /\ ran' = ran \cup {c}
  BY <1>1, Entering DEF Effect
<1> DEFINE t == Append(<<>>, e)
<1>4. /\ <<>> \in Seq(FrameSet) /\ t \in Seq(FrameSet) /\ Len(t) = 1 /\ t[1] = e
      /\ t # <<>>
  BY EmptySeq, Joined
<1> HIDE DEF t
<1>5. Shape(t) /\ Passes(t)'
  <2>1. Fits(<<>>, e)
    BY <1>3 DEF Fits, Grounds, Runs
  <2>2. Passes(t)'
    BY <1>3, <1>4 DEF Passes
  <2> QED BY <1>4, <2>1, <2>2, ShapePush, ShapeNone DEF t
<1>6. Holds(e)'
  <2>1. fn'[c] = f /\ state'[c] = Dirty /\ value'[c] = value[c]
    BY <1>1, Typed DEF Effect
  <2>2. Lived(f, <<>>) /\ Sees(<<>>)' /\ Settles(<<>>)'
    BY LivedNothing DEF Sees, Settles
  <2> QED BY <1>3, <2>1, <2>2 DEF Holds, HoldsUpdate
<1>7. Tips(e)'
  BY <1>3 DEF Tips
<1>8. Noted(t, context')
  <2>1. context'[2] = <<>> /\ context'[3] = 0
    BY <1>3
  <2>2. PICK y : y = context'
    OBVIOUS
  <2>3. PICK x : x = context
    OBVIOUS
  <2> QED BY <1>3, <1>4, <2>1, <2>2, <2>3, NotedNone, NotedEnter DEF t
<1>9. CallsSet'
  <2>1. stack' = t /\ \A k \in 1 .. Len(t) : t[k] = e
    BY <1>3, <1>4 DEF t
  <2>2. \A k \in 1 .. Len(t) : Holds(t[k])'
    BY <1>6, <2>1
  <2> QED BY <1>4, <1>5, <1>7, <1>8, <2>1, <2>2, CallsNext
<1>10. RanFit'
  <2>1. stack' = t /\ t[1] = e /\ Len(t) = 1 /\ t # <<>> /\ ran' = {c}
    BY <1>1, <1>3, <1>4 DEF t
  <2>2. Area(f) \subseteq Cells \ Effects
    BY IsolatedArea DEF Fixed
  <2>3. ~Marks(e)
    BY <1>3 DEF Marks
  <2> QED BY <1>3, <2>1, <2>2, <2>3 DEF RanFit
<1> QED BY <1>2, <1>9, <1>10 DEF FInv

(* A panic leaves nothing of the calls behind. *)
LEMMA UnwindFresh ==
  ASSUME Fixed, RInv, RInv', FInv, Quiet, Unwind,
         UNCHANGED <<made, fn, value, state, sources, observers, log, moved>>
  PROVE  FInv'
<1>1. stack' = <<>> /\ ran' = {}
  BY DEF Unwind, Leave
<1> QED BY <1>1, QuietKept, CallsNone, RanNone DEF FInv

LEMMA PanicFresh ==
  ASSUME Fixed, RInv, RInv', FInv, Panic
  PROVE  FInv'
<1>1. ~Idle /\ Pulls(Top)
  BY DEF Panic, Doing, In, Pulls
<1> QED BY <1>1, QuietTop, UnwindFresh DEF Panic, graphVars, dataVars

LEMMA NilCallFresh ==
  ASSUME Fixed, RInv, RInv', FInv, NilCall
  PROVE  FInv'
<1>1. ~Idle /\ Pulls(Top)
  BY DEF NilCall, Checked, In, Pulls
<1> QED BY <1>1, QuietTop, UnwindFresh DEF NilCall, dataVars
-----------------------------------------------------------------------------
(* One action at a time: what a cell needs is brought up to date.          *)

(* What a call needs to be about a cell that the call below it uses.       *)
LEMMA BesideDown ==
  ASSUME Fixed, NEW f \in FrameSet, FrameFits(f), NEW g \in FrameSet, Pulls(g),
         Beside(f, g), NEW e \in FrameSet, Pulls(e),
         e.cell = g.cell \/ e.cell \in Needs(g.cell)
  PROVE  Beside(f, e)
<1>1. /\ f.cell \in Cells /\ g.cell \in Cells /\ e.cell \in Cells
      /\ g.op # "stale" /\ ~Marks(e) /\ e.op # "Write"
  BY FrameIs DEF Pulls, Marks
<1>2. g.cell \in Cells \ Effects /\ ~Marks(f)
  BY <1>1 DEF Beside
<1>3. CASE e.cell = g.cell
  BY <1>1, <1>2, <1>3 DEF Beside
<1>4. CASE e.cell \in Needs(g.cell)
  <2>1. PICK h \in FnsOf(g.cell) : e.cell \in Uses(h)
    BY <1>4 DEF Needs
  <2>2. e.cell \notin Effects /\ Rank[e.cell] < Rank[g.cell]
    BY <1>1, <1>4, <2>1, UsedOnly
  <2>3. /\ Rank[e.cell] \in Nat /\ Rank[g.cell] \in Nat /\ Rank[f.cell] \in Nat
    BY <1>1, RankFalls DEF Fixed, Proper
  <2>4. f.op \in Downward => Rank[e.cell] < Rank[f.cell]
    BY <2>2, <2>3 DEF Beside
  <2>5. Runs(f) => e.cell \notin Area(f.fn)
    <3> SUFFICES ASSUME Runs(f), e.cell \in Area(f.fn) PROVE FALSE
      OBVIOUS
    <3>1. f.cell \in Effects /\ f.fn \in FnsOf(f.cell)
      BY DEF Runs, FrameFits
    <3>2. Isolated(f.fn, Area(f.fn))
      BY <3>1, IsolatedArea DEF Fixed
    <3>3. g.cell \in Area(f.fn)
      BY <1>2, <1>4, <3>2 DEF Isolated
    <3> QED BY <3>3 DEF Beside
  <2> QED BY <1>1, <1>2, <2>2, <2>4, <2>5 DEF Beside
<1> QED BY <1>3, <1>4

(* The call on top and those below it. *)
LEMMA BelowTop ==
  ASSUME RInv, FInv, ~Idle
  PROVE  /\ Shape(Rest) /\ Fits(Rest, Top)
         /\ \A k \in 1 .. Len(stack) : FrameFits(stack[k]) /\ Holds(stack[k])
         /\ FrameFits(Top) /\ Holds(Top) /\ Tips(Top)
         /\ \A k \in 1 .. (Len(stack) - 1) :
              /\ FrameFits(Rest[k]) /\ Holds(Rest[k]) /\ Beside(Rest[k], Top)
         /\ Len(stack) # 1 => Leads(stack[Len(stack) - 1], Top)
         /\ Len(stack) = 1 => Grounds(Top)
<1> DEFINE n == Len(stack)
<1>1. /\ stack \in Seq(FrameSet) /\ stack # <<>>
      /\ n \in Nat \ {0} /\ Top = stack[n]
      /\ Rest = SubSeq(stack, 1, n - 1)
      /\ Rest \in Seq(FrameSet) /\ Len(Rest) = n - 1
      /\ \A k \in 1 .. (n - 1) : Rest[k] = stack[k] /\ k \in 1 .. n
      /\ Rest = <<>> <=> n = 1
  BY StackNow
<1>2. n \in 1 .. n /\ DOMAIN stack = 1 .. n
  BY <1>1, LenProperties
<1>3. Shape(Rest) /\ Fits(Rest, Top)
  BY <1>1, ShapePop DEF FInv, CallsSet
<1>4. \A k \in 1 .. n : FrameFits(stack[k]) /\ Holds(stack[k])
  BY <1>2 DEF FInv, CallsSet, RInv, CallsFit
<1>5. Tips(Top)
  BY <1>1 DEF FInv, CallsSet
<1>6. n # 1 => n - 1 \in 1 .. (n - 1)
  BY <1>1
<1> HIDE DEF n
<1> QED BY <1>1, <1>2, <1>3, <1>4, <1>5, <1>6 DEF Fits, n

(* What updates a cell is called by its Read() or the check of a cell that *)
(* has it as a source. *)
LEMMA CallerIs ==
  ASSUME RInv, FInv, ~Idle, Top.op \in Downward, Len(stack) # 1
  PROVE  LET f == stack[Len(stack) - 1]
         IN  /\ ~Updates(f) /\ f \in FrameSet
             /\ \/ f.op = "Read" /\ f.cell = Top.cell
                \/ /\ f.op = "updateIfNecessary"
                   /\ f.arg > 1 /\ f.list[f.arg - 1] = Top.cell
<1>1. Leads(stack[Len(stack) - 1], Top)
  BY BelowTop
<1>2. stack[Len(stack) - 1] \in FrameSet
  BY StackNow
<1> QED BY <1>1, <1>2 DEF Leads, Downward, Marks, Updates

LEMMA CheckGrounded ==
  ASSUME RInv, FInv, In("updateIfNecessary")
  PROVE  /\ ~Idle /\ Pulls(Top) /\ Quiet /\ ~Updates(Top) /\ Top.op \in Downward
         /\ Len(stack) # 1
<1>1. ~Idle /\ Top.op = "updateIfNecessary"
  BY DEF In
<1>2. Pulls(Top) /\ ~Updates(Top) /\ Top.op \in Downward
  BY <1>1 DEF Pulls, Updates, Downward
<1> QED BY <1>1, <1>2, QuietTop, BelowTop DEF Grounds, Runs

(* The frame of a loop that goes on, and that of a check that begins. *)
LEMMA AdvancedIs ==
  ASSUME RInv, ~Idle
  PROVE  \E g \in FrameSet :
           /\ Advanced = Append(Rest, g) /\ Similar(Top, g) /\ g.seen = Top.seen
           /\ g.val = Top.val /\ g.arg = Top.arg + 1
<1> DEFINE g == [Top EXCEPT !.arg = @ + 1]
<1>1. Top \in FrameSet
  BY StackNow
<1>2. g \in FrameSet /\ Similar(Top, g)
  BY <1>1, FrameChanges
<1>3. g.seen = Top.seen /\ g.val = Top.val /\ g.arg = Top.arg + 1
  BY <1>1 DEF FrameSet
<1>4. Advanced = Append(Rest, g)
  BY DEF Advanced
<1> HIDE DEF g
<1> QED BY <1>2, <1>3, <1>4

LEMMA CheckFrameIs ==
  ASSUME RInv, NEW c \in Cells
  PROVE  \E e \in FrameSet :
           /\ e = CheckFrame(c) /\ e.op = "updateIfNecessary" /\ e.cell = c
           /\ e.list = sources[c] /\ e.arg = 1
           /\ Pulls(e) /\ ~Updates(e)
           /\ Holds(e) /\ Tips(e)
<1> DEFINE e == CheckFrame(c)
<1>1. e \in FrameSet /\ e.op = "updateIfNecessary" /\ e.cell = c
  BY NewCheck DEF RInv
<1>2. e.list = sources[c] /\ e.arg = 1
  BY DEF CheckFrame, Frame
<1>3. sources[c] \in Seq(Cells) /\ Len(sources[c]) \in Nat
  BY Typed, LenProperties
<1> HIDE DEF e
<1>4. HoldsCheck(e)
  BY <1>1, <1>2, <1>3 DEF HoldsCheck
<1> QED BY <1>1, <1>2, <1>4 DEF Holds, Tips, Pulls, Updates, e

LEMMA CheckSourceFresh ==
  ASSUME Fixed, RInv, RInv', FInv, CheckSource
  PROVE  FInv'
<1> DEFINE n == Len(stack)
           d == Top.list[Top.arg]
           c == Top.cell
<1>1. /\ ~Idle /\ Pulls(Top) /\ Quiet /\ ~Updates(Top) /\ Top.op \in Downward
      /\ n # 1 /\ Top.op = "updateIfNecessary"
  BY CheckGrounded DEF CheckSource, Checking, In
<1>2. /\ stack \in Seq(FrameSet) /\ stack # <<>>
      /\ n \in Nat \ {0} /\ Top = stack[n] /\ Top \in FrameSet
      /\ \A k \in 1 .. n : stack[k] \in FrameSet /\ (k = n \/ k \in 1 .. (n - 1))
      /\ Rest = SubSeq(stack, 1, n - 1)
      /\ Rest \in Seq(FrameSet) /\ Len(Rest) = n - 1
      /\ \A k \in 1 .. (n - 1) : Rest[k] = stack[k] /\ k \in 1 .. n
      /\ Rest = <<>> <=> n = 1
  BY <1>1, StackNow
<1>3. /\ c \in Cells /\ Top.list = sources[c] /\ Top.arg \in 1 .. Len(Top.list)
      /\ Top.arg \in Nat \ {0} /\ Len(Top.list) \in Nat
      /\ DOMAIN Top.list = 1 .. Len(Top.list)
      /\ \A k \in 1 .. Len(Top.list) : k + 1 < Top.arg => Settled(Top.list[k])
      /\ Top.arg > 1 => Settled(Top.list[Top.arg - 1])
  <2>1. Holds(Top) /\ Tips(Top)
    BY <1>1, BelowTop
  <2>2. /\ Top.cell \in Cells /\ Top.list \in Seq(Cells)
        /\ Top.arg \in Nat \ {0} /\ Top.arg <= Len(Top.list)
    BY <1>2, FrameIs DEF CheckSource, Checking
  <2> QED BY <1>1, <2>1, <2>2, LenProperties DEF Holds, HoldsCheck, Tips
<1>4. d \in Needs(c) /\ d \in Cells /\ d \notin Effects /\ Rank[d] < Rank[c]
  <2>1. d \in Cells /\ Has(sources[c], d)
    BY <1>2, <1>3, FrameIs, ElementOfSeq DEF Has
  <2>2. Has(observers[d], c)
    BY <1>3, <2>1, Linking
  <2> QED BY <1>3, <2>1, <2>2, ObserverIs
<1>5. PICK g \in FrameSet :
        /\ Advanced = Append(Rest, g) /\ Similar(Top, g) /\ g.seen = Top.seen
        /\ g.val = Top.val /\ g.arg = Top.arg + 1
  BY <1>1, AdvancedIs
<1>6. PICK e \in FrameSet :
        /\ e = CheckFrame(d) /\ e.op = "updateIfNecessary" /\ e.cell = d
        /\ e.list = sources[d] /\ e.arg = 1
        /\ Pulls(e) /\ ~Updates(e)
        /\ Holds(e) /\ Tips(e)
  BY <1>4, CheckFrameIs
<1>7. PICK s : s = Append(Rest, g)
  OBVIOUS
<1>8. PICK t : t = Append(s, e)
  OBVIOUS
<1>9. stack' = t /\ UNCHANGED <<made, fn, value, state, sources, observers, log, moved>>
      /\ context' = context /\ ran' = ran
  BY <1>5, <1>6, <1>7, <1>8 DEF CheckSource, graphVars, dataVars, context, histVars
<1>10. /\ s \in Seq(FrameSet) /\ Len(s) = n /\ s # <<>>
       /\ s[n] = g /\ \A k \in 1 .. (n - 1) : s[k] = stack[k]
  <2>1. /\ s \in Seq(FrameSet) /\ Len(s) = Len(Rest) + 1 /\ s # <<>>
        /\ s[Len(Rest) + 1] = g /\ \A k \in 1 .. Len(Rest) : s[k] = Rest[k]
    <3>1. Rest \in Seq(FrameSet)
      BY <1>2
    <3> HIDE DEF n, d, c
    <3> QED BY <1>7, <3>1, Joined
  <2> QED BY <1>2, <2>1
<1>11. /\ t \in Seq(FrameSet) /\ Len(t) = n + 1 /\ t # <<>>
       /\ t[n + 1] = e /\ \A k \in 1 .. n : t[k] = s[k]
       /\ \A k \in 1 .. (n + 1) : k = n + 1 \/ k \in 1 .. n
  <2>1. /\ t \in Seq(FrameSet) /\ Len(t) = Len(s) + 1 /\ t # <<>>
        /\ t[Len(s) + 1] = e /\ \A k \in 1 .. Len(s) : t[k] = s[k]
        /\ \A k \in 1 .. (Len(s) + 1) : k = Len(s) + 1 \/ k \in 1 .. Len(s)
    BY <1>8, <1>10, Joined
  <2> QED BY <1>10, <2>1
<1>12. g.op = Top.op /\ g.cell = c /\ g.fn = Top.fn /\ g.list = Top.list
       /\ g.saved = Top.saved /\ ~Updates(g)
  BY <1>1, <1>5 DEF Similar, Updates
<1> HIDE DEF n, d, c
<1>13. Shape(t)
  <2>1. Shape(s)
    <3>1. Shape(stack) /\ Resembles(Top, g)
      BY <1>12 DEF FInv, CallsSet, Resembles, c
    <3> QED BY <1>2, <1>7, <1>12, <3>1, ShapeSwap DEF n
  <2>2. Leads(g, e)
    <3>1. g.arg - 1 = Top.arg
      BY <1>3, <1>5
    <3> QED BY <1>1, <1>3, <1>5, <1>6, <1>12, <3>1 DEF Leads, d, Downward
  <2>3. Beside(g, e)
    BY <1>1, <1>4, <1>6, <1>12 DEF Beside, Marks, Runs, Pulls
  <2>4. \A k \in 1 .. (n - 1) : Beside(Rest[k], e)
    <3> SUFFICES ASSUME NEW k \in 1 .. (n - 1) PROVE Beside(Rest[k], e)
      OBVIOUS
    <3>1. FrameFits(Rest[k]) /\ Beside(Rest[k], Top) /\ Rest[k] \in FrameSet
      BY <1>1, <1>2, BelowTop DEF n
    <3> QED BY <1>1, <1>2, <1>4, <1>6, <3>1, BesideDown DEF c
  <2>5. Fits(s, e)
    <3>1. \A k \in 1 .. Len(s) : Beside(s[k], e)
      BY <1>2, <1>10, <2>3, <2>4
    <3> QED BY <1>10, <2>2, <3>1 DEF Fits
  <2> QED BY <1>8, <1>10, <2>1, <2>5, ShapePush
<1>14. ASSUME NEW k \in 1 .. Len(t) PROVE Holds(t[k]) /\ Pulls(t[k])
  <2>1. CASE k = n + 1
    BY <1>6, <1>11, <2>1
  <2>2. CASE k \in 1 .. (n - 1)
    BY <1>1, <1>2, <1>10, <1>11, <2>2, BelowTop DEF Quiet, n
  <2>3. CASE k = n
    <3>1. HoldsCheck(g)
      <4>1. ASSUME NEW j \in 1 .. Len(Top.list), j + 1 < Top.arg + 1
            PROVE  Settled(Top.list[j])
        <5>1. j + 1 < Top.arg \/ (Top.arg > 1 /\ j = Top.arg - 1)
          BY <1>3, <4>1
        <5> QED BY <1>3, <5>1
      <4> QED BY <1>3, <1>5, <1>12, <4>1 DEF HoldsCheck
    <3>2. t[k] = g
      BY <1>2, <1>10, <1>11, <2>3
    <3> QED BY <1>1, <1>12, <3>1, <3>2 DEF Holds, Pulls
  <2> QED BY <1>2, <1>11, <1>14, <2>1, <2>2, <2>3
<1>15. Passes(t)
  BY <1>14, PassesNone DEF Pulls
<1>16. Noted(t, context')
  <2>1. PICK x : x = context
    OBVIOUS
  <2>2. Noted(stack, x)
    BY <2>1 DEF FInv, CallsSet
  <2>3. Noted(s, x)
    BY <1>1, <1>2, <1>7, <1>12, <2>2, NotedSwap DEF n, c
  <2>4. ~Updates(s[Len(s)])
    BY <1>10, <1>12
  <2>5. Noted(t, x)
    BY <1>6, <1>8, <1>10, <2>3, <2>4, NotedPush
  <2> QED BY <1>9, <2>1, <2>5
<1>17. CallsSet'
  BY <1>6, <1>9, <1>11, <1>13, <1>14, <1>15, <1>16, CallsKept
<1>18. RanFit'
  <2>1. n <= Len(stack) /\ n <= Len(t) /\ n \in Nat
        /\ \A k \in 1 .. Len(stack) : n < k => ~Updates(stack[k])
    BY <1>2, <1>11 DEF n
  <2>2. \A k \in 1 .. n : /\ t[k].op = stack[k].op /\ t[k].cell = stack[k].cell
                          /\ t[k].fn = stack[k].fn
    BY <1>2, <1>10, <1>11, <1>12 DEF c
  <2>3. n # 0 /\ RanFit /\ ran' = (IF t = <<>> THEN {} ELSE ran)
        /\ \A x \in ran \ Effects : state[x] = Clean => state'[x] = Clean
    BY <1>2, <1>9, <1>11 DEF FInv
  <2> QED BY <1>9, <1>11, <2>1, <2>2, <2>3, RanKept
<1> QED BY <1>1, <1>9, <1>17, <1>18, QuietKept DEF FInv

(* What is being gone over or run stays as it was when a cell settles.     *)
LEMMA HoldsStays ==
  ASSUME UNCHANGED <<fn, value, sources>>, NEW f \in FrameSet, Holds(f), Pulls(f),
         \A c \in Cells : Settled(c) => Settled(c)',
         Updates(f) => state'[f.cell] = Dirty,
         f.op \in {"update", "updateIfNecessary"} =>
           /\ \A k \in 1 .. Len(f.seen) : f.seen[k].cell \in Cells \cup {None}
           /\ \A k \in 1 .. Len(f.list) : f.list[k] \in Cells
  PROVE  Holds(f)'
<1>1. f.op = "update" => HoldsUpdate(f)'
  BY DEF Holds, HoldsUpdate, Sees, Settles, Updates
<1>2. f.op = "updateIfNecessary" => HoldsCheck(f)'
  BY DEF Holds, HoldsCheck
<1> QED BY <1>1, <1>2 DEF Holds, Pulls

LEMMA FrameCells ==
  ASSUME NEW f \in FrameSet
  PROVE  /\ \A k \in 1 .. Len(f.seen) : f.seen[k].cell \in Cells \cup {None}
         /\ \A k \in 1 .. Len(f.list) : f.list[k] \in Cells
<1>1. f.seen \in Seq(Seen) /\ f.list \in Seq(Cells)
  BY FrameIs
<1>2. \A k \in 1 .. Len(f.seen) : f.seen[k] \in Seen
  BY <1>1, ElementOfSeq
<1>3. \A k \in 1 .. Len(f.list) : f.list[k] \in Cells
  BY <1>1, ElementOfSeq
<1> QED BY <1>2, <1>3 DEF Seen

LEMMA CheckEndFresh ==
  ASSUME Fixed, RInv, RInv', FInv, CheckEnd
  PROVE  FInv'
<1> DEFINE n == Len(stack)
<1>0. PICK c : c = Top.cell
  OBVIOUS
<1>1. /\ ~Idle /\ Pulls(Top) /\ Quiet /\ ~Updates(Top) /\ Top.op \in Downward
      /\ n # 1 /\ Top.op = "updateIfNecessary"
  BY CheckGrounded DEF CheckEnd, Checked, In
<1>2. /\ stack \in Seq(FrameSet) /\ stack # <<>>
      /\ n \in Nat \ {0} /\ Top = stack[n] /\ Top \in FrameSet
      /\ \A k \in 1 .. n : stack[k] \in FrameSet /\ (k = n \/ k \in 1 .. (n - 1))
      /\ Rest = SubSeq(stack, 1, n - 1)
      /\ Rest \in Seq(FrameSet) /\ Len(Rest) = n - 1
      /\ \A k \in 1 .. (n - 1) : Rest[k] = stack[k] /\ k \in 1 .. n
      /\ Rest = <<>> <=> n = 1
  BY <1>1, StackNow
<1>3. PICK t : t = Rest
  OBVIOUS
<1>4. /\ stack' = t /\ UNCHANGED <<made, fn, value, sources, observers, log, moved>>
      /\ context' = context /\ ran' = ran
      /\ state[c] # Dirty /\ state' = [state EXCEPT ![c] = Clean]
  BY <1>0, <1>3 DEF CheckEnd, graphVars, context, histVars
<1>5. c \in Cells /\ t \in Seq(FrameSet) /\ Len(t) = n - 1 /\ t # <<>>
      /\ n - 1 \in 1 .. (n - 1)
      /\ \A k \in 1 .. (n - 1) : t[k] = stack[k] /\ k \in 1 .. n
  BY <1>0, <1>1, <1>2, <1>3, FrameIs
<1>6. /\ state'[c] = Clean /\ \A x \in Cells : x # c => state'[x] = state[x]
      /\ \A x \in Cells : Loose(x)' => x # c /\ Loose(x)
      /\ \A x \in Cells : Settled(x) => Settled(x)'
      /\ Settled(c)'
  <2>1. /\ state'[c] = Clean /\ \A x \in Cells : x # c => state'[x] = state[x]
    BY <1>4, <1>5, Typed
  <2>2. \A x \in Cells : Loose(x)' => x # c /\ Loose(x)
    BY <1>4, <2>1 DEF Loose
  <2> QED BY <1>5, <2>1, <2>2 DEF Settled
<1> HIDE DEF n
<1>7. \A x \in Cells : Has(observers[x], c) => Settled(x)
  <2> SUFFICES ASSUME NEW x \in Cells, Has(observers[x], c), Loose(x) PROVE FALSE
    BY DEF Settled
  <2>1. state[c] # Clean
    BY <1>1, <1>5, QuietFacts
  <2>2. state[c] = Check
    BY <1>4, <1>5, <2>1, Typed
  <2>3. Holds(Top) /\ Tips(Top)
    BY <1>1, BelowTop
  <2>4. /\ Top.list = sources[c] /\ Top.arg \in Nat \ {0}
        /\ Len(Top.list) \in Nat /\ DOMAIN Top.list = 1 .. Len(Top.list)
        /\ Top.arg <= Len(Top.list) + 1
    <3>1. Top.list \in Seq(Cells) /\ Top.arg \in Nat \ {0}
      BY <1>2, FrameIs
    <3> QED BY <1>0, <1>1, <2>3, <3>1, LenProperties DEF Holds, HoldsCheck
  <2>5. Top.arg = Len(Top.list) + 1
    <3>1. ~(Top.arg <= Len(Top.list))
      BY <1>0, <2>2 DEF CheckEnd, Checked, Checking
    <3> QED BY <2>4, <3>1
  <2>6. PICK k \in 1 .. Len(Top.list) : Top.list[k] = x
    <3>1. Has(sources[c], x)
      BY <1>5, Linking
    <3> QED BY <2>4, <3>1 DEF Has
  <2>7. k + 1 < Top.arg \/ (Top.arg > 1 /\ k = Top.arg - 1)
    BY <2>4, <2>5, <2>6
  <2>8. Settled(x)
    BY <1>1, <2>3, <2>6, <2>7 DEF Holds, HoldsCheck, Tips
  <2> QED BY <2>8 DEF Settled
<1>8. GraphFit'
  BY <1>4 DEF FInv, GraphFit, Sourced, LogCells
<1>9. Raw' /\ Due'
  BY <1>1, <1>4, <1>6, QuietFacts, CellIs, Typed DEF Raw, Due
<1>10. Valid'
  BY <1>4, <1>5, <1>6 DEF FInv, DataFit, Valid, Sees
<1>11. Spread'
  <2>1. ASSUME NEW x \in Cells, NEW d \in Cells, Loose(x)', Has(observers[x], d)
        PROVE  state'[d] # Clean
    <3>1. Loose(x)
      BY <1>6, <2>1
    <3>2. d # c
      BY <1>7, <2>1, <3>1 DEF Settled
    <3> QED BY <1>1, <1>6, <2>1, <3>1, <3>2, QuietFacts
  <2> QED BY <1>4, <2>1, SpreadNext
<1>12. CallsSet'
  <2>1. Shape(t)
    BY <1>1, <1>3, BelowTop
  <2>2. \A k \in 1 .. Len(t) : t[k].op # "stale"
    BY <1>1, <1>2, <1>5 DEF Quiet, Pulls, n
  <2>3. Passes(t)'
    BY <2>2 DEF Passes
  <2>4. ASSUME NEW k \in 1 .. Len(t) PROVE Holds(t[k])'
    <3>1. t[k] \in FrameSet /\ Holds(t[k]) /\ Pulls(t[k])
      BY <1>1, <1>2, <1>5, <2>4, BelowTop DEF Quiet, n
    <3>2. Updates(t[k]) => state'[t[k].cell] = Dirty
      <4>1. Updates(t[k]) => t[k].cell \in Cells /\ state[t[k].cell] = Dirty
        BY <3>1, FrameIs DEF Holds, HoldsUpdate, Updates
      <4> QED BY <1>4, <1>6, <4>1
    <3> QED BY <1>4, <1>6, <3>1, <3>2, FrameCells, HoldsStays
  <2>5. Tips(t[Len(t)])' /\ ~Updates(t[Len(t)])
    <3>1. PICK f : f = stack[n - 1]
      OBVIOUS
    <3>2. /\ ~Updates(f)
          /\ \/ f.op = "Read" /\ f.cell = c
             \/ /\ f.op = "updateIfNecessary"
                /\ f.arg > 1 /\ f.list[f.arg - 1] = c
      BY <1>0, <1>1, <3>1, CallerIs DEF n
    <3>3. t[Len(t)] = f
      BY <1>5, <3>1
    <3>4. Tips(f)'
      BY <1>6, <3>2 DEF Tips
    <3> QED BY <3>2, <3>3, <3>4
  <2>6. Noted(t, context')
    <3>1. PICK x : x = context
      OBVIOUS
    <3>2. Noted(stack, x)
      BY <3>1 DEF FInv, CallsSet
    <3>3. ~Updates(stack[n - 1])
      BY <1>5, <2>5
    <3>4. Noted(t, x)
      BY <1>1, <1>2, <1>3, <3>2, <3>3, NotedPop DEF n
    <3> QED BY <1>4, <3>1, <3>4
  <2> QED BY <1>4, <2>1, <2>3, <2>4, <2>5, <2>6, CallsNext
<1>13. RanFit'
  <2>1. n - 1 <= Len(stack) /\ n - 1 <= Len(t) /\ n - 1 \in Nat /\ n - 1 # 0
        /\ \A k \in 1 .. Len(stack) : n - 1 < k => ~Updates(stack[k])
    BY <1>1, <1>2, <1>5 DEF n
  <2>2. \A k \in 1 .. (n - 1) : /\ t[k].op = stack[k].op /\ t[k].cell = stack[k].cell
                                /\ t[k].fn = stack[k].fn
    BY <1>5
  <2>3. /\ RanFit /\ ran' = (IF t = <<>> THEN {} ELSE ran)
        /\ \A x \in ran \ Effects : state[x] = Clean => state'[x] = Clean
    BY <1>4, <1>5, <1>6, Typed DEF FInv
  <2> QED BY <1>4, <1>5, <2>1, <2>2, <2>3, RanKept
<1> QED BY <1>8, <1>9, <1>10, <1>11, <1>12, <1>13 DEF FInv, DataFit

LEMMA UpdateFresh ==
  ASSUME Fixed, RInv, RInv', FInv, Update
  PROVE  FInv'
<1> DEFINE n == Len(stack)
           c == Top.cell
<1>1. /\ ~Idle /\ Pulls(Top) /\ Quiet /\ ~Updates(Top) /\ Top.op \in Downward
      /\ n # 1 /\ Top.op = "updateIfNecessary"
  BY CheckGrounded DEF Update, Checked, In
<1>2. /\ stack \in Seq(FrameSet) /\ stack # <<>>
      /\ n \in Nat \ {0} /\ Top = stack[n] /\ Top \in FrameSet
      /\ \A k \in 1 .. n : stack[k] \in FrameSet /\ (k = n \/ k \in 1 .. (n - 1))
      /\ Rest = SubSeq(stack, 1, n - 1)
      /\ Rest \in Seq(FrameSet) /\ Len(Rest) = n - 1
      /\ \A k \in 1 .. (n - 1) : Rest[k] = stack[k] /\ k \in 1 .. n
      /\ Rest = <<>> <=> n = 1
  BY <1>1, StackNow
<1>3. /\ c \in Cells /\ fn[c] # None /\ fn[c] \in FnsOf(c) /\ state[c] = Dirty
      /\ c \notin Effects
  <2>1. c \in Cells /\ fn[c] # None /\ state[c] = Dirty
    BY <1>2, FrameIs DEF Update
  <2>2. Beside(Rest[1], Top)
    <3>1. 1 \in 1 .. (n - 1)
      BY <1>1, <1>2
    <3> QED BY <1>1, <3>1, BelowTop
  <2>3. c \notin Effects
    BY <1>1, <2>2 DEF Beside
  <2> QED BY <2>1, <2>3 DEF RInv, Sunk
<1>4. PICK s : s = Rest
  OBVIOUS
<1>5. PICK e \in FrameSet :
        /\ stack' = Append(s, e) /\ e.op = "update" /\ Updates(e)
        /\ e.cell = c /\ e.fn = fn[c] /\ e.val = value[c] /\ e.seen = <<>>
        /\ e.saved = context
        /\ context' = <<c, <<>>, 0>> /\ ran' = ran \cup {c}
  BY <1>3, <1>4, Entering DEF Update
<1>6. PICK t : t = Append(s, e)
  OBVIOUS
<1>7. /\ stack' = t /\ UNCHANGED <<made, fn, value, state, sources, observers, log, moved>>
  BY <1>5, <1>6 DEF Update, dataVars
<1>8. s \in Seq(FrameSet) /\ Len(s) = n - 1 /\ s # <<>>
      /\ \A k \in 1 .. (n - 1) : s[k] = stack[k] /\ k \in 1 .. n
  BY <1>1, <1>2, <1>4
<1>9. /\ t \in Seq(FrameSet) /\ Len(t) = n /\ t # <<>>
      /\ t[n] = e /\ \A k \in 1 .. (n - 1) : t[k] = stack[k]
      /\ \A k \in 1 .. n : k = n \/ k \in 1 .. (n - 1)
  <2> HIDE DEF n, c
  <2>1. /\ t \in Seq(FrameSet) /\ Len(t) = Len(s) + 1 /\ t # <<>>
        /\ t[Len(s) + 1] = e /\ \A k \in 1 .. Len(s) : t[k] = s[k]
    BY <1>6, <1>8, Joined
  <2> QED BY <1>2, <1>8, <2>1
<1> HIDE DEF n, c
<1>10. Shape(t)
  <2>1. Resembles(Top, e) /\ Shape(stack)
    BY <1>1, <1>5 DEF Resembles, Downward, c, FInv, CallsSet
  <2> QED BY <1>1, <1>2, <1>4, <1>6, <2>1, ShapeSwap DEF n
<1>11. ASSUME NEW k \in 1 .. Len(t) PROVE Holds(t[k]) /\ Pulls(t[k])
  <2>1. CASE k = n
    <3>1. HoldsUpdate(e)
      BY <1>3, <1>5, LivedNothing DEF HoldsUpdate
    <3> QED BY <1>5, <1>9, <2>1, <3>1 DEF Holds, Pulls
  <2>2. CASE k \in 1 .. (n - 1)
    BY <1>1, <1>2, <1>9, <2>2, BelowTop DEF Quiet, n
  <2> QED BY <1>9, <1>11, <2>1, <2>2
<1>12. CallsSet'
  <2>1. Passes(t)
    BY <1>11, PassesNone DEF Pulls
  <2>2. Tips(t[Len(t)])
    BY <1>5, <1>9 DEF Tips
  <2>3. Noted(t, context')
    <3>1. PICK x : x = context
      OBVIOUS
    <3>2. PICK y : y = context'
      OBVIOUS
    <3>3. Noted(stack, x)
      BY <3>1 DEF FInv, CallsSet
    <3>4. ~Updates(stack[n - 1]) /\ n - 1 \in 1 .. (n - 1)
      BY <1>1, <1>2, CallerIs DEF n
    <3>5. Noted(s, x)
      BY <1>1, <1>2, <1>4, <3>3, <3>4, NotedPop DEF n
    <3>6. y[2] = <<>> /\ y[3] = 0 /\ e.saved = x
      BY <1>5, <3>1, <3>2
    <3>7. ~Updates(s[Len(s)])
      BY <1>8, <3>4
    <3>8. Noted(t, y)
      BY <1>5, <1>6, <1>8, <3>5, <3>6, <3>7, NotedEnter
    <3> QED BY <3>2, <3>8
  <2> QED BY <1>7, <1>10, <1>11, <2>1, <2>2, <2>3, CallsKept
<1>13. RanFit'
  <2>1. 1 \in 1 .. (n - 1) /\ t[1] = stack[1] /\ Rest[1] = stack[1]
    BY <1>1, <1>2, <1>9
  <2>2. ~Marks(t[1]) /\ Beside(stack[1], Top)
    <3>1. stack[1] \in FrameSet /\ Pulls(stack[1])
      BY <1>1, <1>2, <2>1 DEF Quiet, n
    <3> QED BY <1>1, <2>1, <3>1, FrameIs, BelowTop DEF n, Pulls, Marks
  <2>3. Runs(t[1]) => ran' \cap Area(t[1].fn) = {}
    <3> SUFFICES ASSUME Runs(stack[1])
                 PROVE  /\ ran \cap Area(stack[1].fn) = {}
                        /\ c \notin Area(stack[1].fn)
      BY <1>5, <2>1
    <3>1. c \notin Area(stack[1].fn)
      BY <1>1, <2>2 DEF Beside, c
    <3> QED BY <1>2, <3>1 DEF FInv, RanFit
  <2>4. ASSUME NEW x \in ran'
        PROVE  \/ \E i \in 1 .. Len(t) : Updates(t[i]) /\ t[i].cell = x
               \/ x \notin Effects /\ state[x] = Clean
    <3>1. CASE x = c
      <4>1. n \in 1 .. Len(t)
        BY <1>2, <1>9
      <4> QED BY <1>5, <1>9, <3>1, <4>1
    <3>2. CASE x \in ran
      <4>1. CASE \E i \in 1 .. Len(stack) : Updates(stack[i]) /\ stack[i].cell = x
        <5>1. PICK i \in 1 .. Len(stack) : Updates(stack[i]) /\ stack[i].cell = x
          BY <4>1
        <5>2. i \in 1 .. (n - 1)
          BY <1>1, <1>2, <5>1 DEF n
        <5>3. i \in 1 .. Len(t) /\ t[i] = stack[i]
          BY <1>9, <5>1, <5>2 DEF n
        <5> QED BY <5>1, <5>3
      <4>2. CASE x \notin Effects /\ state[x] = Clean
        BY <4>2
      <4> QED BY <3>2, <4>1, <4>2 DEF FInv, RanFit
    <3> QED BY <1>5, <2>4, <3>1, <3>2
  <2> QED BY <1>7, <1>9, <2>2, <2>3, <2>4 DEF RanFit
<1> QED BY <1>1, <1>7, <1>12, <1>13, QuietKept DEF FInv

(* A call returns to the function that made it. *)
LEMMA ReturnFits ==
  ASSUME Fixed, RInv, FInv, ~Idle, Len(stack) # 1, ~Updates(Top),
         Updates(stack[Len(stack) - 1]), NEW a \in Cells \cup {None},
         NEW v \in Values, IF Top.op = "Read" THEN a = Top.cell ELSE a = None
  PROVE  \E h \in FrameSet, t \in Seq(FrameSet) :
           /\ t = Returned(a, v) /\ Len(t) = Len(stack) - 1 /\ t # <<>>
           /\ \A k \in 1 .. (Len(stack) - 2) : t[k] = stack[k]
           /\ t[Len(stack) - 1] = h
           /\ Similar(stack[Len(stack) - 1], h) /\ h.val = stack[Len(stack) - 1].val
           /\ h.seen = Append(stack[Len(stack) - 1].seen, [cell |-> a, val |-> v])
           /\ Shape(t) /\ Noted(t, context)
<1> DEFINE n == Len(stack)
<1>1. /\ stack \in Seq(FrameSet) /\ stack # <<>>
      /\ n \in Nat \ {0} /\ Top = stack[n] /\ Top \in FrameSet
      /\ \A k \in 1 .. n : stack[k] \in FrameSet /\ (k = n \/ k \in 1 .. (n - 1))
      /\ Rest \in Seq(FrameSet) /\ Len(Rest) = n - 1
      /\ \A k \in 1 .. (n - 1) : Rest[k] = stack[k] /\ k \in 1 .. n
      /\ Rest # <<>>
  BY StackNow
<1>2. PICK m, g, r : m = n - 1 /\ g = stack[m] /\ r = [cell |-> a, val |-> v]
  OBVIOUS
<1>3. m \in Nat \ {0} /\ m \in 1 .. m /\ m + 1 = n /\ m - 1 = n - 2
      /\ Rest[m] = g /\ g \in FrameSet /\ r \in Seen
      /\ r.cell = a /\ r.val = v
  BY <1>1, <1>2 DEF Seen
<1>4. PICK h : h = [g EXCEPT !.seen = Append(@, r)]
  OBVIOUS
<1>5. h \in FrameSet /\ Similar(g, h)
  BY <1>3, <1>4, FrameChanges
<1>6. h.seen = Append(g.seen, r) /\ h.val = g.val
  BY <1>3, <1>4 DEF FrameSet
<1>7. PICK t : t = Returned(a, v)
  OBVIOUS
<1>8. t = [Rest EXCEPT ![m] = h]
  BY <1>1, <1>2, <1>3, <1>4, <1>7 DEF Returned
<1>9. /\ t \in Seq(FrameSet) /\ Len(t) = m
      /\ \A k \in 1 .. m : t[k] = IF k = m THEN h ELSE stack[k]
  <2>1. \A q \in Seq(FrameSet) : \A i \in 1 .. Len(q) :
          /\ [q EXCEPT ![i] = h] \in Seq(FrameSet)
          /\ Len([q EXCEPT ![i] = h]) = Len(q)
          /\ \A j \in 1 .. Len(q) :
               [q EXCEPT ![i] = h][j] = IF j = i THEN h ELSE q[j]
    BY <1>5, ExceptSeq
  <2> QED BY <1>1, <1>2, <1>3, <1>8, <2>1
<1>10. t # <<>> /\ \A k \in 1 .. (n - 2) : t[k] = stack[k]
  BY <1>1, <1>3, <1>9
<1>11. Shape(t)
  <2>1. Shape(Rest)
    BY BelowTop
  <2>2. PICK s : s = SubSeq(Rest, 1, Len(Rest) - 1)
    OBVIOUS
  <2>3. /\ s \in Seq(FrameSet) /\ Len(s) = m - 1
        /\ \A k \in 1 .. (m - 1) : s[k] = Rest[k]
    BY <1>1, <1>2, <2>2, Shrink
  <2>4. PICK u : u = Append(s, h)
    OBVIOUS
  <2>5. /\ u \in Seq(FrameSet) /\ Len(u) = m /\ u[m] = h
        /\ \A k \in 1 .. (m - 1) : u[k] = s[k]
    <3>1. /\ u \in Seq(FrameSet) /\ Len(u) = Len(s) + 1 /\ u[Len(s) + 1] = h
          /\ \A k \in 1 .. Len(s) : u[k] = s[k]
      BY <1>5, <2>3, <2>4, Joined
    <3> QED BY <1>3, <2>3, <3>1
  <2>6. \A k \in 1 .. m : u[k] = t[k]
    BY <1>1, <1>2, <1>3, <1>9, <2>3, <2>5
  <2>7. u = t
    BY <1>9, <2>5, <2>6, SeqEqual
  <2>8. Resembles(Rest[Len(Rest)], h) /\ Rest[Len(Rest)].op = h.op
    BY <1>1, <1>2, <1>3, <1>5 DEF Resembles, Similar
  <2>9. Shape(u)
    BY <1>1, <1>5, <2>1, <2>2, <2>4, <2>8, ShapeSwap
  <2> QED BY <2>7, <2>9
<1>12. Noted(t, context)
  <2>1. PICK x : x = context
    OBVIOUS
  <2>2. PICK s : s = stack
    OBVIOUS
  <2>3. Noted(s, x) /\ s \in Seq(FrameSet) /\ Len(s) = n /\ s[n] = Top /\ s[m] = g
        /\ \A k \in 1 .. m : t[k] = IF k = m THEN h ELSE s[k]
    BY <1>1, <1>2, <1>9, <2>1, <2>2 DEF FInv, CallsSet
  <2>4. \A k \in 1 .. m : (Updates(s[k]) <=> Updates(t[k])) /\ s[k].saved = t[k].saved
    BY <1>2, <1>5, <2>2, <2>3 DEF Updates, Similar
  <2>5. m <= Len(s) /\ m <= Len(t)
        /\ (\A k \in 1 .. Len(s) : m < k => ~Updates(s[k]))
        /\ (\A k \in 1 .. Len(t) : m < k => ~Updates(t[k]))
    BY <1>1, <1>3, <1>9, <2>3
  <2>6. ASSUME NEW k \in 1 .. m, NEW l \in 1 .. m, k < l, NEW z, Notes(s, k, z)
        PROVE  Notes(t, k, z)
    <3>1. k # m /\ k + 1 \in 1 .. m /\ k + 1 \in 1 .. Len(s) /\ k + 1 \in 1 .. Len(t)
          /\ s[k] = t[k]
      BY <1>1, <1>3, <1>9, <2>3, <2>6
    <3>2. s[k + 1].op = t[k + 1].op /\ s[k + 1].cell = t[k + 1].cell
      BY <1>2, <1>5, <2>3, <3>1 DEF Similar
    <3> QED BY <2>6, <3>1, <3>2, NotesSame
  <2>7. ASSUME Notes(s, m, x) PROVE Notes(t, m, x)
    <3>1. g.seen \in Seq(Seen) /\ Len(g.seen) \in Nat
      BY <1>3, FrameIs, LenProperties
    <3>2. /\ Len(h.seen) = Len(g.seen) + 1 /\ h.seen[Len(g.seen) + 1] = r
          /\ \A j \in 1 .. Len(g.seen) : h.seen[j] = g.seen[j]
      BY <1>3, <1>6, <3>1, Push
    <3>3. ASSUME NEW d \in Cells
          PROVE  (\E j \in 1 .. Len(h.seen) : h.seen[j].cell = d) <=>
                   \/ \E j \in 1 .. Len(g.seen) : g.seen[j].cell = d
                   \/ r.cell = d
      <4>1. \A j \in 1 .. Len(h.seen) :
              j = Len(g.seen) + 1 \/ j \in 1 .. Len(g.seen)
        BY <3>1, <3>2
      <4>2. \A j \in 1 .. Len(g.seen) : j \in 1 .. Len(h.seen)
        BY <3>1, <3>2
      <4>3. Len(g.seen) + 1 \in 1 .. Len(h.seen)
        BY <3>1, <3>2
      <4> QED BY <3>2, <4>1, <4>2, <4>3
    <3>4. m + 1 \in 1 .. Len(s) /\ m + 1 \notin 1 .. Len(t) /\ s[m + 1] = Top
      BY <1>1, <1>3, <1>9, <2>3
    <3>5. \A d \in Cells : r.cell = d <=> Top.op = "Read" /\ Top.cell = d
      BY <1>3, CellIs
    <3>6. t[m] = h /\ h.cell = g.cell
      BY <1>3, <1>5, <2>3 DEF Similar
    <3>7. ASSUME NEW d \in Cells
          PROVE  Has(x[2], d) <=>
                   \/ \E j \in 1 .. Len(t[m].seen) : t[m].seen[j].cell = d
                   \/ m + 1 \in 1 .. Len(t) /\ t[m + 1].op = "Read"
                      /\ t[m + 1].cell = d
      <4>1. Has(x[2], d) <=>
              \/ \E j \in 1 .. Len(g.seen) : g.seen[j].cell = d
              \/ Top.op = "Read" /\ Top.cell = d
        BY <2>3, <2>7, <3>4 DEF Notes
      <4>2. Has(x[2], d) <=> \E j \in 1 .. Len(h.seen) : h.seen[j].cell = d
        BY <3>3, <3>5, <4>1
      <4> QED BY <3>4, <3>6, <4>2
    <3>8. x[3] = 0 /\ (x[2] # <<>> => x[2][1] \in Firsts(t[m].cell))
      BY <2>3, <2>7, <3>6 DEF Notes
    <3> QED BY <3>7, <3>8 DEF Notes
  <2>8. \A k \in 1 .. m : LastRun(s, k) /\ Notes(s, k, x) => Notes(t, k, x)
    <3> SUFFICES ASSUME NEW k \in 1 .. m, LastRun(s, k), Notes(s, k, x)
                 PROVE  Notes(t, k, x)
      OBVIOUS
    <3>1. Updates(s[m]) /\ m \in 1 .. Len(s)
      BY <1>1, <1>2, <1>3, <2>2, <2>3
    <3>2. k = m
      BY <1>3, <3>1 DEF LastRun
    <3> QED BY <2>7, <3>2
  <2>9. \A k, l \in 1 .. m : k < l /\ Updates(s[k]) /\ Updates(s[l]) =>
          \A z : Notes(s, k, z) => Notes(t, k, z)
    BY <2>6
  <2>10. m \in Nat
    BY <1>3
  <2>11. Noted(t, x)
    BY <1>9, <2>3, <2>4, <2>5, <2>8, <2>9, <2>10, NotedFrom
  <2> QED BY <2>1, <2>11
<1> QED BY <1>2, <1>3, <1>5, <1>6, <1>7, <1>9, <1>10, <1>11, <1>12

LEMMA ReadEndFresh ==
  ASSUME Fixed, RInv, RInv', FInv, ReadEnd
  PROVE  FInv'
<1> DEFINE n == Len(stack)
<1>0. PICK c : c = Top.cell
  OBVIOUS
<1>1. ~Idle /\ Top.op = "Read" /\ Pulls(Top) /\ Quiet /\ ~Updates(Top)
  BY QuietTop DEF ReadEnd, In, Pulls, Updates
<1>2. /\ stack \in Seq(FrameSet) /\ n \in Nat \ {0} /\ Top = stack[n] /\ Top \in FrameSet
      /\ \A k \in 1 .. n : stack[k] \in FrameSet /\ (k = n \/ k \in 1 .. (n - 1))
      /\ Rest = <<>> <=> n = 1
      /\ \A k \in 1 .. (n - 1) : Rest[k] = stack[k] /\ k \in 1 .. n
  BY <1>1, StackNow
<1>3. /\ UNCHANGED <<made, fn, value, state, sources, observers, log, moved>>
      /\ context' = context /\ stack' = Returned(c, value[c])
      /\ ran' = IF stack' = <<>> THEN {} ELSE ran
  BY <1>0 DEF ReadEnd, Leave, graphVars, dataVars, context
<1>4. GraphFit' /\ DataFit'
  BY <1>1, <1>3, QuietKept
<1>5. CASE n = 1
  <2>1. stack' = <<>> /\ ran' = {}
    BY <1>2, <1>3, <1>5 DEF Returned
  <2> QED BY <1>4, <2>1, CallsNone, RanNone DEF FInv
<1>6. CASE n # 1
  <2>1. PICK m, g : m = n - 1 /\ g = stack[m]
    OBVIOUS
  <2>2. /\ m \in 1 .. (n - 1) /\ m \in Nat \ {0} /\ m - 1 = n - 2 /\ g \in FrameSet
        /\ m + 1 = n
    BY <1>2, <1>6, <2>1
  <2>3. /\ g.op = "update" /\ Asks(g.fn, g.seen, c) /\ Updates(g)
        /\ Holds(g) /\ Pulls(g)
    <3>1. Leads(g, Top)
      BY <1>1, <1>6, <2>1, BelowTop
    <3>2. Holds(g) /\ Pulls(g)
      BY <1>1, <1>2, <2>1, <2>2, BelowTop DEF Quiet
    <3> QED BY <1>0, <1>1, <3>1, <3>2 DEF Leads, Downward, Marks, Pulls, Updates
  <2>4. /\ c \in Cells \cup {None} /\ c \in Cells /\ value[c] \in Values
        /\ c = Top.cell
    BY <1>0, <1>2, FrameIs, Typed
  <2>5. PICK v : v = value[c]
    OBVIOUS
  <2>6. PICK h \in FrameSet, t \in Seq(FrameSet) :
          /\ t = Returned(c, v) /\ Len(t) = n - 1 /\ t # <<>>
          /\ \A k \in 1 .. (n - 2) : t[k] = stack[k]
          /\ t[n - 1] = h
          /\ Similar(stack[n - 1], h) /\ h.val = stack[n - 1].val
          /\ h.seen = Append(stack[n - 1].seen, [cell |-> c, val |-> v])
          /\ Shape(t) /\ Noted(t, context)
    BY <1>1, <1>6, <2>1, <2>3, <2>4, <2>5, ReturnFits
  <2>7. /\ Len(t) = m /\ (\A k \in 1 .. (m - 1) : t[k] = stack[k]) /\ t[m] = h
        /\ h.op = "update" /\ h.cell = g.cell /\ h.fn = g.fn /\ h.val = g.val
        /\ h.seen = Append(g.seen, [cell |-> c, val |-> v])
    BY <2>1, <2>2, <2>3, <2>6 DEF Similar
  <2> HIDE DEF n
  <2>8. HoldsUpdate(h)
    <3>1. PICK r : r = [cell |-> c, val |-> v]
      OBVIOUS
    <3>2. r \in Seen /\ r.cell = c /\ r.val = v /\ g.seen \in Seq(Seen)
      BY <2>2, <2>4, <2>5, <3>1, FrameIs DEF Seen
    <3>3. Lived(g.fn, Append(g.seen, r))
      <4>1. Does(g.fn, g.seen).do = "read" /\ Does(g.fn, g.seen).cell = c
        BY <2>3 DEF Asks
      <4>2. Lived(g.fn, g.seen)
        BY <2>3 DEF Holds, HoldsUpdate
      <4> QED BY <3>2, <4>1, <4>2, LivedMore
    <3>4. /\ Len(g.seen) \in Nat /\ Len(h.seen) = Len(g.seen) + 1
          /\ h.seen[Len(g.seen) + 1] = r
          /\ \A j \in 1 .. Len(g.seen) : h.seen[j] = g.seen[j]
      BY <2>7, <3>1, <3>2, Push
    <3>5. \A j \in 1 .. Len(h.seen) : j = Len(g.seen) + 1 \/ j \in 1 .. Len(g.seen)
      BY <3>4
    <3>6. Settled(c)
      BY <1>0, <1>1, BelowTop DEF Tips
    <3>7. Sees(h.seen) /\ Settles(h.seen)
      BY <2>3, <2>5, <3>2, <3>4, <3>5, <3>6 DEF Holds, HoldsUpdate, Sees, Settles
    <3> QED BY <2>3, <2>7, <3>1, <3>3, <3>7 DEF Holds, HoldsUpdate
  <2>9. ASSUME NEW k \in 1 .. Len(t) PROVE Holds(t[k]) /\ Pulls(t[k])
    <3>1. CASE k = m
      BY <2>7, <2>8, <3>1 DEF Holds, Pulls
    <3>2. CASE k \in 1 .. (m - 1)
      <4>1. k \in 1 .. (n - 1) /\ k \in 1 .. n /\ t[k] = stack[k]
        BY <2>2, <2>7, <3>2
      <4> QED BY <1>1, <4>1, BelowTop DEF Quiet, n
    <3> QED BY <2>2, <2>7, <2>9, <3>1, <3>2
  <2>10. CallsSet'
    <3>1. Passes(t)
      BY <2>9, PassesNone DEF Pulls
    <3>2. Tips(t[Len(t)])
      BY <2>7 DEF Tips
    <3>3. Noted(t, context')
      BY <1>3, <2>6
    <3> QED BY <1>3, <2>5, <2>6, <2>9, <3>1, <3>2, <3>3, CallsKept
  <2>11. RanFit'
    <3>1. m \in Nat /\ m <= Len(stack) /\ m <= Len(t) /\ m # 0
          /\ \A k \in 1 .. Len(stack) : m < k => ~Updates(stack[k])
      <4>1. \A k \in 1 .. Len(stack) : m < k => k = n
        BY <1>2, <2>2 DEF n
      <4>2. m \in Nat /\ m <= Len(stack) /\ m <= Len(t) /\ m # 0
        BY <1>2, <2>1, <2>2, <2>7 DEF n
      <4> QED BY <1>1, <1>2, <4>1, <4>2
    <3>2. \A k \in 1 .. m : /\ t[k].op = stack[k].op /\ t[k].cell = stack[k].cell
                            /\ t[k].fn = stack[k].fn
      <4>1. \A k \in 1 .. m : k = m \/ k \in 1 .. (m - 1)
        BY <2>2
      <4>2. t[m].op = stack[m].op /\ t[m].cell = stack[m].cell /\ t[m].fn = stack[m].fn
        BY <2>1, <2>3, <2>7
      <4> QED BY <2>7, <4>1, <4>2
    <3>3. /\ stack' = t /\ RanFit /\ ran' = (IF t = <<>> THEN {} ELSE ran)
          /\ \A x \in ran \ Effects : state[x] = Clean => state'[x] = Clean
      BY <1>3, <2>5, <2>6 DEF FInv
    <3> QED BY <3>1, <3>2, <3>3, RanKept
  <2> QED BY <1>4, <2>10, <2>11 DEF FInv
<1> QED BY <1>5, <1>6

(* What the function on top reads or writes next. *)
LEMMA RunsNow ==
  ASSUME Fixed, RInv, FInv, In("update")
  PROVE  /\ ~Idle /\ Top.op = "update" /\ Updates(Top) /\ Pulls(Top) /\ Quiet
         /\ Top.cell \in Cells /\ Top.fn \in FnsOf(Top.cell) /\ Top.fn # None
         /\ Top.seen \in Seq(Seen) /\ Top.val \in Values
         /\ HoldsUpdate(Top) /\ Uses(Top.fn) \subseteq made
         /\ Uses(Top.fn) \subseteq Needs(Top.cell)
         /\ current = Top.cell /\ index = 0
         /\ Notes(stack, Len(stack), context)
<1>1. ~Idle /\ Top.op = "update" /\ Updates(Top) /\ Pulls(Top) /\ Quiet
  BY QuietTop DEF In, Updates, Pulls
<1>2. Top.cell \in Cells /\ Top.seen \in Seq(Seen) /\ Top.val \in Values
  BY <1>1, StackNow, FrameIs
<1>3. HoldsUpdate(Top) /\ Top.fn \in FnsOf(Top.cell)
  BY <1>1, BelowTop DEF Holds, FrameFits
<1>4. Top.fn # None /\ Uses(Top.fn) \subseteq Needs(Top.cell)
  BY <1>2, <1>3, UsedOnly
<1>5. Uses(Top.fn) \subseteq made
  BY <1>2, <1>3, <1>4 DEF HoldsUpdate, FInv, GraphFit, Sourced
<1>6. current = Top.cell
  BY Running DEF Fixed
<1>7. Notes(stack, Len(stack), context)
  <2>1. Len(stack) \in 1 .. Len(stack) /\ Top = stack[Len(stack)]
        /\ \A j \in 1 .. Len(stack) : ~(Len(stack) < j)
    BY <1>1, StackNow
  <2>2. LastRun(stack, Len(stack))
    BY <1>1, <2>1 DEF LastRun
  <2> QED BY <2>1, <2>2, NotedIs DEF FInv, CallsSet
<1>8. index = 0
  BY <1>7 DEF Notes, context
<1> QED BY <1>1, <1>2, <1>3, <1>4, <1>5, <1>6, <1>7, <1>8

(* The read goes on record: it is not one of the old sources again.        *)
LEMMA TrackNotes ==
  ASSUME Fixed, RInv, FInv, Doing("read"), NEW c, Next1.cell = c, Track(c),
         NEW t, Len(t) = Len(stack) + 1, t[Len(stack)] = stack[Len(stack)],
         t[Len(stack) + 1].op = "Read", t[Len(stack) + 1].cell = c
  PROVE  Notes(t, Len(stack), context')
<1> DEFINE n == Len(stack)
           f == Top.fn
           seen == Top.seen
           a == Top.cell
<1>1. /\ ~Idle /\ a \in Cells /\ f \in FnsOf(a) /\ seen \in Seq(Seen)
      /\ HoldsUpdate(Top) /\ current = a /\ index = 0
      /\ Notes(stack, n, context)
  BY RunsNow DEF Doing
<1>2. Asks(f, seen, c) /\ Lived(f, seen)
  BY <1>1 DEF Doing, Next1, Asks, HoldsUpdate
<1>3. c \in Cells
  BY Running DEF Doing, Next1, Fixed
<1>4. n \in Nat \ {0} /\ Top = stack[n] /\ n + 1 \notin 1 .. n
      /\ n + 1 \in 1 .. Len(t) /\ Len(seen) \in Nat
  BY <1>1, StackNow, LenProperties
<1>5. gets \in Seq(Cells) /\ DOMAIN gets = 1 .. Len(gets) /\ Len(gets) \in Nat
  BY Typed, LenProperties
<1>6. \A d \in Cells : Has(gets, d) <=> \E j \in 1 .. Len(seen) : seen[j].cell = d
  BY <1>1, <1>4 DEF Notes, context
<1>7. gets # <<>> => gets[1] \in Firsts(a)
  BY <1>1, <1>4 DEF Notes, context
<1>8. gets # <<>> => c \in Laters(a)
  <2> SUFFICES ASSUME gets # <<>> PROVE c \in Laters(a)
    OBVIOUS
  <2>1. 1 \in DOMAIN gets /\ gets[1] \in Cells
    BY <1>5, EmptySeq, ElementOfSeq
  <2>2. HasRead(seen)
    BY <1>6, <2>1, CellIs DEF Has, HasRead
  <2> QED BY <1>1, <1>2, <1>3, <2>2 DEF Laters
<1>9. gets = <<>> => c \in Firsts(a)
  <2> SUFFICES ASSUME gets = <<>> PROVE c \in Firsts(a)
    OBVIOUS
  <2>1. \A d \in Cells : ~Has(gets, d)
    BY <1>5 DEF Has
  <2>2. \A j \in 1 .. Len(seen) : seen[j].cell \in Cells \cup {None}
    <3>1. \A j \in 1 .. Len(seen) : seen[j] \in Seen
      BY <1>1, ElementOfSeq
    <3> QED BY <3>1 DEF Seen
  <2>3. ~HasRead(seen)
    BY <1>6, <2>1, <2>2 DEF HasRead
  <2> QED BY <1>1, <1>2, <1>3, <2>3 DEF Firsts
<1>10. ~Again(c)
  <2> SUFFICES ASSUME Again(c) PROVE FALSE
    OBVIOUS
  <2>1. gets # <<>> /\ sources[a] # <<>> /\ sources[a][1] = c
    BY <1>1, <1>5 DEF Again
  <2>2. c \in Firsts(a) /\ c \in Laters(a)
    BY <1>1, <1>8, <2>1 DEF FInv, GraphFit, Sourced
  <2> QED BY <1>1, <2>2 DEF Fixed, Careful
<1>11. gets' = Append(gets, c) /\ index' = 0
  BY <1>1, <1>10, CellIs DEF Track
<1>12. \A d \in Cells : Has(gets', d) <=> Has(gets, d) \/ c = d
  <2>1. \A d : Has(Append(gets, c), d) <=> Has(gets, d) \/ d = c
    BY <1>3, <1>5, HasMore
  <2> QED BY <1>11, <2>1
<1>13. gets'[1] \in Firsts(a)
  <2>1. CASE gets = <<>>
    BY <1>9, <1>11, <2>1
  <2>2. CASE gets # <<>>
    <3>1. 1 \in 1 .. Len(gets)
      BY <1>5, <2>2, EmptySeq
    <3>2. gets'[1] = gets[1]
      BY <1>3, <1>5, <1>11, <3>1, Push
    <3> QED BY <1>7, <2>2, <3>2
  <2> QED BY <2>1, <2>2
<1>14. context'[2] = gets' /\ context'[3] = index'
  BY DEF context
<1>15. t[n].seen = seen /\ t[n].cell = a
  BY <1>4
<1> HIDE DEF n, seen, a, f
<1> QED BY <1>4, <1>6, <1>11, <1>12, <1>13, <1>14, <1>15 DEF Notes, n

LEMMA CallReadFresh ==
  ASSUME Fixed, RInv, RInv', FInv, NEW c \in Cells, CallRead(c)
  PROVE  FInv'
<1> DEFINE n == Len(stack)
<1>1. /\ UNCHANGED <<made, fn, value, state, sources, observers, log, moved>>
      /\ ran' = ran /\ Track(c)
  BY DEF CallRead, graphVars, dataVars
<1>2. PICK r : r = Frame("Read", c, Zero, None)
  OBVIOUS
<1>3. r \in FrameSet /\ r.op = "Read" /\ r.cell = c /\ Pulls(r) /\ ~Updates(r)
      /\ ~Marks(r)
  BY <1>2, NewFrame, DataAssumption DEF Pulls, Updates, Marks
<1>4. PICK s : s = Append(stack, r)
  OBVIOUS
<1>5. /\ stack \in Seq(FrameSet) /\ n \in Nat /\ s \in Seq(FrameSet)
      /\ Len(s) = n + 1 /\ s # <<>>
      /\ s[n + 1] = r /\ \A k \in 1 .. n : s[k] = stack[k]
      /\ \A k \in 1 .. (n + 1) : k = n + 1 \/ k \in 1 .. n
      /\ n = 0 <=> stack = <<>>
  <2>1. stack \in Seq(FrameSet)
    BY Typed
  <2> QED BY <1>3, <1>4, <2>1, Joined
<1>6. Quiet /\ (Idle \/ (Doing("read") /\ Next1.cell = c))
  <2>1. CASE Idle
    BY <2>1, QuietIdle
  <2>2. CASE Doing("read") /\ Next1.cell = c
    BY <2>2, RunsNow DEF Doing
  <2> QED BY <2>1, <2>2 DEF CallRead
<1>7. c \notin Effects /\ Fits(stack, r)
  <2>1. CASE Idle
    <3>1. c \notin Effects
      BY <2>1 DEF CallRead, Doing, In
    <3>2. stack = <<>> /\ Len(stack) = 0
      BY <2>1, QuietIdle
    <3> QED BY <1>3, <3>1, <3>2 DEF Fits, Grounds
  <2>2. CASE ~Idle
    <3>1. Doing("read") /\ Next1.cell = c
      BY <1>6, <2>2
    <3>2. /\ Top.op = "update" /\ Top.cell \in Cells /\ Top.fn \in FnsOf(Top.cell)
          /\ Top.seen \in Seq(Seen) /\ Pulls(Top)
          /\ HoldsUpdate(Top) /\ Uses(Top.fn) \subseteq Needs(Top.cell)
      BY <3>1, RunsNow DEF Doing
    <3>3. Asks(Top.fn, Top.seen, c) /\ Lived(Top.fn, Top.seen)
      BY <3>1, <3>2 DEF Doing, Next1, Asks, HoldsUpdate
    <3>4. c \in Reads(Top.fn) /\ c \in Needs(Top.cell)
          /\ c \notin Effects /\ Rank[c] < Rank[Top.cell]
      <4>1. c \in Reads(Top.fn)
        BY <3>2, <3>3 DEF Reads
      <4> QED BY <3>2, <4>1, UsedOnly
    <3>5. Beside(Top, r)
      <4>1. Runs(Top) => c \notin Area(Top.fn)
        BY <3>2, <3>4, IsolatedArea DEF Fixed, Runs, Isolated
      <4>2. ~Marks(Top)
        BY <3>2 DEF Marks
      <4> QED BY <1>3, <3>4, <4>1, <4>2 DEF Beside
    <3>6. /\ Top = stack[n] /\ Top \in FrameSet /\ n \in Nat \ {0}
          /\ \A k \in 1 .. (n - 1) : Rest[k] = stack[k] /\ stack[k] \in FrameSet
          /\ \A k \in 1 .. n : k = n \/ k \in 1 .. (n - 1)
      <4>1. /\ Top = stack[n] /\ Top \in FrameSet /\ n \in Nat \ {0}
            /\ \A k \in 1 .. n : stack[k] \in FrameSet /\ (k = n \/ k \in 1 .. (n - 1))
            /\ \A k \in 1 .. (n - 1) : Rest[k] = stack[k] /\ k \in 1 .. n
        BY <2>2, StackNow
      <4> QED BY <4>1
    <3>7. ASSUME NEW k \in 1 .. (n - 1) PROVE Beside(stack[k], r)
      <4>1. Beside(stack[k], Top) /\ FrameFits(stack[k]) /\ stack[k] \in FrameSet
        BY <2>2, <3>6, BelowTop
      <4> QED BY <1>3, <3>2, <3>4, <3>6, <4>1, BesideDown
    <3>8. Leads(Top, r)
      BY <1>3, <3>2, <3>3 DEF Leads
    <3>9. \A k \in 1 .. Len(stack) : Beside(stack[k], r)
      BY <3>5, <3>6, <3>7
    <3>10. stack # <<>>
      BY <1>5, <3>6
    <3> QED BY <3>4, <3>6, <3>8, <3>9, <3>10 DEF Fits
  <2> QED BY <2>1, <2>2
<1>8. Shape(s)
  BY <1>3, <1>4, <1>5, <1>7, ShapePush DEF FInv, CallsSet
<1>9. \A k \in 1 .. Len(s) : Holds(s[k]) /\ Pulls(s[k])
  <2> SUFFICES ASSUME NEW k \in 1 .. Len(s) PROVE Holds(s[k]) /\ Pulls(s[k])
    OBVIOUS
  <2>1. CASE k = n + 1
    BY <1>3, <1>5, <2>1 DEF Holds
  <2>2. CASE k \in 1 .. n
    BY <1>5, <1>6, <2>2 DEF Quiet, FInv, CallsSet
  <2> QED BY <1>5, <2>1, <2>2
<1>10. PICK y : y = context'
  OBVIOUS
<1>11. Noted(s, y)
  <2>1. CASE Idle
    <3>1. \A k \in 1 .. Len(s) : s[k] = r
      <4>1. n = 0
        BY <1>5, <2>1 DEF Idle
      <4> QED BY <1>5, <4>1
    <3> QED BY <1>3, <3>1 DEF Noted
  <2>2. CASE ~Idle
    <3>1. Doing("read") /\ Next1.cell = c
      BY <1>6, <2>2
    <3>2. n \in 1 .. n
      BY <1>5, <2>2 DEF Idle
    <3>3. Notes(s, Len(stack), y)
      BY <1>1, <1>3, <1>5, <1>10, <3>1, <3>2, TrackNotes
    <3>4. PICK x : x = context
      OBVIOUS
    <3>5. Noted(stack, x)
      BY <3>4 DEF FInv, CallsSet
    <3>6. stack # <<>> /\ Updates(stack[Len(stack)])
      BY <2>2, <3>1, RunsNow, StackNow DEF Doing
    <3> QED BY <1>3, <1>4, <1>5, <3>3, <3>5, <3>6, NotedPush
  <2> QED BY <2>1, <2>2
<1>12. \E t \in Seq(FrameSet) :
         /\ stack' = t /\ Len(t) >= n + 1 /\ \A k \in 1 .. n : t[k] = stack[k]
         /\ Shape(t) /\ \A k \in 1 .. Len(t) : Holds(t[k]) /\ Pulls(t[k])
         /\ Tips(t[Len(t)]) /\ Noted(t, y)
  <2>1. CASE fn[c] = None
    <3>1. stack' = s
      <4>1. stack' = stack \o <<r>>
        BY <1>2, <2>1 DEF CallRead, ReadFrames
      <4> QED BY <1>3, <1>4, <1>5, <4>1
    <3>2. Tips(s[Len(s)])
      <4>1. Settled(c)
        BY <1>6, <2>1, QuietFacts DEF Settled, Loose
      <4> QED BY <1>3, <1>5, <4>1 DEF Tips
    <3>3. Len(s) >= n + 1
      BY <1>5
    <3> QED BY <1>5, <1>8, <1>9, <1>11, <3>1, <3>2, <3>3
  <2>2. CASE fn[c] # None
    <3>1. PICK e \in FrameSet :
            /\ e = CheckFrame(c) /\ e.op = "updateIfNecessary" /\ e.cell = c
            /\ e.list = sources[c] /\ e.arg = 1
            /\ Pulls(e) /\ ~Updates(e)
            /\ Holds(e) /\ Tips(e)
      BY CheckFrameIs
    <3>2. PICK t : t = Append(s, e)
      OBVIOUS
    <3>3. stack' = t
      <4>1. stack' = stack \o <<r, e>>
        BY <1>2, <2>2, <3>1 DEF CallRead, ReadFrames
      <4>2. stack \o <<r, e>> = Append(Append(stack, r), e)
        BY <1>3, <1>5
      <4> QED BY <1>4, <3>2, <4>1, <4>2
    <3>4. /\ t \in Seq(FrameSet) /\ Len(t) = n + 2
          /\ t[n + 2] = e /\ \A k \in 1 .. (n + 1) : t[k] = s[k]
          /\ \A k \in 1 .. (n + 2) : k = n + 2 \/ k \in 1 .. (n + 1)
      <4>1. /\ t \in Seq(FrameSet) /\ Len(t) = Len(s) + 1
            /\ t[Len(s) + 1] = e /\ \A k \in 1 .. Len(s) : t[k] = s[k]
        BY <1>5, <3>1, <3>2, Joined
      <4>2. Len(s) = n + 1 /\ Len(s) + 1 = n + 2
        BY <1>5
      <4> QED BY <1>5, <4>1, <4>2
    <3>5. Shape(t)
      <4>1. Leads(r, e)
        BY <1>3, <3>1 DEF Leads, Downward
      <4>2. Beside(r, e)
        BY <1>3, <1>7, <3>1 DEF Beside, Marks, Runs, Pulls, Downward
      <4>3. ASSUME NEW k \in 1 .. n PROVE Beside(stack[k], e)
        <5>1. Beside(stack[k], r) /\ FrameFits(stack[k]) /\ stack[k] \in FrameSet
          <6>1. ~Idle
            BY <1>5, <4>3 DEF Idle
          <6> QED BY <1>7, <6>1, BelowTop, StackNow DEF Fits
        <5> QED BY <1>3, <3>1, <5>1, BesideDown
      <4>4. \A k \in 1 .. Len(s) : Beside(s[k], e)
        BY <1>5, <4>2, <4>3
      <4>5. Fits(s, e)
        BY <1>5, <4>1, <4>4 DEF Fits
      <4> QED BY <1>5, <1>8, <3>1, <3>2, <4>5, ShapePush
    <3>6. ASSUME NEW k \in 1 .. Len(t) PROVE Holds(t[k]) /\ Pulls(t[k])
      BY <1>5, <1>9, <3>1, <3>4
    <3>7. Tips(t[Len(t)])
      BY <3>1, <3>4
    <3>8. Noted(t, y)
      <4>1. ~Updates(s[Len(s)])
        BY <1>3, <1>5
      <4> QED BY <1>5, <1>11, <3>1, <3>2, <4>1, NotedPush
    <3>9. Len(t) >= n + 1 /\ \A k \in 1 .. n : k \in 1 .. (n + 1)
      BY <1>5, <3>4
    <3> QED BY <1>5, <3>3, <3>4, <3>5, <3>6, <3>7, <3>8, <3>9
  <2> QED BY <2>1, <2>2
<1>13. PICK t \in Seq(FrameSet) :
         /\ stack' = t /\ Len(t) >= n + 1 /\ \A k \in 1 .. n : t[k] = stack[k]
         /\ Shape(t) /\ \A k \in 1 .. Len(t) : Holds(t[k]) /\ Pulls(t[k])
         /\ Tips(t[Len(t)]) /\ Noted(t, y)
  BY <1>12
<1>14. CallsSet'
  <2>1. Passes(t)
    BY <1>13, PassesNone DEF Pulls
  <2> QED BY <1>1, <1>10, <1>13, <2>1, CallsKept
<1>15. RanFit'
  <2>1. /\ n \in Nat /\ n <= Len(stack) /\ n <= Len(t) /\ t # <<>>
        /\ \A k \in 1 .. Len(stack) : n < k => ~Updates(stack[k])
        /\ stack = <<>> \/ t = <<>> \/ n # 0
    <3>1. Len(t) \in Nat /\ Len(stack) \in Nat
      BY <1>5, LenProperties
    <3>2. t # <<>>
      BY <1>5, <1>13, EmptySeq
    <3> QED BY <1>5, <1>13, <3>1, <3>2
  <2>2. /\ RanFit /\ ran' = (IF t = <<>> THEN {} ELSE ran)
        /\ \A x \in ran \ Effects : state[x] = Clean => state'[x] = Clean
    BY <1>1, <2>1 DEF FInv
  <2> QED BY <1>13, <2>1, <2>2, RanKept
<1> QED BY <1>1, <1>6, <1>14, <1>15, QuietKept DEF FInv
-----------------------------------------------------------------------------
(* One action at a time: a function asks for a cleanup, and returns. *)

LEMMA OnCleanupFresh ==
  ASSUME Fixed, RInv, RInv', FInv, OnCleanup
  PROVE  FInv'
<1> DEFINE n == Len(stack)
<1>0. PICK c, f : c = Top.cell /\ f = Top.fn
  OBVIOUS
<1>1. /\ ~Idle /\ Top.op = "update" /\ Updates(Top) /\ Pulls(Top) /\ Quiet
      /\ c \in Cells /\ f \in FnsOf(c) /\ f # None
      /\ Top.seen \in Seq(Seen) /\ HoldsUpdate(Top)
      /\ current = c /\ Notes(stack, n, context)
      /\ Does(f, Top.seen).do = "cleanup"
  BY <1>0, RunsNow DEF OnCleanup, Doing
<1>2. /\ stack \in Seq(FrameSet) /\ stack # <<>>
      /\ n \in Nat \ {0} /\ Top = stack[n] /\ Top \in FrameSet
      /\ \A k \in 1 .. n : stack[k] \in FrameSet /\ (k = n \/ k \in 1 .. (n - 1))
      /\ Rest = SubSeq(stack, 1, n - 1)
      /\ Rest \in Seq(FrameSet) /\ Len(Rest) = n - 1
      /\ \A k \in 1 .. (n - 1) : Rest[k] = stack[k] /\ k \in 1 .. n
  BY <1>1, StackNow
<1>3. PICK r : r = [cell |-> None, val |-> Zero]
  OBVIOUS
<1>4. r \in Seen /\ r.cell = None
  BY <1>3, DataAssumption DEF Seen
<1>5. PICK h : h = [Top EXCEPT !.seen = Append(@, r)]
  OBVIOUS
<1>6. /\ h \in FrameSet /\ h.op = "update" /\ h.cell = c /\ h.fn = f
      /\ h.saved = Top.saved /\ h.val = Top.val /\ h.seen = Append(Top.seen, r)
      /\ Updates(h) /\ Pulls(h)
  <2>1. h \in FrameSet /\ Similar(Top, h)
    BY <1>2, <1>4, <1>5, FrameChanges
  <2>2. h.val = Top.val /\ h.seen = Append(Top.seen, r)
    BY <1>2, <1>5 DEF FrameSet
  <2> QED BY <1>0, <1>1, <2>1, <2>2 DEF Similar, Updates, Pulls
<1>7. PICK s, t : s = Rest /\ t = Append(s, h)
  OBVIOUS
<1>8. /\ stack' = t /\ UNCHANGED <<made, fn, value, state, sources, log, moved>>
      /\ context' = context /\ ran' = ran
      /\ observers' = [observers EXCEPT ![c] = Append(@, Cleanup)]
  BY <1>1, <1>3, <1>5, <1>7 DEF OnCleanup, dataVars, context, histVars
<1>9. /\ t \in Seq(FrameSet) /\ Len(t) = n /\ t # <<>>
      /\ t[n] = h /\ \A k \in 1 .. (n - 1) : t[k] = stack[k]
      /\ \A k \in 1 .. n : k = n \/ k \in 1 .. (n - 1)
  <2> HIDE DEF n
  <2>1. s \in Seq(FrameSet) /\ Len(s) = n - 1
        /\ \A k \in 1 .. (n - 1) : s[k] = stack[k]
    BY <1>2, <1>7
  <2>2. /\ t \in Seq(FrameSet) /\ Len(t) = Len(s) + 1 /\ t # <<>>
        /\ t[Len(s) + 1] = h /\ \A k \in 1 .. Len(s) : t[k] = s[k]
    BY <1>6, <1>7, <2>1, Joined
  <2> QED BY <1>2, <2>1, <2>2
<1> HIDE DEF n
<1>10. \A d \in Cells : \A e :
         Has(observers'[d], e) <=> Has(observers[d], e) \/ (d = c /\ e = Cleanup)
  <2> SUFFICES ASSUME NEW d \in Cells, NEW e
               PROVE  Has(observers'[d], e) <=>
                        Has(observers[d], e) \/ (d = c /\ e = Cleanup)
    OBVIOUS
  <2>1. CASE d # c
    BY <1>1, <1>8, <2>1, Typed
  <2>2. CASE d = c
    <3>1. PICK S : S = Cells \cup {Cleanup}
      OBVIOUS
    <3>2. observers[c] \in Seq(S) /\ Cleanup \in S
      BY <1>1, <3>1, Typed
    <3>3. Has(Append(observers[c], Cleanup), e) <=> Has(observers[c], e) \/ e = Cleanup
      BY <3>2, HasMore
    <3>4. observers'[c] = Append(observers[c], Cleanup)
      BY <1>1, <1>8, Typed
    <3> QED BY <2>2, <3>3, <3>4
  <2> QED BY <2>1, <2>2
<1>11. GraphFit'
  <2> SUFFICES ASSUME NEW d \in Cells, Sourced(d) PROVE Sourced(d)'
    BY DEF FInv, GraphFit
  <2>1. Cleans(f) /\ fn[c] = f /\ c \in made
    <3>1. Lived(f, Top.seen) /\ fn[c] = f
      BY <1>0, <1>1 DEF HoldsUpdate
    <3>2. Cleans(f)
      BY <1>1, <3>1 DEF Cleans
    <3> QED BY <1>1, <3>1, <3>2 DEF FInv, GraphFit, Sourced
  <2>2. Has(observers'[d], Cleanup) =>
          d \in made /\ \E g \in FnsOf(d) : Cleans(g) /\ fn[d] \in {g, None}
    BY <1>1, <1>10, <2>1 DEF Sourced
  <2> QED BY <1>8, <2>2 DEF Sourced, LogCells
<1>12. Raw' /\ Due' /\ Valid'
  <2>1. Raw' /\ Due'
    BY <1>1, <1>8, QuietFacts, CellIs DEF Raw, Due
  <2> QED BY <1>8, <2>1 DEF FInv, DataFit, Valid, Sees
<1>13. Spread'
  <2>1. \A x, d \in Cells : Has(observers'[x], d) <=> Has(observers[x], d)
    BY <1>10, CellIs
  <2>2. \A x, d \in Cells : Loose(x)' /\ Has(observers'[x], d) => state'[d] # Clean
    BY <1>1, <1>8, <2>1, QuietFacts DEF Loose
  <2> QED BY <2>2, SpreadNext
<1>14. HoldsUpdate(h)
  <2>1. Lived(f, h.seen)
    BY <1>0, <1>1, <1>4, <1>6, LivedMore DEF HoldsUpdate
  <2>2. /\ Len(Top.seen) \in Nat /\ Len(h.seen) = Len(Top.seen) + 1
        /\ h.seen[Len(Top.seen) + 1] = r
        /\ \A j \in 1 .. Len(Top.seen) : h.seen[j] = Top.seen[j]
    BY <1>1, <1>4, <1>6, Push
  <2>3. \A j \in 1 .. Len(h.seen) : j = Len(Top.seen) + 1 \/ j \in 1 .. Len(Top.seen)
    BY <2>2
  <2>4. Sees(h.seen) /\ Settles(h.seen)
    BY <1>1, <1>4, <2>2, <2>3 DEF HoldsUpdate, Sees, Settles
  <2> QED BY <1>0, <1>1, <1>6, <2>1, <2>4 DEF HoldsUpdate
<1>15. \A k \in 1 .. Len(t) : Holds(t[k]) /\ Pulls(t[k])
  <2> SUFFICES ASSUME NEW k \in 1 .. Len(t) PROVE Holds(t[k]) /\ Pulls(t[k])
    OBVIOUS
  <2>1. CASE k = n
    BY <1>6, <1>9, <1>14, <2>1 DEF Holds
  <2>2. CASE k \in 1 .. (n - 1)
    BY <1>1, <1>2, <1>9, <2>2, BelowTop DEF Quiet, n
  <2> QED BY <1>9, <2>1, <2>2
<1>16. CallsSet'
  <2>1. Shape(t)
    <3>1. Shape(stack) /\ Resembles(Top, h) /\ Top.op = h.op
      BY <1>0, <1>1, <1>6 DEF Resembles, FInv, CallsSet
    <3> QED BY <1>2, <1>6, <1>7, <3>1, ShapeSwap DEF n
  <2>2. Passes(t)'
    BY <1>15 DEF Passes, Pulls
  <2>3. ASSUME NEW k \in 1 .. Len(t) PROVE Holds(t[k])'
    <3>1. Holds(t[k]) /\ Pulls(t[k]) /\ t[k] \in FrameSet
      BY <1>9, <1>15, <2>3, ElementOfSeq
    <3>2. \A x \in Cells : Settled(x) => Settled(x)'
      BY <1>8 DEF Settled, Loose
    <3>3. Updates(t[k]) => state'[t[k].cell] = Dirty
      BY <1>8, <3>1 DEF Holds, HoldsUpdate, Updates
    <3> QED BY <1>8, <3>1, <3>2, <3>3, FrameCells, HoldsStays
  <2>4. Tips(t[Len(t)])'
    BY <1>6, <1>9 DEF Tips
  <2>5. Noted(t, context')
    <3>1. PICK x : x = context
      OBVIOUS
    <3>2. Noted(stack, x)
      BY <3>1 DEF FInv, CallsSet
    <3>3. Notes(stack, n, x) => Notes(t, n, x)
      <4>1. /\ Len(Top.seen) \in Nat /\ Len(h.seen) = Len(Top.seen) + 1
            /\ h.seen[Len(Top.seen) + 1] = r
            /\ \A j \in 1 .. Len(Top.seen) : h.seen[j] = Top.seen[j]
        BY <1>1, <1>4, <1>6, Push
      <4>2. \A d \in Cells :
              (\E j \in 1 .. Len(h.seen) : h.seen[j].cell = d) <=>
                \E j \in 1 .. Len(Top.seen) : Top.seen[j].cell = d
        <5>1. /\ \A j \in 1 .. Len(h.seen) :
                   j = Len(Top.seen) + 1 \/ j \in 1 .. Len(Top.seen)
              /\ \A j \in 1 .. Len(Top.seen) : j \in 1 .. Len(h.seen)
          BY <4>1
        <5> QED BY <1>4, <4>1, <5>1, CellIs
      <4>3. n + 1 \notin 1 .. Len(stack) /\ n + 1 \notin 1 .. Len(t)
        BY <1>2, <1>9 DEF n
      <4>4. /\ stack[n].seen = Top.seen /\ stack[n].cell = c
            /\ t[n].seen = h.seen /\ t[n].cell = c
        BY <1>0, <1>2, <1>6, <1>9
      <4> QED BY <4>2, <4>3, <4>4 DEF Notes
    <3>4. Noted(t, x)
      <4>1. /\ stack[Len(stack)].op = h.op /\ stack[Len(stack)].cell = h.cell
            /\ stack[Len(stack)].saved = h.saved
            /\ Updates(stack[Len(stack)]) <=> Updates(h)
        BY <1>0, <1>1, <1>2, <1>6 DEF n
      <4>2. t = Append(SubSeq(stack, 1, Len(stack) - 1), h)
        BY <1>2, <1>7 DEF n
      <4> QED BY <1>2, <1>6, <3>2, <3>3, <4>1, <4>2, NotedSwap DEF n
    <3> QED BY <1>8, <3>1, <3>4
  <2> QED BY <1>8, <1>9, <2>1, <2>2, <2>3, <2>4, <2>5, CallsNext
<1>17. RanFit'
  <2>1. n \in Nat /\ n <= Len(stack) /\ n <= Len(t) /\ n # 0
        /\ \A k \in 1 .. Len(stack) : n < k => ~Updates(stack[k])
    BY <1>2, <1>9 DEF n
  <2>2. \A k \in 1 .. n : /\ t[k].op = stack[k].op /\ t[k].cell = stack[k].cell
                          /\ t[k].fn = stack[k].fn
    <3>1. t[n].op = stack[n].op /\ t[n].cell = stack[n].cell /\ t[n].fn = stack[n].fn
      BY <1>0, <1>1, <1>2, <1>6, <1>9
    <3> QED BY <1>9, <3>1
  <2>3. /\ RanFit /\ ran' = (IF t = <<>> THEN {} ELSE ran)
        /\ \A x \in ran \ Effects : state[x] = Clean => state'[x] = Clean
    BY <1>8, <1>9 DEF FInv
  <2> QED BY <1>8, <1>9, <2>1, <2>2, <2>3, RanKept
<1> QED BY <1>11, <1>12, <1>13, <1>16, <1>17 DEF FInv, DataFit

(* New links have nothing to do with cleanups. *)
LEMMA CleanupsKept ==
  ASSUME TypeOK, NEW c \in Cells, NEW new \in Seq(Cells), NEW x \in Cells
  PROVE  Has(Linked(Unlinked(c, 1), c, new, 1)[x], Cleanup) <=>
           Has(observers[x], Cleanup)
<1>1. PICK one \in Nat : one = 1
  OBVIOUS
<1>2. PICK o : o = Unlinked(c, one)
  OBVIOUS
<1>3. /\ o \in ObserverLists
      /\ \A d \in Cells : \A e :
           Has(o[d], e) <=>
             /\ Has(observers[d], e)
             /\ e # c \/ \A k \in one .. Len(sources[c]) : sources[c][k] # d
  BY <1>2, UnlinkedKeeps
<1>4. PICK l : l = Linked(o, c, new, one)
  OBVIOUS
<1>5. /\ l \in ObserverLists
      /\ \A d \in Cells : \A e :
           Has(l[d], e) <=>
             \/ Has(o[d], e)
             \/ e = c /\ \E j \in one .. Len(new) : new[j] = d
  <2>1. o \in ObserverLists /\ new \in Seq(Cells)
    BY <1>3
  <2> QED BY ZenonT(30), <1>4, <2>1, LinkedAdds
<1> QED BY <1>1, <1>2, <1>3, <1>4, <1>5, CellIs

(* What was read becomes the sources. *)
LEMMA RelinkedIs ==
  ASSUME Fixed, RInv, RInv', FInv, In("update"), NEW c, c = Top.cell, Relinked(c),
         fn' = fn
  PROVE  /\ sources' = [sources EXCEPT ![c] = gets]
         /\ \A x, d \in Cells :
              Has(observers'[x], d) <=>
                IF d = c THEN Has(gets, x) ELSE Has(observers[x], d)
         /\ \A x \in Cells : Has(observers'[x], Cleanup) <=> Has(observers[x], Cleanup)
<1>1. c \in Cells /\ index = 0
  BY RunsNow
<1>2. /\ sources \in [Cells -> Seq(Cells)] /\ gets \in Seq(Cells)
      /\ Len(sources[c]) \in Nat
  BY <1>1, Typed
<1>3. PICK new : new = IF gets = <<>> THEN SubSeq(sources[c], 1, index)
                       ELSE IF index > 0 THEN sources[c] \o gets ELSE gets
  OBVIOUS
<1>4. new = gets
  <2>1. gets = <<>> => SubSeq(sources[c], 1, 0) = <<>>
    BY <1>2, SubSeqEmpty
  <2> QED BY <1>1, <1>3, <2>1
<1>5. /\ sources' = [sources EXCEPT ![c] = gets]
      /\ observers' = Linked(Unlinked(c, 1), c, gets, 1)
  <2>1. /\ sources' = [sources EXCEPT ![c] = new]
        /\ observers' = Linked(Unlinked(c, index + 1), c, new, index + 1)
    BY <1>3 DEF Relinked
  <2>2. index + 1 = 1
    BY <1>1
  <2> QED BY <1>4, <2>1, <2>2
<1>6. /\ sources'[c] = gets
      /\ \A d \in Cells : d # c => sources'[d] = sources[d]
  BY <1>1, <1>2, <1>5
<1>7. \A a, b \in Cells : Has(sources'[a], b) <=> Has(observers'[b], a)
  <2>1. LinksMutual'
    BY DEF RInv
  <2>2. \A a, b \in Cells :
          (\E k \in DOMAIN sources'[a] : sources'[a][k] = b)
            <=> (\E k \in DOMAIN observers'[b] : observers'[b][k] = a)
    BY <2>1 DEF LinksMutual
  <2> QED BY <2>2 DEF Has
<1>8. ASSUME NEW x \in Cells, NEW d \in Cells
      PROVE  Has(observers'[x], d) <=>
               IF d = c THEN Has(gets, x) ELSE Has(observers[x], d)
  BY <1>6, <1>7, Linking
<1>9. \A x \in Cells : Has(observers'[x], Cleanup) <=> Has(observers[x], Cleanup)
  BY <1>1, <1>2, <1>5, CleanupsKept DEF RInv
<1> QED BY <1>5, <1>8, <1>9

LEMMA UpdateEndFresh ==
  ASSUME Fixed, RInv, RInv', FInv, UpdateEnd
  PROVE  FInv'
<1> DEFINE n == Len(stack)
<1>0. PICK c, f, seen : c = Top.cell /\ f = Top.fn /\ seen = Top.seen
  OBVIOUS
<1>1. /\ ~Idle /\ In("update") /\ Top.op = "update" /\ Updates(Top) /\ Pulls(Top)
      /\ Quiet /\ c \in Cells /\ f \in FnsOf(c) /\ f # None
      /\ seen \in Seq(Seen) /\ HoldsUpdate(Top) /\ Uses(f) \subseteq made
      /\ Notes(stack, n, context) /\ Top.op \in Downward
  BY <1>0, RunsNow DEF UpdateEnd, Doing, Downward
<1>2. /\ stack \in Seq(FrameSet) /\ stack # <<>>
      /\ n \in Nat \ {0} /\ Top = stack[n] /\ Top \in FrameSet
      /\ \A k \in 1 .. n : stack[k] \in FrameSet /\ (k = n \/ k \in 1 .. (n - 1))
      /\ Rest = SubSeq(stack, 1, n - 1)
      /\ Rest \in Seq(FrameSet) /\ Len(Rest) = n - 1
      /\ \A k \in 1 .. (n - 1) : Rest[k] = stack[k] /\ k \in 1 .. n
      /\ Rest = <<>> <=> n = 1
  BY <1>1, StackNow
<1>3. /\ fn[c] = f /\ state[c] = Dirty /\ value[c] = Top.val
      /\ Lived(f, seen) /\ Sees(seen) /\ Settles(seen) /\ c \in made /\ Loose(c)
  <2>1. /\ fn[c] = f /\ state[c] = Dirty /\ value[c] = Top.val
        /\ Lived(f, seen) /\ Sees(seen) /\ Settles(seen)
    BY <1>0, <1>1 DEF HoldsUpdate
  <2>2. c \in made
    BY <1>1, <2>1 DEF FInv, GraphFit, Sourced
  <2> QED BY <1>1, <2>1, <2>2, Typed DEF Loose
<1>4. PICK t, v : t = Rest /\ v = IF c \in Effects THEN Zero ELSE Next1.val
  OBVIOUS
<1>5. /\ Relinked(c) /\ value' = [value EXCEPT ![c] = v]
      /\ state' = ObserversDirty(c, v # value[c])
      /\ log' = [log EXCEPT ![c] = seen]
      /\ moved' = [(IF v = value[c] THEN moved ELSE Moved(c)) EXCEPT ![c] = FALSE]
      /\ context' = <<Top.saved[1], Top.saved[2], Top.saved[3]>>
      /\ stack' = t /\ ran' = (IF t = <<>> THEN {} ELSE ran)
      /\ UNCHANGED <<made, fn>>
  BY <1>0, <1>3, <1>4 DEF UpdateEnd, Leave, context
<1>6. /\ sources' = [sources EXCEPT ![c] = gets]
      /\ \A x, d \in Cells :
           Has(observers'[x], d) <=>
             IF d = c THEN Has(gets, x) ELSE Has(observers[x], d)
      /\ \A x \in Cells : Has(observers'[x], Cleanup) <=> Has(observers[x], Cleanup)
  BY <1>0, <1>1, <1>5, RelinkedIs
<1>7. /\ sources'[c] = gets /\ value'[c] = v /\ log'[c] = seen
      /\ \A x \in Cells : x # c =>
           sources'[x] = sources[x] /\ value'[x] = value[x] /\ log'[x] = log[x]
      /\ \A x \in Cells : moved'[x] =
           (x # c /\ (moved[x] \/ (v # value[c] /\ c \in LogCells(x))))
  <2>1. /\ sources'[c] = gets /\ value'[c] = v /\ log'[c] = seen
        /\ \A x \in Cells : x # c =>
             sources'[x] = sources[x] /\ value'[x] = value[x] /\ log'[x] = log[x]
    BY <1>1, <1>5, <1>6, Typed
  <2>2. ASSUME NEW x \in Cells
        PROVE  moved'[x] =
                 (x # c /\ (moved[x] \/ (v # value[c] /\ c \in LogCells(x))))
    <3>1. PICK w : w = IF v = value[c] THEN moved ELSE Moved(c)
      OBVIOUS
    <3>2. /\ w \in [Cells -> BOOLEAN]
          /\ w[x] = (moved[x] \/ (v # value[c] /\ c \in LogCells(x)))
      BY <3>1, Typed DEF Moved
    <3>3. moved' = [w EXCEPT ![c] = FALSE]
      BY <1>5, <3>1
    <3> QED BY <1>1, <3>2, <3>3
  <2> QED BY <2>1, <2>2
<1>8. /\ \A d \in Cells : Has(gets, d) <=> \E j \in 1 .. Len(seen) : seen[j].cell = d
      /\ gets # <<>> => gets[1] \in Firsts(c)
      /\ \A d \in Cells : Has(gets, d) =>
           /\ d \in Uses(f) /\ d \in Needs(c) /\ Rank[d] < Rank[c] /\ d # c
           /\ Settled(d)
  <2>1. n + 1 \notin 1 .. n /\ stack[n].seen = seen /\ stack[n].cell = c
    BY <1>0, <1>2
  <2>2. /\ \A d \in Cells : Has(gets, d) <=> \E j \in 1 .. Len(seen) : seen[j].cell = d
        /\ gets # <<>> => gets[1] \in Firsts(c)
    BY <1>1, <2>1 DEF Notes, context
  <2>3. ASSUME NEW d \in Cells, Has(gets, d)
        PROVE  /\ d \in Uses(f) /\ d \in Needs(c) /\ Rank[d] < Rank[c] /\ d # c
               /\ Settled(d)
    <3>1. PICK j \in 1 .. Len(seen) : seen[j].cell = d
      BY <2>2, <2>3
    <3>2. d # None
      BY CellIs
    <3>3. d \in Reads(f) /\ Settled(d)
      BY <1>1, <1>3, <3>1, <3>2, SeenRead DEF Settles
    <3>4. d \in Uses(f) /\ d \in Needs(c) /\ Rank[d] < Rank[c]
      BY <1>1, <3>3, UsedOnly
    <3>5. Rank[c] \in Nat
      BY <1>1, RankFalls DEF Fixed, Proper
    <3> QED BY <3>3, <3>4, <3>5
  <2> QED BY <2>2, <2>3
<1>9. /\ state'[c] = Clean
      /\ \A x \in Cells : x # c =>
           state'[x] = IF v # value[c] /\ Has(observers[c], x) THEN Dirty ELSE state[x]
  <2>1. \A x \in Cells : state'[x] =
          IF x = c THEN Clean
          ELSE IF v # value[c] /\ Has(observers'[c], x) THEN Dirty ELSE state[x]
    BY <1>5 DEF ObserversDirty, Has
  <2> QED BY <1>1, <1>6, <2>1
<1>10. \A x \in Cells : Has(observers[c], x) => state[x] # Clean /\ Loose(x) /\ x # c
  BY <1>1, <1>3, QuietFacts, ObserverIs DEF Loose
<1>11. /\ \A x \in Cells : Loose(x)' => x # c /\ Loose(x)
       /\ \A x \in Cells : Settled(x) => Settled(x)'
       /\ \A x \in Cells : x # c /\ state[x] # Clean => state'[x] # Clean
       /\ \A x \in Cells : state[x] = Clean => state'[x] = Clean
       /\ \A x \in Cells : x # c /\ state[x] = Dirty => state'[x] = Dirty
  <2>1. \A x \in Cells : Loose(x)' => x # c /\ Loose(x)
    <3> SUFFICES ASSUME NEW x \in Cells, Loose(x)' PROVE x # c /\ Loose(x)
      OBVIOUS
    <3>1. state'[x] # Clean /\ (fn[x] # None \/ x \in Rewritable)
      BY <1>5 DEF Loose
    <3>2. x # c
      BY <1>9, <3>1
    <3> QED BY <1>9, <1>10, <3>1, <3>2 DEF Loose
  <2>2. \A x \in Cells : Settled(x) => Settled(x)'
    BY <2>1 DEF Settled
  <2> QED BY <1>3, <1>9, <1>10, <2>1, <2>2, Typed
<1> HIDE DEF n
<1>12. GraphFit'
  <2> SUFFICES ASSUME NEW x \in Cells PROVE Sourced(x)'
    BY DEF GraphFit
  <2>1. Sourced(x) /\ Sourced(c)
    BY <1>1 DEF FInv, GraphFit
  <2>2. CASE x = c
    <3>1. \A d \in Cells : Has(gets, d) =>
            /\ d \in Needs(c) \cap made
            /\ c \notin Rewritable => d \in Uses(fn'[c])
      BY <1>1, <1>3, <1>5, <1>8
    <3>2. \A d \in Cells : Has(gets, d) <=> d \in {seen[k].cell : k \in DOMAIN seen}
      <4>1. DOMAIN seen = 1 .. Len(seen)
        BY <1>1, LenProperties
      <4> QED BY <1>8, <4>1
    <3>3. Has(observers'[c], Cleanup) =>
            c \in made /\ \E g \in FnsOf(c) : Cleans(g) /\ fn'[c] \in {g, None}
      BY <1>1, <1>5, <1>6, <2>1 DEF Sourced
    <3>4. LogCells(c)' = {seen[k].cell : k \in DOMAIN seen}
      BY <1>7 DEF LogCells
    <3> QED BY <1>1, <1>3, <1>5, <1>7, <1>8, <2>2, <3>1, <3>2, <3>3, <3>4 DEF Sourced
  <2>3. CASE x # c
    <3>1. LogCells(x)' = LogCells(x)
      BY <1>7, <2>3 DEF LogCells
    <3>2. x \notin made => log'[x] = <<>> /\ moved'[x]
      BY <1>7, <2>1, <2>3 DEF Sourced
    <3>3. sources'[x] = sources[x] /\ fn' = fn /\ made' = made
          /\ (Has(observers'[x], Cleanup) <=> Has(observers[x], Cleanup))
      BY <1>5, <1>6, <1>7, <2>3
    <3> QED BY <2>1, <3>1, <3>2, <3>3 DEF Sourced
  <2> QED BY <2>2, <2>3
<1>13. Raw'
  <2> SUFFICES ASSUME NEW x \in Rewritable, fn[x] = None, state'[x] # Clean
               PROVE  FALSE
    BY <1>5 DEF Raw
  <2>1. state[x] = Clean /\ x \in Cells
    BY <1>1, QuietFacts, CellIs
  <2> QED BY <1>11, <2>1
<1>14. Due'
  <2> SUFFICES ASSUME NEW x \in Cells, fn[x] # None, state'[x] = Dirty PROVE moved'[x]
    BY <1>5 DEF Due
  <2>1. x # c
    BY <1>9, Typed
  <2>2. CASE state[x] = Dirty
    <3>1. moved[x]
      BY <1>1, <2>2, QuietFacts
    <3> QED BY <1>7, <2>1, <3>1
  <2>3. CASE state[x] # Dirty
    <3>1. v # value[c] /\ Has(observers[c], x)
      BY <1>9, <2>1, <2>3
    <3>2. c \in LogCells(x)
      BY <1>1, <3>1, ObserverIs
    <3> QED BY <1>7, <2>1, <3>1, <3>2
  <2> QED BY <2>2, <2>3
<1>15. Valid'
  <2> SUFFICES ASSUME NEW x \in Cells, fn[x] # None, state'[x] # Dirty,
                      NEW k \in 1 .. Len(log'[x]), log'[x][k].cell # None
               PROVE  value'[log'[x][k].cell] = log'[x][k].val
    BY <1>5 DEF Valid, Sees
  <2>1. CASE x = c
    <3>1. log'[x] = seen /\ k \in 1 .. Len(seen)
      BY <1>7, <2>1
    <3>2. seen[k].cell \in Cells /\ value[seen[k].cell] = seen[k].val
      BY <1>1, <1>3, <3>1, SeenRead DEF Sees
    <3>3. seen[k].cell # c
      BY <1>8, <3>1, <3>2
    <3> QED BY <1>7, <3>1, <3>2, <3>3
  <2>2. CASE x # c
    <3>1. log'[x] = log[x] /\ k \in 1 .. Len(log[x]) /\ k \in DOMAIN log[x]
          /\ log[x][k].cell \in Cells
      BY <1>7, <2>2, Typed
    <3>2. state[x] # Dirty
      BY <1>9, <2>2
    <3>3. value[log[x][k].cell] = log[x][k].val
      BY <2>2, <3>1, <3>2 DEF FInv, DataFit, Valid, Sees
    <3>4. log[x][k].cell = c => v = value[c]
      <4> SUFFICES ASSUME log[x][k].cell = c, v # value[c] PROVE FALSE
        OBVIOUS
      <4>1. c \in LogCells(x)
        BY <3>1 DEF LogCells
      <4>2. Has(sources[x], c)
        BY <1>1, <4>1 DEF FInv, GraphFit, Sourced
      <4>3. Has(observers[c], x)
        BY <1>1, <4>2, Linking
      <4> QED BY <1>9, <2>2, <4>3
    <3> QED BY <1>7, <3>1, <3>3, <3>4
  <2> QED BY <2>1, <2>2
<1>16. Spread'
  <2>1. ASSUME NEW x \in Cells, NEW d \in Cells, Loose(x)', Has(observers'[x], d)
        PROVE  state'[d] # Clean
    <3>1. Loose(x) /\ x # c
      BY <1>11, <2>1
    <3>2. d # c
      BY <1>6, <1>8, <2>1, <3>1 DEF Settled
    <3>3. Has(observers[x], d)
      BY <1>6, <2>1, <3>2
    <3> QED BY <1>1, <1>11, <3>1, <3>2, <3>3, QuietFacts
  <2> QED BY <2>1, SpreadNext
<1>17. ASSUME NEW k \in 1 .. (n - 1)
       PROVE  /\ t[k] = stack[k] /\ t[k] \in FrameSet /\ Holds(t[k]) /\ Pulls(t[k])
              /\ Beside(t[k], Top) /\ Holds(t[k])'
              /\ Updates(t[k]) => t[k].cell # c
  <2>1. PICK g : g = t[k]
    OBVIOUS
  <2>2. g \in FrameSet /\ Holds(g) /\ Pulls(g) /\ Beside(g, Top) /\ g = stack[k]
    <3>1. g = Rest[k] /\ g = stack[k] /\ k \in 1 .. Len(stack)
      BY <1>2, <1>4, <2>1 DEF n
    <3> QED BY <1>1, <1>2, <3>1, BelowTop DEF Quiet, n
  <2>3. g.op \in Downward => g.cell # c /\ g.cell \in Cells
    <3>1. g.op \in Downward => Rank[c] < Rank[g.cell]
      BY <1>0, <1>1, <2>2 DEF Beside
    <3>2. Rank[c] \in Nat
      BY <1>1, RankFalls DEF Fixed, Proper
    <3> QED BY <2>2, <3>1, <3>2, FrameIs
  <2>4. g.op = "update" => HoldsUpdate(g)'
    <3> SUFFICES ASSUME g.op = "update" PROVE HoldsUpdate(g)'
      OBVIOUS
    <3>1. HoldsUpdate(g) /\ g.cell # c /\ g.cell \in Cells
      BY <2>2, <2>3 DEF Holds, Downward
    <3>2. fn'[g.cell] = g.fn /\ state'[g.cell] = Dirty /\ value'[g.cell] = g.val
      BY <1>5, <1>7, <1>11, <3>1 DEF HoldsUpdate
    <3>3. \A j \in 1 .. Len(g.seen) : g.seen[j].cell # None =>
            g.seen[j].cell \in Cells /\ g.seen[j].cell # c
      BY <1>3, <2>2, <3>1, FrameCells DEF HoldsUpdate, Settles, Settled
    <3>4. Sees(g.seen)'
      BY <1>7, <3>1, <3>3 DEF HoldsUpdate, Sees
    <3>5. Settles(g.seen)'
      BY <1>11, <3>1, <3>3 DEF HoldsUpdate, Settles
    <3> QED BY <3>1, <3>2, <3>4, <3>5 DEF HoldsUpdate
  <2>5. g.op = "updateIfNecessary" => HoldsCheck(g)'
    <3> SUFFICES ASSUME g.op = "updateIfNecessary" PROVE HoldsCheck(g)'
      OBVIOUS
    <3>1. HoldsCheck(g) /\ sources'[g.cell] = sources[g.cell]
      BY <1>7, <2>2, <2>3 DEF Holds, Downward
    <3> QED BY <1>11, <2>2, <3>1, FrameCells DEF HoldsCheck
  <2>6. Holds(g)'
    BY <2>2, <2>4, <2>5 DEF Holds, Pulls
  <2> QED BY <2>1, <2>2, <2>3, <2>6 DEF Updates, Downward
<1>18. Len(t) = n - 1 /\ t \in Seq(FrameSet) /\ Len(t) \in Nat
       /\ n \in Nat \ {0} /\ (t = <<>> <=> n = 1)
  BY <1>2, <1>4
<1>19. CallsSet'
  <2>1. Shape(t)
    BY <1>1, <1>4, BelowTop
  <2>2. Passes(t)'
    BY <1>17, <1>18 DEF Passes, Pulls
  <2>3. \A k \in 1 .. Len(t) : Holds(t[k])'
    BY <1>17, <1>18
  <2>4. t # <<>> => ~Updates(stack[n - 1]) /\ Tips(t[Len(t)])'
    <3> SUFFICES ASSUME t # <<>>
                 PROVE  ~Updates(stack[n - 1]) /\ Tips(t[Len(t)])'
      OBVIOUS
    <3>1. PICK g : g = stack[n - 1]
      OBVIOUS
    <3>2. /\ ~Updates(g)
          /\ \/ g.op = "Read" /\ g.cell = c
             \/ /\ g.op = "updateIfNecessary"
                /\ g.arg > 1 /\ g.list[g.arg - 1] = c
      <4>1. Len(stack) # 1
        BY <1>18 DEF n
      <4> QED BY <1>0, <1>1, <3>1, <4>1, CallerIs DEF n
    <3>3. t[Len(t)] = g
      <4>1. n - 1 \in 1 .. (n - 1)
        BY <1>18
      <4> QED BY <1>17, <1>18, <3>1, <4>1
    <3>4. Settled(c)'
      BY <1>9 DEF Settled, Loose
    <3>5. Tips(g)'
      BY <3>2, <3>4 DEF Tips
    <3> QED BY <3>1, <3>2, <3>3, <3>5
  <2>5. Noted(t, context')
    <3>1. PICK x : x = context
      OBVIOUS
    <3>2. Noted(stack, x)
      BY <3>1 DEF FInv, CallsSet
    <3>3. Noted(t, Top.saved)
      <4>1. Updates(stack[Len(stack)]) /\ stack[Len(stack)].saved = Top.saved
        BY <1>1, <1>2 DEF n
      <4>2. Len(stack) # 1 => ~Updates(stack[Len(stack) - 1])
        BY <1>18, <2>4 DEF n
      <4> QED BY <1>2, <1>4, <3>2, <4>1, <4>2, NotedLeave DEF n
    <3>4. Top.saved = <<Top.saved[1], Top.saved[2], Top.saved[3]>>
      <4>1. Top.saved \in (Cells \cup {None}) \X Seq(Cells) \X Nat
        BY <1>2 DEF FrameSet
      <4> QED BY <4>1
    <3> QED BY <1>5, <3>3, <3>4
  <2> QED BY <1>5, <2>1, <2>2, <2>3, <2>4, <2>5, CallsNext
<1>20. RanFit'
  <2>1. CASE t = <<>>
    BY <1>5, <2>1, RanNone
  <2>2. CASE t # <<>>
    <3>1. ran' = ran /\ 1 \in 1 .. (n - 1) /\ stack # <<>>
      BY <1>2, <1>5, <1>18, <2>2
    <3>2. t[1] = stack[1] /\ Beside(t[1], Top) /\ ~Marks(t[1])
      BY <1>17, <3>1 DEF Pulls, Marks
    <3>3. c \notin Effects
      BY <1>0, <1>1, <3>2 DEF Beside
    <3>4. ASSUME NEW x \in ran
          PROVE  \/ \E i \in 1 .. Len(t) : Updates(t[i]) /\ t[i].cell = x
                 \/ x \notin Effects /\ state'[x] = Clean
      <4>1. CASE x = c
        BY <1>9, <3>3, <4>1
      <4>2. CASE x # c /\ \E i \in 1 .. Len(stack) :
                            Updates(stack[i]) /\ stack[i].cell = x
        <5>1. PICK i \in 1 .. Len(stack) : Updates(stack[i]) /\ stack[i].cell = x
          BY <4>2
        <5>2. i # n
          BY <1>0, <1>2, <4>2, <5>1
        <5>3. i \in 1 .. (n - 1)
          BY <1>2, <5>2 DEF n
        <5>4. t[i] = stack[i] /\ i \in 1 .. Len(t)
          BY <1>17, <1>18, <5>3
        <5> QED BY <5>1, <5>4
      <4>3. CASE x \notin Effects /\ state[x] = Clean
        BY <1>11, <4>3, Typed
      <4> QED BY <3>4, <4>1, <4>2, <4>3 DEF FInv, RanFit
    <3>5. Runs(t[1]) => ran \cap Area(t[1].fn) = {}
      BY <3>1, <3>2 DEF FInv, RanFit
    <3> QED BY <1>5, <3>1, <3>2, <3>4, <3>5 DEF RanFit
  <2> QED BY <2>1, <2>2
<1> QED BY <1>12, <1>13, <1>14, <1>15, <1>16, <1>19, <1>20 DEF FInv, DataFit
-----------------------------------------------------------------------------
(* One action at a time: writes, which mark. *)

(* The cell that is written leaves the graph. *)
LEMMA Rooted ==
  ASSUME Fixed, RInv, RInv', FInv, NEW c \in Cells,
         IF fn[c] = None THEN UNCHANGED <<fn, sources, observers>>
         ELSE /\ observers' = Unlinked(c, 1)
              /\ sources' = [sources EXCEPT ![c] = <<>>]
              /\ fn' = [fn EXCEPT ![c] = None]
  PROVE  /\ fn'[c] = None /\ sources'[c] = <<>>
         /\ \A x \in Cells : x # c => fn'[x] = fn[x] /\ sources'[x] = sources[x]
         /\ \A x, d \in Cells :
              Has(observers'[x], d) <=> d # c /\ Has(observers[x], d)
         /\ \A x \in Cells : Has(observers'[x], Cleanup) <=> Has(observers[x], Cleanup)
<1>1. Sourced(c) /\ fn \in [Cells -> Fns \cup {None}] /\ sources \in [Cells -> Seq(Cells)]
  BY Typed DEF FInv, GraphFit
<1>2. /\ fn'[c] = None /\ sources'[c] = <<>>
      /\ \A x \in Cells : x # c => fn'[x] = fn[x] /\ sources'[x] = sources[x]
  BY <1>1 DEF Sourced
<1>3. \A a, b \in Cells : Has(sources'[a], b) <=> Has(observers'[b], a)
  <2>1. LinksMutual'
    BY DEF RInv
  <2>2. \A a, b \in Cells :
          (\E k \in DOMAIN sources'[a] : sources'[a][k] = b)
            <=> (\E k \in DOMAIN observers'[b] : observers'[b][k] = a)
    BY <2>1 DEF LinksMutual
  <2> QED BY <2>2 DEF Has
<1>4. ASSUME NEW x \in Cells, NEW d \in Cells
      PROVE  Has(observers'[x], d) <=> d # c /\ Has(observers[x], d)
  <2>1. ~Has(<<>>, x)
    BY DEF Has
  <2> QED BY <1>2, <1>3, <2>1, Linking
<1>5. ASSUME NEW x \in Cells
      PROVE  Has(observers'[x], Cleanup) <=> Has(observers[x], Cleanup)
  <2>1. CASE fn[c] = None
    BY <2>1
  <2>2. CASE fn[c] # None
    <3>1. PICK o : o = Unlinked(c, 1)
      OBVIOUS
    <3>2. \A d \in Cells : \A e :
            Has(o[d], e) <=>
              /\ Has(observers[d], e)
              /\ e # c \/ \A k \in 1 .. Len(sources[c]) : sources[c][k] # d
      BY <3>1, UnlinkedKeeps DEF RInv
    <3>3. observers' = o
      BY <2>2, <3>1
    <3> QED BY <3>2, <3>3, CellIs
  <2> QED BY <2>1, <2>2
<1> QED BY <1>2, <1>4, <1>5

(* A function that runs and writes is that of an effect, below nothing.    *)
LEMMA WriterIs ==
  ASSUME Fixed, RInv, FInv, Doing("write")
  PROVE  /\ Runs(Top) /\ Len(stack) = 1 /\ Puts(Top.fn, Top.seen, Next1.cell)
         /\ Next1.cell \in Area(Top.fn) /\ Next1.cell \in Cells \ Effects
         /\ Next1.cell \in made /\ Next1.cell \notin Rewritable
         /\ Isolated(Top.fn, Area(Top.fn)) /\ Area(Top.fn) \subseteq Cells \ Effects
<1> DEFINE f == Top.fn
           d == Next1.cell
<1>1. /\ ~Idle /\ Top.op = "update" /\ Top.cell \in Cells /\ f \in FnsOf(Top.cell)
      /\ Top.seen \in Seq(Seen) /\ HoldsUpdate(Top) /\ Uses(f) \subseteq made
  BY RunsNow DEF Doing
<1>2. d \in Cells
  BY Running DEF Doing, Next1, Fixed
<1>3. Puts(f, Top.seen, d) /\ Lived(f, Top.seen)
  BY <1>1 DEF Doing, Next1, Puts, HoldsUpdate
<1>4. d \in Writes(f)
  BY <1>1, <1>2, <1>3 DEF Writes
<1>5. Top.cell \in Effects
  BY <1>1, <1>4 DEF Fixed, Careful
<1>6. Runs(Top)
  BY <1>1, <1>5 DEF Runs
<1>7. Len(stack) = 1
  <2> SUFFICES ASSUME Len(stack) # 1 PROVE FALSE
    OBVIOUS
  <2>1. 1 \in 1 .. (Len(stack) - 1)
    BY <1>1, StackNow
  <2>2. Beside(Rest[1], Top)
    BY <1>1, <2>1, BelowTop
  <2> QED BY <1>1, <1>5, <2>2 DEF Beside, Pulls
<1>8. Area(f) \subseteq Cells \ Effects /\ Isolated(f, Area(f))
  BY <1>1, <1>5, IsolatedArea DEF Fixed
<1>9. d \in Area(f)
  BY <1>4, <1>8 DEF Isolated
<1>10. d \in made
  BY <1>1, <1>4, UsedOnly
<1>11. d \notin Rewritable
  BY <1>1, <1>4 DEF Fixed, Careful
<1> QED BY <1>3, <1>6, <1>7, <1>8, <1>9, <1>10, <1>11

LEMMA CallWriteFresh ==
  ASSUME Fixed, RInv, RInv', FInv, NEW c \in Cells, NEW v \in Values, CallWrite(c, v)
  PROVE  FInv'
<1> DEFINE n == Len(stack)
<1>1. /\ UNCHANGED <<made, value, state, log, moved>>
      /\ ran' = ran /\ context' = context
      /\ fn'[c] = None /\ sources'[c] = <<>>
      /\ \A x \in Cells : x # c => fn'[x] = fn[x] /\ sources'[x] = sources[x]
      /\ \A x, d \in Cells :
           Has(observers'[x], d) <=> d # c /\ Has(observers[x], d)
      /\ \A x \in Cells : Has(observers'[x], Cleanup) <=> Has(observers[x], Cleanup)
  <2>1. IF fn[c] = None THEN UNCHANGED <<fn, sources, observers>>
        ELSE /\ observers' = Unlinked(c, 1)
             /\ sources' = [sources EXCEPT ![c] = <<>>]
             /\ fn' = [fn EXCEPT ![c] = None]
    BY DEF CallWrite
  <2>2. /\ UNCHANGED <<made, value, state, log, moved>>
        /\ ran' = ran /\ context' = context
    BY DEF CallWrite, dataVars, context
  <2> QED BY <2>1, <2>2, Rooted
<1>2. PICK w : w = Frame("Write", c, v, None)
  OBVIOUS
<1>3. w \in FrameSet /\ w.op = "Write" /\ w.cell = c /\ w.arg = 1 /\ w.val = v
      /\ Marks(w) /\ ~Pulls(w) /\ ~Updates(w)
  BY <1>2, NewFrame DEF Frame, Marks, Pulls, Updates
<1>4. PICK t : t = Append(stack, w)
  OBVIOUS
<1>5. /\ stack' = t /\ stack \in Seq(FrameSet) /\ n \in Nat /\ t \in Seq(FrameSet)
      /\ Len(t) = n + 1 /\ t # <<>>
      /\ t[n + 1] = w /\ \A k \in 1 .. n : t[k] = stack[k]
      /\ \A k \in 1 .. (n + 1) : k = n + 1 \/ k \in 1 .. n
      /\ n = 0 <=> stack = <<>>
  <2>1. stack \in Seq(FrameSet) /\ stack' = t
    BY <1>2, <1>4, Typed DEF CallWrite
  <2> QED BY <1>3, <1>4, <2>1, Joined
<1>6. /\ Quiet /\ c \in made /\ c \notin Rewritable
      /\ Idle \/ (Doing("write") /\ Next1.cell = c)
  <2>1. CASE Idle /\ c \in Writable \cap made
    <3>1. c \notin Rewritable
      BY <2>1 DEF Fixed, Careful
    <3> QED BY <2>1, <3>1, QuietIdle
  <2>2. CASE Doing("write") /\ Next1.cell = c
    BY <2>2, RunsNow, WriterIs DEF Doing
  <2> QED BY <2>1, <2>2 DEF CallWrite
<1>7. /\ \A x \in Cells : Loose(x)' => Loose(x)
      /\ \A x \in Cells : Settled(x) => Settled(x)'
  <2>1. ASSUME NEW x \in Cells, Loose(x)' PROVE Loose(x)
    <3>1. state[x] # Clean /\ (fn'[x] # None \/ x \in Rewritable)
      BY <1>1, <2>1 DEF Loose
    <3>2. x # c
      BY <1>1, <1>6, <3>1
    <3> QED BY <1>1, <3>1, <3>2 DEF Loose
  <2> QED BY <2>1 DEF Settled
<1> HIDE DEF n
<1>8. GraphFit'
  <2> SUFFICES ASSUME NEW x \in Cells PROVE Sourced(x)'
    BY DEF GraphFit
  <2>1. Sourced(x)
    BY DEF FInv, GraphFit
  <2>2. LogCells(x)' = LogCells(x)
    BY <1>1 DEF LogCells
  <2>3. CASE x = c
    <3>1. \A d : ~Has(<<>>, d)
      BY DEF Has
    <3>2. Has(observers'[c], Cleanup) =>
            c \in made /\ \E f \in FnsOf(c) : Cleans(f) /\ None \in {f, None}
      BY <1>1, <2>1, <2>3 DEF Sourced
    <3> QED BY <1>1, <1>6, <2>1, <2>3, <3>1, <3>2 DEF Sourced
  <2>4. CASE x # c
    <3>1. fn'[x] = fn[x] /\ sources'[x] = sources[x] /\ made' = made
          /\ log' = log /\ moved' = moved
          /\ (Has(observers'[x], Cleanup) <=> Has(observers[x], Cleanup))
      BY <1>1, <2>4
    <3> QED BY <2>1, <2>2, <3>1 DEF Sourced
  <2> QED BY <2>3, <2>4
<1>9. Raw'
  <2>1. ASSUME NEW x \in Rewritable, fn'[x] = None PROVE state'[x] = Clean
    <3>1. x # c /\ x \in Cells
      BY <1>6, CellIs
    <3> QED BY <1>1, <1>6, <2>1, <3>1, QuietFacts
  <2> QED BY <2>1 DEF Raw
<1>10. Due'
  <2>1. ASSUME NEW x \in Cells, fn'[x] # None, state'[x] = Dirty PROVE moved'[x]
    <3>1. x # c
      BY <1>1, <2>1
    <3> QED BY <1>1, <1>6, <2>1, <3>1, QuietFacts
  <2> QED BY <2>1 DEF Due
<1>11. Valid'
  <2>1. ASSUME NEW x \in Cells, fn'[x] # None, state'[x] # Dirty
        PROVE  Sees(log[x])
    <3>1. x # c
      BY <1>1, <2>1
    <3> QED BY <1>1, <2>1, <3>1 DEF FInv, DataFit, Valid
  <2> QED BY <1>1, <2>1 DEF Valid, Sees
<1>12. Spread'
  <2>1. ASSUME NEW x \in Cells, NEW d \in Cells, Loose(x)', Has(observers'[x], d)
        PROVE  state'[d] # Clean
    BY <1>1, <1>6, <1>7, <2>1, QuietFacts
  <2> QED BY <2>1, SpreadNext
<1>13. Holds(w)'
  <2>1. HoldsWrite(w)'
    <3>1. \A k \in Nat : ~(k \in 1 .. Len(observers'[c]) /\ k < 1)
      OBVIOUS
    <3> QED BY <1>1, <1>3, <1>6, <3>1 DEF HoldsWrite
  <2> QED BY <1>3, <2>1 DEF Holds
<1>14. CASE Idle
  <2>1. n = 0 /\ stack = <<>> /\ ran = {} /\ Len(t) = 1
    BY <1>5, <1>14 DEF Idle, FInv, RanFit
  <2>2. \A k \in 1 .. Len(t) : t[k] = w
    BY <1>5, <2>1
  <2>3. Shape(t)
    <3>1. Fits(<<>>, w) /\ <<>> \in Seq(FrameSet)
      <4>1. Grounds(w)
        BY <1>3 DEF Grounds
      <4>2. Len(<<>>) = 0 /\ \A k : k \notin 1 .. 0
        OBVIOUS
      <4> QED BY <4>1, <4>2 DEF Fits
    <3>2. t = Append(<<>>, w)
      BY <1>4, <2>1
    <3> QED BY <1>3, <3>1, <3>2, ShapePush, ShapeNone
  <2>4. Passes(t)'
    BY <1>3, <2>2 DEF Passes
  <2>5. Tips(t[Len(t)])'
    BY <1>3, <1>5, <2>1 DEF Tips
  <2>6. Noted(t, context')
    BY <1>3, <2>2 DEF Noted
  <2>7. CallsSet'
    BY <1>5, <1>13, <2>2, <2>3, <2>4, <2>5, <2>6, CallsNext
  <2>8. RanFit'
    BY <1>1, <2>1, RanNone
  <2> QED BY <1>8, <1>9, <1>10, <1>11, <1>12, <2>7, <2>8 DEF FInv, DataFit
<1>15. CASE Doing("write") /\ Next1.cell = c
  <2>1. PICK f : f = Top
    OBVIOUS
  <2>2. /\ Runs(f) /\ n = 1 /\ Puts(f.fn, f.seen, c) /\ c \in Area(f.fn)
        /\ c \notin Effects /\ f \in FrameSet /\ f = stack[1] /\ HoldsUpdate(f)
        /\ Updates(f) /\ f.op = "update" /\ Pulls(f) /\ ~Marks(f)
        /\ f.cell \in Effects /\ f.cell # c /\ f.cell \in Cells
    <3>1. /\ Runs(f) /\ n = 1 /\ Puts(f.fn, f.seen, c) /\ c \in Area(f.fn)
          /\ c \in Cells \ Effects
      BY <1>15, <2>1, WriterIs DEF n
    <3>2. ~Idle /\ HoldsUpdate(f)
      BY <1>15, <2>1, RunsNow DEF Doing
    <3>3. f \in FrameSet /\ f = stack[1]
      BY <2>1, <3>1, <3>2, StackNow DEF n
    <3>4. f.op = "update" /\ f.cell \in Effects
      BY <3>1 DEF Runs
    <3> QED BY <3>1, <3>2, <3>3, <3>4, CellIs DEF Updates, Pulls, Marks
  <2>3. t[1] = f /\ t[2] = w /\ Len(t) = 2 /\ \A k \in 1 .. 2 : k = 1 \/ k = 2
    BY <1>5, <2>2
  <2>4. Shape(t)
    <3>1. Shape(stack)
      BY DEF FInv, CallsSet
    <3>2. Beside(f, w)
      BY <1>3, <2>2 DEF Beside
    <3>3. Leads(f, w)
      BY <1>3, <2>2 DEF Leads
    <3>4. Fits(stack, w)
      <4>1. \A k \in 1 .. Len(stack) : k = 1
        BY <2>2 DEF n
      <4>2. stack # <<>> /\ Len(stack) = 1
        BY <1>5, <2>2 DEF n
      <4> QED BY <2>2, <3>2, <3>3, <4>1, <4>2 DEF Fits
    <3> QED BY <1>3, <1>4, <1>5, <3>1, <3>4, ShapePush
  <2>5. Passes(t)'
    <3>1. \A k \in 1 .. Len(t) : t[k].op # "stale"
      BY <1>3, <2>2, <2>3
    <3> QED BY <3>1 DEF Passes
  <2>6. Holds(f)'
    <3>1. /\ fn'[f.cell] = f.fn /\ state'[f.cell] = Dirty /\ value'[f.cell] = f.val
          /\ Lived(f.fn, f.seen) /\ Sees(f.seen)'
      BY <1>1, <2>2 DEF HoldsUpdate, Sees
    <3>2. Settles(f.seen)'
      BY <1>7, <2>2, FrameCells DEF HoldsUpdate, Settles
    <3>3. HoldsUpdate(f)'
      BY <3>1, <3>2 DEF HoldsUpdate
    <3> QED BY <2>2, <3>3 DEF Holds
  <2>7. \A k \in 1 .. Len(t) : Holds(t[k])'
    BY <1>13, <2>3, <2>6
  <2>8. Tips(t[Len(t)])'
    BY <1>3, <2>3 DEF Tips
  <2>9. Noted(t, context')
    <3>1. PICK x : x = context
      OBVIOUS
    <3>2. Noted(stack, x)
      BY <3>1 DEF FInv, CallsSet
    <3>3. Notes(stack, 1, x) => Notes(t, 1, x)
      <4>1. 1 + 1 = 2 /\ 2 \notin 1 .. Len(stack) /\ t[2].op # "Read"
            /\ stack[1].seen = t[1].seen /\ stack[1].cell = t[1].cell
        BY <1>3, <2>2, <2>3 DEF n
      <4> QED BY <4>1 DEF Notes
    <3>4. Noted(t, x)
      BY <1>3, <1>4, <1>5, <2>2, <3>2, <3>3, NotedPush DEF n
    <3> QED BY <1>1, <3>1, <3>4
  <2>10. CallsSet'
    BY <1>5, <2>4, <2>5, <2>7, <2>8, <2>9, CallsNext
  <2>11. RanFit'
    <3>1. /\ n \in Nat /\ n <= Len(stack) /\ n <= Len(t) /\ t # <<>>
          /\ (\A k \in 1 .. Len(stack) : n < k => ~Updates(stack[k]))
          /\ n # 0
      BY <1>5, <2>2 DEF n
    <3>2. /\ RanFit /\ ran' = (IF t = <<>> THEN {} ELSE ran)
          /\ \A x \in ran \ Effects : state[x] = Clean => state'[x] = Clean
      BY <1>1, <1>5 DEF FInv
    <3> QED BY <1>5, <3>1, <3>2, RanKept
  <2> QED BY <1>8, <1>9, <1>10, <1>11, <1>12, <2>10, <2>11 DEF FInv, DataFit
<1> QED BY <1>6, <1>14, <1>15

(* While marks are set: an effect's function may run at the bottom, and    *)
(* what it has seen is out of reach of the marks. *)
LEMMA MarkingNow ==
  ASSUME Fixed, RInv, FInv, ~Idle, Marks(Top)
  PROVE  /\ ~Updates(Top)
         /\ \A k \in 1 .. Len(stack) :
              /\ stack[k] \in FrameSet /\ Holds(stack[k]) /\ FrameFits(stack[k])
              /\ Marks(stack[k]) \/ (k = 1 /\ Runs(stack[k]) /\ Len(stack) # 1)
         /\ Runs(stack[1]) =>
              /\ Isolated(stack[1].fn, Area(stack[1].fn))
              /\ Area(stack[1].fn) \subseteq Cells \ Effects
              /\ Top.cell \in Area(stack[1].fn) \cup Effects
              /\ \A d \in Cells : Has(observers[Top.cell], d) =>
                   d \in Area(stack[1].fn) \cup Effects
         /\ ran \cap Effects \subseteq
              {x \in Cells : \E i \in 1 .. Len(stack) : Updates(stack[i]) /\ stack[i].cell = x}
         /\ Runs(stack[1]) \/ ran = {}
<1> DEFINE n == Len(stack)
<1>1. /\ n \in Nat \ {0} /\ Top = stack[n] /\ Top \in FrameSet /\ stack # <<>>
      /\ \A k \in 1 .. n : stack[k] \in FrameSet /\ (k = n \/ k \in 1 .. (n - 1))
      /\ \A k \in 1 .. (n - 1) : Rest[k] = stack[k] /\ k \in 1 .. n
  BY StackNow
<1>2. ~Updates(Top)
  BY DEF Marks, Updates
<1>3. \A k \in 1 .. n : Holds(stack[k]) /\ FrameFits(stack[k])
  BY BelowTop
<1>4. ASSUME NEW k \in 1 .. n
      PROVE  Marks(stack[k]) \/ (k = 1 /\ Runs(stack[k]) /\ n # 1)
  <2>1. CASE k = n
    BY <1>1, <2>1
  <2>2. CASE k \in 1 .. (n - 1)
    <3>1. Marks(stack[k]) \/ Runs(stack[k])
      BY <1>1, <2>2, BelowTop DEF Beside
    <3>2. n # 1
      BY <1>1, <2>2
    <3>3. Runs(stack[k]) => k = 1
      <4> SUFFICES ASSUME Runs(stack[k]), k # 1 PROVE FALSE
        OBVIOUS
      <4>1. 1 \in 1 .. n /\ 1 < k
        BY <1>1
      <4>2. Beside(stack[1], stack[k])
        BY <4>1, BesideAll
      <4> QED BY <4>2 DEF Beside, Runs, Pulls
    <3> QED BY <3>1, <3>2, <3>3
  <2> QED BY <1>1, <2>1, <2>2
<1>5. ASSUME Runs(stack[1])
      PROVE  /\ Isolated(stack[1].fn, Area(stack[1].fn))
             /\ Area(stack[1].fn) \subseteq Cells \ Effects
             /\ Top.cell \in Area(stack[1].fn) \cup Effects
             /\ \A d \in Cells : Has(observers[Top.cell], d) =>
                  d \in Area(stack[1].fn) \cup Effects
  <2>1. 1 \in 1 .. n
    BY <1>1
  <2>2. stack[1].cell \in Effects /\ stack[1].fn \in FnsOf(stack[1].cell)
    BY <1>3, <1>5, <2>1 DEF Runs, FrameFits
  <2>3. /\ Isolated(stack[1].fn, Area(stack[1].fn))
        /\ Area(stack[1].fn) \subseteq Cells \ Effects
    BY <2>2, IsolatedArea DEF Fixed
  <2>4. n # 1
    BY <1>1, <1>5 DEF Runs, Marks
  <2>5. Beside(stack[1], Top)
    <3>1. n \in Nat \ {0}
      BY <1>1
    <3> HIDE DEF n
    <3>2. 1 \in 1 .. (n - 1)
      BY <2>4, <3>1
    <3> QED BY <1>1, <3>2, BelowTop DEF n
  <2>6. Top.cell \in Area(stack[1].fn) \cup Effects
    BY <1>5, <2>5 DEF Beside
  <2>7. ASSUME NEW d \in Cells, Has(observers[Top.cell], d), d \notin Effects
        PROVE  d \in Area(stack[1].fn)
    <3>1. Top.cell \in Cells
      BY <1>1, FrameIs
    <3>2. Top.cell \in Needs(d) /\ Top.cell \notin Effects
      BY <2>7, <3>1, ObserverIs
    <3>3. Needs(d) \cap Area(stack[1].fn) # {}
      BY <2>6, <3>2
    <3> QED BY <2>3, <2>7, <3>3 DEF Isolated
  <2> QED BY <2>3, <2>6, <2>7
<1>6. /\ ran \cap Effects \subseteq
           {x \in Cells : \E i \in 1 .. n : Updates(stack[i]) /\ stack[i].cell = x}
      /\ Runs(stack[1]) \/ ran = {}
  <2>1. Marks(stack[1]) \/ Runs(stack[1])
    <3>1. 1 \in 1 .. n
      BY <1>1
    <3> QED BY <1>4, <3>1
  <2> QED BY <1>1, <2>1, CellIs DEF FInv, RanFit
<1> QED BY <1>1, <1>2, <1>3, <1>4, <1>5, <1>6

(* A mark changes nothing that the calls rely on. *)
LEMMA HoldsMarked ==
  ASSUME Fixed, RInv, UNCHANGED <<made, fn, value, sources, observers>>,
         NEW o, NEW U,
         \A x \in Cells : state'[x] = state[x] \/ x = o,
         \A x \in Cells : state[x] = Dirty => state'[x] = Dirty,
         NEW f \in FrameSet, Holds(f), FrameFits(f),
         Marks(f) \/ (/\ Runs(f) /\ U = Area(f.fn)
                      /\ o \in Cells => o \in Area(f.fn) \cup Effects)
  PROVE  Holds(f)'
<1>1. f.cell \in Cells
  BY FrameIs
<1>2. CASE Marks(f)
  <2>1. f.op = "Write" => HoldsWrite(f)'
    <3> SUFFICES ASSUME HoldsWrite(f) PROVE HoldsWrite(f)'
      BY DEF Holds
    <3>1. PICK S : S = Cells \cup {Cleanup}
      OBVIOUS
    <3>2. \A k \in 1 .. Len(observers[f.cell]) :
            observers[f.cell][k] = Cleanup \/ observers[f.cell][k] \in Cells
      <4>1. observers[f.cell] \in Seq(S)
        BY <1>1, <3>1, Typed
      <4> QED BY <3>1, <4>1, ElementOfSeq
    <3> QED BY <3>2 DEF HoldsWrite
  <2>2. f.op = "WriteFn" => HoldsWriteFn(f)'
    BY <1>1 DEF Holds, HoldsWriteFn
  <2> QED BY <1>2, <2>1, <2>2 DEF Holds, Marks
<1>3. CASE Runs(f) /\ (o \in Cells => o \in Area(f.fn) \cup Effects)
  <2>1. f.op = "update" /\ f.cell \in Effects /\ f.fn \in FnsOf(f.cell)
        /\ HoldsUpdate(f) /\ f.seen \in Seq(Seen)
    BY <1>3, FrameIs DEF Runs, FrameFits, Holds
  <2>2. Isolated(f.fn, Area(f.fn))
    BY <2>1, IsolatedArea DEF Fixed
  <2>3. ASSUME NEW k \in 1 .. Len(f.seen), f.seen[k].cell # None
        PROVE  f.seen[k].cell \in Cells /\ f.seen[k].cell # o
    <3>1. f.seen[k].cell \in Cells /\ f.seen[k].cell \in Reads(f.fn)
      BY <2>1, <2>3, SeenRead DEF HoldsUpdate
    <3>2. f.seen[k].cell \notin Effects
      BY <1>1, <2>1, <3>1, UsedOnly
    <3> QED BY <1>3, <2>2, <3>1, <3>2 DEF Isolated
  <2>4. Settles(f.seen)'
    <3> SUFFICES ASSUME NEW k \in 1 .. Len(f.seen), f.seen[k].cell # None
                 PROVE  Settled(f.seen[k].cell)'
      BY DEF Settles
    <3>1. Settled(f.seen[k].cell)
      BY <2>1 DEF HoldsUpdate, Settles
    <3> QED BY <2>3, <3>1 DEF Settled, Loose
  <2>5. HoldsUpdate(f)'
    BY <1>1, <2>1, <2>4 DEF HoldsUpdate, Sees
  <2> QED BY <2>1, <2>5 DEF Holds
<1> QED BY <1>2, <1>3

(* The loop over the observers goes on: the calls are as they should be.   *)
LEMMA AdvancedFit ==
  ASSUME Fixed, RInv, FInv, ~Idle, ~Updates(Top)
  PROVE  \E g \in FrameSet, s \in Seq(FrameSet) :
           /\ s = Advanced /\ Len(s) = Len(stack) /\ s # <<>>
           /\ s[Len(stack)] = g /\ \A k \in 1 .. (Len(stack) - 1) : s[k] = stack[k]
           /\ Similar(Top, g) /\ g.val = Top.val /\ g.arg = Top.arg + 1
           /\ Shape(s) /\ Passes(s) /\ Noted(s, context)
<1> DEFINE n == Len(stack)
<1>1. /\ stack \in Seq(FrameSet) /\ stack # <<>>
      /\ n \in Nat \ {0} /\ Top = stack[n] /\ Top \in FrameSet
      /\ Rest = SubSeq(stack, 1, n - 1)
      /\ Rest \in Seq(FrameSet) /\ Len(Rest) = n - 1
      /\ \A k \in 1 .. (n - 1) : Rest[k] = stack[k] /\ k \in 1 .. n
  BY StackNow
<1>2. PICK g \in FrameSet :
        /\ Advanced = Append(Rest, g) /\ Similar(Top, g) /\ g.seen = Top.seen
        /\ g.val = Top.val /\ g.arg = Top.arg + 1
  BY AdvancedIs
<1>3. PICK s : s = Append(Rest, g)
  OBVIOUS
<1>4. /\ g.op = Top.op /\ g.cell = Top.cell /\ g.saved = Top.saved /\ ~Updates(g)
  BY <1>2 DEF Similar, Updates
<1> HIDE DEF n
<1>5. /\ s \in Seq(FrameSet) /\ Len(s) = n /\ s # <<>>
      /\ s[n] = g /\ \A k \in 1 .. (n - 1) : s[k] = stack[k]
  <2>1. /\ s \in Seq(FrameSet) /\ Len(s) = Len(Rest) + 1 /\ s # <<>>
        /\ s[Len(Rest) + 1] = g /\ \A k \in 1 .. Len(Rest) : s[k] = Rest[k]
    <3>1. Rest \in Seq(FrameSet)
      BY <1>1
    <3> QED BY <1>3, <3>1, Joined
  <2> QED BY <1>1, <2>1
<1>6. Shape(s)
  <2>1. Shape(stack) /\ Resembles(Top, g)
    BY <1>4 DEF FInv, CallsSet, Resembles
  <2> QED BY <1>1, <1>3, <1>4, <2>1, ShapeSwap DEF n
<1>7. Passes(s)
  BY <1>1, <1>3, <1>4, PassesSwap DEF n, FInv, CallsSet
<1>8. Noted(s, context)
  <2>1. PICK x : x = context
    OBVIOUS
  <2>2. Noted(stack, x)
    BY <2>1 DEF FInv, CallsSet
  <2>3. Noted(s, x)
    BY <1>1, <1>3, <1>4, <2>2, NotedSwap DEF n
  <2> QED BY <2>1, <2>3
<1> QED BY <1>2, <1>3, <1>5, <1>6, <1>7, <1>8 DEF n

(* What is marked: an observer of the cell that the call on top is about.  *)
Advances(o, t, g) ==
  LET n == Len(stack)
      c == Top.cell
  IN  /\ stack' = t /\ t \in Seq(FrameSet) /\ t # <<>>
      /\ n \in Nat \ {0} /\ Len(t) \in {n, n + 1}
      /\ \A k \in 1 .. (n - 1) : t[k] = stack[k]
      /\ t[n] = g /\ g \in FrameSet /\ g.op = Top.op /\ g.cell = c
      /\ g.val = Top.val /\ g.arg = Top.arg + 1 /\ g.fn = Top.fn
      /\ Shape(t) /\ Passes(t) /\ Noted(t, context)
      /\ Len(t) = n => state' = state
      /\ Len(t) = n + 1 =>
           /\ o \in Cells /\ t[n + 1].op = "stale"
           /\ t[n + 1].cell = o /\ t[n + 1].arg = 1
      /\ o \in Cells =>
           /\ Has(observers[c], o) /\ fn[o] # None /\ FnsOf(o) # {} /\ c \in LogCells(o)
           /\ state'[o] # Clean /\ (Top.op = "Write" => state'[o] = Dirty)
      /\ \A x \in Cells : state'[x] = state[x] \/ (x = o /\ Len(t) = n + 1)
      /\ \A x \in Cells : state[x] # Clean => state'[x] # Clean
      /\ \A x \in Cells : state[x] = Dirty => state'[x] = Dirty
      /\ Top.op # "Write" => \A x \in Cells : state'[x] = Dirty => state[x] = Dirty

LEMMA Observed ==
  ASSUME Fixed, RInv, RInv', FInv, ~Idle, MoreObservers,
         NEW o, o = Observer
  PROVE  /\ Top.cell \in Cells /\ Top.arg \in 1 .. Len(observers[Top.cell])
         /\ observers[Top.cell][Top.arg] = o /\ (o = Cleanup \/ o \in Cells)
         /\ o \in Cells =>
              /\ Has(observers[Top.cell], o) /\ fn[o] # None /\ FnsOf(o) # {}
              /\ Top.cell \in LogCells(o)
<1>1. PICK c, a : c = Top.cell /\ a = Top.arg
  OBVIOUS
<1>2. Top \in FrameSet
  BY StackNow
<1>3. c \in Cells /\ a \in Nat \ {0}
  BY <1>1, <1>2, FrameIs
<1>4. Len(observers[c]) \in Nat /\ DOMAIN observers[c] = 1 .. Len(observers[c])
  BY <1>3, Typed
<1>5. a \in 1 .. Len(observers[c])
  BY <1>1, <1>3, <1>4 DEF MoreObservers
<1>6. observers[c][a] = o
  BY <1>1 DEF Observer
<1>7. o = Cleanup \/ o \in Cells
  BY ObserverIsCell
<1>8. ASSUME o \in Cells
      PROVE  Has(observers[c], o) /\ fn[o] # None /\ FnsOf(o) # {} /\ c \in LogCells(o)
  <2>1. Has(observers[c], o)
    BY <1>4, <1>5, <1>6 DEF Has
  <2> QED BY <1>3, <1>8, <2>1, ObserverIs
<1> QED BY <1>1, <1>3, <1>5, <1>6, <1>7, <1>8

LEMMA AdvancesNow ==
  ASSUME Fixed, RInv, RInv', FInv, ~Idle, Top.op \in {"Write", "stale"},
         MoreObservers, NEW o, o = Observer,
         NEW mark, mark = IF Top.op = "Write" THEN Dirty ELSE Check,
         IF o = Cleanup THEN state' = state /\ stack' = Advanced
         ELSE Stale(o, mark, Advanced)
  PROVE  \E t, g : Advances(o, t, g)
<1>1. PICK n, c : n = Len(stack) /\ c = Top.cell
  OBVIOUS
<1>2. Marks(Top) /\ ~Updates(Top) /\ Top \in FrameSet
  BY StackNow DEF Marks, Updates
<1>3. PICK g \in FrameSet, s \in Seq(FrameSet) :
        /\ s = Advanced /\ Len(s) = n /\ s # <<>>
        /\ s[n] = g /\ \A k \in 1 .. (n - 1) : s[k] = stack[k]
        /\ Similar(Top, g) /\ g.val = Top.val /\ g.arg = Top.arg + 1
        /\ Shape(s) /\ Passes(s) /\ Noted(s, context)
  BY <1>1, <1>2, AdvancedFit
<1>4. g.op = Top.op /\ g.cell = c /\ g.fn = Top.fn
  BY <1>1, <1>3 DEF Similar
<1>5. n \in Nat \ {0} /\ Top = stack[n]
      /\ \A k \in 1 .. n : k = n \/ k \in 1 .. (n - 1)
  BY <1>1, StackNow
<1>6. /\ c \in Cells /\ (o = Cleanup \/ o \in Cells)
      /\ o \in Cells =>
           Has(observers[c], o) /\ fn[o] # None /\ FnsOf(o) # {} /\ c \in LogCells(o)
  BY <1>1, Observed
<1>7. /\ \A x \in Cells : state[x] \in {Clean, Check, Dirty}
      /\ state \in [Cells -> {Clean, Check, Dirty}]
      /\ \A x \in Cells : x # Cleanup
  BY Typed, CellIs
<1>8. CASE o = Cleanup \/ ~(state[o] < mark)
  <2>1. state' = state /\ stack' = s
    BY <1>3, <1>8 DEF Stale
  <2>2. o \in Cells => state[o] # Clean /\ (Top.op = "Write" => state[o] = Dirty)
    BY <1>7, <1>8 DEF Clean, Check, Dirty
  <2>3. Advances(o, s, g)
    BY <1>1, <1>3, <1>4, <1>5, <1>6, <2>1, <2>2 DEF Advances
  <2> QED BY <2>3
<1>9. CASE o \in Cells /\ state[o] < mark
  <2>1. PICK e : e = Frame("stale", o, Zero, None)
    OBVIOUS
  <2>2. e \in FrameSet /\ e.op = "stale" /\ e.cell = o /\ e.arg = 1
        /\ Marks(e) /\ ~Pulls(e) /\ ~Updates(e)
    <3>1. PICK d \in Cells : d = o
      BY <1>9
    <3>2. Zero \in Values
      BY DataAssumption
    <3> QED BY <2>1, <3>1, <3>2, NewFrame DEF Frame, Marks, Pulls, Updates
  <2>3. PICK t : t = Append(s, e)
    OBVIOUS
  <2>4. state' = [state EXCEPT ![o] = mark] /\ stack' = t
    BY <1>3, <1>7, <1>9, <2>1, <2>3 DEF Stale
  <2>5. /\ t \in Seq(FrameSet) /\ Len(t) = n + 1 /\ t # <<>> /\ t[n + 1] = e
        /\ \A k \in 1 .. n : t[k] = s[k]
    BY <1>3, <2>2, <2>3, Joined
  <2>6. /\ t[n] = g /\ \A k \in 1 .. (n - 1) : t[k] = stack[k]
    <3>1. n \in 1 .. n /\ \A k \in 1 .. (n - 1) : k \in 1 .. n
      BY <1>5
    <3> QED BY <1>3, <2>5, <3>1
  <2>7. /\ \A x \in Cells : state'[x] = state[x] \/ x = o
        /\ \A x \in Cells : state[x] # Clean => state'[x] # Clean
        /\ \A x \in Cells : state[x] = Dirty => state'[x] = Dirty
        /\ Top.op # "Write" => \A x \in Cells : state'[x] = Dirty => state[x] = Dirty
        /\ state'[o] # Clean /\ (Top.op = "Write" => state'[o] = Dirty)
    <3>1. /\ \A x \in Cells : state'[x] = IF x = o THEN mark ELSE state[x]
          /\ mark # Clean /\ state[o] # Dirty /\ (Top.op # "Write" => mark # Dirty)
      BY <1>7, <1>9, <2>4 DEF Clean, Check, Dirty
    <3> QED BY <1>9, <3>1
  <2>8. Fits(s, e)
    <3>1. ASSUME NEW k \in 1 .. n PROVE Beside(s[k], e)
      <4>1. Marks(g) /\ ~Runs(g)
        BY <1>2, <1>4 DEF Marks, Runs
      <4>2. s[k] = g \/ (s[k] = stack[k] /\ k \in 1 .. Len(stack))
        BY <1>1, <1>3, <1>5
      <4>3. Marks(s[k]) \/ (k = 1 /\ Runs(s[k]) /\ s[k] = stack[1])
        BY <1>2, <4>1, <4>2, MarkingNow
      <4>4. Runs(s[k]) => s[k] = stack[1] /\ o \in Area(stack[1].fn) \cup Effects
        <5> SUFFICES ASSUME Runs(s[k]) PROVE s[k] = stack[1] /\ o \in Area(stack[1].fn) \cup Effects
          OBVIOUS
        <5>1. ~Marks(s[k])
          BY DEF Runs, Marks
        <5>2. s[k] = stack[1] /\ Runs(stack[1])
          BY <4>3, <5>1
        <5> QED BY <1>1, <1>2, <1>6, <1>9, <5>2, MarkingNow
      <4>5. Marks(s[k]) \/ Runs(s[k])
        BY <4>3
      <4> QED BY <2>2, <4>4, <4>5 DEF Beside
    <3>2. Leads(s[n], e)
      BY <1>2, <1>3, <1>4, <2>2 DEF Leads, Marks
    <3> QED BY <1>3, <3>1, <3>2 DEF Fits
  <2>9. Shape(t)
    BY <1>3, <2>2, <2>3, <2>8, ShapePush
  <2>10. Passes(t)
    BY <1>3, <1>4, <1>6, <1>9, <2>2, <2>3, PassesPush
  <2>11. Noted(t, context)
    <3>1. PICK x : x = context
      OBVIOUS
    <3>2. Noted(s, x) /\ ~Updates(s[Len(s)])
      BY <1>2, <1>3, <1>4, <3>1 DEF Updates
    <3>3. Noted(t, x)
      BY <2>2, <2>3, <3>2, NotedPush
    <3> QED BY <3>1, <3>3
  <2>12. Advances(o, t, g)
    BY <1>1, <1>3, <1>4, <1>5, <1>6, <1>9, <2>2, <2>4, <2>5, <2>6, <2>7, <2>9, <2>10,
       <2>11 DEF Advances
  <2> QED BY <2>12
<1> QED BY <1>6, <1>8, <1>9

(* A mark leaves the cells as they should be. *)
LEMMA MarkingData ==
  ASSUME Fixed, RInv, RInv', FInv, ~Idle, Top.op \in {"Write", "stale"},
         UNCHANGED <<made, fn, value, sources, observers, log, moved>>,
         NEW o, NEW t, NEW g, Advances(o, t, g), MoreObservers, o = Observer,
         Top.op = "Write" => value[Top.cell] # Top.val
  PROVE  GraphFit' /\ DataFit'
<1>1. PICK n, c : n = Len(stack) /\ c = Top.cell
  OBVIOUS
<1>2. /\ stack' = t /\ n \in Nat \ {0} /\ Len(t) \in {n, n + 1}
      /\ \A k \in 1 .. (n - 1) : t[k] = stack[k]
      /\ t[n] = g /\ g.op = Top.op /\ g.cell = c
      /\ g.val = Top.val /\ g.arg = Top.arg + 1 /\ g.fn = Top.fn
      /\ Len(t) = n + 1 =>
           /\ o \in Cells /\ t[n + 1].op = "stale"
           /\ t[n + 1].cell = o /\ t[n + 1].arg = 1
      /\ o \in Cells =>
           /\ fn[o] # None /\ c \in LogCells(o)
           /\ state'[o] # Clean /\ (Top.op = "Write" => state'[o] = Dirty)
      /\ \A x \in Cells : state'[x] = state[x] \/ (x = o /\ Len(t) = n + 1)
      /\ \A x \in Cells : state[x] # Clean => state'[x] # Clean
      /\ \A x \in Cells : state[x] = Dirty => state'[x] = Dirty
      /\ Top.op # "Write" => \A x \in Cells : state'[x] = Dirty => state[x] = Dirty
  BY <1>1 DEF Advances
<1>3. /\ Top = stack[n] /\ n = Len(stack) /\ c \in Cells
      /\ \A k \in 1 .. n : k = n \/ k \in 1 .. (n - 1)
      /\ \A k \in 1 .. n : k \in 1 .. Len(t)
      /\ n + 1 \in 1 .. (n + 1)
  BY <1>1, <1>2, StackNow, FrameIs
<1>4. GraphFit'
  <2> SUFFICES ASSUME NEW x \in Cells PROVE Sourced(x)'
    BY DEF GraphFit
  <2>1. Sourced(x)
    BY DEF FInv, GraphFit
  <2> QED BY <2>1 DEF Sourced, LogCells
<1>5. Raw'
  <2> SUFFICES ASSUME NEW x \in Rewritable, fn[x] = None, state'[x] # Clean
               PROVE  \E i \in 1 .. Len(t) : t[i].op = "WriteFn" /\ t[i].cell = x
    BY <1>2 DEF Raw
  <2>1. x \in Cells
    BY CellIs
  <2>2. x # o \/ o \notin Cells
    BY <1>2
  <2>3. state[x] # Clean
    BY <1>2, <2>1, <2>2
  <2>4. PICK i \in 1 .. n : stack[i].op = "WriteFn" /\ stack[i].cell = x
    BY <1>3, <2>3 DEF FInv, DataFit, Raw
  <2>5. i \in 1 .. (n - 1)
    BY <1>3, <2>4
  <2> QED BY <1>2, <1>3, <2>4, <2>5
<1>6. Due'
  <2> SUFFICES ASSUME NEW x \in Cells, fn[x] # None, state'[x] = Dirty, ~moved[x]
               PROVE  \E i \in 1 .. Len(t) : Prompts(t[i], x)
    BY <1>2 DEF Due, Prompts, LogCells
  <2>1. CASE state[x] = Dirty
    <3>1. PICK i \in 1 .. n : Prompts(stack[i], x)
      BY <1>3, <2>1 DEF FInv, DataFit, Due
    <3>2. Prompts(t[i], x)
      <4>1. CASE i \in 1 .. (n - 1)
        BY <1>2, <3>1, <4>1
      <4>2. CASE i = n
        <5>1. Prompts(Top, x)
          BY <1>3, <3>1, <4>2
        <5>2. g.op = Top.op /\ g.cell = Top.cell /\ g.val = Top.val
          BY <1>1, <1>2
        <5>3. Prompts(g, x)
          BY <5>1, <5>2 DEF Prompts
        <5> QED BY <1>2, <4>2, <5>3
      <4> QED BY <1>3, <3>1, <4>1, <4>2
    <3> QED BY <1>3, <3>2
  <2>2. CASE state[x] # Dirty
    <3>1. Top.op = "Write" /\ x = o
      BY <1>2, <2>2
    <3>2. Prompts(g, x)
      BY <1>1, <1>2, <3>1 DEF Prompts
    <3>3. n \in 1 .. n
      BY <1>2
    <3> QED BY <1>2, <1>3, <3>2, <3>3
  <2> QED BY <2>1, <2>2
<1>7. Valid'
  <2>1. ASSUME NEW x \in Cells, fn[x] # None, state'[x] # Dirty
        PROVE  Sees(log[x])
    BY <1>2, <2>1 DEF FInv, DataFit, Valid
  <2> QED BY <2>1 DEF Valid, Sees
<1>8. Spread'
  <2> SUFFICES ASSUME NEW x \in Cells, Loose(x)', NEW k \in 1 .. Len(observers[x])
               PROVE  \/ observers[x][k] = Cleanup \/ state'[observers[x][k]] # Clean
                      \/ \E i \in 1 .. Len(t) : Waits(t[i], x, k)
    BY <1>2 DEF Spread, Reached, Awaited, Waits
  <2>1. CASE Loose(x)
    <3>1. Reached(x, k)
      BY <2>1 DEF FInv, DataFit, Spread
    <3>2. CASE observers[x][k] # Cleanup /\ state[observers[x][k]] # Clean
      <4>1. observers[x][k] \in Cells
        <5>1. observers[x] \in Seq(Cells \cup {Cleanup})
          BY Typed
        <5>2. observers[x][k] \in Cells \cup {Cleanup}
          BY <5>1, ElementOfSeq
        <5> QED BY <3>2, <5>2
      <4> QED BY <1>2, <3>2, <4>1
    <3>3. CASE Awaited(x, k)
      <4>1. PICK i \in 1 .. n : Waits(stack[i], x, k)
        BY <1>3, <3>3 DEF Awaited
      <4>2. CASE i \in 1 .. (n - 1)
        BY <1>2, <1>3, <4>1, <4>2
      <4>3. CASE i = n
        <5>1. Top.op = "stale" /\ x = c /\ Top.arg <= k
          BY <1>1, <1>3, <4>1, <4>3 DEF Waits
        <5>2. Top.arg \in Nat /\ Top.arg \in 1 .. Len(observers[c])
              /\ observers[c][Top.arg] = o /\ (o = Cleanup \/ o \in Cells)
              /\ k \in Nat
          BY <1>1, Observed
        <5>3. CASE Top.arg = k
          BY <1>2, <5>1, <5>2, <5>3
        <5>4. CASE Top.arg # k
          <6>1. g.arg <= k
            BY <1>2, <5>1, <5>2, <5>4
          <6>2. Waits(g, x, k)
            BY <1>2, <5>1, <6>1 DEF Waits
          <6>3. n \in 1 .. n
            BY <1>2
          <6> QED BY <1>2, <1>3, <6>2, <6>3
        <5> QED BY <5>3, <5>4
      <4> QED BY <1>3, <4>2, <4>3
    <3> QED BY <3>1, <3>2, <3>3 DEF Reached
  <2>2. CASE ~Loose(x)
    <3>1. state'[x] # state[x]
      BY <2>2 DEF Loose
    <3>2. x = o /\ Len(t) = n + 1
      BY <1>2, <3>1
    <3>3. t[n + 1].arg <= k
      BY <1>2, <3>2
    <3>4. Waits(t[n + 1], x, k)
      BY <1>2, <3>2, <3>3 DEF Waits
    <3> QED BY <1>3, <3>2, <3>4
  <2> QED BY <2>1, <2>2
<1> QED BY <1>4, <1>5, <1>6, <1>7, <1>8 DEF DataFit

LEMMA Marking ==
  ASSUME Fixed, RInv, RInv', FInv, ~Idle, Top.op \in {"Write", "stale"},
         UNCHANGED <<graphVars, value, context, histVars>>,
         MoreObservers, NEW o, o = Observer,
         NEW mark, mark = IF Top.op = "Write" THEN Dirty ELSE Check,
         IF o = Cleanup THEN state' = state /\ stack' = Advanced
         ELSE Stale(o, mark, Advanced),
         Top.op = "Write" => value[Top.cell] # Top.val
  PROVE  FInv'
<1>1. PICK n, c, t, g :
        /\ n = Len(stack) /\ c = Top.cell /\ Advances(o, t, g)
  BY AdvancesNow
<1>2. /\ UNCHANGED <<made, fn, value, sources, observers, log, moved>>
      /\ context' = context /\ ran' = ran
  BY DEF graphVars, histVars, context
<1>3. GraphFit' /\ DataFit'
  BY <1>1, <1>2, MarkingData
<1>4. /\ stack' = t /\ t \in Seq(FrameSet) /\ t # <<>> /\ n \in Nat \ {0}
      /\ Len(t) \in {n, n + 1} /\ \A k \in 1 .. (n - 1) : t[k] = stack[k]
      /\ t[n] = g /\ g \in FrameSet /\ g.op = Top.op /\ g.cell = c
      /\ g.arg = Top.arg + 1 /\ g.fn = Top.fn
      /\ Shape(t) /\ Passes(t) /\ Noted(t, context)
      /\ Len(t) = n + 1 => o \in Cells /\ t[n + 1].op = "stale" /\ t[n + 1].cell = o
      /\ o \in Cells => FnsOf(o) # {} /\ (Top.op = "Write" => state'[o] = Dirty)
      /\ o \in Cells => Has(observers[c], o)
      /\ \A x \in Cells : state'[x] = state[x] \/ x = o
      /\ \A x \in Cells : state[x] = Dirty => state'[x] = Dirty
  BY <1>1 DEF Advances
<1>5. Marks(Top) /\ Top = stack[n] /\ Top \in FrameSet
      /\ \A k \in 1 .. (n - 1) : k \in 1 .. n
      /\ n \in 1 .. n /\ 1 \in 1 .. n
  BY <1>1, <1>4, StackNow DEF Marks
<1>6. o \in Cells /\ Runs(stack[1]) => o \in Area(stack[1].fn) \cup Effects
  BY <1>1, <1>4, <1>5, MarkingNow
<1>7. ASSUME NEW k \in 1 .. Len(t) PROVE Holds(t[k])'
  <2>1. k = n + 1 \/ k = n \/ k \in 1 .. (n - 1)
    BY <1>4
  <2>2. CASE k \in 1 .. (n - 1)
    <3>1. /\ stack[k] \in FrameSet /\ Holds(stack[k]) /\ FrameFits(stack[k])
          /\ Marks(stack[k]) \/ (k = 1 /\ Runs(stack[k]))
      BY <1>1, <1>5, <2>2, MarkingNow
    <3>2. PICK f : f = stack[k]
      OBVIOUS
    <3>3. Runs(f) => /\ o \in Cells => o \in Area(f.fn) \cup Effects
      BY <1>6, <3>1, <3>2 DEF Runs, Marks
    <3>4. /\ \A x \in Cells : state'[x] = state[x] \/ x = o
          /\ \A x \in Cells : state[x] = Dirty => state'[x] = Dirty
      BY <1>4
    <3>5. Holds(f)'
      <4>1. UNCHANGED <<made, fn, value, sources, observers>>
        BY <1>2
      <4>2. f \in FrameSet /\ Holds(f) /\ FrameFits(f) /\ (Marks(f) \/ Runs(f))
        BY <3>1, <3>2
      <4>3. PICK U : U = Area(f.fn)
        OBVIOUS
      <4> QED BY <3>3, <3>4, <4>1, <4>2, <4>3, HoldsMarked
    <3> QED BY <1>4, <2>2, <3>2, <3>5
  <2>3. CASE k = n
    <3>1. Holds(Top)
      BY BelowTop
    <3>2. g.op = "stale" => FnsOf(g.cell) # {}
      BY <1>1, <1>4, <3>1 DEF Holds
    <3>3. g.op = "Write" => HoldsWrite(g)'
      <4> SUFFICES ASSUME g.op = "Write" PROVE HoldsWrite(g)'
        OBVIOUS
      <4>1. /\ fn[c] = None /\ c \notin Rewritable
            /\ \A j \in 1 .. Len(observers[c]) : j < Top.arg =>
                 observers[c][j] = Cleanup \/ state[observers[c][j]] = Dirty
        BY <1>1, <1>4, <3>1 DEF Holds, HoldsWrite
      <4>2. /\ Top.arg \in 1 .. Len(observers[c]) /\ observers[c][Top.arg] = o
            /\ (o = Cleanup \/ o \in Cells) /\ c \in Cells
        BY <1>1, Observed
      <4>3. ASSUME NEW j \in 1 .. Len(observers[c]), j < Top.arg + 1
            PROVE  observers[c][j] = Cleanup \/ state'[observers[c][j]] = Dirty
        <5>1. j = Top.arg \/ j < Top.arg
          BY <4>2, <4>3
        <5>2. observers[c][j] \in Cells \cup {Cleanup}
          <6>1. observers[c] \in Seq(Cells \cup {Cleanup})
            BY <4>2, Typed
          <6> QED BY <6>1, ElementOfSeq
        <5> QED BY <1>4, <4>1, <4>2, <5>1, <5>2
      <4> QED BY <1>2, <1>4, <4>1, <4>3 DEF HoldsWrite
    <3>4. Holds(g)'
      <4>1. g.op \in {"Write", "stale"}
        BY <1>4
      <4> QED BY <3>2, <3>3, <4>1 DEF Holds
    <3> QED BY <1>4, <2>3, <3>4
  <2>4. CASE k = n + 1
    <3>1. Len(t) = n + 1
      BY <1>4, <2>4
    <3>2. t[k].op = "stale" /\ FnsOf(t[k].cell) # {}
      BY <1>4, <2>4, <3>1
    <3> QED BY <3>2 DEF Holds
  <2> QED BY <2>1, <2>2, <2>3, <2>4
<1>8. CallsSet'
  <2>1. Passes(t)'
    BY <1>2, <1>4 DEF Passes
  <2>2. Tips(t[Len(t)])'
    <3>1. t[Len(t)].op \in {"Write", "stale"}
      BY <1>4
    <3> QED BY <3>1 DEF Tips
  <2>3. Noted(t, context')
    BY <1>2, <1>4
  <2> QED BY <1>4, <1>7, <2>1, <2>2, <2>3, CallsNext
<1>9. RanFit'
  <2>1. RanFit /\ ran' = (IF t = <<>> THEN {} ELSE ran)
    BY <1>2, <1>4 DEF FInv
  <2>2. ASSUME NEW k \in 1 .. n
        PROVE  t[k].op = stack[k].op /\ t[k].cell = stack[k].cell /\ t[k].fn = stack[k].fn
    <3>1. k = n \/ k \in 1 .. (n - 1)
      BY <1>4
    <3> QED BY <1>1, <1>4, <1>5, <3>1
  <2>3. ASSUME NEW x \in ran \ Effects, state[x] = Clean PROVE state'[x] = Clean
    <3>1. x \in Cells
      BY Typed
    <3>2. CASE Runs(stack[1])
      <4>1. ran \cap Area(stack[1].fn) = {}
        BY <2>1, <3>2 DEF RanFit, Idle
      <4> QED BY <1>4, <1>6, <2>3, <3>1, <3>2, <4>1
    <3>3. CASE ~Runs(stack[1])
      BY <1>5, <2>3, <3>3, MarkingNow
    <3> QED BY <3>2, <3>3
  <2>4. /\ n <= Len(stack) /\ n <= Len(t) /\ n \in Nat /\ n # 0
        /\ \A k \in 1 .. Len(stack) : n < k => ~Updates(stack[k])
    BY <1>1, <1>4
  <2> QED BY <1>4, <2>1, <2>2, <2>3, <2>4, RanKept
<1> QED BY <1>3, <1>8, <1>9 DEF FInv

LEMMA WriteObserverFresh ==
  ASSUME Fixed, RInv, RInv', FInv, WriteObserver
  PROVE  FInv'
<1>1. PICK o : o = Observer
  OBVIOUS
<1>2. /\ ~Idle /\ Top.op = "Write" /\ MoreObservers /\ o # Cleanup
      /\ value[Top.cell] # Top.val /\ Stale(o, Dirty, Advanced)
      /\ UNCHANGED <<graphVars, value, context, histVars>>
  BY <1>1 DEF WriteObserver, Writing, In
<1> QED BY <1>1, <1>2, Marking

LEMMA WriteCleanupFresh ==
  ASSUME Fixed, RInv, RInv', FInv, WriteCleanup
  PROVE  FInv'
<1>1. PICK o : o = Observer
  OBVIOUS
<1>2. /\ ~Idle /\ Top.op = "Write" /\ MoreObservers /\ o = Cleanup
      /\ value[Top.cell] # Top.val /\ state' = state /\ stack' = Advanced
      /\ UNCHANGED <<graphVars, value, context, histVars>>
  BY <1>1 DEF WriteCleanup, Writing, In, dataVars
<1> QED BY <1>1, <1>2, Marking

LEMMA StaleObserverFresh ==
  ASSUME Fixed, RInv, RInv', FInv, StaleObserver
  PROVE  FInv'
<1>1. PICK o : o = Observer
  OBVIOUS
<1>2. /\ ~Idle /\ Top.op = "stale" /\ MoreObservers /\ o # Cleanup
      /\ Stale(o, Check, Advanced)
      /\ UNCHANGED <<graphVars, value, context, histVars>>
  BY <1>1 DEF StaleObserver, In
<1> QED BY <1>1, <1>2, Marking

(* A write in progress is the call of the program or the one of the effect *)
(* that runs, which has not read what it writes. *)
LEMMA WriteNow ==
  ASSUME Fixed, RInv, FInv, In("Write")
  PROVE  /\ Marks(Top) /\ ~Updates(Top) /\ HoldsWrite(Top) /\ Top.cell \in Cells
         /\ Top.val \in Values /\ Len(stack) \in {1, 2} /\ Top = stack[Len(stack)]
         /\ Len(stack) = 2 =>
              LET f == stack[1]
              IN  /\ f \in FrameSet /\ Runs(f) /\ Updates(f) /\ HoldsUpdate(f)
                  /\ Puts(f.fn, f.seen, Top.cell) /\ f.cell # Top.cell
                  /\ \A k \in 1 .. Len(f.seen) : f.seen[k].cell # Top.cell
         /\ \A k \in 1 .. Len(stack) :
              stack[k].op \in {"Write", "update"} /\ (stack[k].op = "Write" => k = Len(stack))
<1>1. PICK n, c : n = Len(stack) /\ c = Top.cell
  OBVIOUS
<1>2. ~Idle /\ Top.op = "Write" /\ Marks(Top) /\ ~Updates(Top)
  BY DEF In, Marks, Updates
<1>3. /\ n \in Nat \ {0} /\ Top = stack[n] /\ Top \in FrameSet
      /\ \A k \in 1 .. (n - 1) : k \in 1 .. n
  BY <1>1, <1>2, StackNow
<1>4. c \in Cells /\ Top.val \in Values /\ c # None
  BY <1>1, <1>3, FrameIs, CellIs
<1>5. HoldsWrite(Top)
  BY <1>2, BelowTop DEF Holds
<1>6. ASSUME n # 1
      PROVE  /\ n = 2 /\ stack[1] \in FrameSet /\ Runs(stack[1]) /\ Updates(stack[1])
             /\ HoldsUpdate(stack[1]) /\ Puts(stack[1].fn, stack[1].seen, c)
             /\ stack[1].cell # c
             /\ \A k \in 1 .. Len(stack[1].seen) : stack[1].seen[k].cell # c
  <2>1. n - 1 \in 1 .. n
    BY <1>3, <1>6
  <2>2. Leads(stack[n - 1], Top)
    BY <1>1, <1>2, <1>6, BelowTop
  <2>3. Runs(stack[n - 1]) /\ Puts(stack[n - 1].fn, stack[n - 1].seen, c)
    BY <1>1, <1>2, <2>2 DEF Leads, Downward
  <2>4. Marks(stack[n - 1]) \/ n - 1 = 1
    BY <1>1, <1>2, <2>1, MarkingNow
  <2>5. n = 2
    BY <1>3, <2>3, <2>4 DEF Runs, Marks
  <2>6. PICK f : f = stack[1]
    OBVIOUS
  <2>7. 1 \in 1 .. n /\ n - 1 = 1 /\ 1 \in 1 .. (n - 1)
    BY <2>5
  <2>8. f \in FrameSet /\ Holds(f) /\ FrameFits(f) /\ Runs(f) /\ Puts(f.fn, f.seen, c)
    BY <1>1, <1>2, <2>3, <2>6, <2>7, MarkingNow
  <2>9. f.cell \in Effects /\ f.fn \in FnsOf(f.cell) /\ HoldsUpdate(f) /\ Updates(f)
        /\ f.cell \in Cells /\ f.seen \in Seq(Seen)
    BY <2>8, FrameIs DEF Runs, FrameFits, Holds, Updates
  <2>10. Isolated(f.fn, Area(f.fn)) /\ Area(f.fn) \subseteq Cells \ Effects
    BY <2>9, IsolatedArea DEF Fixed
  <2>11. c \in Area(f.fn)
    <3>1. Beside(f, Top)
      BY <1>1, <1>2, <1>3, <2>5, <2>6, <2>7, BesideAll
    <3> QED BY <1>1, <1>2, <2>8, <3>1 DEF Beside
  <2>12. f.cell # c
    BY <2>9, <2>10, <2>11
  <2>13. ASSUME NEW k \in 1 .. Len(f.seen) PROVE f.seen[k].cell # c
    <3> SUFFICES ASSUME f.seen[k].cell = c PROVE FALSE
      OBVIOUS
    <3>1. Lived(f.fn, f.seen)
      BY <2>9 DEF HoldsUpdate
    <3>2. c \in Reads(f.fn)
      BY <1>4, <2>9, <3>1, SeenRead
    <3> QED BY <2>10, <2>11, <3>2 DEF Isolated
  <2> QED BY <2>5, <2>6, <2>8, <2>9, <2>12, <2>13
<1>7. n \in {1, 2} /\ (n = 2 => n # 1)
  BY <1>6
<1>8. ASSUME NEW k \in 1 .. n
      PROVE  stack[k].op \in {"Write", "update"} /\ (stack[k].op = "Write" => k = n)
  <2>1. k = n \/ (k = 1 /\ n # 1)
    BY <1>7
  <2> QED BY <1>2, <1>3, <1>6, <2>1 DEF Runs
<1> QED BY <1>1, <1>2, <1>3, <1>4, <1>5, <1>6, <1>7, <1>8

(* A write ends: those that have seen another value are dirty. *)
LEMMA WriteReturns ==
  ASSUME Fixed, RInv, RInv', FInv, In("Write"), NEW c, c = Top.cell,
         stack' = Returned(None, Top.val), ran' = IF stack' = <<>> THEN {} ELSE ran,
         UNCHANGED <<made, fn, sources, observers, state, log, context>>,
         \A x \in Cells : value'[x] = value[x] \/ x = c,
         value'[c] = value[c] \/ ~MoreObservers,
         \A x \in Cells : moved[x] => moved'[x],
         value[c] # Top.val => \A x \in Cells : c \in LogCells(x) => moved'[x]
  PROVE  FInv'
<1>1. PICK n, v : n = Len(stack) /\ v = Top.val
  OBVIOUS
<1>2. /\ ~Idle /\ Top.op = "Write" /\ Marks(Top) /\ ~Updates(Top) /\ HoldsWrite(Top)
      /\ c \in Cells /\ v \in Values /\ n \in {1, 2} /\ Top = stack[n]
      /\ \A k \in 1 .. n :
           stack[k].op \in {"Write", "update"} /\ (stack[k].op = "Write" => k = n)
  BY <1>1, WriteNow DEF In
<1>3. GraphFit'
  <2> SUFFICES ASSUME NEW x \in Cells PROVE Sourced(x)'
    BY DEF GraphFit
  <2>1. Sourced(x)
    BY DEF FInv, GraphFit
  <2> QED BY <2>1 DEF Sourced, LogCells
<1>4. Raw'
  <2>1. ASSUME NEW x \in Rewritable, fn[x] = None PROVE state[x] = Clean
    BY <1>1, <1>2, <2>1 DEF FInv, DataFit, Raw
  <2> QED BY <2>1 DEF Raw
<1>5. Spread'
  <2> SUFFICES ASSUME NEW x \in Cells, NEW d \in Cells, Loose(x)', Has(observers'[x], d)
               PROVE  state'[d] # Clean
    BY SpreadNext
  <2>1. Loose(x) /\ Has(observers[x], d)
    BY DEF Loose
  <2>2. PICK k \in 1 .. Len(observers[x]) : observers[x][k] = d
    BY <2>1, Typed DEF Has
  <2>3. Reached(x, k)
    BY <2>1 DEF FInv, DataFit, Spread
  <2>4. ~Awaited(x, k)
    BY <1>1, <1>2 DEF Awaited, Waits
  <2>5. d # Cleanup
    BY CellIs
  <2> QED BY <2>2, <2>3, <2>4, <2>5 DEF Reached
<1>6. ASSUME NEW x \in Cells, fn[x] # None, state[x] # Dirty, c \in LogCells(x)
      PROVE  value'[c] = value[c]
  <2> SUFFICES ASSUME ~MoreObservers PROVE FALSE
    OBVIOUS
  <2>1. Has(sources[x], c)
    BY <1>2, <1>6 DEF FInv, GraphFit, Sourced
  <2>2. Has(observers[c], x)
    BY <1>2, <2>1, Linking
  <2>3. PICK k \in 1 .. Len(observers[c]) : observers[c][k] = x
    BY <1>2, <2>2, Typed DEF Has
  <2>4. k < Top.arg
    <3>1. Top \in FrameSet
      BY <1>2, StackNow
    <3>2. Top.arg \in Nat /\ Len(observers[c]) \in Nat
      BY <1>2, <3>1, FrameIs, Typed
    <3> QED BY <2>3, <3>2 DEF MoreObservers
  <2>5. observers[c][k] = Cleanup \/ state[observers[c][k]] = Dirty
    BY <1>2, <2>3, <2>4 DEF HoldsWrite
  <2> QED BY <1>6, <2>3, <2>5, CellIs
<1>7. Valid'
  <2>1. ASSUME NEW x \in Cells, fn[x] # None, state[x] # Dirty PROVE Sees(log[x])'
    <3> SUFFICES ASSUME NEW k \in 1 .. Len(log[x]), log[x][k].cell # None
                 PROVE  value'[log[x][k].cell] = log[x][k].val
      BY DEF Sees
    <3>1. value[log[x][k].cell] = log[x][k].val
      BY <2>1 DEF FInv, DataFit, Valid, Sees
    <3>2. log[x][k].cell \in Cells /\ log[x][k].cell \in LogCells(x)
      BY Typed DEF LogCells
    <3> QED BY <1>6, <2>1, <3>1, <3>2
  <2> QED BY <2>1 DEF Valid
<1>8. Due'
  <2>1. ASSUME NEW x \in Cells, fn[x] # None, state[x] = Dirty PROVE moved'[x]
    <3>1. CASE moved[x]
      BY <3>1
    <3>2. CASE ~moved[x]
      <4>1. PICK i \in 1 .. n : Prompts(stack[i], x)
        BY <1>1, <2>1, <3>2 DEF FInv, DataFit, Due
      <4>2. i = n
        BY <1>2, <4>1 DEF Prompts
      <4>3. value[c] # Top.val /\ c \in LogCells(x)
        BY <1>2, <4>1, <4>2 DEF Prompts
      <4> QED BY <4>3
    <3> QED BY <3>1, <3>2
  <2> QED BY <2>1 DEF Due
<1>9. GraphFit' /\ DataFit'
  BY <1>3, <1>4, <1>5, <1>7, <1>8 DEF DataFit
<1>10. CASE n = 1
  <2>1. stack' = <<>>
    BY <1>1, <1>2, <1>10, StackNow DEF Returned
  <2> QED BY <1>9, <2>1, CallsNone, RanNone DEF FInv
<1>11. CASE n = 2
  <2>1. PICK f : f = stack[1]
    OBVIOUS
  <2>2. /\ f \in FrameSet /\ Runs(f) /\ Updates(f) /\ HoldsUpdate(f)
        /\ Puts(f.fn, f.seen, c) /\ f.cell # c /\ f.cell \in Cells
        /\ \A k \in 1 .. Len(f.seen) : f.seen[k].cell # c
        /\ f.seen \in Seq(Seen)
    BY <1>1, <1>11, <2>1, WriteNow, FrameIs
  <2>3. PICK a : a = None
    OBVIOUS
  <2>4. /\ a \in Cells \cup {None} /\ Len(stack) # 1 /\ Len(stack) - 1 = 1
        /\ Len(stack) - 2 = 0 /\ Updates(stack[Len(stack) - 1])
        /\ IF Top.op = "Read" THEN a = Top.cell ELSE a = None
    BY <1>1, <1>2, <1>11, <2>1, <2>2, <2>3
  <2>0. PICK h \in FrameSet, t \in Seq(FrameSet) :
          /\ t = Returned(a, v) /\ Len(t) = Len(stack) - 1 /\ t # <<>>
          /\ t[Len(stack) - 1] = h
          /\ Similar(stack[Len(stack) - 1], h) /\ h.val = stack[Len(stack) - 1].val
          /\ h.seen = Append(stack[Len(stack) - 1].seen, [cell |-> a, val |-> v])
          /\ Shape(t) /\ Noted(t, context)
    <3>1. v \in Values /\ ~Idle /\ ~Updates(Top)
      BY <1>2
    <3> QED BY <2>4, <3>1, ReturnFits
  <2>5. /\ t = Returned(a, v) /\ Len(t) = 1 /\ t # <<>> /\ t[1] = h
        /\ Similar(f, h) /\ h.val = f.val
        /\ h.seen = Append(f.seen, [cell |-> a, val |-> v])
        /\ Shape(t) /\ Noted(t, context)
    BY <2>0, <2>1, <2>4
  <2>6. /\ h.op = "update" /\ h.cell = f.cell /\ h.fn = f.fn /\ h.val = f.val
        /\ stack' = t
    BY <1>1, <2>2, <2>3, <2>5 DEF Similar, Runs
  <2>7. HoldsUpdate(h)'
    <3>1. PICK r : r = [cell |-> a, val |-> v]
      OBVIOUS
    <3>2. r \in Seen /\ r.cell = None
      BY <1>2, <2>3, <3>1 DEF Seen
    <3>3. Lived(f.fn, h.seen)
      <4>1. Does(f.fn, f.seen).do = "write" /\ Lived(f.fn, f.seen)
        BY <2>2 DEF Puts, HoldsUpdate
      <4> QED BY <2>2, <2>5, <3>1, <3>2, <4>1, LivedMore
    <3>4. /\ Len(f.seen) \in Nat /\ Len(h.seen) = Len(f.seen) + 1
          /\ h.seen[Len(f.seen) + 1] = r
          /\ \A j \in 1 .. Len(f.seen) : h.seen[j] = f.seen[j]
      BY <2>2, <2>5, <3>1, <3>2, Push
    <3>5. \A j \in 1 .. Len(h.seen) : j = Len(f.seen) + 1 \/ j \in 1 .. Len(f.seen)
      BY <3>4
    <3>6. ASSUME NEW j \in 1 .. Len(h.seen), h.seen[j].cell # None
          PROVE  value'[h.seen[j].cell] = h.seen[j].val /\ Settled(h.seen[j].cell)
      <4>1. j \in 1 .. Len(f.seen) /\ h.seen[j] = f.seen[j]
        BY <3>2, <3>4, <3>5, <3>6
      <4>2. f.seen[j].cell \in Cells /\ f.seen[j].cell # c
        BY <2>2, <3>6, <4>1, FrameCells
      <4> QED BY <2>2, <3>6, <4>1, <4>2 DEF HoldsUpdate, Sees, Settles
    <3>7. Sees(h.seen)' /\ Settles(h.seen)'
      <4>1. ASSUME NEW j \in 1 .. Len(h.seen), h.seen[j].cell # None
            PROVE  Settled(h.seen[j].cell)'
        <5>1. Settled(h.seen[j].cell)
          BY <3>6, <4>1
        <5> QED BY <5>1 DEF Settled, Loose
      <4> QED BY <3>6, <4>1 DEF Sees, Settles
    <3>8. /\ fn'[h.cell] = h.fn /\ state'[h.cell] = Dirty /\ value'[h.cell] = h.val
      BY <2>2, <2>6 DEF HoldsUpdate
    <3> QED BY <2>6, <3>3, <3>7, <3>8 DEF HoldsUpdate
  <2>8. CallsSet'
    <3>1. \A k \in 1 .. Len(t) : k = 1
      BY <2>5
    <3>2. Holds(h)'
      BY <2>6, <2>7 DEF Holds
    <3>3. Passes(t)'
      BY <2>5, <2>6, <3>1 DEF Passes
    <3>4. Tips(t[Len(t)])'
      BY <2>5, <2>6 DEF Tips
    <3>5. Noted(t, context')
      <4>1. context' = context
        BY DEF context
      <4> QED BY <2>5, <4>1
    <3> QED BY <2>5, <2>6, <3>1, <3>2, <3>3, <3>4, <3>5, CallsNext
  <2>9. RanFit'
    <3>1. PICK m : m = 1
      OBVIOUS
    <3>2. m \in Nat /\ m <= Len(stack) /\ m <= Len(t) /\ m # 0
          /\ \A k \in 1 .. Len(stack) : m < k => ~Updates(stack[k])
      <4>1. \A k \in 1 .. Len(stack) : m < k => k = n
        BY <1>1, <1>11, <3>1
      <4> QED BY <1>1, <1>2, <1>11, <2>5, <3>1, <4>1
    <3>3. \A k \in 1 .. m : /\ t[k].op = stack[k].op /\ t[k].cell = stack[k].cell
                            /\ t[k].fn = stack[k].fn
      <4>1. \A k \in 1 .. m : k = 1
        BY <3>1
      <4> QED BY <2>1, <2>5, <4>1 DEF Similar
    <3>4. RanFit /\ ran' = (IF t = <<>> THEN {} ELSE ran)
      BY <2>6 DEF FInv
    <3> QED BY <2>5, <2>6, <3>2, <3>3, <3>4, RanKept
  <2> QED BY <1>9, <2>8, <2>9 DEF FInv
<1> QED BY <1>2, <1>10, <1>11

LEMMA WriteEndFresh ==
  ASSUME Fixed, RInv, RInv', FInv, WriteEnd
  PROVE  FInv'
<1>1. PICK c : c = Top.cell
  OBVIOUS
<1>2. /\ In("Write") /\ ~MoreObservers /\ c \in Cells
  BY <1>1, WriteNow DEF WriteEnd, Writing
<1>3. /\ stack' = Returned(None, Top.val) /\ ran' = IF stack' = <<>> THEN {} ELSE ran
      /\ UNCHANGED <<made, fn, sources, observers, state, log, context>>
      /\ value' = [value EXCEPT ![c] = Top.val] /\ moved' = Moved(c)
  BY <1>1 DEF WriteEnd, Leave, graphVars
<1>4. value \in [Cells -> Values] /\ moved \in [Cells -> BOOLEAN]
  BY Typed
<1>5. \A x \in Cells : value'[x] = value[x] \/ x = c
  BY <1>3, <1>4
<1>6. \A x \in Cells : (moved[x] => moved'[x]) /\ (c \in LogCells(x) => moved'[x])
  BY <1>3 DEF Moved
<1> QED BY <1>1, <1>2, <1>3, <1>5, <1>6, WriteReturns

LEMMA WriteSameFresh ==
  ASSUME Fixed, RInv, RInv', FInv, WriteSame
  PROVE  FInv'
<1>1. PICK c : c = Top.cell
  OBVIOUS
<1>2. In("Write") /\ value[c] = Top.val
  BY <1>1 DEF WriteSame
<1>3. /\ stack' = Returned(None, Top.val) /\ ran' = IF stack' = <<>> THEN {} ELSE ran
      /\ UNCHANGED <<made, fn, sources, observers, value, state, log, moved, context>>
  BY DEF WriteSame, Leave, graphVars, dataVars
<1> QED BY <1>1, <1>2, <1>3, WriteReturns

(* A mark has gone along the observers of a cell. *)
LEMMA StaleNow ==
  ASSUME Fixed, RInv, FInv, In("stale")
  PROVE  LET n == Len(stack)
             f == stack[n - 1]
         IN  /\ Marks(Top) /\ ~Updates(Top) /\ Top \in FrameSet /\ Top.cell \in Cells
             /\ n \in Nat \ {0} /\ n # 1 /\ Top = stack[n] /\ n - 1 \in 1 .. n
             /\ f \in FrameSet /\ f.cell \in Cells /\ Marks(f) /\ Holds(f) /\ ~Updates(f)
             /\ IF f.op = "WriteFn" THEN Top.cell = f.cell
                ELSE Has(observers[f.cell], Top.cell)
<1>1. PICK n : n = Len(stack)
  OBVIOUS
<1>2. ~Idle /\ Top.op = "stale" /\ Marks(Top) /\ ~Updates(Top)
  BY DEF In, Marks, Updates
<1>3. /\ n \in Nat \ {0} /\ Top = stack[n] /\ Top \in FrameSet
      /\ \A k \in 1 .. n : stack[k] \in FrameSet
  BY <1>1, <1>2, StackNow
<1>4. n # 1
  <2> SUFFICES ASSUME n = 1 PROVE FALSE
    OBVIOUS
  <2>1. Grounds(Top)
    BY <1>1, <1>2, BelowTop
  <2> QED BY <1>2, <2>1 DEF Grounds, Runs
<1>5. n - 1 \in 1 .. n /\ n - 1 + 1 = n /\ n \in 1 .. n
  BY <1>3, <1>4
<1>6. PICK f : f = stack[n - 1]
  OBVIOUS
<1>7. f \in FrameSet /\ f.cell \in Cells /\ Holds(f)
  BY <1>1, <1>2, <1>3, <1>5, <1>6, MarkingNow, FrameIs
<1>8. Leads(f, Top)
  BY <1>1, <1>2, <1>4, <1>6, BelowTop
<1>9. Marks(f)
  BY <1>2, <1>8 DEF Leads, Downward
<1>10. ~Updates(f)
  BY <1>9 DEF Marks, Updates
<1>11. IF f.op = "WriteFn" THEN Top.cell = f.cell ELSE Has(observers[f.cell], Top.cell)
  <2>1. Passes(stack)
    BY DEF FInv, CallsSet
  <2> QED BY <1>1, <1>2, <1>3, <1>5, <1>6, <2>1 DEF Passes
<1>12. Top.cell \in Cells
  BY <1>3, FrameIs
<1> QED BY <1>1, <1>2, <1>3, <1>4, <1>5, <1>6, <1>7, <1>9, <1>10, <1>11, <1>12

LEMMA StaleEndFresh ==
  ASSUME Fixed, RInv, RInv', FInv, StaleEnd
  PROVE  FInv'
<1>1. PICK n, c, t : n = Len(stack) /\ c = Top.cell /\ t = Rest
  OBVIOUS
<1>2. /\ ~Idle /\ Marks(Top) /\ ~Updates(Top) /\ c \in Cells /\ Top.op = "stale"
      /\ n \in Nat \ {0} /\ n # 1 /\ Top = stack[n]
      /\ Marks(stack[n - 1]) /\ ~Updates(stack[n - 1])
      /\ ~MoreObservers /\ Top \in FrameSet
  BY <1>1, StaleNow DEF StaleEnd, In
<1>3. /\ stack' = t /\ t \in Seq(FrameSet) /\ Len(t) = n - 1
      /\ t = SubSeq(stack, 1, n - 1) /\ stack \in Seq(FrameSet) /\ stack # <<>>
      /\ \A k \in 1 .. (n - 1) : t[k] = stack[k] /\ k \in 1 .. n
      /\ \A k \in 1 .. n : k = n \/ k \in 1 .. (n - 1)
  BY <1>1, <1>2, StackNow DEF StaleEnd
<1>4. /\ UNCHANGED <<made, fn, value, state, sources, observers, log, moved>>
      /\ ran' = ran /\ context' = context
  BY DEF StaleEnd, graphVars, dataVars, histVars, context
<1>5. t # <<>> /\ stack' = t
  BY <1>2, <1>3
<1>6. GraphFit'
  <2> SUFFICES ASSUME NEW x \in Cells PROVE Sourced(x)'
    BY DEF GraphFit
  <2>1. Sourced(x)
    BY DEF FInv, GraphFit
  <2> QED BY <1>4, <2>1 DEF Sourced, LogCells
<1>7. Raw'
  <2> SUFFICES ASSUME NEW x \in Rewritable, fn[x] = None, state[x] # Clean
               PROVE  \E i \in 1 .. Len(t) : t[i].op = "WriteFn" /\ t[i].cell = x
    BY <1>3, <1>4 DEF Raw
  <2>1. PICK i \in 1 .. n : stack[i].op = "WriteFn" /\ stack[i].cell = x
    BY <1>1 DEF FInv, DataFit, Raw
  <2> QED BY <1>2, <1>3, <2>1
<1>8. Due'
  <2> SUFFICES ASSUME NEW x \in Cells, fn[x] # None, state[x] = Dirty, ~moved[x]
               PROVE  \E i \in 1 .. Len(t) : Prompts(t[i], x)
    BY <1>4, <1>5 DEF Due, Prompts, LogCells
  <2>1. PICK i \in 1 .. n : Prompts(stack[i], x)
    BY <1>1 DEF FInv, DataFit, Due
  <2>2. i # n
    BY <1>2, <2>1 DEF Prompts
  <2> QED BY <1>3, <2>1, <2>2
<1>9. Valid'
  BY <1>4 DEF FInv, DataFit, Valid, Sees
<1>10. Spread'
  <2> SUFFICES ASSUME NEW x \in Cells, Loose(x), NEW k \in 1 .. Len(observers[x])
               PROVE  \/ observers[x][k] = Cleanup \/ state[observers[x][k]] # Clean
                      \/ \E i \in 1 .. Len(t) : Waits(t[i], x, k)
    BY SMTT(30), <1>3, <1>4 DEF Spread, Reached, Awaited, Waits, Loose
  <2>1. Reached(x, k)
    BY DEF FInv, DataFit, Spread
  <2>2. CASE Awaited(x, k)
    <3>1. PICK i \in 1 .. n : Waits(stack[i], x, k)
      BY <1>1, <2>2 DEF Awaited
    <3>2. i # n
      <4> SUFFICES ASSUME i = n PROVE FALSE
        OBVIOUS
      <4>1. x = c /\ Top.arg <= k
        BY <1>1, <1>2, <3>1 DEF Waits
      <4>2. Top.arg \in Nat /\ Len(observers[c]) \in Nat
        BY <1>2, FrameIs, Typed
      <4> QED BY <1>1, <1>2, <4>1, <4>2 DEF MoreObservers
    <3> QED BY <1>3, <3>1, <3>2
  <2> QED BY <2>1, <2>2 DEF Reached
<1>11. CallsSet'
  <2>1. Shape(t)
    BY <1>1, <1>2, BelowTop
  <2>2. Passes(t)
    BY <1>1, <1>3, PassesPop DEF FInv, CallsSet
  <2>3. \A k \in 1 .. Len(t) : Holds(t[k])
    BY <1>1, <1>2, <1>3, BelowTop
  <2>4. Tips(t[Len(t)])
    <3>1. t[Len(t)] = stack[n - 1]
      BY <1>2, <1>3
    <3> QED BY <1>2, <3>1 DEF Tips, Marks
  <2>5. Noted(t, context')
    <3>1. PICK x : x = context
      OBVIOUS
    <3>2. Noted(stack, x)
      BY <3>1 DEF FInv, CallsSet
    <3>3. ~Updates(stack[Len(stack)]) /\ ~Updates(stack[Len(stack) - 1])
      BY <1>1, <1>2
    <3>4. Noted(t, x)
      BY <1>1, <1>3, <3>2, <3>3, NotedPop
    <3> QED BY <1>4, <3>1, <3>4
  <2> QED BY <1>3, <1>4, <2>1, <2>2, <2>3, <2>4, <2>5, CallsKept
<1>12. RanFit'
  <2>1. PICK m : m = n - 1
    OBVIOUS
  <2>2. m \in Nat /\ m <= Len(stack) /\ m <= Len(t) /\ m # 0
        /\ \A k \in 1 .. Len(stack) : m < k => ~Updates(stack[k])
    <3>1. m \in Nat /\ m <= Len(stack) /\ m <= Len(t) /\ m # 0
      BY <1>1, <1>2, <1>3, <2>1
    <3>2. \A k \in 1 .. Len(stack) : m < k => k = n
      BY <1>1, <1>2, <2>1
    <3> QED BY <1>2, <3>1, <3>2
  <2>3. \A k \in 1 .. m : /\ t[k].op = stack[k].op /\ t[k].cell = stack[k].cell
                          /\ t[k].fn = stack[k].fn
    BY <1>3, <2>1
  <2>4. /\ RanFit /\ ran' = (IF t = <<>> THEN {} ELSE ran)
        /\ \A x \in ran \ Effects : state[x] = Clean => state'[x] = Clean
    BY <1>4, <1>5 DEF FInv
  <2> QED BY <1>3, <2>2, <2>3, <2>4, RanKept
<1> QED BY <1>6, <1>7, <1>8, <1>9, <1>10, <1>11, <1>12 DEF FInv, DataFit

(* The mark that ends the write early comes right from it: a function that *)
(* asks for cleanups uses cells that have none. *)
LEMMA StaleCleanupFresh ==
  ASSUME Fixed, RInv, RInv', FInv, StaleCleanup
  PROVE  FInv'
<1>1. PICK n, c, f : n = Len(stack) /\ c = Top.cell /\ f = stack[n - 1]
  OBVIOUS
<1>2. /\ ~Idle /\ Top.op = "stale" /\ c \in Cells /\ n \in Nat \ {0} /\ n # 1
      /\ Top = stack[n] /\ n - 1 \in 1 .. n /\ Marks(f) /\ Holds(f)
      /\ f \in FrameSet /\ f.cell \in Cells /\ Top \in FrameSet
      /\ IF f.op = "WriteFn" THEN c = f.cell ELSE Has(observers[f.cell], c)
      /\ MoreObservers /\ Observer = Cleanup
  BY <1>1, StaleNow DEF StaleCleanup, In
<1>3. /\ stack' = <<>> /\ ran' = {} /\ moved' = [x \in Cells |-> TRUE]
      /\ UNCHANGED <<made, fn, value, state, sources, observers, log>>
  BY DEF StaleCleanup, Unwind, Leave, graphVars, dataVars
<1>4. Has(observers[c], Cleanup)
  <2>1. Top.arg \in Nat \ {0} /\ DOMAIN observers[c] = 1 .. Len(observers[c])
        /\ Len(observers[c]) \in Nat
    BY <1>2, FrameIs, Typed
  <2>2. Top.arg \in DOMAIN observers[c]
    BY <1>1, <1>2, <2>1 DEF MoreObservers
  <2> QED BY <1>1, <1>2, <2>2 DEF Has, Observer
<1>5. PICK q \in FnsOf(c) : Cleans(q) /\ fn[c] \in {q, None}
  BY <1>2, <1>4 DEF FInv, GraphFit, Sourced
<1>6. /\ c \notin Rewritable /\ \A x \in Cells : c \notin Needs(x)
      /\ \A x \in Uses(q) : FnsOf(x) = {}
  BY <1>2, <1>5 DEF Fixed, Careful
<1>7. f.op = "Write"
  <2>1. f.op # "WriteFn"
    BY <1>2, <1>6 DEF Holds, HoldsWriteFn
  <2>2. Has(observers[f.cell], c)
    BY <1>2, <2>1
  <2>3. fn[c] # None /\ f.cell \in Uses(fn[c])
    BY <1>2, <1>6, <2>2, ObserverIs
  <2>4. FnsOf(f.cell) = {}
    BY <1>5, <1>6, <2>3
  <2> QED BY <1>2, <2>1, <2>4 DEF Holds, Marks
<1>8. ASSUME NEW i \in 1 .. n
      PROVE  stack[i].op # "WriteFn" /\ (stack[i].op = "stale" => i = n)
  <2>1. i = n \/ i = n - 1 \/ i < n - 1
    BY <1>2
  <2>2. CASE i < n - 1
    <3>1. Beside(stack[i], f)
      BY <1>1, <1>2, <2>2, BesideAll
    <3> QED BY <1>7, <3>1 DEF Beside, Marks
  <2> QED BY <1>1, <1>2, <1>7, <2>1, <2>2
<1>9. GraphFit'
  <2> SUFFICES ASSUME NEW x \in Cells PROVE Sourced(x)'
    BY DEF GraphFit
  <2>1. Sourced(x)
    BY DEF FInv, GraphFit
  <2> QED BY <1>3, <2>1 DEF Sourced, LogCells
<1>10. Raw'
  <2>1. ASSUME NEW x \in Rewritable, fn[x] = None PROVE state[x] = Clean
    BY <1>1, <1>8, <2>1 DEF FInv, DataFit, Raw
  <2> QED BY <1>3, <2>1 DEF Raw
<1>11. Due'
  BY <1>3 DEF Due
<1>12. Valid'
  BY <1>3 DEF FInv, DataFit, Valid, Sees
<1>13. Spread'
  <2> SUFFICES ASSUME NEW x \in Cells, NEW d \in Cells, Loose(x)', Has(observers'[x], d)
               PROVE  state'[d] # Clean
    BY SpreadNext
  <2>1. Loose(x) /\ Has(observers[x], d)
    BY <1>3 DEF Loose
  <2>2. PICK k \in 1 .. Len(observers[x]) : observers[x][k] = d
    BY <2>1, Typed DEF Has
  <2>3. Reached(x, k)
    BY <2>1 DEF FInv, DataFit, Spread
  <2>4. x # c
    <3>1. x \in Needs(d)
      BY <2>1, ObserverIs
    <3> QED BY <1>6, <3>1
  <2>5. ~Awaited(x, k)
    BY <1>1, <1>2, <1>8, <2>4 DEF Awaited, Waits
  <2> QED BY <1>3, <2>2, <2>3, <2>5, CellIs DEF Reached
<1> QED BY <1>3, <1>9, <1>10, <1>11, <1>12, <1>13, CallsNone, RanNone
        DEF FInv, DataFit

(* A rewired cell is dirty, and its observers are marked. *)
LEMMA CallWriteFnFresh ==
  ASSUME Fixed, RInv, RInv', FInv, NEW c \in Rewritable, NEW f \in FnsOf(c),
         CallWriteFn(c, f)
  PROVE  FInv'
<1>1. c \in Cells /\ c \in made /\ Uses(f) \subseteq made /\ f \in Fns /\ Zero \in Values
      /\ Idle
  <2>1. c \in Cells
    BY CellIs
  <2> QED BY <2>1, UsedOnly, DataAssumption DEF CallWriteFn, Ready
<1>2. Quiet /\ stack = <<>> /\ ran = {}
  BY <1>1, QuietIdle DEF FInv, RanFit
<1>3. /\ UNCHANGED <<made, fn, value, sources, observers, log, moved>>
      /\ context' = context /\ ran' = {}
      /\ Stale(c, Dirty, <<Frame("WriteFn", c, Zero, f)>>)
  BY <1>2 DEF CallWriteFn, graphVars, context
<1>4. PICK w, e : w = Frame("WriteFn", c, Zero, f) /\ e = Frame("stale", c, Zero, None)
  OBVIOUS
<1>5. /\ w \in FrameSet /\ w.op = "WriteFn" /\ w.cell = c /\ w.fn = f
      /\ Marks(w) /\ ~Pulls(w) /\ ~Updates(w) /\ ~Runs(w) /\ w.op \notin Downward
  BY <1>1, <1>4, NewFrame DEF Frame, Marks, Pulls, Updates, Runs, Downward
<1>6. /\ e \in FrameSet /\ e.op = "stale" /\ e.cell = c /\ e.arg = 1
      /\ Marks(e) /\ ~Pulls(e) /\ ~Updates(e)
  BY <1>1, <1>4, NewFrame DEF Frame, Marks, Pulls, Updates
<1>7. /\ state \in [Cells -> {Clean, Check, Dirty}]
      /\ Clean # Dirty
  BY Typed
<1>8. PICK s : s = <<w>>
  OBVIOUS
<1>9. s \in Seq(FrameSet) /\ Len(s) = 1 /\ s[1] = w /\ s = Append(<<>>, w) /\ s # <<>>
  BY <1>5, <1>8
<1>10. \E t :
        /\ stack' = t /\ (t = s \/ t = Append(s, e)) /\ state'[c] = Dirty
        /\ \A x \in Cells : state'[x] = state[x] \/ (x = c /\ t = Append(s, e))
  <2>1. CASE state[c] < Dirty
    BY <1>1, <1>3, <1>4, <1>7, <1>8, <2>1 DEF Stale
  <2>2. CASE ~(state[c] < Dirty)
    <3>1. state[c] = Dirty
      BY <1>1, <1>7, <2>2 DEF Clean, Check, Dirty
    <3> QED BY <1>3, <1>4, <1>8, <2>2, <3>1 DEF Stale
  <2> QED BY <2>1, <2>2
<1>11. PICK t :
        /\ stack' = t /\ (t = s \/ t = Append(s, e)) /\ state'[c] = Dirty
        /\ \A x \in Cells : state'[x] = state[x] \/ (x = c /\ t = Append(s, e))
  BY <1>10
<1>12. t = Append(s, e) =>
         t \in Seq(FrameSet) /\ Len(t) = 2 /\ t[1] = w /\ t[2] = e /\ t # <<>>
  BY <1>6, <1>9, Joined
<1>13. /\ Len(t) \in Nat \ {0} /\ t # <<>> /\ t[1] = w
       /\ \A k \in 1 .. Len(t) : t[k] = w \/ t[k] = e
       /\ 1 \in 1 .. Len(t)
  BY <1>9, <1>11, <1>12
<1>14. \A x \in Cells : state[x] # Clean => state'[x] # Clean
  BY <1>7, <1>11
<1>15. GraphFit'
  <2> SUFFICES ASSUME NEW x \in Cells PROVE Sourced(x)'
    BY DEF GraphFit
  <2>1. Sourced(x)
    BY DEF FInv, GraphFit
  <2> QED BY <1>3, <2>1 DEF Sourced, LogCells
<1>16. Raw'
  <2> SUFFICES ASSUME NEW x \in Rewritable, fn[x] = None, state'[x] # Clean
               PROVE  \E i \in 1 .. Len(t) : t[i].op = "WriteFn" /\ t[i].cell = x
    BY <1>3, <1>11 DEF Raw
  <2>1. x = c
    BY <1>2, <1>11, CellIs, QuietFacts
  <2> QED BY <1>5, <1>13, <2>1
<1>17. Due'
  <2> SUFFICES ASSUME NEW x \in Cells, fn[x] # None, state'[x] = Dirty, ~moved[x]
               PROVE  \E i \in 1 .. Len(t) : Prompts(t[i], x)
    BY <1>3, <1>11 DEF Due, Prompts, LogCells
  <2>1. x = c
    BY <1>2, <1>11, QuietFacts
  <2>2. Prompts(w, x)
    BY <1>5, <2>1 DEF Prompts
  <2> QED BY <1>13, <2>2
<1>18. Valid'
  <2>1. ASSUME NEW x \in Cells, fn[x] # None, state'[x] # Dirty
        PROVE  Sees(log[x])
    <3>1. state[x] # Dirty
      BY <1>11, <2>1
    <3> QED BY <2>1, <3>1 DEF FInv, DataFit, Valid
  <2> QED BY <1>3, <2>1 DEF Valid, Sees
<1>19. Spread'
  <2> SUFFICES ASSUME NEW x \in Cells, Loose(x)', NEW k \in 1 .. Len(observers[x])
               PROVE  \/ observers[x][k] = Cleanup \/ state'[observers[x][k]] # Clean
                      \/ \E i \in 1 .. Len(t) : Waits(t[i], x, k)
    BY <1>3, <1>11 DEF Spread, Reached, Awaited, Waits
  <2>1. CASE state'[x] = state[x]
    <3>1. Loose(x)
      BY <1>3, <2>1 DEF Loose
    <3>2. Reached(x, k) /\ ~Awaited(x, k)
      BY <1>2, <3>1 DEF FInv, DataFit, Spread, Awaited
    <3>3. observers[x][k] \in Cells \cup {Cleanup}
      <4>1. observers[x] \in Seq(Cells \cup {Cleanup})
        BY Typed
      <4> QED BY <4>1, ElementOfSeq
    <3> QED BY <1>14, <3>2, <3>3 DEF Reached
  <2>2. CASE state'[x] # state[x]
    <3>1. x = c /\ t = Append(s, e)
      BY <1>11, <2>2
    <3>2. t[2] = e /\ 2 \in 1 .. Len(t) /\ 1 <= k
      BY <1>12, <3>1
    <3>3. Waits(e, x, k)
      BY <1>6, <3>1, <3>2 DEF Waits
    <3> QED BY <3>2, <3>3
  <2> QED BY <2>1, <2>2
<1>20. Shape(t)
  <2>1. Shape(s)
    <3>1. Fits(<<>>, w)
      <4>1. Grounds(w)
        BY <1>5 DEF Grounds
      <4>2. Len(<<>>) = 0 /\ \A k : k \notin 1 .. 0
        OBVIOUS
      <4> QED BY <4>1, <4>2 DEF Fits
    <3>2. <<>> \in Seq(FrameSet)
      OBVIOUS
    <3> QED BY <1>5, <1>9, <3>1, <3>2, ShapePush, ShapeNone
  <2>2. Fits(s, e)
    <3>1. Beside(w, e)
      BY <1>5, <1>6 DEF Beside
    <3>2. Leads(w, e)
      BY <1>5, <1>6 DEF Leads
    <3>3. \A k \in 1 .. Len(s) : s[k] = w
      BY <1>9
    <3> QED BY <1>9, <3>1, <3>2, <3>3 DEF Fits
  <2>3. Shape(Append(s, e))
    BY <1>6, <1>9, <2>1, <2>2, ShapePush
  <2> QED BY <1>11, <2>1, <2>3
<1>21. ASSUME NEW k \in 1 .. Len(t) PROVE Holds(t[k])'
  <2>1. Holds(w)'
    <3>1. HoldsWriteFn(w)'
      BY <1>1, <1>3, <1>5, <1>11 DEF HoldsWriteFn
    <3> QED BY <1>5, <3>1 DEF Holds
  <2>2. Holds(e)'
    BY <1>6 DEF Holds
  <2> QED BY <1>13, <2>1, <2>2
<1>22. CallsSet'
  <2>1. Passes(t)'
    <3> SUFFICES ASSUME NEW k \in 1 .. Len(t), k + 1 \in 1 .. Len(t),
                        t[k + 1].op = "stale"
                 PROVE  t[k].op = "WriteFn" /\ t[k + 1].cell = t[k].cell
      BY DEF Passes
    <3>1. Len(t) \in {1, 2}
      BY <1>9, <1>11, <1>12
    <3>2. k = 1 /\ k + 1 = 2 /\ Len(t) = 2
      BY <3>1
    <3>3. t[1] = w /\ t[2] = e
      BY <1>9, <1>11, <1>12, <3>2
    <3> QED BY <1>5, <1>6, <3>2, <3>3
  <2>2. Tips(t[Len(t)])'
    <3>1. t[Len(t)] = w \/ t[Len(t)] = e
      BY <1>13
    <3> QED BY <1>5, <1>6, <3>1 DEF Tips
  <2>3. Noted(t, context')
    BY <1>5, <1>6, <1>13 DEF Noted
  <2> QED BY <1>11, <1>20, <1>21, <2>1, <2>2, <2>3, CallsNext
<1>23. RanFit'
  BY <1>3, RanNone
<1> QED BY <1>15, <1>16, <1>17, <1>18, <1>19, <1>22, <1>23 DEF FInv, DataFit

LEMMA WriteFnEndFresh ==
  ASSUME Fixed, RInv, RInv', FInv, WriteFnEnd
  PROVE  FInv'
<1>1. PICK c, f : c = Top.cell /\ f = Top.fn
  OBVIOUS
<1>2. ~Idle /\ Top.op = "WriteFn" /\ Top \in FrameSet
  BY StackNow DEF WriteFnEnd, In
<1>3. c \in Cells /\ f \in FnsOf(c) /\ state[c] = Dirty /\ c \in Rewritable \cap made
      /\ Uses(f) \subseteq made
  <2>1. Holds(Top) /\ FrameFits(Top)
    BY <1>2, BelowTop
  <2> QED BY <1>1, <1>2, <2>1, FrameIs DEF Holds, HoldsWriteFn, FrameFits
<1>4. f # None
  BY <1>3, UsedOnly
<1>5. Len(stack) = 1 /\ stack[1] = Top
  <2>1. Len(stack) = 1
    <3> SUFFICES ASSUME Len(stack) # 1 PROVE FALSE
      OBVIOUS
    <3>1. Leads(stack[Len(stack) - 1], Top)
      BY <1>2, BelowTop
    <3> QED BY <1>2, <3>1 DEF Leads, Downward
  <2> QED BY <1>2, <2>1, StackNow
<1>6. \A i \in 1 .. Len(stack) : stack[i] = Top
  BY <1>5
<1>7. /\ stack' = <<>> /\ ran' = {}
      /\ UNCHANGED <<made, sources, observers, value, state, log>>
      /\ fn' = [fn EXCEPT ![c] = f] /\ moved' = [moved EXCEPT ![c] = TRUE]
  BY <1>1 DEF WriteFnEnd, Leave, dataVars
<1>8. fn \in [Cells -> Fns \cup {None}] /\ moved \in [Cells -> BOOLEAN]
  BY Typed
<1>9. /\ fn'[c] = f /\ moved'[c] = TRUE
      /\ \A x \in Cells : x # c => fn'[x] = fn[x] /\ moved'[x] = moved[x]
  BY <1>3, <1>7, <1>8
<1>10. GraphFit'
  <2> SUFFICES ASSUME NEW x \in Cells PROVE Sourced(x)'
    BY DEF GraphFit
  <2>1. Sourced(x)
    BY DEF FInv, GraphFit
  <2>2. CASE x # c
    BY <1>7, <1>9, <2>1, <2>2 DEF Sourced, LogCells
  <2>3. CASE x = c
    <3>1. ~Has(observers[c], Cleanup)
      <4> SUFFICES ASSUME Has(observers[c], Cleanup) PROVE FALSE
        OBVIOUS
      <4>1. PICK q \in FnsOf(c) : Cleans(q)
        BY <2>1, <2>3 DEF Sourced
      <4> QED BY <1>3, <4>1 DEF Fixed, Careful
    <3> QED BY <1>3, <1>4, <1>7, <1>9, <2>1, <2>3, <3>1 DEF Sourced, LogCells
  <2> QED BY <2>2, <2>3
<1>11. Raw'
  <2>1. ASSUME NEW x \in Rewritable, fn'[x] = None PROVE state[x] = Clean
    <3>1. x # c /\ x \in Cells
      BY <1>4, <1>9, <2>1, CellIs
    <3>2. fn[x] = None
      BY <1>9, <2>1, <3>1
    <3> QED BY <1>1, <1>6, <2>1, <3>1, <3>2 DEF FInv, DataFit, Raw
  <2> QED BY <1>7, <2>1 DEF Raw
<1>12. Due'
  <2>1. ASSUME NEW x \in Cells, fn'[x] # None, state[x] = Dirty PROVE moved'[x]
    <3>1. CASE x = c
      BY <1>9, <3>1
    <3>2. CASE x # c
      <4>1. fn[x] # None /\ moved'[x] = moved[x]
        BY <1>9, <2>1, <3>2
      <4>2. moved[x] \/ \E i \in 1 .. Len(stack) : Prompts(stack[i], x)
        BY <2>1, <4>1 DEF FInv, DataFit, Due
      <4>3. ~Prompts(Top, x)
        BY <1>1, <1>2, <3>2 DEF Prompts
      <4> QED BY <1>6, <4>1, <4>2, <4>3
    <3> QED BY <3>1, <3>2
  <2> QED BY <1>7, <2>1 DEF Due
<1>13. Valid'
  <2>1. ASSUME NEW x \in Cells, fn'[x] # None, state[x] # Dirty
        PROVE  Sees(log[x])
    <3>1. x # c
      BY <1>3, <2>1
    <3> QED BY <1>9, <2>1, <3>1 DEF FInv, DataFit, Valid
  <2> QED BY <1>7, <2>1 DEF Valid, Sees
<1>14. Spread'
  <2> SUFFICES ASSUME NEW x \in Cells, NEW d \in Cells, Loose(x)', Has(observers'[x], d)
               PROVE  state'[d] # Clean
    BY SpreadNext
  <2>1. Loose(x) /\ Has(observers[x], d)
    BY <1>3, <1>7, <1>9 DEF Loose
  <2>2. PICK k \in 1 .. Len(observers[x]) : observers[x][k] = d
    BY <2>1, Typed DEF Has
  <2>3. Reached(x, k)
    BY <2>1 DEF FInv, DataFit, Spread
  <2>4. ~Awaited(x, k)
    BY <1>2, <1>6 DEF Awaited, Waits
  <2> QED BY <1>7, <2>2, <2>3, <2>4, CellIs DEF Reached
<1> QED BY <1>7, <1>10, <1>11, <1>12, <1>13, <1>14, CallsNone, RanNone
        DEF FInv, DataFit
-----------------------------------------------------------------------------
(* The theorems. *)

LEMMA FreshStarts == ASSUME Fixed, Init PROVE FInv
<1>1. /\ stack = <<>> /\ ran = {} /\ made = {}
      /\ \A c \in Cells :
           /\ fn[c] = None /\ state[c] = Clean /\ sources[c] = <<>>
           /\ observers[c] = <<>> /\ log[c] = <<>> /\ moved[c] = TRUE
  BY DEF Init
<1>2. DOMAIN <<>> = {} /\ \A d : ~Has(<<>>, d)
  BY DEF Has
<1>3. GraphFit
  <2> SUFFICES ASSUME NEW c \in Cells PROVE Sourced(c)
    BY DEF GraphFit
  <2>1. \A d \in Cells : Has(sources[c], d) <=> d \in LogCells(c)
    BY <1>1, <1>2 DEF LogCells
  <2> QED BY <1>1, <1>2, <2>1 DEF Sourced
<1>4. Raw /\ Spread /\ Due
  BY <1>1, CellIs DEF Raw, Spread, Due, Loose
<1>5. Valid
  BY <1>1 DEF Valid
<1>6. CallsSet
  <2>1. Len(stack) = 0 /\ \A k : k \notin 1 .. Len(stack)
    BY <1>1
  <2> QED BY <1>1, <2>1, ShapeNone, NotedNone DEF CallsSet
<1>7. RanFit
  BY <1>1 DEF RanFit
<1> QED BY <1>3, <1>4, <1>5, <1>6, <1>7 DEF FInv, DataFit

LEMMA FreshKeeps == ASSUME Fixed, RInv, FInv, [Next]_vars PROVE FInv'
<1>0. RInv'
  BY Keeps DEF Fixed
<1>1. CASE UNCHANGED vars \/ Stablize
  BY <1>1, StutterFresh DEF Stablize
<1>2. CASE \E c \in Signals, v \in Values : Signal(c, v)
  BY <1>0, <1>2, SignalFresh
<1>3. CASE \E c \in Memos : \E f \in FnsOf(c) : Memo(c, f)
  BY <1>0, <1>3, MemoFresh
<1>4. CASE \E c \in Effects : \E f \in FnsOf(c) : Effect(c, f)
  BY <1>0, <1>4, EffectFresh
<1>5. CASE \E c \in Rewritable : \E f \in FnsOf(c) : CallWriteFn(c, f)
  BY <1>0, <1>5, CallWriteFnFresh
<1>6. CASE \E c \in Cells : CallRead(c)
  BY <1>0, <1>6, CallReadFresh
<1>7. CASE \E c \in Cells, v \in Values : CallWrite(c, v)
  BY <1>0, <1>7, CallWriteFresh
<1>8. CASE ReadEnd \/ CheckSource \/ CheckEnd \/ Update \/ NilCall
  BY <1>0, <1>8, ReadEndFresh, CheckSourceFresh, CheckEndFresh, UpdateFresh,
     NilCallFresh
<1>9. CASE OnCleanup \/ Panic \/ UpdateEnd
  BY <1>0, <1>9, OnCleanupFresh, PanicFresh, UpdateEndFresh
<1>10. CASE WriteObserver \/ WriteCleanup \/ WriteEnd \/ WriteSame
  BY <1>0, <1>10, WriteObserverFresh, WriteCleanupFresh, WriteEndFresh,
     WriteSameFresh
<1>11. CASE StaleObserver \/ StaleCleanup \/ StaleEnd \/ WriteFnEnd
  BY <1>0, <1>11, StaleObserverFresh, StaleCleanupFresh, StaleEndFresh,
     WriteFnEndFresh
<1> QED BY <1>1, <1>2, <1>3, <1>4, <1>5, <1>6, <1>7, <1>8, <1>9, <1>10, <1>11
        DEF Next, Call, Step

LEMMA FreshSpec == ASSUME Proper, Careful PROVE Spec => [](RInv /\ FInv)
<1> USE DEF Fixed
<1>1. RInv /\ FInv /\ [Next]_vars => RInv' /\ FInv'
  BY Keeps, FreshKeeps
<1>2. Init => RInv /\ FInv
  BY Starts, FreshStarts
<1> QED BY <1>1, <1>2, PTL DEF Spec

(* A cell that has nothing stale below it is fresh if it is clean. *)
LEMMA FreshNow ==
  ASSUME Fixed, RInv, FInv, Quiet, NEW c \in Cells, fn[c] # None, state[c] = Clean
  PROVE  Fresh(c)
<1>1. Sees(log[c]) /\ Settles(log[c]) /\ DOMAIN log[c] = 1 .. Len(log[c])
  BY QuietFacts, Typed
<1> QED BY <1>1 DEF Fresh, Sees, Settles, Settled, Loose

(* Between the calls of a careful program, a cell that is clean has seen   *)
(* what there is, whatever it reads from run to run, whoever writes or     *)
(* rewires what it has read, and whichever call has panicked               *)
(* (reactively.go:17, CacheClean: "no need to recompute").                 *)
THEOREM CleanReplaysAlways ==
  ASSUME Proper, Careful PROVE Spec => []CleanReplays
<1>1. RInv /\ FInv => CleanReplays
  <2> SUFFICES ASSUME RInv, FInv, Idle, NEW c \in made,
                      fn[c] # None, state[c] = Clean
               PROVE  Fresh(c)
    BY DEF CleanReplays
  <2> QED BY QuietIdle, FreshNow, Typed DEF Fixed
<1> QED BY <1>1, FreshSpec, PTL

(* Read() of a cell with a function returns what the function would give   *)
(* now, to the program and to other functions, also to an effect that has  *)
(* written a moment ago (updateIfNecessary(), reactively.go:238-257).      *)
THEOREM ReadFreshAlways ==
  ASSUME Proper, Careful PROVE Spec => ReadFresh
<1>1. RInv /\ FInv /\ [Next]_vars =>
        [ReadEnd /\ fn[Top.cell] # None =>
           state[Top.cell] = Clean /\ Fresh(Top.cell)]_vars
  <2> SUFFICES ASSUME RInv, FInv, ReadEnd, fn[Top.cell] # None
               PROVE  state[Top.cell] = Clean /\ Fresh(Top.cell)
    OBVIOUS
  <2>1. ~Idle /\ Top.op = "Read" /\ Pulls(Top)
    BY DEF ReadEnd, In, Pulls
  <2>2. Top.cell \in Cells
    BY <2>1, StackNow, FrameIs
  <2>3. Quiet
    BY <2>1, QuietTop
  <2>4. Settled(Top.cell)
    BY <2>1, BelowTop DEF Tips
  <2>5. state[Top.cell] = Clean
    BY <2>4 DEF Settled, Loose
  <2> QED BY <2>2, <2>3, <2>5, FreshNow DEF Fixed
<1> QED BY <1>1, FreshSpec, PTL DEF Spec, ReadFresh

(* update() is never called for nothing: something that the function has   *)
(* read has another value, or it is another function                       *)
(* (reactively_test.go:163, "unchanged, oughtn't run").                    *)
THEOREM NoNeedlessRunAlways ==
  ASSUME Proper, Careful PROVE Spec => NoNeedlessRun
<1>1. RInv /\ FInv /\ [Next]_vars => [Update => moved[Top.cell]]_vars
  <2> SUFFICES ASSUME RInv, FInv, Update PROVE moved[Top.cell]
    OBVIOUS
  <2>1. /\ ~Idle /\ Pulls(Top) /\ state[Top.cell] = Dirty /\ fn[Top.cell] # None
    BY DEF Update, Checked, In, Pulls
  <2>2. Top.cell \in Cells
    BY <2>1, StackNow, FrameIs
  <2> QED BY <2>1, <2>2, QuietTop, QuietFacts DEF Fixed
<1> QED BY <1>1, FreshSpec, PTL DEF Spec, NoNeedlessRun

(* A call of the program runs no function twice, however many ways lead to *)
(* its cell (reactively_test.go:195-198), and though the effect that it    *)
(* runs may mark cells again.                                              *)
THEOREM OncePerCallAlways ==
  ASSUME Proper, Careful PROVE Spec => OncePerCall
<1>1. RInv /\ FInv /\ [Next]_vars => [Update => Top.cell \notin ran]_vars
  <2> SUFFICES ASSUME RInv, FInv, Update, Top.cell \in ran PROVE FALSE
    OBVIOUS
  <2>1. /\ ~Idle /\ Pulls(Top) /\ state[Top.cell] = Dirty /\ ~Updates(Top)
        /\ Top.op = "updateIfNecessary"
    BY DEF Update, Checked, In, Pulls, Updates
  <2>2. Clean # Dirty
    BY Typed
  <2>3. PICK i \in 1 .. Len(stack) : Updates(stack[i]) /\ stack[i].cell = Top.cell
    BY <2>1, <2>2 DEF FInv, RanFit
  <2>4. /\ Len(stack) \in Nat \ {0} /\ Top = stack[Len(stack)] /\ Top \in FrameSet
    BY <2>1, StackNow
  <2>5. i < Len(stack) /\ Len(stack) \in 1 .. Len(stack)
    BY <2>1, <2>3, <2>4
  <2>6. Beside(stack[i], Top)
    BY <2>4, <2>5, BesideAll
  <2>7. Rank[Top.cell] < Rank[Top.cell]
    BY <2>1, <2>3, <2>6 DEF Beside, Updates, Downward
  <2>8. Top.cell \in Cells
    BY <2>4, FrameIs
  <2>9. Rank[Top.cell] \in Nat
    BY <2>8, RankFalls DEF Fixed, Proper
  <2> QED BY <2>7, <2>9
<1> QED BY <1>1, FreshSpec, PTL DEF Spec, OncePerCall
=============================================================================
