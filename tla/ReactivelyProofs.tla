-------------------------- MODULE ReactivelyProofs --------------------------
(* Proofs about Reactively, for any cells and any functions that use cells *)
(* of lower rank: functions that read this or that, write, ask for cleanup,*)
(* and panic, cells that are written over and that are given functions.    *)
EXTENDS Reactively, GraphRecursion, SequenceTheorems, FiniteSetTheorems

(* What a program's functions are: whatever it has seen, a function takes  *)
(* a step, and reads and writes what it uses only. *)
Functions ==
  /\ \A f \in Fns : Uses(f) \subseteq Cells
  /\ \A f \in Fns, seen \in Seq(Seen) :
       /\ Does(f, seen) \in Steps
       /\ Does(f, seen).do \in {"read", "write"} =>
            Does(f, seen).cell \in Uses(f)

(* No cell comes, along what functions use, before itself. *)
Ranks ==
  {rank \in [Cells -> Nat] :
     \A c \in Cells : \A f \in FnsOf(c) : \A d \in Uses(f) : rank[d] < rank[c]}
Layered == Ranks # {}
Rank == CHOOSE rank : rank \in Ranks

Proper == Functions /\ Layered

-----------------------------------------------------------------------------
(* Sequences. *)

(* Pushing a call leaves the calls below as they are. *)
LEMMA Push ==
  ASSUME NEW S, NEW s \in Seq(S), NEW e \in S
  PROVE  /\ Append(s, e) \in Seq(S)
         /\ Len(s) \in Nat /\ Len(Append(s, e)) = Len(s) + 1
         /\ Append(s, e) # <<>>
         /\ \A k \in 1 .. Len(s) : Append(s, e)[k] = s[k]
         /\ Append(s, e)[Len(s) + 1] = e
OBVIOUS

(* The last element is an element. *)
LEMMA Last ==
  ASSUME NEW S, NEW s \in Seq(S), s # <<>>
  PROVE  /\ Len(s) \in Nat \ {0} /\ Len(s) \in 1 .. Len(s)
         /\ s[Len(s)] \in S
         /\ \A k \in 1 .. Len(s) : k = Len(s) \/ k \in 1 .. (Len(s) - 1)
<1>1. Len(s) \in Nat \ {0}
  BY EmptySeq, LenProperties
<1>2. Len(s) \in 1 .. Len(s)
  BY <1>1
<1>3. s[Len(s)] \in S
  BY <1>2, ElementOfSeq
<1>4. \A k \in 1 .. Len(s) : k = Len(s) \/ k \in 1 .. (Len(s) - 1)
  BY <1>1
<1> QED BY <1>1, <1>2, <1>3, <1>4

(* The beginning of a sequence. *)
LEMMA Beginning ==
  ASSUME NEW S, NEW s \in Seq(S), NEW n \in Nat, n <= Len(s)
  PROVE  /\ SubSeq(s, 1, n) \in Seq(S) /\ Len(SubSeq(s, 1, n)) = n
         /\ \A k \in 1 .. n : SubSeq(s, 1, n)[k] = s[k]
<1>1. Len(s) \in Nat /\ 1 \in Int /\ n \in Int
  BY LenProperties
<1>2. \A k \in 1 .. n : s[k] \in S
  BY <1>1, ElementOfSeq
<1>3. /\ SubSeq(s, 1, n) \in Seq(S)
      /\ Len(SubSeq(s, 1, n)) = IF 1 <= n THEN n - 1 + 1 ELSE 0
      /\ \A k \in 1 .. n - 1 + 1 : SubSeq(s, 1, n)[k] = s[1 + k - 1]
  BY <1>1, <1>2, SubSeqProperties
<1>4. n - 1 + 1 = n /\ \A k \in 1 .. n : 1 + k - 1 = k
  OBVIOUS
<1> QED BY <1>3, <1>4

(* Popping a call leaves the calls below as they are. *)
LEMMA Shrink ==
  ASSUME NEW S, NEW s \in Seq(S), s # <<>>
  PROVE  /\ SubSeq(s, 1, Len(s) - 1) \in Seq(S)
         /\ Len(SubSeq(s, 1, Len(s) - 1)) = Len(s) - 1
         /\ \A k \in 1 .. (Len(s) - 1) : SubSeq(s, 1, Len(s) - 1)[k] = s[k]
<1>1. Len(s) - 1 \in Nat /\ Len(s) - 1 <= Len(s)
  BY EmptySeq, LenProperties
<1> QED BY <1>1, Beginning

Has(s, e) == \E k \in DOMAIN s : s[k] = e

(* What is left of s without c. *)
LEMMA WithoutKeeps ==
  ASSUME NEW S, NEW s \in Seq(S), NEW c
  PROVE  /\ Without(s, c) \in Seq(S)
         /\ \A e : Has(Without(s, c), e) <=> e # c /\ Has(s, e)
<1> DEFINE D == 0 .. Len(s)
           ds == [n \in D |-> IF n = 0 THEN <<>> ELSE <<n - 1>>]
           rank == [n \in D |-> n]
           V == Seq(S)
           G == [n \in D |-> [a \in [DOMAIN ds[n] -> V] |->
                  IF n = 0 THEN <<>>
                  ELSE IF s[n] = c THEN a[1] ELSE Append(a[1], s[n])]]
           Fits(g) ==
             g = [n \in 0 .. Len(s) |->
                    IF n = 0 THEN <<>>
                    ELSE IF s[n] = c THEN g[n - 1] ELSE Append(g[n - 1], s[n])]
<1>1. Len(s) \in Nat /\ DOMAIN s = 1 .. Len(s)
  BY LenProperties
<1>2. \A n \in D : n \in Nat /\ (n # 0 => n - 1 \in D /\ s[n] \in S)
  BY <1>1, ElementOfSeq
<1>3. \A n \in D : /\ n = 0 => ds[n] = <<>> /\ DOMAIN ds[n] = {}
                   /\ n # 0 => DOMAIN ds[n] = {1} /\ ds[n][1] = n - 1
  OBVIOUS
<1>4. Ranked(D, ds, rank)
  BY <1>2, <1>3 DEF Ranked
<1>5. Giving(D, ds, V, G)
  <2> SUFFICES ASSUME NEW n \in D, NEW a \in [DOMAIN ds[n] -> V]
               PROVE  G[n][a] \in V
    BY DEF Giving
  <2>1. CASE n = 0
    BY <2>1, EmptySeq
  <2>2. CASE n # 0
    <3>1. a[1] \in Seq(S) /\ s[n] \in S
      BY <1>2, <1>3, <2>2
    <3> QED BY <2>2, <3>1
  <2> QED BY <2>1, <2>2
<1>6. PICK g \in [D -> V] : Solves(D, ds, V, G, g)
  <2>1. <<>> \in V /\ Len(s) + 1 \in Nat /\ \A n \in D : rank[n] < Len(s) + 1
    BY <1>1, EmptySeq
  <2> HIDE DEF D, ds, rank, V, G
  <2> QED BY <1>4, <1>5, <2>1, Solution
<1>7. Fits(g)
  <2>1. \A n \in D :
          g[n] = IF n = 0 THEN <<>>
                 ELSE IF s[n] = c THEN g[n - 1] ELSE Append(g[n - 1], s[n])
    <3> TAKE n \in D
    <3> DEFINE a == [j \in DOMAIN ds[n] |-> g[ds[n][j]]]
    <3>1. a \in [DOMAIN ds[n] -> V]
      BY <1>2, <1>3
    <3>2. g[n] = G[n][a]
      BY <1>6, <3>1 DEF Solves
    <3>3. n # 0 => a[1] = g[n - 1]
      BY <1>3
    <3> HIDE DEF a
    <3> QED BY <3>1, <3>2, <3>3
  <2> QED BY <2>1
<1>8. PICK h : Fits(h) /\ Without(s, c) = h[Len(s)]
  <2>1. Without(s, c) = (CHOOSE x : Fits(x))[Len(s)]
    BY DEF Without
  <2>2. Fits(CHOOSE x : Fits(x))
    <3> HIDE DEF Fits
    <3> QED BY <1>7
  <2> HIDE DEF Fits
  <2> QED BY <2>1, <2>2
<1>9. /\ h[0] = <<>>
      /\ \A n \in Nat : n + 1 \in D =>
           h[n + 1] = IF s[n + 1] = c THEN h[n] ELSE Append(h[n], s[n + 1])
  <2>1. \A n \in 0 .. Len(s) :
          h[n] = IF n = 0 THEN <<>>
                 ELSE IF s[n] = c THEN h[n - 1] ELSE Append(h[n - 1], s[n])
    BY <1>8
  <2>2. 0 \in 0 .. Len(s)
    BY <1>1
  <2>3. ASSUME NEW n \in Nat, n + 1 \in D
        PROVE  h[n + 1] = IF s[n + 1] = c THEN h[n] ELSE Append(h[n], s[n + 1])
    <3>1. n + 1 # 0 /\ (n + 1) - 1 = n
      OBVIOUS
    <3> QED BY <2>1, <2>3, <3>1
  <2> HIDE DEF Fits
  <2> QED BY <2>1, <2>2, <2>3
<1> DEFINE Held(n) ==
             /\ h[n] \in Seq(S)
             /\ \A e : (\E k \in DOMAIN h[n] : h[n][k] = e) <=>
                         e # c /\ \E k \in 1 .. n : s[k] = e
           T == {n \in Nat : n \in D => Held(n)}
<1>10. 0 \in T
  <2>1. h[0] \in Seq(S) /\ DOMAIN h[0] = {}
    BY <1>9, EmptySeq
  <2> QED BY <2>1
<1>11. ASSUME NEW n \in Nat, n \in T PROVE n + 1 \in T
  <2> SUFFICES ASSUME n + 1 \in D PROVE Held(n + 1)
    <3> HIDE DEF Held, D
    <3> QED OBVIOUS
  <2>1. n \in D /\ n + 1 \in 1 .. Len(s) /\ s[n + 1] \in S
    BY <1>1, <1>2
  <2>2. Held(n)
    BY <1>11, <2>1
  <2>3. \A e : (\E k \in 1 .. (n + 1) : s[k] = e) <=>
                 (\E k \in 1 .. n : s[k] = e) \/ s[n + 1] = e
    <3>1. \A k \in 1 .. (n + 1) : k \in 1 .. n \/ k = n + 1
      OBVIOUS
    <3>2. n + 1 \in 1 .. (n + 1) /\ \A k \in 1 .. n : k \in 1 .. (n + 1)
      OBVIOUS
    <3> QED BY <3>1, <3>2
  <2>4. CASE s[n + 1] = c
    BY <1>9, <2>1, <2>2, <2>3, <2>4
  <2>5. CASE s[n + 1] # c
    <3>1. h[n + 1] = Append(h[n], s[n + 1])
      BY <1>9, <2>1, <2>5
    <3>2. /\ h[n + 1] \in Seq(S) /\ Len(h[n + 1]) = Len(h[n]) + 1
          /\ Len(h[n]) \in Nat /\ h[n + 1][Len(h[n]) + 1] = s[n + 1]
          /\ \A k \in 1 .. Len(h[n]) : h[n + 1][k] = h[n][k]
      BY <2>1, <2>2, <3>1, Push
    <3>3. DOMAIN h[n + 1] = 1 .. (Len(h[n]) + 1) /\ DOMAIN h[n] = 1 .. Len(h[n])
      BY <2>2, <3>2, LenProperties
    <3>4. \A e : (\E k \in DOMAIN h[n + 1] : h[n + 1][k] = e) <=>
                   (\E k \in DOMAIN h[n] : h[n][k] = e) \/ s[n + 1] = e
      <4>1. \A k \in DOMAIN h[n + 1] : k \in DOMAIN h[n] \/ k = Len(h[n]) + 1
        BY <3>2, <3>3
      <4>2. /\ Len(h[n]) + 1 \in DOMAIN h[n + 1]
            /\ \A k \in DOMAIN h[n] : k \in DOMAIN h[n + 1]
        BY <3>2, <3>3
      <4> QED BY <3>2, <3>3, <4>1, <4>2
    <3> QED BY <2>2, <2>3, <2>5, <3>2, <3>4
  <2> QED BY <2>4, <2>5
<1>12. Nat \subseteq T
  <2> HIDE DEF T
  <2> QED BY <1>10, <1>11, Count
<1>13. Held(Len(s))
  <2>1. Len(s) \in D
    BY <1>1
  <2> HIDE DEF Held, D
  <2> QED BY <1>1, <1>12, <2>1
<1> QED BY <1>1, <1>8, <1>13 DEF Has

-----------------------------------------------------------------------------
(* Links. *)

ObserverLists == [Cells -> Seq(Cells \cup {Cleanup})]

(* removeParentObservers() takes c off the sources from there on.          *)
LEMMA UnlinkedKeeps ==
  ASSUME TypeOK, NEW c \in Cells, NEW from \in Nat
  PROVE  /\ Unlinked(c, from) \in ObserverLists
         /\ \A d \in Cells : \A e :
              Has(Unlinked(c, from)[d], e) <=>
                /\ Has(observers[d], e)
                /\ e # c \/ \A k \in from .. Len(sources[c]) : sources[c][k] # d
<1> DEFINE old == {sources[c][k] : k \in from .. Len(sources[c])}
<1>1. Unlinked(c, from) = [d \in Cells |->
         IF d \in old THEN Without(observers[d], c) ELSE observers[d]]
  BY DEF Unlinked
<1>2. \A d \in Cells :
        /\ observers[d] \in Seq(Cells \cup {Cleanup})
        /\ Without(observers[d], c) \in Seq(Cells \cup {Cleanup})
        /\ \A e : Has(Without(observers[d], c), e) <=> e # c /\ Has(observers[d], e)
  <2> TAKE d \in Cells
  <2> DEFINE S == Cells \cup {Cleanup}
  <2>1. observers[d] \in Seq(S)
    BY DEF TypeOK
  <2> HIDE DEF S
  <2> QED BY <2>1, WithoutKeeps DEF S
<1>3. \A d : d \in old <=> \E k \in from .. Len(sources[c]) : sources[c][k] = d
  OBVIOUS
<1> HIDE DEF old
<1>4. Unlinked(c, from) \in ObserverLists
  BY <1>1, <1>2 DEF ObserverLists
<1>5. ASSUME NEW d \in Cells, NEW e
      PROVE  Has(Unlinked(c, from)[d], e) <=>
                /\ Has(observers[d], e)
                /\ e # c \/ \A k \in from .. Len(sources[c]) : sources[c][k] # d
  <2>1. CASE d \in old
    <3>1. Unlinked(c, from)[d] = Without(observers[d], c)
      BY <1>1, <2>1
    <3> QED BY <1>2, <1>3, <2>1, <3>1
  <2>2. CASE d \notin old
    <3>1. Unlinked(c, from)[d] = observers[d]
      BY <1>1, <2>2
    <3> QED BY <1>3, <2>2, <3>1
  <2> QED BY <2>1, <2>2
<1> QED BY <1>4, <1>5

(* The new sources get c as an observer. *)
LEMMA LinkedAdds ==
  ASSUME NEW obs \in ObserverLists, NEW c \in Cells, NEW new \in Seq(Cells),
         NEW from \in Nat
  PROVE  /\ Linked(obs, c, new, from) \in ObserverLists
         /\ \A d \in Cells : \A e :
              Has(Linked(obs, c, new, from)[d], e) <=>
                \/ Has(obs[d], e)
                \/ e = c /\ \E j \in from .. Len(new) : new[j] = d
<1> DEFINE J(d) == {j \in from .. Len(new) : new[j] = d}
           n(d) == Cardinality(J(d))
           tail(d) == [k \in 1 .. n(d) |-> c]
<1>1. Linked(obs, c, new, from) = [d \in Cells |-> obs[d] \o tail(d)]
  BY DEF Linked
<1>2. \A d : n(d) \in Nat /\ (n(d) = 0 <=> J(d) = {})
  <2> TAKE d
  <2>1. Len(new) \in Nat
    BY LenProperties
  <2>2. IsFiniteSet(from .. Len(new))
    BY <2>1, FS_Interval
  <2>3. IsFiniteSet(J(d))
    BY <2>2, FS_Subset
  <2> QED BY <2>3, FS_CardinalityType, FS_EmptySet
<1>3. \A d : /\ tail(d) \in Seq(Cells \cup {Cleanup}) /\ Len(tail(d)) = n(d)
             /\ \A k \in 1 .. n(d) : tail(d)[k] = c
  <2> TAKE d
  <2> HIDE DEF n
  <2>1. n(d) \in Nat
    BY <1>2
  <2> QED BY <2>1
<1> HIDE DEF n, tail
<1>4. \A d \in Cells :
        /\ obs[d] \in Seq(Cells \cup {Cleanup}) /\ Len(obs[d]) \in Nat
        /\ DOMAIN obs[d] = 1 .. Len(obs[d])
        /\ obs[d] \o tail(d) \in Seq(Cells \cup {Cleanup})
        /\ DOMAIN (obs[d] \o tail(d)) = 1 .. Len(obs[d]) + n(d)
        /\ \A k \in 1 .. Len(obs[d]) + n(d) :
             (obs[d] \o tail(d))[k] =
               IF k <= Len(obs[d]) THEN obs[d][k] ELSE tail(d)[k - Len(obs[d])]
  <2> TAKE d \in Cells
  <2> DEFINE S == Cells \cup {Cleanup}
  <2>1. obs[d] \in Seq(S)
    BY DEF ObserverLists
  <2>2. tail(d) \in Seq(S) /\ Len(tail(d)) = n(d)
    BY <1>3
  <2> HIDE DEF S
  <2>3. /\ Len(obs[d]) \in Nat /\ DOMAIN obs[d] = 1 .. Len(obs[d])
        /\ obs[d] \o tail(d) \in Seq(S)
        /\ Len(obs[d] \o tail(d)) = Len(obs[d]) + Len(tail(d))
        /\ \A k \in 1 .. Len(obs[d]) + Len(tail(d)) :
             (obs[d] \o tail(d))[k] =
               IF k <= Len(obs[d]) THEN obs[d][k] ELSE tail(d)[k - Len(obs[d])]
    BY <2>1, <2>2, ConcatProperties, LenProperties
  <2>4. DOMAIN (obs[d] \o tail(d)) = 1 .. Len(obs[d] \o tail(d))
    BY <2>3, LenProperties
  <2> QED BY <2>1, <2>2, <2>3, <2>4 DEF S
<1>5. Linked(obs, c, new, from) \in ObserverLists
  BY <1>1, <1>4 DEF ObserverLists
<1>6. ASSUME NEW d \in Cells, NEW e
      PROVE  Has(obs[d] \o tail(d), e) <=>
                \/ Has(obs[d], e)
                \/ e = c /\ \E j \in from .. Len(new) : new[j] = d
  <2> DEFINE m == Len(obs[d])
  <2>1. m \in Nat /\ n(d) \in Nat
    BY <1>2, <1>4
  <2>2. \A k \in 1 .. m + n(d) : k \in 1 .. m \/ (k - m \in 1 .. n(d) /\ ~(k <= m))
    BY <2>1
  <2>3. \A k \in 1 .. m : k \in 1 .. m + n(d) /\ k <= m
    BY <2>1
  <2>4. n(d) # 0 => m + 1 \in 1 .. m + n(d) /\ ~(m + 1 <= m) /\ (m + 1) - m \in 1 .. n(d)
    BY <2>1
  <2>5. (\E j \in from .. Len(new) : new[j] = d) <=> n(d) # 0
    BY <1>2
  <2>6. ASSUME Has(obs[d] \o tail(d), e)
        PROVE  \/ Has(obs[d], e)
               \/ e = c /\ \E j \in from .. Len(new) : new[j] = d
    <3>1. PICK k \in 1 .. m + n(d) : (obs[d] \o tail(d))[k] = e
      BY <1>4, <2>6 DEF Has
    <3>2. CASE k \in 1 .. m
      BY <1>4, <2>3, <3>1, <3>2 DEF Has
    <3>3. CASE k - m \in 1 .. n(d) /\ ~(k <= m)
      <4>1. (obs[d] \o tail(d))[k] = tail(d)[k - m]
        BY <1>4, <3>3
      <4>2. tail(d)[k - m] = c
        BY <1>3, <3>3
      <4>3. n(d) # 0
        BY <2>1, <3>3
      <4> QED BY <2>5, <3>1, <4>1, <4>2, <4>3
    <3> QED BY <2>2, <3>2, <3>3
  <2>7. Has(obs[d], e) => Has(obs[d] \o tail(d), e)
    BY <1>4, <2>3 DEF Has
  <2>8. ASSUME e = c, \E j \in from .. Len(new) : new[j] = d
        PROVE  Has(obs[d] \o tail(d), e)
    <3>1. (obs[d] \o tail(d))[m + 1] = c
      BY <1>3, <1>4, <2>4, <2>5, <2>8
    <3> QED BY <1>4, <2>4, <2>5, <2>8, <3>1 DEF Has
  <2> QED BY <2>6, <2>7, <2>8
<1> QED BY <1>1, <1>5, <1>6
-----------------------------------------------------------------------------
(* The inductive invariant. *)

(* Calls that go down the graph, from the function that makes them. *)
Downward == {"updateIfNecessary", "update"}

Updates(f) == f.op = "update"

FrameFits(f) ==
  /\ f.op \in {"update", "WriteFn"} => f.fn \in FnsOf(f.cell)
  /\ f.op = "updateIfNecessary" =>
       \A k \in DOMAIN f.list : Rank[f.list[k]] < Rank[f.cell]

(* The calls above a function are about cells of lower rank. *)
Ordered(s) ==
  \A k, l \in DOMAIN s :
    k < l /\ Updates(s[k]) /\ s[l].op \in Downward =>
      Rank[s[l].cell] < Rank[s[k].cell]

(* x is a record of what the function of c has read: old sources again, as *)
(* far as there are any, which a first read precedes, and new ones.        *)
Records(c, x, src) ==
  /\ x[1] = c
  /\ x[2] \in Seq(Cells) /\ \A k \in DOMAIN x[2] : Rank[x[2][k]] < Rank[c]
  /\ x[3] \in 0 .. Len(src[c])
  /\ x[3] > 0 => x[2] # <<>>

(* The function on top has its record in the context x, the others in what *)
(* the function above has saved. *)
Recorded(s, x, src) ==
  /\ \A k \in DOMAIN s :
       Updates(s[k]) /\ (\A j \in DOMAIN s : k < j => ~Updates(s[j])) =>
         Records(s[k].cell, x, src)
  /\ \A k, l \in DOMAIN s :
       /\ k < l /\ Updates(s[k]) /\ Updates(s[l])
       /\ \A j \in DOMAIN s : k < j /\ j < l => ~Updates(s[j])
       => Records(s[k].cell, s[l].saved, src)

CallsFit(s, x, src) ==
  /\ \A k \in DOMAIN s : FrameFits(s[k])
  /\ Ordered(s)
  /\ Recorded(s, x, src)

(* The functions in use are those the cell may have, and its sources come  *)
(* before it. *)
Sunk ==
  \A c \in Cells :
    /\ fn[c] # None => fn[c] \in FnsOf(c)
    /\ \A k \in DOMAIN sources[c] : Rank[sources[c][k]] < Rank[c]

RInv ==
  /\ TypeOK
  /\ Sunk
  /\ CallsFit(stack, context, sources)
  /\ LinksMutual

-----------------------------------------------------------------------------
(* What the invariant says of the calls, when one begins or ends. *)

LEMMA RankFalls ==
  ASSUME Layered
  PROVE  /\ Rank \in [Cells -> Nat]
         /\ \A c \in Cells : \A f \in FnsOf(c) : \A d \in Uses(f) :
              Rank[d] < Rank[c]
<1>1. Rank \in Ranks
  BY DEF Layered, Rank
<1> QED BY <1>1 DEF Ranks

(* d is of lower rank than the functions that run. *)
Below(s, d) == \A k \in DOMAIN s : Updates(s[k]) => Rank[d] < Rank[s[k].cell]

(* No call is in progress. *)
LEMMA FitIdle ==
  ASSUME NEW x, NEW src PROVE CallsFit(<<>>, x, src)
<1>1. DOMAIN <<>> = {}
  OBVIOUS
<1> QED BY <1>1 DEF CallsFit, Ordered, Recorded

(* A call that is not a function's begins. *)
LEMMA FitPush ==
  ASSUME NEW s \in Seq(FrameSet), NEW e \in FrameSet, NEW x, NEW src,
         CallsFit(s, x, src), FrameFits(e), ~Updates(e),
         e.op \in Downward => Below(s, e.cell)
  PROVE  CallsFit(Append(s, e), x, src)
<1> DEFINE t == Append(s, e)
           n == Len(s)
<1>1. /\ n \in Nat /\ DOMAIN s = 1 .. n /\ DOMAIN t = 1 .. n + 1
      /\ t[n + 1] = e /\ \A k \in 1 .. n : t[k] = s[k]
  BY Push, LenProperties
<1> HIDE DEF t, n
<1>2. \A k \in DOMAIN t : k \in DOMAIN s \/ k = n + 1
  BY <1>1
<1>3. \A k \in DOMAIN t : FrameFits(t[k])
  BY <1>1, <1>2 DEF CallsFit
<1>4. Ordered(t)
  <2> SUFFICES ASSUME NEW k \in DOMAIN t, NEW l \in DOMAIN t, k < l,
                      Updates(t[k]), t[l].op \in Downward
               PROVE  Rank[t[l].cell] < Rank[t[k].cell]
    BY DEF Ordered
  <2>1. k \in DOMAIN s /\ t[k] = s[k]
    BY <1>1
  <2>2. CASE l \in DOMAIN s
    BY <1>1, <2>1, <2>2 DEF CallsFit, Ordered
  <2>3. CASE l = n + 1
    BY <1>1, <2>1, <2>3 DEF Below
  <2> QED BY <1>2, <2>2, <2>3
<1>5. \A k \in DOMAIN t : Updates(t[k]) => k \in DOMAIN s /\ t[k] = s[k]
  BY <1>1, <1>2
<1>6. \A k \in DOMAIN s : k \in DOMAIN t /\ t[k] = s[k]
  BY <1>1
<1>7. Recorded(t, x, src)
  <2>1. ASSUME NEW k \in DOMAIN t, Updates(t[k]),
               \A j \in DOMAIN t : k < j => ~Updates(t[j])
        PROVE  Records(t[k].cell, x, src)
    BY <1>5, <1>6, <2>1 DEF CallsFit, Recorded
  <2>2. ASSUME NEW k \in DOMAIN t, NEW l \in DOMAIN t, k < l,
               Updates(t[k]), Updates(t[l]),
               \A j \in DOMAIN t : k < j /\ j < l => ~Updates(t[j])
        PROVE  Records(t[k].cell, t[l].saved, src)
    BY <1>5, <1>6, <2>2 DEF CallsFit, Recorded
  <2> QED BY <2>1, <2>2 DEF Recorded
<1> QED BY <1>3, <1>4, <1>7 DEF CallsFit, t

(* A function is called: it has read nothing, and what the one that runs   *)
(* has read is saved. *)
LEMMA FitEnter ==
  ASSUME NEW s \in Seq(FrameSet), NEW e \in FrameSet, NEW x,
         NEW src \in [Cells -> Seq(Cells)],
         CallsFit(s, x, src), FrameFits(e), Updates(e), e.saved = x,
         Below(s, e.cell)
  PROVE  CallsFit(Append(s, e), <<e.cell, <<>>, 0>>, src)
<1> DEFINE t == Append(s, e)
           n == Len(s)
           y == <<e.cell, <<>>, 0>>
<1>1. /\ n \in Nat /\ DOMAIN s = 1 .. n /\ DOMAIN t = 1 .. n + 1
      /\ t[n + 1] = e /\ \A k \in 1 .. n : t[k] = s[k]
  BY Push, LenProperties
<1>2. Records(e.cell, y, src)
  <2>1. e.cell \in Cells
    BY DEF FrameSet
  <2>2. Len(src[e.cell]) \in Nat
    BY <2>1, LenProperties
  <2>3. <<>> \in Seq(Cells) /\ DOMAIN <<>> = {}
    OBVIOUS
  <2> QED BY <2>2, <2>3 DEF Records
<1> HIDE DEF t, n, y
<1>3. \A k \in DOMAIN t : (k \in DOMAIN s /\ t[k] = s[k] /\ k < n + 1) \/ k = n + 1
  BY <1>1
<1>4. \A k \in DOMAIN s : k \in DOMAIN t /\ t[k] = s[k] /\ k < n + 1
  BY <1>1
<1>5. n + 1 \in DOMAIN t /\ Updates(t[n + 1])
  BY <1>1
<1>6. \A k \in DOMAIN t : FrameFits(t[k])
  BY <1>1, <1>3 DEF CallsFit
<1>7. Ordered(t)
  <2> SUFFICES ASSUME NEW k \in DOMAIN t, NEW l \in DOMAIN t, k < l,
                      Updates(t[k]), t[l].op \in Downward
               PROVE  Rank[t[l].cell] < Rank[t[k].cell]
    BY DEF Ordered
  <2>1. k \in DOMAIN s /\ t[k] = s[k]
    BY <1>1
  <2>2. CASE l \in DOMAIN s
    BY <1>1, <2>1, <2>2 DEF CallsFit, Ordered
  <2>3. CASE l = n + 1
    BY <1>1, <2>1, <2>3 DEF Below
  <2> QED BY <1>3, <2>2, <2>3
<1>8. Recorded(t, y, src)
  <2>1. ASSUME NEW k \in DOMAIN t, Updates(t[k]),
               \A j \in DOMAIN t : k < j => ~Updates(t[j])
        PROVE  Records(t[k].cell, y, src)
    <3>1. k = n + 1
      BY <1>3, <1>5, <2>1
    <3> QED BY <1>1, <1>2, <3>1
  <2>2. ASSUME NEW k \in DOMAIN t, NEW l \in DOMAIN t, k < l,
               Updates(t[k]), Updates(t[l]),
               \A j \in DOMAIN t : k < j /\ j < l => ~Updates(t[j])
        PROVE  Records(t[k].cell, t[l].saved, src)
    <3>1. k \in DOMAIN s /\ t[k] = s[k]
      BY <1>1, <2>2
    <3>2. CASE l \in DOMAIN s
      BY <1>4, <2>2, <3>1, <3>2 DEF CallsFit, Recorded
    <3>3. CASE l = n + 1
      <4>1. \A j \in DOMAIN s : k < j => ~Updates(s[j])
        BY <1>4, <2>2, <3>3
      <4> QED BY <1>1, <2>2, <3>1, <3>3, <4>1 DEF CallsFit, Recorded
    <3> QED BY <1>3, <3>2, <3>3
  <2> QED BY <2>1, <2>2 DEF Recorded
<1> QED BY <1>6, <1>7, <1>8 DEF CallsFit, t, y

(* The call on top ends: what a function has saved is the context again.   *)
LEMMA FitPop ==
  ASSUME NEW s \in Seq(FrameSet), s # <<>>, NEW x, NEW src,
         CallsFit(s, x, src)
  PROVE  LET r == SubSeq(s, 1, Len(s) - 1)
             f == s[Len(s)]
         IN  /\ CallsFit(r, IF Updates(f) THEN f.saved ELSE x, src)
             /\ f.op \in Downward => Below(r, f.cell)
<1> DEFINE r == SubSeq(s, 1, Len(s) - 1)
           n == Len(s)
           f == s[n]
           y == IF Updates(f) THEN f.saved ELSE x
<1>1. /\ n \in Nat \ {0} /\ DOMAIN s = 1 .. n /\ DOMAIN r = 1 .. n - 1
      /\ \A k \in 1 .. n - 1 : r[k] = s[k]
  BY Shrink, Last, LenProperties
<1> HIDE DEF r, n, f, y
<1>2. \A k \in DOMAIN r : k \in DOMAIN s /\ r[k] = s[k] /\ k < n
  BY <1>1
<1>3. /\ n \in DOMAIN s /\ s[n] = f
      /\ \A k \in DOMAIN s : k \in DOMAIN r \/ k = n
  BY <1>1 DEF f
<1>4. \A k \in DOMAIN r : FrameFits(r[k])
  BY <1>2 DEF CallsFit
<1>5. Ordered(r)
  BY <1>2 DEF CallsFit, Ordered
<1>6. Recorded(r, y, src)
  <2>1. ASSUME NEW k \in DOMAIN r, Updates(r[k]),
               \A j \in DOMAIN r : k < j => ~Updates(r[j])
        PROVE  Records(r[k].cell, y, src)
    <3>1. k \in DOMAIN s /\ s[k] = r[k] /\ k < n
      BY <1>2
    <3>2. CASE Updates(f)
      <4>1. \A j \in DOMAIN s : k < j /\ j < n => ~Updates(s[j])
        BY <1>1, <1>2, <1>3, <2>1
      <4>2. Records(s[k].cell, s[n].saved, src)
        BY <1>3, <2>1, <3>1, <3>2, <4>1 DEF CallsFit, Recorded
      <4> QED BY <1>3, <3>1, <3>2, <4>2 DEF y
    <3>3. CASE ~Updates(f)
      <4>1. \A j \in DOMAIN s : k < j => ~Updates(s[j])
        BY <1>2, <1>3, <2>1, <3>3
      <4>2. Records(s[k].cell, x, src)
        BY <2>1, <3>1, <4>1 DEF CallsFit, Recorded
      <4> QED BY <3>1, <3>3, <4>2 DEF y
    <3> QED BY <3>2, <3>3
  <2>2. ASSUME NEW k \in DOMAIN r, NEW l \in DOMAIN r, k < l,
               Updates(r[k]), Updates(r[l]),
               \A j \in DOMAIN r : k < j /\ j < l => ~Updates(r[j])
        PROVE  Records(r[k].cell, r[l].saved, src)
    <3>1. /\ k \in DOMAIN s /\ s[k] = r[k]
          /\ l \in DOMAIN s /\ s[l] = r[l]
      BY <1>2
    <3>2. \A j \in DOMAIN s : k < j /\ j < l => ~Updates(s[j])
      BY <1>1, <1>2, <1>3, <2>2
    <3> QED BY <2>2, <3>1, <3>2 DEF CallsFit, Recorded
  <2> QED BY <2>1, <2>2 DEF Recorded
<1>7. f.op \in Downward => Below(r, f.cell)
  <2> SUFFICES ASSUME f.op \in Downward, NEW k \in DOMAIN r, Updates(r[k])
               PROVE  Rank[f.cell] < Rank[r[k].cell]
    BY DEF Below
  <2> QED BY <1>2, <1>3 DEF CallsFit, Ordered
<1> QED BY <1>4, <1>5, <1>6, <1>7 DEF CallsFit, r, f, n, y

(* The same calls, further on. *)
Similar(f, g) ==
  /\ f.op = g.op /\ f.cell = g.cell /\ f.fn = g.fn
  /\ f.list = g.list /\ f.saved = g.saved

LEMMA FitSimilar ==
  ASSUME NEW s \in Seq(FrameSet), NEW t \in Seq(FrameSet), Len(s) = Len(t),
         \A k \in DOMAIN s : Similar(s[k], t[k]),
         NEW x, NEW src, CallsFit(s, x, src)
  PROVE  CallsFit(t, x, src)
<1>1. DOMAIN s = DOMAIN t
  BY LenProperties
<1>2. \A k \in DOMAIN t : FrameFits(t[k])
  BY <1>1 DEF CallsFit, FrameFits, Similar
<1>3. Ordered(t)
  BY <1>1 DEF CallsFit, Ordered, Similar, Updates
<1>4. Recorded(t, x, src)
  <2>1. \A k \in DOMAIN t : Updates(s[k]) <=> Updates(t[k])
    BY <1>1 DEF Similar, Updates
  <2> QED BY <1>1, <2>1 DEF CallsFit, Recorded, Similar
<1> QED BY <1>2, <1>3, <1>4 DEF CallsFit

(* Sources change, but of no cell whose function runs. *)
LEMMA FitSources ==
  ASSUME NEW s \in Seq(FrameSet), NEW x, NEW src, NEW new,
         CallsFit(s, x, src),
         \A k \in DOMAIN s : Updates(s[k]) => new[s[k].cell] = src[s[k].cell]
  PROVE  CallsFit(s, x, new)
<1>1. \A k \in DOMAIN s : Updates(s[k]) =>
        \A y : Records(s[k].cell, y, src) => Records(s[k].cell, y, new)
  BY DEF Records
<1>2. Recorded(s, x, new)
  BY <1>1 DEF CallsFit, Recorded
<1> QED BY <1>2 DEF CallsFit

(* The function on top reads. *)
LEMMA FitContext ==
  ASSUME NEW s \in Seq(FrameSet), s # <<>>, NEW x, NEW src, NEW y,
         CallsFit(s, x, src), Updates(s[Len(s)]),
         Records(s[Len(s)].cell, x, src) => Records(s[Len(s)].cell, y, src)
  PROVE  CallsFit(s, y, src) /\ Records(s[Len(s)].cell, y, src)
<1> DEFINE n == Len(s)
<1>1. n \in DOMAIN s /\ \A k \in DOMAIN s : k = n \/ k < n
  BY Last, LenProperties
<1>2. n \in Nat /\ DOMAIN s = 1 .. n
  BY LenProperties
<1>3. \A j \in DOMAIN s : ~ n < j
  BY <1>1, <1>2
<1>4. Records(s[n].cell, x, src)
  BY <1>1, <1>3 DEF CallsFit, Recorded
<1>5. Recorded(s, y, src)
  BY <1>1, <1>4 DEF CallsFit, Recorded
<1> QED BY <1>4, <1>5 DEF CallsFit

(* The call on top goes on. *)
LEMMA FitReplaced ==
  ASSUME NEW s \in Seq(FrameSet), s # <<>>, NEW e \in FrameSet,
         Similar(s[Len(s)], e), NEW x, NEW src, CallsFit(s, x, src)
  PROVE  LET t == Append(SubSeq(s, 1, Len(s) - 1), e)
         IN  t \in Seq(FrameSet) /\ CallsFit(t, x, src)
<1> DEFINE r == SubSeq(s, 1, Len(s) - 1)
           t == Append(r, e)
           n == Len(s)
<1>1. /\ n \in Nat \ {0} /\ DOMAIN s = 1 .. n
      /\ r \in Seq(FrameSet) /\ Len(r) = n - 1
      /\ \A k \in 1 .. n - 1 : r[k] = s[k]
      /\ \A k \in 1 .. n : k = n \/ k \in 1 .. n - 1
  BY Shrink, Last, LenProperties
<1> HIDE DEF r, n
<1>2. /\ t \in Seq(FrameSet) /\ Len(t) = Len(r) + 1 /\ t[Len(r) + 1] = e
      /\ \A k \in 1 .. Len(r) : t[k] = r[k]
  BY <1>1, Push
<1> HIDE DEF t
<1>3. Len(s) = Len(t) /\ t[n] = e /\ s[n] = s[Len(s)]
  <2>1. Len(r) + 1 = n
    BY <1>1
  <2> QED BY <1>2, <2>1 DEF n
<1>4. \A k \in DOMAIN s : Similar(s[k], t[k])
  BY <1>1, <1>2, <1>3 DEF Similar
<1>5. CallsFit(t, x, src)
  BY <1>2, <1>3, <1>4, FitSimilar
<1> QED BY <1>2, <1>5 DEF t, r

-----------------------------------------------------------------------------
(* The calls in progress. *)

(* TypeOK, but for what the function on top does next. *)
Shaped ==
  /\ made \in SUBSET Cells
  /\ fn \in [Cells -> Fns \cup {None}]
  /\ value \in [Cells -> Values]
  /\ state \in [Cells -> {Clean, Check, Dirty}]
  /\ sources \in [Cells -> Seq(Cells)]
  /\ observers \in [Cells -> Seq(Cells \cup {Cleanup})]
  /\ cleanups \in [Cells -> Nat]
  /\ current \in Cells \cup {None} /\ gets \in Seq(Cells) /\ index \in Nat
  /\ stack \in Seq(FrameSet)
  /\ log \in [Cells -> Seq(Seen)] /\ moved \in [Cells -> BOOLEAN]
  /\ ran \in SUBSET Cells

(* The function on top is one that the cell may have: it takes a step. *)
LEMMA TypeFollows ==
  ASSUME Functions, Shaped, CallsFit(stack, context, sources)
  PROVE  TypeOK
<1>1. ASSUME In("update") PROVE Next1 \in Steps
  <2>1. stack \in Seq(FrameSet) /\ stack # <<>>
    BY <1>1 DEF Shaped, In, Idle
  <2>2. Top \in FrameSet /\ Len(stack) \in DOMAIN stack
    BY <2>1, Last, LenProperties DEF Top
  <2>3. FrameFits(Top)
    BY <2>2 DEF CallsFit, Top
  <2>4. Top.fn \in Fns
    BY <1>1, <2>2, <2>3, DataAssumption DEF In, FrameFits, FrameSet
  <2>5. Top.seen \in Seq(Seen)
    BY <2>2 DEF FrameSet
  <2> QED BY <2>4, <2>5 DEF Functions, Next1
<1> QED BY <1>1 DEF Shaped, TypeOK

LEMMA TypeFollowsNext ==
  ASSUME Functions, Shaped', CallsFit(stack, context, sources)'
  PROVE  TypeOK'
<1>1. ASSUME In("update")' PROVE Next1' \in Steps
  <2>1. stack' \in Seq(FrameSet) /\ stack' # <<>>
    BY <1>1 DEF Shaped, In, Idle
  <2>2. Top' \in FrameSet /\ Len(stack') \in DOMAIN stack'
    BY <2>1, Last, LenProperties DEF Top
  <2>3. FrameFits(Top')
    BY <2>2 DEF CallsFit, Top
  <2>4. Top'.fn \in Fns
    BY <1>1, <2>2, <2>3, DataAssumption DEF In, FrameFits, FrameSet
  <2>5. Top'.seen \in Seq(Seen)
    BY <2>2 DEF FrameSet
  <2> QED BY <2>4, <2>5 DEF Functions, Next1
<1> QED BY <1>1 DEF Shaped, TypeOK

(* A call goes on in its loop, or sees a result. *)
LEMMA FrameChanges ==
  ASSUME NEW f \in FrameSet
  PROVE  /\ [f EXCEPT !.arg = @ + 1] \in FrameSet
         /\ Similar(f, [f EXCEPT !.arg = @ + 1])
         /\ \A r \in Seen : /\ [f EXCEPT !.seen = Append(@, r)] \in FrameSet
                             /\ Similar(f, [f EXCEPT !.seen = Append(@, r)])
<1> DEFINE O == {"Read", "Write", "WriteFn", "stale", "updateIfNecessary",
                 "update"}
           A == Nat \ {0}
           F == Fns \cup {None}
           L == Seq(Cells)
           E == Seq(Seen)
           X == (Cells \cup {None}) \X Seq(Cells) \X Nat
           R == [op : O, cell : Cells, arg : A, val : Values, fn : F, list : L,
                 seen : E, saved : X]
<1>1. FrameSet = R
  BY DEF FrameSet
<1>2. \A a \in A : a + 1 \in A
  OBVIOUS
<1>3. \A s \in E, r \in Seen : Append(s, r) \in E
  OBVIOUS
<1> HIDE DEF O, A, F, L, E, X
<1>4. [f EXCEPT !.arg = @ + 1] \in R /\ Similar(f, [f EXCEPT !.arg = @ + 1])
  BY <1>1, <1>2 DEF Similar
<1>5. \A r \in Seen : /\ [f EXCEPT !.seen = Append(@, r)] \in R
                      /\ Similar(f, [f EXCEPT !.seen = Append(@, r)])
  BY <1>1, <1>3 DEF Similar
<1> QED BY <1>1, <1>4, <1>5

LEMMA Calls ==
  ASSUME TypeOK, ~Idle
  PROVE  /\ stack \in Seq(FrameSet) /\ stack # <<>>
         /\ Top \in FrameSet /\ Top = stack[Len(stack)]
         /\ Len(stack) \in DOMAIN stack
         /\ Rest \in Seq(FrameSet) /\ Rest = SubSeq(stack, 1, Len(stack) - 1)
<1>1. stack \in Seq(FrameSet) /\ stack # <<>>
  BY DEF TypeOK, Idle
<1>2. Rest \in Seq(FrameSet)
  BY <1>1, Shrink DEF Rest
<1>3. Top \in FrameSet /\ Len(stack) \in DOMAIN stack
  BY <1>1, Last, LenProperties DEF Top
<1> QED BY <1>1, <1>2, <1>3 DEF Top, Rest

(* A loop goes on. *)
LEMMA AdvancedFits ==
  ASSUME TypeOK, ~Idle, CallsFit(stack, context, sources)
  PROVE  Advanced \in Seq(FrameSet) /\ CallsFit(Advanced, context, sources)
<1> DEFINE e == [Top EXCEPT !.arg = @ + 1]
<1>1. /\ stack \in Seq(FrameSet) /\ stack # <<>> /\ Top \in FrameSet
      /\ Top = stack[Len(stack)]
  BY Calls
<1>2. e \in FrameSet /\ Similar(Top, e)
  BY <1>1, FrameChanges
<1> HIDE DEF e
<1>4. LET t == Append(SubSeq(stack, 1, Len(stack) - 1), e)
      IN  t \in Seq(FrameSet) /\ CallsFit(t, context, sources)
  BY <1>1, <1>2, FitReplaced
<1> QED BY <1>4 DEF Advanced, Rest, e

(* A call returns to the function that made it, which sees the result.     *)
LEMMA ReturnedFits ==
  ASSUME TypeOK, ~Idle, CallsFit(stack, context, sources), ~Updates(Top),
         NEW c \in Cells \cup {None}, NEW v \in Values
  PROVE  /\ Returned(c, v) \in Seq(FrameSet)
         /\ CallsFit(Returned(c, v), context, sources)
<1>1. /\ stack \in Seq(FrameSet) /\ stack # <<>> /\ Rest \in Seq(FrameSet)
      /\ Top = stack[Len(stack)] /\ Rest = SubSeq(stack, 1, Len(stack) - 1)
  BY Calls
<1>2. CallsFit(Rest, context, sources)
  BY <1>1, FitPop
<1>3. CASE Rest = <<>>
  BY <1>3, FitIdle DEF Returned
<1>4. CASE Rest # <<>>
  <2> DEFINE n == Len(Rest)
             e == [Rest[n] EXCEPT !.seen = Append(@, [cell |-> c, val |-> v])]
             t == [Rest EXCEPT ![n] = e]
  <2>1. /\ Rest[n] \in FrameSet /\ n \in 1 .. n /\ DOMAIN Rest = 1 .. n
        /\ n \in Nat
    BY <1>1, <1>4, Last, LenProperties
  <2>2. [cell |-> c, val |-> v] \in Seen
    BY DEF Seen
  <2>3. e \in FrameSet /\ Similar(Rest[n], e)
    BY <2>1, <2>2, FrameChanges
  <2>5. t = Returned(c, v)
    BY <1>4, <2>1 DEF Returned
  <2> HIDE DEF e, n
  <2>6. /\ t \in Seq(FrameSet) /\ Len(t) = n
        /\ \A k \in 1 .. n : t[k] = IF k = n THEN e ELSE Rest[k]
    <3>1. \A q \in Seq(FrameSet) : \A i \in 1 .. Len(q) :
            /\ [q EXCEPT ![i] = e] \in Seq(FrameSet)
            /\ Len([q EXCEPT ![i] = e]) = Len(q)
            /\ \A j \in 1 .. Len(q) :
                 [q EXCEPT ![i] = e][j] = IF j = i THEN e ELSE q[j]
      BY <2>3, ExceptSeq
    <3> QED BY <1>1, <2>1, <3>1 DEF n
  <2>7. \A k \in DOMAIN Rest : Similar(Rest[k], t[k])
    BY <2>1, <2>3, <2>6 DEF Similar
  <2> HIDE DEF t
  <2>8. CallsFit(t, context, sources)
    BY <1>1, <1>2, <2>6, <2>7, FitSimilar DEF n
  <2> QED BY <2>5, <2>6, <2>8
<1> QED BY <1>3, <1>4

-----------------------------------------------------------------------------
(* One action at a time. *)

(* Nobody reads, writes over or is given a function. *)
LEMMA LinksKept ==
  ASSUME RInv, UNCHANGED <<fn, sources, observers>>
  PROVE  Sunk' /\ LinksMutual'
BY DEF RInv, Sunk, LinksMutual

LEMMA NewFrame ==
  ASSUME NEW op \in {"Read", "Write", "WriteFn", "stale", "updateIfNecessary",
                     "update"},
         NEW c \in Cells, NEW v \in Values, NEW f \in Fns \cup {None}
  PROVE  LET e == Frame(op, c, v, f)
         IN  /\ e \in FrameSet
             /\ e.op = op /\ e.cell = c /\ e.val = v /\ e.fn = f
             /\ e.list = <<>>
<1> DEFINE X == (Cells \cup {None}) \X Seq(Cells) \X Nat
<1>1. <<None, <<>>, 0>> \in X
  BY EmptySeq
<1>2. <<>> \in Seq(Cells) /\ <<>> \in Seq(Seen) /\ 1 \in Nat \ {0}
  OBVIOUS
<1>3. FrameSet =
        [op : {"Read", "Write", "WriteFn", "stale", "updateIfNecessary",
               "update"},
         cell : Cells, arg : Nat \ {0}, val : Values, fn : Fns \cup {None},
         list : Seq(Cells), seen : Seq(Seen), saved : X]
  BY DEF FrameSet
<1> HIDE DEF X
<1> QED BY <1>1, <1>2, <1>3 DEF Frame

LEMMA NewCheck ==
  ASSUME TypeOK, Sunk, NEW c \in Cells
  PROVE  /\ CheckFrame(c) \in FrameSet /\ FrameFits(CheckFrame(c))
         /\ CheckFrame(c).op = "updateIfNecessary" /\ CheckFrame(c).cell = c
<1>1. sources[c] \in Seq(Cells)
  BY DEF TypeOK
<1>2. Zero \in Values /\ None \in Fns \cup {None}
  BY DataAssumption
<1> DEFINE e == Frame("updateIfNecessary", c, Zero, None)
<1>3. /\ e \in FrameSet /\ e.op = "updateIfNecessary" /\ e.cell = c
  BY <1>2, NewFrame
<1> HIDE DEF e
<1>4. /\ [e EXCEPT !.list = sources[c]] \in FrameSet
      /\ [e EXCEPT !.list = sources[c]].op = "updateIfNecessary"
      /\ [e EXCEPT !.list = sources[c]].cell = c
      /\ [e EXCEPT !.list = sources[c]].list = sources[c]
  <2> DEFINE X == (Cells \cup {None}) \X Seq(Cells) \X Nat
  <2>1. FrameSet =
          [op : {"Read", "Write", "WriteFn", "stale", "updateIfNecessary",
                 "update"},
           cell : Cells, arg : Nat \ {0}, val : Values, fn : Fns \cup {None},
           list : Seq(Cells), seen : Seq(Seen), saved : X]
    BY DEF FrameSet
  <2> HIDE DEF X
  <2> QED BY <1>1, <1>3, <2>1
<1>5. CheckFrame(c) = [e EXCEPT !.list = sources[c]]
  BY DEF CheckFrame, e
<1> QED BY <1>4, <1>5 DEF Sunk, FrameFits

(* What comes before the cell of the call on top comes before the          *)
(* functions that run below it. *)
LEMMA BelowRest ==
  ASSUME Layered, TypeOK, ~Idle, Below(Rest, Top.cell),
         NEW d \in Cells, Rank[d] < Rank[Top.cell]
  PROVE  Below(Rest, d)
<1>1. Top \in FrameSet /\ Rest \in Seq(FrameSet)
  BY Calls
<1>2. Top.cell \in Cells
  BY <1>1 DEF FrameSet
<1> SUFFICES ASSUME NEW k \in DOMAIN Rest, Updates(Rest[k])
             PROVE  Rank[d] < Rank[Rest[k].cell]
  BY DEF Below
<1>3. Rank[Top.cell] < Rank[Rest[k].cell]
  BY DEF Below
<1>4. Rest[k] \in FrameSet
  BY <1>1, ElementOfSeq, LenProperties
<1>5. Rest[k].cell \in Cells
  BY <1>4 DEF FrameSet
<1>6. Rank \in [Cells -> Nat]
  BY RankFalls
<1> QED BY <1>2, <1>3, <1>5, <1>6

LEMMA BelowPush ==
  ASSUME NEW s \in Seq(FrameSet), NEW e \in FrameSet, ~Updates(e),
         NEW d, Below(s, d)
  PROVE  Below(Append(s, e), d)
<1>1. /\ DOMAIN Append(s, e) = 1 .. Len(s) + 1
      /\ DOMAIN s = 1 .. Len(s) /\ Len(s) \in Nat
      /\ \A k \in 1 .. Len(s) : Append(s, e)[k] = s[k]
      /\ Append(s, e)[Len(s) + 1] = e
  BY Push, LenProperties
<1>2. \A k \in 1 .. Len(s) + 1 : k \in 1 .. Len(s) \/ k = Len(s) + 1
  BY <1>1
<1> QED BY <1>1, <1>2 DEF Below

(* The function on top: what it has read is on record, and what it reads   *)
(* or writes next comes before its cell. *)
LEMMA Running ==
  ASSUME Proper, RInv, In("update")
  PROVE  /\ Top.cell \in Cells /\ Top.cell = current /\ Updates(Top)
         /\ Records(Top.cell, context, sources)
         /\ CallsFit(Rest, Top.saved, sources) /\ Below(Rest, Top.cell)
         /\ Next1 \in Steps
         /\ Next1.do \in {"read", "write"} =>
              /\ Next1.cell \in Cells /\ Rank[Next1.cell] < Rank[Top.cell]
              /\ Below(stack, Next1.cell)
<1> DEFINE n == Len(stack)
<1>1. /\ ~Idle /\ stack \in Seq(FrameSet) /\ stack # <<>>
      /\ Top \in FrameSet /\ Top = stack[n] /\ n \in DOMAIN stack
      /\ Rest = SubSeq(stack, 1, n - 1)
  BY Calls DEF RInv, In
<1>2. Top.op = "update" /\ Updates(Top)
  BY DEF In, Updates
<1>3. CallsFit(stack, context, sources)
  BY DEF RInv
<1>4. Records(Top.cell, context, sources)
  BY <1>1, <1>2, <1>3, FitContext
<1>5. CallsFit(Rest, Top.saved, sources) /\ Below(Rest, Top.cell)
  BY <1>1, <1>2, <1>3, FitPop DEF Downward
<1>6. Top.cell \in Cells /\ Top.seen \in Seq(Seen)
  BY <1>1 DEF FrameSet
<1>7. Top.fn \in FnsOf(Top.cell)
  BY <1>1, <1>2, <1>3 DEF CallsFit, FrameFits
<1>8. Next1 \in Steps
  BY DEF RInv, TypeOK
<1>9. ASSUME Next1.do \in {"read", "write"}
      PROVE  /\ Next1.cell \in Cells /\ Rank[Next1.cell] < Rank[Top.cell]
             /\ Below(stack, Next1.cell)
  <2>1. Top.fn \in Fns
    BY <1>6, <1>7, DataAssumption
  <2>2. Next1.cell \in Uses(Top.fn) /\ Next1.cell \in Cells
    BY <1>6, <1>9, <2>1 DEF Proper, Functions, Next1
  <2>3. Rank[Next1.cell] < Rank[Top.cell] /\ Rank \in [Cells -> Nat]
    BY <1>6, <1>7, <2>2, RankFalls DEF Proper
  <2>4. ASSUME NEW k \in DOMAIN stack, Updates(stack[k])
        PROVE  Rank[Next1.cell] < Rank[stack[k].cell]
    <3>1. k = n \/ (k \in DOMAIN Rest /\ Rest[k] = stack[k])
      <4>1. /\ n \in Nat \ {0} /\ DOMAIN stack = 1 .. n
            /\ Rest \in Seq(FrameSet) /\ Len(Rest) = n - 1
            /\ \A j \in 1 .. (n - 1) : Rest[j] = stack[j]
        BY <1>1, Shrink, Last, LenProperties
      <4>2. DOMAIN Rest = 1 .. (n - 1)
        BY <4>1, LenProperties
      <4>3. k = n \/ k \in 1 .. (n - 1)
        BY <2>4, <4>1
      <4> QED BY <4>1, <4>2, <4>3
    <3>2. CASE k = n
      BY <1>1, <2>3, <3>2
    <3>3. CASE k \in DOMAIN Rest /\ Rest[k] = stack[k]
      <4>1. Below(Rest, Next1.cell)
        BY <1>1, <1>5, <2>2, <2>3, BelowRest DEF Proper, RInv
      <4> QED BY <2>4, <3>3, <4>1 DEF Below
    <3> QED BY <3>1, <3>2, <3>3
  <2> QED BY <2>2, <2>3, <2>4 DEF Below
<1>10. Top.cell = current
  BY <1>4 DEF Records, context
<1> QED BY <1>2, <1>4, <1>5, <1>6, <1>8, <1>9, <1>10

(* An action that leaves the links and the functions as they are.          *)
LEMMA Kept ==
  ASSUME Proper, RInv, UNCHANGED <<fn, sources, observers>>,
         Shaped', CallsFit(stack', context', sources)
  PROVE  RInv'
<1>1. Sunk' /\ LinksMutual'
  BY LinksKept
<1>2. CallsFit(stack, context, sources)'
  BY DEF context
<1>3. TypeOK'
  BY <1>2, TypeFollowsNext DEF Proper
<1> QED BY <1>1, <1>2, <1>3 DEF RInv

LEMMA SignalKeeps ==
  ASSUME Proper, RInv, NEW c \in Signals, NEW v \in Values, Signal(c, v)
  PROVE  RInv'
<1>1. Shaped'
  BY DEF RInv, TypeOK, Shaped, Signal, context, Cells
<1>2. CallsFit(stack', context', sources)
  BY DEF RInv, Signal, context
<1> QED BY <1>1, <1>2, Kept DEF Signal

(* A cell gets a function that it may have. *)
LEMMA SunkWith ==
  ASSUME RInv, NEW c \in Cells, NEW f \in FnsOf(c),
         fn' = [fn EXCEPT ![c] = f], UNCHANGED <<sources, observers>>
  PROVE  Sunk' /\ LinksMutual'
<1>1. fn \in [Cells -> Fns \cup {None}]
  BY DEF RInv, TypeOK
<1> QED BY <1>1 DEF RInv, Sunk, LinksMutual

LEMMA MemoKeeps ==
  ASSUME Proper, RInv, NEW c \in Memos, NEW f \in FnsOf(c), Memo(c, f)
  PROVE  RInv'
<1>1. c \in Cells /\ f \in Fns
  BY DataAssumption DEF Cells
<1>2. Shaped'
  BY <1>1 DEF RInv, TypeOK, Shaped, Memo, context, Dirty
<1>3. CallsFit(stack, context, sources)'
  BY DEF RInv, Memo, context
<1>4. Sunk' /\ LinksMutual'
  BY <1>1, SunkWith DEF Memo
<1> QED BY <1>2, <1>3, <1>4, TypeFollowsNext DEF RInv, Proper

(* A function is called. *)
LEMMA EnterFits ==
  ASSUME RInv, NEW c \in Cells, NEW f \in FnsOf(c), NEW s \in Seq(FrameSet),
         CallsFit(s, context, sources), Below(s, c), Enter(c, f, s)
  PROVE  /\ stack' \in Seq(FrameSet) /\ CallsFit(stack', context', sources)
         /\ current' \in Cells \cup {None} /\ gets' \in Seq(Cells)
         /\ index' \in Nat /\ cleanups' \in [Cells -> Nat]
         /\ ran' \in SUBSET Cells
<1> DEFINE X == (Cells \cup {None}) \X Seq(Cells) \X Nat
           d == Frame("update", c, value[c], f)
           e == [d EXCEPT !.saved = <<current, gets, index>>]
<1>1. f \in Fns /\ value[c] \in Values /\ sources \in [Cells -> Seq(Cells)]
  BY DataAssumption DEF RInv, TypeOK
<1>2. context \in X
  BY DEF RInv, TypeOK, context
<1>3. /\ d \in FrameSet /\ d.op = "update" /\ d.cell = c /\ d.fn = f
  BY <1>1, NewFrame
<1>4. FrameSet =
        [op : {"Read", "Write", "WriteFn", "stale", "updateIfNecessary",
               "update"},
         cell : Cells, arg : Nat \ {0}, val : Values, fn : Fns \cup {None},
         list : Seq(Cells), seen : Seq(Seen), saved : X]
  BY DEF FrameSet
<1> HIDE DEF X, d
<1>5. /\ e \in FrameSet /\ e.op = "update" /\ e.cell = c /\ e.fn = f
      /\ e.saved = context
  BY <1>2, <1>3, <1>4 DEF context
<1>6. stack' = Append(s, e)
  BY DEF Enter, d
<1> HIDE DEF e
<1>7. FrameFits(e) /\ Updates(e)
  BY <1>5 DEF FrameFits, Updates
<1>8. CallsFit(Append(s, e), <<c, <<>>, 0>>, sources)
  <2>1. CallsFit(Append(s, e), <<e.cell, <<>>, 0>>, sources)
    BY <1>1, <1>5, <1>7, FitEnter
  <2> QED BY <1>5, <2>1
<1>9. context' = <<c, <<>>, 0>>
  BY DEF Enter, context
<1>10. stack' \in Seq(FrameSet)
  BY <1>5, <1>6, Push
<1>11. /\ current' \in Cells \cup {None} /\ gets' \in Seq(Cells)
       /\ index' \in Nat /\ cleanups' \in [Cells -> Nat]
       /\ ran' \in SUBSET Cells
  BY DEF Enter, RInv, TypeOK
<1> QED BY <1>6, <1>8, <1>9, <1>10, <1>11

LEMMA EffectKeeps ==
  ASSUME Proper, RInv, NEW c \in Effects, NEW f \in FnsOf(c), Effect(c, f)
  PROVE  RInv'
<1>1. c \in Cells /\ f \in Fns
  BY DataAssumption DEF Cells
<1>2. /\ <<>> \in Seq(FrameSet) /\ CallsFit(<<>>, context, sources)
      /\ Below(<<>>, c) /\ Enter(c, f, <<>>)
  BY FitIdle DEF Below, Effect
<1>3. /\ stack' \in Seq(FrameSet) /\ CallsFit(stack', context', sources)
      /\ current' \in Cells \cup {None} /\ gets' \in Seq(Cells)
      /\ index' \in Nat /\ cleanups' \in [Cells -> Nat]
      /\ ran' \in SUBSET Cells
  BY <1>1, <1>2, EnterFits
<1>4. Shaped'
  BY <1>1, <1>3 DEF RInv, TypeOK, Shaped, Effect, Dirty
<1>5. CallsFit(stack, context, sources)'
  BY <1>3 DEF Effect, context
<1>6. Sunk' /\ LinksMutual'
  BY <1>1, SunkWith DEF Effect
<1> QED BY <1>4, <1>5, <1>6, TypeFollowsNext DEF RInv, Proper

LEMMA StablizeKeeps ==
  ASSUME Proper, RInv, UNCHANGED vars
  PROVE  RInv'
<1>1. Shaped'
  BY DEF RInv, TypeOK, Shaped, vars, graphVars, dataVars, context, histVars
<1>2. CallsFit(stack', context', sources)
  BY DEF RInv, vars, context
<1> QED BY <1>1, <1>2, Kept DEF vars, graphVars

(* What the read of c adds to the record of the function that makes it.    *)
LEMMA Tracked ==
  ASSUME Proper, RInv, NEW c \in Cells, Track(c),
         Idle \/ (Doing("read") /\ Next1.cell = c)
  PROVE  /\ current' \in Cells \cup {None} /\ gets' \in Seq(Cells)
         /\ index' \in Nat
         /\ CallsFit(stack, context', sources)
<1>1. /\ current \in Cells \cup {None} /\ gets \in Seq(Cells) /\ index \in Nat
      /\ sources \in [Cells -> Seq(Cells)] /\ stack \in Seq(FrameSet)
  BY DEF RInv, TypeOK
<1>2. /\ current' \in Cells \cup {None} /\ gets' \in Seq(Cells)
      /\ index' \in Nat
  <2>1. \/ UNCHANGED context
        \/ index' = index + 1 /\ UNCHANGED <<current, gets>>
        \/ gets' = Append(gets, c) /\ UNCHANGED <<current, index>>
    BY DEF Track
  <2>2. Append(gets, c) \in Seq(Cells) /\ index + 1 \in Nat
    BY <1>1
  <2> QED BY <1>1, <2>1, <2>2 DEF context
<1>3. CASE Idle
  <2>1. CallsFit(<<>>, context', sources)
    BY FitIdle
  <2>2. stack = <<>>
    BY <1>3 DEF Idle
  <2> QED BY <1>2, <2>1, <2>2
<1>4. CASE Doing("read") /\ Next1.cell = c
  <2>1. /\ current \in Cells /\ Records(current, context, sources)
        /\ current = Top.cell /\ Rank[c] < Rank[current] /\ Updates(Top)
    BY <1>4, Running DEF Doing, Next1
  <2>2. /\ index \in 0 .. Len(sources[current])
        /\ \A k \in DOMAIN gets : Rank[gets[k]] < Rank[current]
        /\ index > 0 => gets # <<>>
    BY <2>1 DEF Records, context
  <2>3. Len(sources[current]) \in Nat
    BY <1>1, <2>1, LenProperties
  <2>4. current # None
    BY <2>1, KindsAssumption
  <2>5. Records(current, context', sources)
    <3>1. CASE Again(c)
      <4>1. index' = index + 1 /\ current' = current /\ gets' = gets
        BY <2>4, <3>1 DEF Track
      <4>2. gets # <<>> /\ index + 1 <= Len(sources[current])
        BY <1>1, <2>3, <3>1 DEF Again
      <4>3. index + 1 \in 0 .. Len(sources[current])
        BY <1>1, <2>3, <4>2
      <4> QED BY <1>1, <2>2, <4>1, <4>2, <4>3 DEF Records, context
    <3>2. CASE ~Again(c)
      <4>1. index' = index /\ current' = current /\ gets' = Append(gets, c)
        BY <2>4, <3>2 DEF Track
      <4>2. \A k \in DOMAIN Append(gets, c) :
              Rank[Append(gets, c)[k]] < Rank[current]
        <5>1. /\ DOMAIN Append(gets, c) = 1 .. Len(gets) + 1
              /\ DOMAIN gets = 1 .. Len(gets) /\ Len(gets) \in Nat
              /\ \A k \in 1 .. Len(gets) : Append(gets, c)[k] = gets[k]
              /\ Append(gets, c)[Len(gets) + 1] = c
          BY <1>1, Push, LenProperties
        <5>2. \A k \in 1 .. Len(gets) + 1 : k \in 1 .. Len(gets) \/ k = Len(gets) + 1
          BY <5>1
        <5> QED BY <2>1, <2>2, <5>1, <5>2
      <4>3. Append(gets, c) \in Seq(Cells) /\ Append(gets, c) # <<>>
        BY <1>1, Push
      <4> QED BY <2>2, <4>1, <4>2, <4>3 DEF Records, context
    <3> QED BY <3>1, <3>2
  <2>6. stack # <<>> /\ Top = stack[Len(stack)] /\ CallsFit(stack, context, sources)
    BY <1>4 DEF Doing, In, Idle, Top, RInv
  <2> QED BY <1>1, <1>2, <2>1, <2>5, <2>6, FitContext
<1> QED BY <1>2, <1>3, <1>4

LEMMA CallReadKeeps ==
  ASSUME Proper, RInv, NEW c \in Cells, CallRead(c)
  PROVE  RInv'
<1>1. /\ current' \in Cells \cup {None} /\ gets' \in Seq(Cells)
      /\ index' \in Nat
      /\ CallsFit(stack, context', sources)
  BY Tracked DEF CallRead
<1>2. stack \in Seq(FrameSet)
  BY DEF RInv, TypeOK
<1>3. Below(stack, c)
  <2>1. CASE Idle
    BY <2>1 DEF Below, Idle
  <2>2. CASE Doing("read") /\ Next1.cell = c
    BY <2>2, Running DEF Doing, Next1
  <2> QED BY <2>1, <2>2 DEF CallRead
<1> DEFINE a == Frame("Read", c, Zero, None)
           b == CheckFrame(c)
<1>4. /\ a \in FrameSet /\ a.op = "Read"
      /\ b \in FrameSet /\ FrameFits(b) /\ b.op = "updateIfNecessary"
      /\ b.cell = c
  BY NewFrame, NewCheck, DataAssumption DEF RInv
<1> HIDE DEF a, b
<1>5. Append(stack, a) \in Seq(FrameSet) /\ CallsFit(Append(stack, a), context', sources)
  <2>1. FrameFits(a) /\ ~Updates(a) /\ a.op \notin Downward
    BY <1>4 DEF FrameFits, Updates, Downward
  <2> QED BY <1>1, <1>2, <1>4, <2>1, FitPush, Push
<1>6. /\ Append(Append(stack, a), b) \in Seq(FrameSet)
      /\ CallsFit(Append(Append(stack, a), b), context', sources)
  <2>1. ~Updates(b)
    BY <1>4 DEF Updates
  <2>2. Below(Append(stack, a), b.cell)
    <3>1. ~Updates(a)
      BY <1>4 DEF Updates
    <3> QED BY <1>2, <1>3, <1>4, <3>1, BelowPush
  <2> QED BY <1>4, <1>5, <2>1, <2>2, FitPush, Push
<1>7. /\ stack \o <<a>> = Append(stack, a)
      /\ stack \o <<a, b>> = Append(Append(stack, a), b)
  BY <1>2, <1>4
<1>8. stack' \in Seq(FrameSet) /\ CallsFit(stack', context', sources)
  <2>1. stack' = stack \o ReadFrames(c)
    BY DEF CallRead
  <2>2. ReadFrames(c) = IF fn[c] = None THEN <<a>> ELSE <<a, b>>
    BY DEF ReadFrames, a, b
  <2> QED BY <1>5, <1>6, <1>7, <2>1, <2>2
<1>9. Shaped'
  BY <1>1, <1>8 DEF RInv, TypeOK, Shaped, CallRead, graphVars, dataVars
<1> QED BY <1>8, <1>9, Kept DEF CallRead, graphVars

(* A call returns, and nothing but values, marks and history has changed.  *)
LEMMA ReadEndKeeps ==
  ASSUME Proper, RInv, ReadEnd
  PROVE  RInv'
<1>1. ~Idle /\ ~Updates(Top) /\ Top \in FrameSet
  BY Calls DEF ReadEnd, In, Updates, RInv
<1>2. Top.cell \in Cells /\ value[Top.cell] \in Values
  BY <1>1 DEF FrameSet, RInv, TypeOK
<1>3. /\ stack' \in Seq(FrameSet) /\ CallsFit(stack', context', sources)
      /\ ran' \in SUBSET Cells
  BY <1>1, <1>2, ReturnedFits DEF ReadEnd, Leave, RInv, TypeOK
<1>4. Shaped'
  BY <1>3 DEF ReadEnd, RInv, TypeOK, Shaped, graphVars, dataVars, context
<1> QED BY <1>3, <1>4, Kept DEF ReadEnd, graphVars

LEMMA CheckSourceKeeps ==
  ASSUME Proper, RInv, CheckSource
  PROVE  RInv'
<1>1. /\ ~Idle /\ ~Updates(Top) /\ Top.op = "updateIfNecessary"
      /\ Top.arg <= Len(Top.list)
  BY DEF CheckSource, Checking, In, Updates
<1>2. /\ stack \in Seq(FrameSet) /\ stack # <<>> /\ Top \in FrameSet
      /\ Top = stack[Len(stack)] /\ Len(stack) \in DOMAIN stack
      /\ Rest \in Seq(FrameSet) /\ Rest = SubSeq(stack, 1, Len(stack) - 1)
  BY <1>1, Calls DEF RInv
<1>3. Top.cell \in Cells /\ Top.list \in Seq(Cells) /\ Top.arg \in Nat \ {0}
  BY <1>2 DEF FrameSet
<1>4. PICK d : d = Top.list[Top.arg]
  OBVIOUS
<1>5. d \in Cells /\ Top.arg \in DOMAIN Top.list
  <2>1. Top.arg \in 1 .. Len(Top.list) /\ DOMAIN Top.list = 1 .. Len(Top.list)
    BY <1>1, <1>3, LenProperties
  <2> QED BY <1>3, <1>4, <2>1, ElementOfSeq
<1>6. Rank[d] < Rank[Top.cell] /\ Below(Rest, Top.cell)
  BY <1>1, <1>2, <1>4, <1>5, FitPop DEF RInv, CallsFit, FrameFits, Downward
<1>7. Advanced \in Seq(FrameSet) /\ CallsFit(Advanced, context, sources)
  BY <1>1, AdvancedFits DEF RInv
<1>8. Below(Advanced, d)
  <2>1. Below(Rest, d)
    BY <1>1, <1>5, <1>6, BelowRest DEF Proper, RInv
  <2>2. PICK e : e = [Top EXCEPT !.arg = @ + 1]
    OBVIOUS
  <2>3. e \in FrameSet /\ ~Updates(e)
    BY <1>1, <1>2, <2>2, FrameChanges DEF Similar, Updates
  <2>4. Advanced = Append(Rest, e)
    BY <2>2 DEF Advanced
  <2> QED BY <1>2, <2>1, <2>3, <2>4, BelowPush
<1>9. PICK e : e = CheckFrame(d)
  OBVIOUS
<1>10. /\ e \in FrameSet /\ FrameFits(e) /\ e.cell = d /\ ~Updates(e)
  BY <1>5, <1>9, NewCheck DEF RInv, Updates
<1>11. stack' = Append(Advanced, e)
  BY <1>4, <1>9 DEF CheckSource
<1>12. stack' \in Seq(FrameSet) /\ CallsFit(stack', context', sources)
  <2>1. /\ Append(Advanced, e) \in Seq(FrameSet)
        /\ CallsFit(Append(Advanced, e), context, sources)
    BY <1>7, <1>8, <1>10, FitPush, Push
  <2> QED BY <1>11, <2>1 DEF CheckSource
<1>13. Shaped'
  BY <1>12 DEF CheckSource, RInv, TypeOK, Shaped, graphVars, dataVars, context,
     histVars
<1> QED BY <1>12, <1>13, Kept DEF CheckSource, graphVars

(* The call on top ends. *)
LEMMA RestFits ==
  ASSUME RInv, ~Idle, ~Updates(Top)
  PROVE  Rest \in Seq(FrameSet) /\ CallsFit(Rest, context, sources)
<1>1. /\ stack \in Seq(FrameSet) /\ stack # <<>>
      /\ Top = stack[Len(stack)]
      /\ Rest \in Seq(FrameSet) /\ Rest = SubSeq(stack, 1, Len(stack) - 1)
  BY Calls DEF RInv
<1> QED BY <1>1, FitPop DEF RInv

LEMMA CheckEndKeeps ==
  ASSUME Proper, RInv, CheckEnd
  PROVE  RInv'
<1>1. ~Idle /\ ~Updates(Top)
  BY DEF CheckEnd, Checked, In, Updates
<1>2. stack' \in Seq(FrameSet) /\ CallsFit(stack', context', sources)
  BY <1>1, RestFits DEF CheckEnd
<1>3. Shaped'
  BY <1>2 DEF CheckEnd, RInv, TypeOK, Shaped, graphVars, context, histVars,
     Clean
<1> QED BY <1>2, <1>3, Kept DEF CheckEnd, graphVars

LEMMA UpdateKeeps ==
  ASSUME Proper, RInv, Update
  PROVE  RInv'
<1>1. /\ ~Idle /\ ~Updates(Top) /\ Top.op = "updateIfNecessary"
      /\ fn[Top.cell] # None
  BY DEF Update, Checked, In, Updates
<1>2. /\ stack \in Seq(FrameSet) /\ stack # <<>>
      /\ Top \in FrameSet /\ Top = stack[Len(stack)]
      /\ Rest = SubSeq(stack, 1, Len(stack) - 1)
  BY <1>1, Calls DEF RInv
<1>3. PICK c : c = Top.cell
  OBVIOUS
<1>4. c \in Cells
  BY <1>2, <1>3 DEF FrameSet
<1>5. fn[c] \in FnsOf(c)
  BY <1>1, <1>3, <1>4 DEF RInv, Sunk
<1>6. Below(Rest, c)
  BY <1>1, <1>2, <1>3, FitPop DEF RInv, Downward
<1>7. Rest \in Seq(FrameSet) /\ CallsFit(Rest, context, sources)
  BY <1>1, RestFits
<1>8. Enter(c, fn[c], Rest)
  BY <1>3 DEF Update
<1>9. /\ stack' \in Seq(FrameSet) /\ CallsFit(stack', context', sources)
      /\ current' \in Cells \cup {None} /\ gets' \in Seq(Cells)
      /\ index' \in Nat /\ cleanups' \in [Cells -> Nat]
      /\ ran' \in SUBSET Cells
  BY <1>4, <1>5, <1>6, <1>7, <1>8, EnterFits
<1>10. Shaped'
  BY <1>9 DEF Update, RInv, TypeOK, Shaped, dataVars
<1> QED BY <1>9, <1>10, Kept DEF Update

(* A panic ends all calls. *)
LEMMA UnwindKeeps ==
  ASSUME Proper, RInv, Unwind, UNCHANGED <<fn, sources, observers>>,
         made' \in SUBSET Cells, UNCHANGED <<value, state, log>>,
         current' \in Cells \cup {None}, gets' \in Seq(Cells), index' \in Nat,
         cleanups' \in [Cells -> Nat], moved' \in [Cells -> BOOLEAN]
  PROVE  RInv'
<1>1. stack' = <<>> /\ ran' = {}
  BY DEF Unwind, Leave
<1>2. stack' \in Seq(FrameSet) /\ CallsFit(stack', context', sources)
  BY <1>1, FitIdle
<1>3. Shaped'
  BY <1>1, <1>2 DEF RInv, TypeOK, Shaped
<1> QED BY <1>2, <1>3, Kept

LEMMA NilCallKeeps ==
  ASSUME Proper, RInv, NilCall
  PROVE  RInv'
<1>1. ~Idle /\ Top \in FrameSet
  BY Calls DEF NilCall, Checked, In, RInv
<1>2. Top.cell \in Cells
  BY <1>1 DEF FrameSet
<1>3. /\ current' \in Cells \cup {None} /\ gets' \in Seq(Cells)
      /\ index' \in Nat /\ cleanups' \in [Cells -> Nat]
  BY <1>2 DEF NilCall, RInv, TypeOK
<1>4. /\ made' \in SUBSET Cells /\ moved' \in [Cells -> BOOLEAN]
      /\ UNCHANGED <<fn, sources, observers, value, state, log>> /\ Unwind
  BY DEF NilCall, RInv, TypeOK, dataVars
<1> QED BY <1>3, <1>4, UnwindKeeps

LEMMA PanicKeeps ==
  ASSUME Proper, RInv, Panic
  PROVE  RInv'
BY UnwindKeeps DEF Panic, RInv, TypeOK, graphVars, dataVars, context

(* A cell is marked. *)
LEMMA StaleFits ==
  ASSUME RInv, NEW c \in Cells, NEW mark \in {Check, Dirty},
         NEW s \in Seq(FrameSet), CallsFit(s, context, sources),
         Stale(c, mark, s)
  PROVE  /\ stack' \in Seq(FrameSet) /\ CallsFit(stack', context, sources)
         /\ state' \in [Cells -> {Clean, Check, Dirty}]
<1>1. state' \in [Cells -> {Clean, Check, Dirty}]
  BY DEF RInv, TypeOK, Stale
<1>2. PICK e : e = Frame("stale", c, Zero, None)
  OBVIOUS
<1>3. e \in FrameSet /\ e.op = "stale"
  BY <1>2, NewFrame, DataAssumption
<1>4. FrameFits(e) /\ ~Updates(e) /\ e.op \notin Downward
  BY <1>3 DEF FrameFits, Updates, Downward
<1>5. /\ Append(s, e) \in Seq(FrameSet)
      /\ CallsFit(Append(s, e), context, sources)
  BY <1>3, <1>4, FitPush, Push
<1>6. stack' = s \/ stack' = Append(s, e)
  BY <1>2 DEF Stale
<1> QED BY <1>1, <1>5, <1>6

LEMMA CallWriteFnKeeps ==
  ASSUME Proper, RInv, NEW c \in Cells, NEW f \in FnsOf(c), CallWriteFn(c, f)
  PROVE  RInv'
<1>1. PICK e : e = Frame("WriteFn", c, Zero, f)
  OBVIOUS
<1>2. e \in FrameSet /\ e.op = "WriteFn" /\ e.cell = c /\ e.fn = f
  BY <1>1, NewFrame, DataAssumption
<1>3. FrameFits(e) /\ ~Updates(e) /\ e.op \notin Downward
  BY <1>2 DEF FrameFits, Updates, Downward
<1>4. <<e>> \in Seq(FrameSet) /\ CallsFit(<<e>>, context, sources)
  <2>1. <<>> \in Seq(FrameSet) /\ CallsFit(<<>>, context, sources)
    BY FitIdle
  <2>2. <<e>> = Append(<<>>, e)
    BY <1>2
  <2>3. CallsFit(Append(<<>>, e), context, sources)
    BY <1>2, <1>3, <2>1, FitPush
  <2> QED BY <1>2, <2>2, <2>3
<1>5. Stale(c, Dirty, <<e>>)
  BY <1>1 DEF CallWriteFn
<1>6. /\ stack' \in Seq(FrameSet) /\ CallsFit(stack', context, sources)
      /\ state' \in [Cells -> {Clean, Check, Dirty}]
  BY <1>4, <1>5, StaleFits
<1>7. Shaped'
  BY <1>6 DEF CallWriteFn, RInv, TypeOK, Shaped, graphVars, context
<1>8. CallsFit(stack', context', sources)
  BY <1>6 DEF CallWriteFn
<1> QED BY <1>7, <1>8, Kept DEF CallWriteFn, graphVars

(* The observers of the cell that is written or marked, one at a time.     *)
LEMMA ObserverIsCell ==
  ASSUME RInv, ~Idle, MoreObservers, Observer # Cleanup
  PROVE  Observer \in Cells
<1>1. Top \in FrameSet
  BY Calls DEF RInv
<1>2. /\ Top.cell \in Cells /\ Top.arg \in Nat \ {0}
      /\ observers[Top.cell] \in Seq(Cells \cup {Cleanup})
  BY <1>1 DEF FrameSet, RInv, TypeOK
<1>3. Top.arg \in 1 .. Len(observers[Top.cell])
  BY <1>2, LenProperties DEF MoreObservers
<1> QED BY <1>2, <1>3, ElementOfSeq DEF Observer

LEMMA WriteObserverKeeps ==
  ASSUME Proper, RInv, WriteObserver
  PROVE  RInv'
<1>1. ~Idle /\ Observer \in Cells /\ Stale(Observer, Dirty, Advanced)
  BY ObserverIsCell DEF WriteObserver, Writing, In
<1>2. Advanced \in Seq(FrameSet) /\ CallsFit(Advanced, context, sources)
  BY <1>1, AdvancedFits DEF RInv
<1>3. PICK d \in Cells : d = Observer
  BY <1>1
<1>4. /\ stack' \in Seq(FrameSet) /\ CallsFit(stack', context, sources)
      /\ state' \in [Cells -> {Clean, Check, Dirty}]
  BY <1>1, <1>2, <1>3, StaleFits
<1>5. Shaped' /\ CallsFit(stack', context', sources)
  BY <1>4 DEF WriteObserver, RInv, TypeOK, Shaped, graphVars, context, histVars
<1> QED BY <1>5, Kept DEF WriteObserver, graphVars

LEMMA StaleObserverKeeps ==
  ASSUME Proper, RInv, StaleObserver
  PROVE  RInv'
<1>1. ~Idle /\ Observer \in Cells /\ Stale(Observer, Check, Advanced)
  BY ObserverIsCell DEF StaleObserver, In
<1>2. Advanced \in Seq(FrameSet) /\ CallsFit(Advanced, context, sources)
  BY <1>1, AdvancedFits DEF RInv
<1>3. PICK d \in Cells : d = Observer
  BY <1>1
<1>4. /\ stack' \in Seq(FrameSet) /\ CallsFit(stack', context, sources)
      /\ state' \in [Cells -> {Clean, Check, Dirty}]
  BY <1>1, <1>2, <1>3, StaleFits
<1>5. Shaped' /\ CallsFit(stack', context', sources)
  BY <1>4 DEF StaleObserver, RInv, TypeOK, Shaped, graphVars, context, histVars
<1> QED BY <1>5, Kept DEF StaleObserver, graphVars

LEMMA WriteCleanupKeeps ==
  ASSUME Proper, RInv, WriteCleanup
  PROVE  RInv'
<1>1. ~Idle
  BY DEF WriteCleanup, Writing, In
<1>2. Advanced \in Seq(FrameSet) /\ CallsFit(Advanced, context, sources)
  BY <1>1, AdvancedFits DEF RInv
<1>3. Shaped' /\ CallsFit(stack', context', sources)
  BY <1>2 DEF WriteCleanup, RInv, TypeOK, Shaped, graphVars, dataVars, context,
     histVars
<1> QED BY <1>3, Kept DEF WriteCleanup, graphVars

LEMMA StaleEndKeeps ==
  ASSUME Proper, RInv, StaleEnd
  PROVE  RInv'
<1>1. ~Idle /\ ~Updates(Top)
  BY DEF StaleEnd, In, Updates
<1>2. Rest \in Seq(FrameSet) /\ CallsFit(Rest, context, sources)
  BY <1>1, RestFits
<1>3. Shaped' /\ CallsFit(stack', context', sources)
  BY <1>2 DEF StaleEnd, RInv, TypeOK, Shaped, graphVars, dataVars, context,
     histVars
<1> QED BY <1>3, Kept DEF StaleEnd, graphVars

LEMMA StaleCleanupKeeps ==
  ASSUME Proper, RInv, StaleCleanup
  PROVE  RInv'
<1>1. moved' \in [Cells -> BOOLEAN]
  BY DEF StaleCleanup
<1> QED BY <1>1, UnwindKeeps DEF StaleCleanup, RInv, TypeOK, graphVars,
        dataVars, context

LEMMA WriteSameKeeps ==
  ASSUME Proper, RInv, WriteSame
  PROVE  RInv'
<1>1. ~Idle /\ ~Updates(Top) /\ Top \in FrameSet
  BY Calls DEF WriteSame, In, Updates, RInv
<1>2. Top.val \in Values
  BY <1>1 DEF FrameSet
<1>3. /\ stack' \in Seq(FrameSet) /\ CallsFit(stack', context', sources)
      /\ ran' \in SUBSET Cells
  BY <1>1, <1>2, ReturnedFits DEF WriteSame, Leave, RInv, TypeOK
<1>4. Shaped'
  BY <1>3 DEF WriteSame, RInv, TypeOK, Shaped, graphVars, dataVars, context
<1> QED BY <1>3, <1>4, Kept DEF WriteSame, graphVars

LEMMA WriteEndKeeps ==
  ASSUME Proper, RInv, WriteEnd
  PROVE  RInv'
<1>1. ~Idle /\ ~Updates(Top) /\ Top \in FrameSet
  BY Calls DEF WriteEnd, Writing, In, Updates, RInv
<1>2. Top.val \in Values /\ Top.cell \in Cells
  BY <1>1 DEF FrameSet
<1>3. /\ stack' \in Seq(FrameSet) /\ CallsFit(stack', context', sources)
      /\ ran' \in SUBSET Cells
  BY <1>1, <1>2, ReturnedFits DEF WriteEnd, Leave, RInv, TypeOK
<1>4. moved' \in [Cells -> BOOLEAN]
  BY DEF WriteEnd, Moved, RInv, TypeOK
<1>5. Shaped'
  BY <1>2, <1>3, <1>4 DEF WriteEnd, RInv, TypeOK, Shaped, graphVars, context
<1> QED BY <1>3, <1>5, Kept DEF WriteEnd, graphVars

LEMMA WriteFnEndKeeps ==
  ASSUME Proper, RInv, WriteFnEnd
  PROVE  RInv'
<1>1. /\ ~Idle /\ Top.op = "WriteFn" /\ Top \in FrameSet
      /\ Top = stack[Len(stack)] /\ Len(stack) \in DOMAIN stack
  BY Calls DEF WriteFnEnd, In, RInv
<1>2. PICK c, f : c = Top.cell /\ f = Top.fn
  OBVIOUS
<1>3. c \in Cells /\ f \in FnsOf(c) /\ f \in Fns
  BY <1>1, <1>2, DataAssumption DEF FrameSet, RInv, CallsFit, FrameFits
<1>4. stack' = <<>> /\ ran' = {}
  BY DEF WriteFnEnd, Leave
<1>5. CallsFit(stack, context, sources)'
  BY <1>4, FitIdle
<1>6. fn' = [fn EXCEPT ![c] = f] /\ moved' = [moved EXCEPT ![c] = TRUE]
  BY <1>2 DEF WriteFnEnd
<1>7. Sunk' /\ LinksMutual'
  BY <1>3, <1>6, SunkWith DEF WriteFnEnd
<1>8. Shaped'
  <2>1. /\ fn' \in [Cells -> Fns \cup {None}]
        /\ moved' \in [Cells -> BOOLEAN]
    BY <1>3, <1>6 DEF RInv, TypeOK
  <2>2. stack' \in Seq(FrameSet) /\ ran' \in SUBSET Cells
    BY <1>4
  <2> QED BY <2>1, <2>2 DEF WriteFnEnd, RInv, TypeOK, Shaped, dataVars, context
<1> QED BY <1>5, <1>7, <1>8, TypeFollowsNext DEF RInv, Proper

(* Links, in other words. *)
LEMMA Mutual ==
  LinksMutual <=>
    \A c, d \in Cells : Has(sources[c], d) <=> Has(observers[d], c)
BY DEF LinksMutual, Has

LEMMA MutualNext ==
  ASSUME \A c, d \in Cells : Has(sources'[c], d) <=> Has(observers'[d], c)
  PROVE  LinksMutual'
BY DEF LinksMutual, Has

LEMMA HasMore ==
  ASSUME NEW S, NEW s \in Seq(S), NEW e \in S, NEW x
  PROVE  Has(Append(s, e), x) <=> Has(s, x) \/ x = e
<1>1. /\ DOMAIN Append(s, e) = 1 .. Len(s) + 1
      /\ DOMAIN s = 1 .. Len(s) /\ Len(s) \in Nat
      /\ \A k \in 1 .. Len(s) : Append(s, e)[k] = s[k]
      /\ Append(s, e)[Len(s) + 1] = e
  BY Push, LenProperties
<1>2. /\ \A k \in 1 .. Len(s) + 1 : k \in 1 .. Len(s) \/ k = Len(s) + 1
      /\ \A k \in 1 .. Len(s) : k \in 1 .. Len(s) + 1
      /\ Len(s) + 1 \in 1 .. Len(s) + 1
  BY <1>1
<1> QED BY <1>1, <1>2 DEF Has

LEMMA OnCleanupKeeps ==
  ASSUME Proper, RInv, OnCleanup
  PROVE  RInv'
<1>1. /\ ~Idle /\ Top \in FrameSet /\ stack \in Seq(FrameSet)
      /\ stack # <<>> /\ Top = stack[Len(stack)]
      /\ Rest = SubSeq(stack, 1, Len(stack) - 1)
  BY Calls DEF OnCleanup, Doing, In, RInv
<1>2. PICK r : r = [cell |-> None, val |-> Zero]
  OBVIOUS
<1>3. r \in Seen
  BY <1>2, DataAssumption DEF Seen
<1>4. PICK e : e = [Top EXCEPT !.seen = Append(@, r)]
  OBVIOUS
<1>5. e \in FrameSet /\ Similar(Top, e)
  BY <1>1, <1>3, <1>4, FrameChanges
<1>6. stack' = Append(Rest, e)
  BY <1>2, <1>4 DEF OnCleanup
<1>7. stack' \in Seq(FrameSet) /\ CallsFit(stack', context, sources)
  BY <1>1, <1>5, <1>6, FitReplaced DEF RInv
<1>8. current \in Cells
  BY Running DEF OnCleanup, Doing
<1>9. LinksMutual'
  <2>1. ASSUME NEW c \in Cells, NEW d \in Cells
        PROVE  Has(observers'[d], c) <=> Has(observers[d], c)
    <3>1. PICK s : s = observers[d]
      OBVIOUS
    <3>2. s \in Seq(Cells \cup {Cleanup}) /\ Cleanup \in Cells \cup {Cleanup}
      BY <3>1 DEF RInv, TypeOK
    <3>3. observers'[d] = IF d = current THEN Append(s, Cleanup) ELSE s
      BY <3>1 DEF OnCleanup, RInv, TypeOK
    <3>4. c # Cleanup
      BY KindsAssumption
    <3>5. Has(Append(s, Cleanup), c) <=> Has(s, c)
      BY <3>2, <3>4, HasMore
    <3> QED BY <3>1, <3>3, <3>5
  <2>2. sources' = sources
    BY DEF OnCleanup
  <2> QED BY <2>1, <2>2, Mutual, MutualNext DEF RInv
<1>10. Sunk'
  <2>1. UNCHANGED <<fn, sources>>
    BY DEF OnCleanup
  <2> QED BY <2>1 DEF RInv, Sunk
<1>11. observers' \in [Cells -> Seq(Cells \cup {Cleanup})]
  <2> DEFINE S == Cells \cup {Cleanup}
  <2>1. Cleanup \in S /\ observers \in [Cells -> Seq(S)]
    BY DEF RInv, TypeOK
  <2> HIDE DEF S
  <2>2. \A s \in Seq(S) : Append(s, Cleanup) \in Seq(S)
    BY <2>1
  <2>3. observers' \in [Cells -> Seq(S)]
    BY <2>1, <2>2 DEF OnCleanup
  <2> QED BY <2>3 DEF S
<1>12. cleanups' \in [Cells -> Nat]
  BY <1>8 DEF OnCleanup, RInv, TypeOK
<1>13. Shaped'
  BY <1>7, <1>11, <1>12 DEF OnCleanup, RInv, TypeOK, Shaped, dataVars, context,
     histVars
<1>14. CallsFit(stack, context, sources)'
  BY <1>7 DEF OnCleanup, context
<1> QED BY <1>9, <1>10, <1>13, <1>14, TypeFollowsNext DEF RInv, Proper

(* The write of a cell that has a function takes it out of the graph. *)
LEMMA CutOff ==
  ASSUME RInv, NEW c \in Cells, fn' = [fn EXCEPT ![c] = None],
         sources' = [sources EXCEPT ![c] = <<>>], observers' = Unlinked(c, 1)
  PROVE  /\ fn' \in [Cells -> Fns \cup {None}]
         /\ sources' \in [Cells -> Seq(Cells)]
         /\ observers' \in [Cells -> Seq(Cells \cup {Cleanup})]
         /\ Sunk' /\ LinksMutual'
<1>1. /\ fn \in [Cells -> Fns \cup {None}] /\ sources \in [Cells -> Seq(Cells)]
      /\ sources[c] \in Seq(Cells)
  BY DEF RInv, TypeOK
<1>2. /\ observers' \in [Cells -> Seq(Cells \cup {Cleanup})]
      /\ \A d \in Cells : \A e :
           Has(observers'[d], e) <=>
             /\ Has(observers[d], e)
             /\ e # c \/ \A k \in 1 .. Len(sources[c]) : sources[c][k] # d
  <2>1. PICK o : o = Unlinked(c, 1)
    OBVIOUS
  <2>2. /\ o \in ObserverLists
        /\ \A d \in Cells : \A e :
             Has(o[d], e) <=>
               /\ Has(observers[d], e)
               /\ e # c \/ \A k \in 1 .. Len(sources[c]) : sources[c][k] # d
    BY <2>1, UnlinkedKeeps DEF RInv
  <2>3. observers' = o
    BY <2>1
  <2> QED BY <2>2, <2>3 DEF ObserverLists
<1>3. \A d \in Cells :
        Has(sources[c], d) <=> \E k \in 1 .. Len(sources[c]) : sources[c][k] = d
  BY <1>1, LenProperties DEF Has
<1>4. ASSUME NEW a \in Cells, NEW d \in Cells
      PROVE  Has(sources'[a], d) <=> Has(observers'[d], a)
  <2>1. Has(sources[a], d) <=> Has(observers[d], a)
    BY Mutual DEF RInv
  <2>2. CASE a = c
    <3>1. ~Has(sources'[a], d)
      BY <1>1, <2>2 DEF Has
    <3>2. ~Has(observers'[d], a)
      BY <1>2, <1>3, <2>1, <2>2
    <3> QED BY <3>1, <3>2
  <2>3. CASE a # c
    BY <1>1, <1>2, <2>1, <2>3
  <2> QED BY <2>2, <2>3
<1>5. LinksMutual'
  BY <1>4, MutualNext
<1>6. Sunk'
  BY <1>1 DEF RInv, Sunk
<1> QED BY <1>1, <1>2, <1>5, <1>6

LEMMA CallWriteKeeps ==
  ASSUME Proper, RInv, NEW c \in Cells, NEW v \in Values, CallWrite(c, v)
  PROVE  RInv'
<1>1. stack \in Seq(FrameSet) /\ sources \in [Cells -> Seq(Cells)]
  BY DEF RInv, TypeOK
<1>2. Below(stack, c)
  <2>1. CASE Idle
    BY <2>1 DEF Below, Idle
  <2>2. CASE Doing("write") /\ Next1.cell = c
    BY <2>2, Running DEF Doing, Next1
  <2> QED BY <2>1, <2>2 DEF CallWrite
<1>3. /\ fn' \in [Cells -> Fns \cup {None}]
      /\ sources' \in [Cells -> Seq(Cells)]
      /\ observers' \in [Cells -> Seq(Cells \cup {Cleanup})]
      /\ Sunk' /\ LinksMutual'
      /\ \A d \in Cells : d # c => sources'[d] = sources[d]
  <2>1. CASE fn[c] = None
    <3>1. UNCHANGED <<fn, sources, observers>>
      BY <2>1 DEF CallWrite
    <3> QED BY <3>1, LinksKept DEF RInv, TypeOK
  <2>2. CASE fn[c] # None
    <3>1. /\ observers' = Unlinked(c, 1) /\ fn' = [fn EXCEPT ![c] = None]
          /\ sources' = [sources EXCEPT ![c] = <<>>]
      BY <2>2 DEF CallWrite
    <3> QED BY <1>1, <3>1, CutOff
  <2> QED BY <2>1, <2>2
<1>4. PICK e : e = Frame("Write", c, v, None)
  OBVIOUS
<1>5. e \in FrameSet /\ e.op = "Write"
  BY <1>4, NewFrame
<1>6. FrameFits(e) /\ ~Updates(e) /\ e.op \notin Downward
  BY <1>5 DEF FrameFits, Updates, Downward
<1>7. CallsFit(stack, context, sources')
  <2>1. ASSUME NEW k \in DOMAIN stack, Updates(stack[k])
        PROVE  sources'[stack[k].cell] = sources[stack[k].cell]
    <3>1. stack[k] \in FrameSet
      BY <1>1, ElementOfSeq, LenProperties
    <3>2. stack[k].cell \in Cells /\ Rank[c] < Rank[stack[k].cell]
      BY <1>2, <2>1, <3>1 DEF Below, FrameSet
    <3>3. stack[k].cell # c
      BY <3>2, RankFalls DEF Proper
    <3> QED BY <1>3, <3>2, <3>3
  <2> QED BY <1>1, <2>1, FitSources DEF RInv
<1>8. stack' = Append(stack, e)
  BY <1>4 DEF CallWrite
<1>9. stack' \in Seq(FrameSet) /\ CallsFit(stack', context, sources')
  BY <1>1, <1>5, <1>6, <1>7, <1>8, FitPush, Push
<1>10. Shaped'
  BY <1>3, <1>9 DEF CallWrite, RInv, TypeOK, Shaped, dataVars, context
<1>11. CallsFit(stack, context, sources)'
  BY <1>9 DEF CallWrite, context
<1> QED BY <1>3, <1>10, <1>11, TypeFollowsNext DEF RInv, Proper

(* The sources after a run: the old ones as far as they were read again,   *)
(* and if there are others, the rest of the old ones too. *)
LEMMA Relinks ==
  ASSUME NEW old \in Seq(Cells), NEW new \in Seq(Cells), NEW i \in 0 .. Len(old),
         \/ i = 0
         \/ Len(old) <= Len(new) /\ \A k \in 1 .. Len(old) : new[k] = old[k],
         NEW d
  PROVE  Has(new, d) <=>
           \/ Has(old, d) /\ \A k \in i + 1 .. Len(old) : old[k] # d
           \/ \E j \in i + 1 .. Len(new) : new[j] = d
<1>1. /\ Len(old) \in Nat /\ DOMAIN old = 1 .. Len(old)
      /\ Len(new) \in Nat /\ DOMAIN new = 1 .. Len(new)
  BY LenProperties
<1>2. \A j \in i + 1 .. Len(new) : j \in 1 .. Len(new)
  BY <1>1
<1>3. CASE i = 0
  BY <1>1, <1>3 DEF Has
<1>4. CASE /\ Len(old) <= Len(new)
           /\ \A k \in 1 .. Len(old) : new[k] = old[k]
  <2>1. \A k \in 1 .. Len(old) : k \in 1 .. i \/ k \in i + 1 .. Len(old)
    BY <1>1
  <2>2. \A k \in 1 .. Len(new) : k \in 1 .. i \/ k \in i + 1 .. Len(new)
    BY <1>1
  <2>3. \A k \in 1 .. i : k \in 1 .. Len(old) /\ k \in 1 .. Len(new)
    BY <1>1, <1>4
  <2>4. \A k \in 1 .. Len(old) : k \in 1 .. Len(new)
    BY <1>1, <1>4
  <2>5. \A k \in i + 1 .. Len(old) : k \in i + 1 .. Len(new) /\ k \in 1 .. Len(old)
    BY <1>1, <1>4
  <2>6. ASSUME Has(new, d)
        PROVE  \/ Has(old, d) /\ \A k \in i + 1 .. Len(old) : old[k] # d
               \/ \E j \in i + 1 .. Len(new) : new[j] = d
    <3>1. PICK j \in 1 .. Len(new) : new[j] = d
      BY <1>1, <2>6 DEF Has
    <3>2. CASE j \in i + 1 .. Len(new)
      BY <3>1, <3>2
    <3>3. CASE j \in 1 .. i
      <4>1. Has(old, d)
        BY <1>1, <1>4, <2>3, <3>1, <3>3 DEF Has
      <4>2. ASSUME NEW k \in i + 1 .. Len(old), old[k] = d
            PROVE  \E l \in i + 1 .. Len(new) : new[l] = d
        BY <1>4, <2>5, <4>2
      <4> QED BY <4>1, <4>2
    <3> QED BY <2>2, <3>2, <3>3
  <2>7. Has(old, d) => Has(new, d)
    BY <1>1, <1>4, <2>4 DEF Has
  <2>8. (\E j \in i + 1 .. Len(new) : new[j] = d) => Has(new, d)
    BY <1>1, <1>2 DEF Has
  <2> QED BY <2>6, <2>7, <2>8
<1> QED BY <1>3, <1>4

(* What was read becomes the sources of the cell, and these get it as an   *)
(* observer. *)
LEMMA RelinkedFits ==
  ASSUME Proper, RInv, NEW c \in Cells, Records(c, context, sources),
         Relinked(c), fn' = fn
  PROVE  /\ sources' \in [Cells -> Seq(Cells)]
         /\ observers' \in [Cells -> Seq(Cells \cup {Cleanup})]
         /\ Sunk' /\ LinksMutual'
         /\ \A d \in Cells : d # c => sources'[d] = sources[d]
<1> DEFINE nw == IF gets = <<>> THEN SubSeq(sources[c], 1, index)
                 ELSE IF index > 0 THEN sources[c] \o gets ELSE gets
<1>1. PICK old, new : old = sources[c] /\ new = nw
  OBVIOUS
<1>2. /\ sources' = [sources EXCEPT ![c] = new]
      /\ observers' = Linked(Unlinked(c, index + 1), c, new, index + 1)
  BY <1>1 DEF Relinked
<1>3. /\ sources \in [Cells -> Seq(Cells)] /\ old \in Seq(Cells)
      /\ gets \in Seq(Cells) /\ index \in Nat
      /\ index \in 0 .. Len(old) /\ (index > 0 => gets # <<>>)
  BY <1>1 DEF RInv, TypeOK, Records, context
<1>4. \A k \in DOMAIN gets : Rank[gets[k]] < Rank[c]
  BY DEF Records, context
<1>5. \A k \in DOMAIN old : Rank[old[k]] < Rank[c]
  BY <1>1 DEF RInv, Sunk
<1>6. /\ new \in Seq(Cells)
      /\ \/ index = 0
         \/ Len(old) <= Len(new) /\ \A k \in 1 .. Len(old) : new[k] = old[k]
      /\ \A k \in DOMAIN new : Rank[new[k]] < Rank[c]
  <2>1. CASE gets = <<>>
    <3>1. index = 0 /\ new = SubSeq(old, 1, 0)
      BY <1>1, <1>3, <2>1
    <3>2. new = <<>>
      BY <3>1, SubSeqEmpty
    <3> QED BY <3>1, <3>2
  <2>2. CASE gets # <<>> /\ index > 0
    <3>1. new = old \o gets
      BY <1>1, <2>2
    <3>2. /\ new \in Seq(Cells) /\ Len(new) = Len(old) + Len(gets)
          /\ \A k \in 1 .. Len(old) + Len(gets) :
               new[k] = IF k <= Len(old) THEN old[k] ELSE gets[k - Len(old)]
      BY <1>3, <3>1, ConcatProperties
    <3>3. /\ Len(old) \in Nat /\ DOMAIN old = 1 .. Len(old)
          /\ Len(gets) \in Nat /\ DOMAIN gets = 1 .. Len(gets)
          /\ DOMAIN new = 1 .. Len(new)
      BY <1>3, <3>2, LenProperties
    <3>4. Len(old) <= Len(new) /\ \A k \in 1 .. Len(old) : new[k] = old[k]
      BY <3>2, <3>3
    <3>5. ASSUME NEW k \in DOMAIN new PROVE Rank[new[k]] < Rank[c]
      <4>1. CASE k <= Len(old)
        <5>1. k \in DOMAIN old /\ new[k] = old[k]
          BY <3>2, <3>3, <4>1
        <5> QED BY <1>5, <5>1
      <4>2. CASE ~(k <= Len(old))
        <5>1. k - Len(old) \in DOMAIN gets /\ new[k] = gets[k - Len(old)]
          BY <3>2, <3>3, <4>2
        <5> QED BY <1>4, <5>1
      <4> QED BY <4>1, <4>2
    <3> QED BY <3>2, <3>4, <3>5
  <2>3. CASE gets # <<>> /\ ~(index > 0)
    <3>1. index = 0 /\ new = gets
      BY <1>1, <1>3, <2>3
    <3> QED BY <1>3, <1>4, <3>1
  <2> QED BY <2>1, <2>2, <2>3
<1>7. PICK obs : obs = Unlinked(c, index + 1)
  OBVIOUS
<1>8. PICK from \in Nat : from = index + 1
  BY <1>3
<1>9. /\ obs \in ObserverLists
      /\ \A d \in Cells : \A e :
           Has(obs[d], e) <=>
             /\ Has(observers[d], e)
             /\ e # c \/ \A k \in from .. Len(sources[c]) : sources[c][k] # d
  BY <1>7, <1>8, UnlinkedKeeps DEF RInv
<1>10. /\ observers' \in ObserverLists
       /\ \A d \in Cells : \A e :
            Has(observers'[d], e) <=>
              \/ Has(obs[d], e)
              \/ e = c /\ \E j \in from .. Len(new) : new[j] = d
  <2>1. PICK o : o = Linked(obs, c, new, from)
    OBVIOUS
  <2>2. /\ o \in ObserverLists
        /\ \A d \in Cells : \A e :
             Has(o[d], e) <=>
               \/ Has(obs[d], e)
               \/ e = c /\ \E j \in from .. Len(new) : new[j] = d
    <3>1. obs \in ObserverLists /\ new \in Seq(Cells)
      BY <1>6, <1>9
    <3> QED BY ZenonT(30), <2>1, <3>1, LinkedAdds
  <2>3. observers' = o
    BY <1>2, <1>7, <1>8, <2>1
  <2> QED BY <2>2, <2>3
<1>11. ASSUME NEW a \in Cells, NEW d \in Cells
       PROVE  Has(sources'[a], d) <=> Has(observers'[d], a)
  <2>1. Has(sources[a], d) <=> Has(observers[d], a)
    BY Mutual DEF RInv
  <2>2. CASE a = c
    <3>1. sources'[a] = new
      BY <1>2, <1>3, <2>2
    <3>2. Has(new, d) <=>
            \/ Has(old, d) /\ \A k \in index + 1 .. Len(old) : old[k] # d
            \/ \E j \in index + 1 .. Len(new) : new[j] = d
      <4>1. old \in Seq(Cells) /\ new \in Seq(Cells) /\ index \in 0 .. Len(old)
        BY <1>3, <1>6
      <4>2. \/ index = 0
            \/ Len(old) <= Len(new) /\ \A k \in 1 .. Len(old) : new[k] = old[k]
        BY <1>6
      <4> QED BY <4>1, <4>2, Relinks
    <3> QED BY ZenonT(30), <1>1, <1>8, <1>9, <1>10, <2>1, <2>2, <3>1, <3>2
  <2>3. CASE a # c
    <3>1. sources'[a] = sources[a]
      BY <1>2, <1>3, <2>3
    <3> QED BY <1>9, <1>10, <2>1, <2>3, <3>1
  <2> QED BY <2>2, <2>3
<1>12. LinksMutual'
  BY <1>11, MutualNext
<1>13. Sunk'
  BY <1>2, <1>3, <1>6 DEF RInv, Sunk
<1> QED BY <1>2, <1>3, <1>6, <1>10, <1>12, <1>13 DEF ObserverLists

LEMMA UpdateEndKeeps ==
  ASSUME Proper, RInv, UpdateEnd
  PROVE  RInv'
<1>1. In("update") /\ ~Idle /\ Top \in FrameSet /\ Rest \in Seq(FrameSet)
  BY Calls DEF UpdateEnd, Doing, In, RInv
<1>2. PICK c : c = Top.cell
  OBVIOUS
<1>3. /\ c \in Cells /\ Records(c, context, sources)
      /\ CallsFit(Rest, Top.saved, sources) /\ Below(Rest, c)
      /\ Next1 \in Steps
  BY <1>1, <1>2, Running
<1>4. Relinked(c) /\ fn' = fn
  BY <1>2 DEF UpdateEnd
<1>5. /\ sources' \in [Cells -> Seq(Cells)]
      /\ observers' \in [Cells -> Seq(Cells \cup {Cleanup})]
      /\ Sunk' /\ LinksMutual'
      /\ \A d \in Cells : d # c => sources'[d] = sources[d]
  BY <1>3, <1>4, RelinkedFits
<1>6. CallsFit(Rest, Top.saved, sources')
  <2>1. ASSUME NEW k \in DOMAIN Rest, Updates(Rest[k])
        PROVE  sources'[Rest[k].cell] = sources[Rest[k].cell]
    <3>1. Rest[k] \in FrameSet
      BY <1>1, ElementOfSeq, LenProperties
    <3>2. Rest[k].cell \in Cells /\ Rank[c] < Rank[Rest[k].cell]
      BY <1>3, <2>1, <3>1 DEF Below, FrameSet
    <3>3. Rest[k].cell # c
      BY <1>3, <3>2, RankFalls DEF Proper
    <3> QED BY <1>5, <3>2, <3>3
  <2> QED BY <1>1, <1>3, <2>1, FitSources
<1>7. /\ Top.saved \in (Cells \cup {None}) \X Seq(Cells) \X Nat
      /\ Top.seen \in Seq(Seen)
  BY <1>1 DEF FrameSet
<1>8. context' = Top.saved
  <2>1. context' = <<Top.saved[1], Top.saved[2], Top.saved[3]>>
    BY DEF UpdateEnd, context
  <2>2. Top.saved = <<Top.saved[1], Top.saved[2], Top.saved[3]>>
    BY <1>7
  <2> QED BY <2>1, <2>2
<1>9. /\ current' \in Cells \cup {None} /\ gets' \in Seq(Cells)
      /\ index' \in Nat
  BY <1>7 DEF UpdateEnd
<1>10. stack' = Rest /\ ran' \in SUBSET Cells
  BY DEF UpdateEnd, Leave, RInv, TypeOK
<1>11. PICK v : v = IF c \in Effects THEN Zero ELSE Next1.val
  OBVIOUS
<1>12. v \in Values
  BY <1>3, <1>11, DataAssumption DEF Steps
<1>13. /\ value' = [value EXCEPT ![c] = v]
       /\ state' = ObserversDirty(c, v # Top.val)
       /\ log' = [log EXCEPT ![c] = Top.seen]
       /\ moved' = [(IF v = value[c] THEN moved ELSE Moved(c))
                      EXCEPT ![c] = FALSE]
  BY <1>2, <1>11 DEF UpdateEnd
<1>14. /\ value' \in [Cells -> Values]
       /\ log' \in [Cells -> Seq(Seen)]
  BY <1>7, <1>12, <1>13 DEF RInv, TypeOK
<1>15. state' \in [Cells -> {Clean, Check, Dirty}]
  BY <1>13 DEF ObserversDirty, RInv, TypeOK
<1>16. moved' \in [Cells -> BOOLEAN]
  <2>1. PICK m : m = IF v = value[c] THEN moved ELSE Moved(c)
    OBVIOUS
  <2>2. m \in [Cells -> BOOLEAN]
    BY <2>1 DEF Moved, RInv, TypeOK
  <2>3. moved' = [m EXCEPT ![c] = FALSE]
    BY <1>13, <2>1
  <2> QED BY <2>2, <2>3
<1>17. Shaped'
  BY <1>1, <1>5, <1>9, <1>10, <1>14, <1>15, <1>16
     DEF UpdateEnd, RInv, TypeOK, Shaped
<1>18. CallsFit(stack, context, sources)'
  BY <1>6, <1>8, <1>10
<1> QED BY <1>5, <1>17, <1>18, TypeFollowsNext DEF RInv, Proper

-----------------------------------------------------------------------------
(* The theorems. *)

LEMMA Starts == ASSUME Proper, Init PROVE RInv
<1>1. Shaped
  BY DataAssumption DEF Init, Shaped, Clean
<1>2. CallsFit(stack, context, sources)
  BY FitIdle DEF Init
<1>3. Sunk /\ LinksMutual
  <2>1. \A c \in Cells : fn[c] = None /\ sources[c] = <<>> /\ observers[c] = <<>>
    BY DEF Init
  <2>2. DOMAIN <<>> = {}
    OBVIOUS
  <2> QED BY <2>1, <2>2 DEF Sunk, LinksMutual
<1> QED BY <1>1, <1>2, <1>3, TypeFollows DEF RInv, Proper

LEMMA Keeps == ASSUME Proper, RInv, [Next]_vars PROVE RInv'
<1>1. CASE UNCHANGED vars \/ Stablize
  BY <1>1, StablizeKeeps DEF Stablize
<1>2. CASE \E c \in Signals, v \in Values : Signal(c, v)
  BY <1>2, SignalKeeps
<1>3. CASE \E c \in Memos : \E f \in FnsOf(c) : Memo(c, f)
  BY <1>3, MemoKeeps
<1>4. CASE \E c \in Effects : \E f \in FnsOf(c) : Effect(c, f)
  BY <1>4, EffectKeeps
<1>5. CASE \E c \in Rewritable : \E f \in FnsOf(c) : CallWriteFn(c, f)
  BY <1>5, CallWriteFnKeeps, KindsAssumption
<1>6. CASE \E c \in Cells : CallRead(c)
  BY <1>6, CallReadKeeps
<1>7. CASE \E c \in Cells, v \in Values : CallWrite(c, v)
  BY <1>7, CallWriteKeeps
<1>8. CASE ReadEnd \/ CheckSource \/ CheckEnd \/ Update \/ NilCall
  BY <1>8, ReadEndKeeps, CheckSourceKeeps, CheckEndKeeps, UpdateKeeps,
     NilCallKeeps
<1>9. CASE OnCleanup \/ Panic \/ UpdateEnd
  BY <1>9, OnCleanupKeeps, PanicKeeps, UpdateEndKeeps
<1>10. CASE WriteObserver \/ WriteCleanup \/ WriteEnd \/ WriteSame
  BY <1>10, WriteObserverKeeps, WriteCleanupKeeps, WriteEndKeeps,
     WriteSameKeeps
<1>11. CASE StaleObserver \/ StaleCleanup \/ StaleEnd \/ WriteFnEnd
  BY <1>11, StaleObserverKeeps, StaleCleanupKeeps, StaleEndKeeps,
     WriteFnEndKeeps
<1> QED BY <1>1, <1>2, <1>3, <1>4, <1>5, <1>6, <1>7, <1>8, <1>9, <1>10, <1>11
        DEF Next, Call, Step

(* Whatever the program calls and whatever its functions read, write and   *)
(* leave by a panic, the state is as declared. *)
THEOREM TypeCorrect == ASSUME Proper PROVE Spec => []TypeOK
<1>1. RInv /\ [Next]_vars => RInv'
  BY Keeps
<1>2. Init => RInv
  BY Starts
<1>3. RInv => TypeOK
  BY DEF RInv
<1> QED BY <1>1, <1>2, <1>3, PTL DEF Spec

(* A cell observes its sources and nothing else, in every state: while     *)
(* functions run as well, and after any panic (update() relinks the tail   *)
(* of the old sources that it has unlinked, reactively.go:200-231).        *)
THEOREM LinksMutualAlways == ASSUME Proper PROVE Spec => []LinksMutual
<1>1. RInv /\ [Next]_vars => RInv'
  BY Keeps
<1>2. Init => RInv
  BY Starts
<1>3. RInv => LinksMutual
  BY DEF RInv
<1> QED BY <1>1, <1>2, <1>3, PTL DEF Spec
=============================================================================
