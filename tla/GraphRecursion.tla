--------------------------- MODULE GraphRecursion ---------------------------
(* Definitions by recursion along the dependencies of a graph without      *)
(* cycles.  ds[c] is the list of what c depends on; a rank that goes down  *)
(* along the dependencies takes the place of the order in which the cells  *)
(* were made.  There is nothing about a package in this module.            *)
EXTENDS Naturals, Sequences, TLAPS, WellFoundedInduction, NaturalsInduction,
        SequenceTheorems

(* ds stays in S and leads down. *)
Ranked(S, ds, rank) ==
  \A c \in S :
    /\ rank[c] \in Nat
    /\ \A j \in DOMAIN ds[c] : ds[c][j] \in S /\ rank[ds[c][j]] < rank[c]

(* T holds each cell of S whose dependencies it holds. *)
Hereditary(S, ds, T) ==
  \A c \in S : (\A j \in DOMAIN ds[c] : ds[c][j] \in T) => c \in T

(* G gives each cell a value of V when its dependencies have one.          *)
Giving(S, ds, V, G) ==
  \A c \in S : \A a \in [DOMAIN ds[c] -> V] : G[c][a] \in V

(* f is what G gives for the values that f has for the dependencies.       *)
Solves(S, ds, V, G, f) ==
  \A c \in S : \A a \in [DOMAIN ds[c] -> V] :
    (\A j \in DOMAIN ds[c] : a[j] = f[ds[c][j]]) => f[c] = G[c][a]

(* A set that holds each cell whose dependencies it holds, holds all.      *)
LEMMA Descent ==
  ASSUME NEW S, NEW ds, NEW rank, NEW T, Ranked(S, ds, rank), Hereditary(S, ds, T)
  PROVE  S \subseteq T
<1> SUFFICES ASSUME S \ T # {} PROVE FALSE
  OBVIOUS
<1> DEFINE less == OpToRel(<, Nat)
           ranks == {rank[c] : c \in S \ T}
<1>1. less = {p \in Nat \X Nat : p[1] < p[2]}
  BY Zenon DEF OpToRel
<1>2. IsWellFoundedOn(less, Nat)
  BY NatLessThanWellFounded, Zenon
<1>3. ranks \subseteq Nat /\ ranks # {}
  BY DEF Ranked
<1> HIDE DEF less
<1>4. PICK n \in ranks : \A m \in ranks : <<m, n>> \notin less
  <2> HIDE DEF ranks
  <2> QED BY <1>2, <1>3, WFMin
<1>5. \A m \in ranks : ~(m < n)
  BY <1>1, <1>3, <1>4
<1>6. PICK c \in S \ T : rank[c] = n
  OBVIOUS
<1>7. PICK j \in DOMAIN ds[c] : ds[c][j] \notin T
  BY <1>6 DEF Hereditary
<1>8. ds[c][j] \in S \ T /\ rank[ds[c][j]] < n
  BY <1>6, <1>7 DEF Ranked
<1> QED BY <1>5, <1>8

(* Induction on the numbers, for a set of them. *)
LEMMA Count ==
  ASSUME NEW T, 0 \in T, \A n \in Nat : n \in T => n + 1 \in T
  PROVE  Nat \subseteq T
<1> DEFINE ds == [n \in Nat |-> IF n = 0 THEN <<>> ELSE <<n - 1>>]
           rank == [n \in Nat |-> n]
<1>1. \A n \in Nat : rank[n] \in Nat
  OBVIOUS
<1>2. \A n \in Nat : \A j \in DOMAIN ds[n] :
        n # 0 /\ ds[n][j] = n - 1 /\ n - 1 \in Nat
  <2> TAKE n \in Nat
  <2> QED BY DEF ds
<1>3. \A n \in Nat : \A j \in DOMAIN ds[n] :
        ds[n][j] \in Nat /\ rank[ds[n][j]] < rank[n]
  <2> TAKE n \in Nat
  <2> TAKE j \in DOMAIN ds[n]
  <2>1. n # 0 /\ ds[n][j] = n - 1 /\ n - 1 \in Nat
    BY <1>2
  <2>2. rank[ds[n][j]] = n - 1 /\ rank[n] = n
    BY <2>1
  <2> QED BY <2>1, <2>2
<1>4. ASSUME NEW n \in Nat, \A j \in DOMAIN ds[n] : ds[n][j] \in T
      PROVE  n \in T
  <2>1. CASE n = 0
    BY <2>1
  <2>2. CASE n # 0
    <3>1. ds[n] = <<n - 1>>
      BY <2>2
    <3>2. n - 1 \in T
      BY <1>4, <3>1
    <3> QED BY <2>2, <3>2
  <2> QED BY <2>1, <2>2
<1> HIDE DEF ds, rank
<1>5. Ranked(Nat, ds, rank) /\ Hereditary(Nat, ds, T)
  BY <1>1, <1>3, <1>4 DEF Ranked, Hereditary
<1> QED BY <1>5, Descent

(* These equations have a solution. *)
LEMMA Solution ==
  ASSUME NEW S, NEW ds, NEW V, NEW z \in V, NEW rank, NEW n \in Nat, NEW G,
         Ranked(S, ds, rank), \A c \in S : rank[c] < n, Giving(S, ds, V, G)
  PROVE  \E f \in [S -> V] : Solves(S, ds, V, G, f)
<1> DEFINE Args(f, c) == [j \in DOMAIN ds[c] |-> f[ds[c][j]]]
           Upto(f, m) == \A c \in S : rank[c] < m => f[c] = G[c][Args(f, c)]
           T == {m \in Nat : \E f \in [S -> V] : Upto(f, m)}
<1> USE DEF Ranked, Giving
<1>1. 0 \in T
  <2>1. [c \in S |-> z] \in [S -> V]
    OBVIOUS
  <2>2. Upto([c \in S |-> z], 0)
    OBVIOUS
  <2> QED BY <2>1, <2>2
<1>2. ASSUME NEW m \in Nat, m \in T PROVE m + 1 \in T
  <2>1. PICK f \in [S -> V] : Upto(f, m)
    BY <1>2
  <2> DEFINE g == [c \in S |-> IF rank[c] < m THEN f[c] ELSE G[c][Args(f, c)]]
  <2>2. \A c \in S : Args(f, c) \in [DOMAIN ds[c] -> V]
    OBVIOUS
  <2>3. \A c \in S : G[c][Args(f, c)] \in V
    BY <2>2
  <2>4. g \in [S -> V]
    <3> HIDE DEF Args
    <3> QED BY <2>3
  <2>5. ASSUME NEW c \in S, rank[c] < m + 1
        PROVE  g[c] = G[c][Args(g, c)]
    <3>1. \A j \in DOMAIN ds[c] :
            ds[c][j] \in S /\ rank[ds[c][j]] < m
      BY <2>5
    <3>2. \A j \in DOMAIN ds[c] : g[ds[c][j]] = f[ds[c][j]]
      BY <3>1
    <3>3. Args(g, c) = Args(f, c)
      <4> HIDE DEF g
      <4> QED BY <3>2
    <3>4. g[c] = G[c][Args(f, c)]
      <4> HIDE DEF Args
      <4> QED BY <2>1 DEF g
    <3> QED BY <3>3, <3>4
  <2>6. Upto(g, m + 1)
    BY <2>5
  <2> HIDE DEF g, Upto
  <2> QED BY <2>4, <2>6
<1>3. n \in T
  <2> HIDE DEF T
  <2> QED BY <1>1, <1>2, Count
<1>4. PICK f \in [S -> V] : Upto(f, n)
  BY <1>3
<1>5. \A c \in S : f[c] = G[c][Args(f, c)]
  BY <1>4
<1>6. ASSUME NEW c \in S, NEW a \in [DOMAIN ds[c] -> V],
             \A j \in DOMAIN ds[c] : a[j] = f[ds[c][j]]
      PROVE  f[c] = G[c][a]
  <2>1. a = Args(f, c)
    BY <1>6
  <2> HIDE DEF Args
  <2> QED BY <1>5, <2>1
<1> QED BY <1>6 DEF Solves
-----------------------------------------------------------------------------
(* Sums along a list.                                                      *)

(* The sums of the first elements of ds, where d stands for vs[d]. *)
PartSums(ds, vs) ==
  LET f[n \in 0 .. Len(ds)] ==
        IF n = 0 THEN 0 ELSE f[n - 1] + vs[ds[n]]
  IN  f

LEMMA PartSumsUnfold ==
  ASSUME NEW C, NEW ds \in Seq(C), NEW vs \in [C -> Nat]
  PROVE  /\ PartSums(ds, vs)[0] = 0 /\ PartSums(ds, vs) \in [0 .. Len(ds) -> Nat]
         /\ \A n \in 1 .. Len(ds) :
              PartSums(ds, vs)[n] = PartSums(ds, vs)[n - 1] + vs[ds[n]]
<1> DEFINE S == 0 .. Len(ds)
           es == [n \in S |-> IF n = 0 THEN <<>> ELSE <<n - 1>>]
           rank == [n \in S |-> n]
           G == [n \in S |-> [a \in [DOMAIN es[n] -> Nat] |->
                   IF n = 0 THEN 0 ELSE a[1] + vs[ds[n]]]]
           Fits(f) == f = [n \in S |-> IF n = 0 THEN 0 ELSE f[n - 1] + vs[ds[n]]]
<1>1. Len(ds) \in Nat /\ \A n \in 1 .. Len(ds) : vs[ds[n]] \in Nat
  <2>1. Len(ds) \in Nat /\ \A n \in 1 .. Len(ds) : ds[n] \in C
    BY LenProperties, ElementOfSeq
  <2> QED BY <2>1
<1>2. \A n \in S : n # 0 => /\ es[n] = <<n - 1>> /\ DOMAIN es[n] = {1}
                            /\ n - 1 \in S /\ n - 1 < n /\ n \in 1 .. Len(ds)
  <2> TAKE n \in S
  <2> HAVE n # 0
  <2>1. es[n] = <<n - 1>> /\ DOMAIN <<n - 1>> = {1}
    OBVIOUS
  <2> QED BY <1>1, <2>1
<1>3. es[0] = <<>> /\ DOMAIN es[0] = {} /\ 0 \in S
  <2>1. DOMAIN <<>> = {}
    OBVIOUS
  <2> QED BY <1>1, <2>1
<1>4. \A n \in S : /\ rank[n] \in Nat
                   /\ \A j \in DOMAIN es[n] : es[n][j] \in S /\ rank[es[n][j]] < rank[n]
  <2> TAKE n \in S
  <2>1. rank[n] = n /\ n \in Nat
    BY <1>1
  <2>2. CASE n = 0
    BY <1>3, <2>1, <2>2
  <2>3. CASE n # 0
    <3> HIDE DEF es
    <3>1. \A j \in DOMAIN es[n] : es[n][j] = n - 1 /\ n - 1 \in S /\ n - 1 < n
      BY <1>2, <2>3
    <3> QED BY <2>1, <3>1
  <2> QED BY <2>2, <2>3
<1>5. \A n \in S : \A a \in [DOMAIN es[n] -> Nat] : G[n][a] \in Nat
  <2> TAKE n \in S
  <2> TAKE a \in [DOMAIN es[n] -> Nat]
  <2>1. G[n][a] = IF n = 0 THEN 0 ELSE a[1] + vs[ds[n]]
    OBVIOUS
  <2>2. n # 0 => a[1] \in Nat /\ vs[ds[n]] \in Nat
    BY <1>1, <1>2
  <2> QED BY <2>1, <2>2
<1>6. PICK f \in [S -> Nat] : Solves(S, es, Nat, G, f)
  <2>1. Ranked(S, es, rank) /\ Giving(S, es, Nat, G)
    BY <1>4, <1>5 DEF Ranked, Giving
  <2>2. 0 \in Nat /\ Len(ds) + 1 \in Nat /\ \A n \in S : rank[n] < Len(ds) + 1
    BY <1>1
  <2> HIDE DEF S, es, rank, G
  <2> QED BY <2>1, <2>2, Solution
<1>7. Fits(f)
  <2>1. ASSUME NEW n \in S
        PROVE  f[n] = IF n = 0 THEN 0 ELSE f[n - 1] + vs[ds[n]]
    <3> DEFINE a == [j \in DOMAIN es[n] |-> f[es[n][j]]]
    <3>1. a \in [DOMAIN es[n] -> Nat]
      BY <1>4
    <3>2. f[n] = G[n][a]
      <4> HIDE DEF S, es, G
      <4> QED BY <1>6, <3>1 DEF Solves
    <3>3. G[n][a] = IF n = 0 THEN 0 ELSE a[1] + vs[ds[n]]
      BY <3>1
    <3>4. n # 0 => a[1] = f[n - 1]
      <4> HIDE DEF es
      <4> QED BY <1>2
    <3> HIDE DEF a, G
    <3> QED BY <3>2, <3>3, <3>4
  <2> QED BY <2>1
<1>8. PartSums(ds, vs) = CHOOSE g : Fits(g)
  BY DEF PartSums
<1>9. Fits(PartSums(ds, vs))
  <2> HIDE DEF Fits
  <2> QED BY <1>7, <1>8
<1> DEFINE g == PartSums(ds, vs)
<1> HIDE DEF g
<1>10. g = [n \in S |-> IF n = 0 THEN 0 ELSE g[n - 1] + vs[ds[n]]]
  BY <1>9 DEF g
<1>11. \A n \in S : g[n] = IF n = 0 THEN 0 ELSE g[n - 1] + vs[ds[n]]
  BY <1>10
<1>12. g[0] = 0
  BY <1>3, <1>11
<1>13. \A n \in 1 .. Len(ds) : g[n] = g[n - 1] + vs[ds[n]] /\ n - 1 \in S
  <2> TAKE n \in 1 .. Len(ds)
  <2>1. n \in S /\ n # 0 /\ n - 1 \in S
    BY <1>1
  <2> QED BY <1>11, <2>1
<1>14. \A n \in S : g[n] \in Nat
  <2> DEFINE T == {n \in Nat : n \in S => g[n] \in Nat}
  <2>1. 0 \in T
    BY <1>12
  <2>2. \A n \in Nat : n \in T => n + 1 \in T
    <3> TAKE n \in Nat
    <3> HAVE n \in T
    <3>1. ASSUME n + 1 \in S
          PROVE  g[n + 1] \in Nat
      <4>1. n \in S /\ n + 1 \in 1 .. Len(ds) /\ (n + 1) - 1 = n
        BY <1>1, <3>1
      <4>2. g[n] \in Nat
        BY <4>1
      <4>3. g[n + 1] = g[(n + 1) - 1] + vs[ds[n + 1]] /\ vs[ds[n + 1]] \in Nat
        BY <1>1, <1>13, <4>1
      <4>4. g[n + 1] = g[n] + vs[ds[n + 1]]
        BY <4>1, <4>3
      <4> QED BY <4>2, <4>3, <4>4
    <3> QED BY <3>1
  <2>3. Nat \subseteq T
    <3> HIDE DEF T
    <3> QED BY <2>1, <2>2, Count
  <2>4. \A n \in S : n \in Nat
    BY <1>1
  <2> QED BY <2>3, <2>4
<1>15. g \in [S -> Nat]
  BY <1>10, <1>14
<1> QED BY <1>12, <1>13, <1>15 DEF g

(* A sum of versions is as large as any of its parts, and grows with them. *)
LEMMA PartSumsGrow ==
  ASSUME NEW C, NEW ds \in Seq(C), NEW vs \in [C -> Nat], NEW ws \in [C -> Nat],
         \A j \in 1 .. Len(ds) : vs[ds[j]] <= ws[ds[j]]
  PROVE  /\ \A n \in 0 .. Len(ds) : PartSums(ds, vs)[n] <= PartSums(ds, ws)[n]
         /\ \A n \in 0 .. Len(ds) :
              (\E j \in 1 .. n : vs[ds[j]] < ws[ds[j]]) => PartSums(ds, vs)[n] < PartSums(ds, ws)[n]
<1> DEFINE f == PartSums(ds, vs)
           g == PartSums(ds, ws)
           Some(n) == \E j \in 1 .. n : vs[ds[j]] < ws[ds[j]]
           Good1(n) == f[n] <= g[n] /\ (Some(n) => f[n] < g[n])
           T == {n \in Nat : n \in 0 .. Len(ds) => Good1(n)}
<1>1. /\ f[0] = 0 /\ f \in [0 .. Len(ds) -> Nat]
      /\ \A n \in 1 .. Len(ds) : f[n] = f[n - 1] + vs[ds[n]]
  BY PartSumsUnfold
<1>2. /\ g[0] = 0 /\ g \in [0 .. Len(ds) -> Nat]
      /\ \A n \in 1 .. Len(ds) : g[n] = g[n - 1] + ws[ds[n]]
  BY PartSumsUnfold
<1>3. Len(ds) \in Nat /\ \A n \in 1 .. Len(ds) : ds[n] \in C
  BY LenProperties, ElementOfSeq
<1> HIDE DEF f, g
<1>4. 0 \in T
  BY <1>1, <1>2
<1>5. ASSUME NEW n \in Nat, n \in T
      PROVE  n + 1 \in T
  <2> SUFFICES ASSUME n + 1 \in 0 .. Len(ds) PROVE Good1(n + 1)
    OBVIOUS
  <2>1. n \in 0 .. Len(ds) /\ n + 1 \in 1 .. Len(ds) /\ (n + 1) - 1 = n
    BY <1>3
  <2>2. /\ f[n + 1] = f[n] + vs[ds[n + 1]] /\ f[n] \in Nat
        /\ g[n + 1] = g[n] + ws[ds[n + 1]] /\ g[n] \in Nat
        /\ vs[ds[n + 1]] \in Nat /\ ws[ds[n + 1]] \in Nat
        /\ vs[ds[n + 1]] <= ws[ds[n + 1]]
    BY <1>1, <1>2, <1>3, <2>1
  <2>3. f[n] <= g[n] /\ (Some(n) => f[n] < g[n])
    BY <1>5, <2>1
  <2>4. Some(n + 1) => Some(n) \/ vs[ds[n + 1]] < ws[ds[n + 1]]
    <3> HAVE Some(n + 1)
    <3>1. PICK j \in 1 .. (n + 1) : vs[ds[j]] < ws[ds[j]]
      OBVIOUS
    <3>2. j = n + 1 \/ j \in 1 .. n
      OBVIOUS
    <3> QED BY <3>1, <3>2
  <2> HIDE DEF Some
  <2> QED BY SMTT(30), <2>2, <2>3, <2>4
<1>6. Nat \subseteq T
  <2> HIDE DEF T
  <2> QED BY <1>4, <1>5, Count
<1>7. \A n \in 0 .. Len(ds) : Good1(n)
  <2> TAKE n \in 0 .. Len(ds)
  <2>1. n \in Nat
    BY <1>3
  <2> HIDE DEF Good1
  <2> QED BY <1>6, <2>1
<1> QED BY <1>7 DEF f, g

(* The first m of ds have the same versions in vs and ws. *)
SameParts(C, ds, vs, ws, m) ==
  /\ ds \in Seq(C) /\ vs \in [C -> Nat] /\ ws \in [C -> Nat]
  /\ m \in 0 .. Len(ds) /\ \A j \in 1 .. m : vs[ds[j]] = ws[ds[j]]

(* A sum depends on its parts only. *)
LEMMA PartSumsSame ==
  ASSUME NEW C, NEW ds, NEW vs, NEW ws, NEW m, SameParts(C, ds, vs, ws, m)
  PROVE  PartSums(ds, vs)[m] = PartSums(ds, ws)[m]
<1>0. /\ ds \in Seq(C) /\ vs \in [C -> Nat] /\ ws \in [C -> Nat]
      /\ m \in 0 .. Len(ds) /\ \A j \in 1 .. m : vs[ds[j]] = ws[ds[j]]
  BY DEF SameParts
<1> DEFINE f == PartSums(ds, vs)
           g == PartSums(ds, ws)
           T == {n \in Nat : n <= m => f[n] = g[n]}
<1>1. f[0] = 0 /\ \A n \in 1 .. Len(ds) : f[n] = f[n - 1] + vs[ds[n]]
  BY <1>0, PartSumsUnfold
<1>2. g[0] = 0 /\ \A n \in 1 .. Len(ds) : g[n] = g[n - 1] + ws[ds[n]]
  BY <1>0, PartSumsUnfold
<1>3. Len(ds) \in Nat
  BY <1>0, LenProperties
<1> HIDE DEF f, g
<1>4. 0 \in T
  BY <1>1, <1>2
<1>5. ASSUME NEW n \in Nat, n \in T
      PROVE  n + 1 \in T
  <2> SUFFICES ASSUME n + 1 <= m PROVE f[n + 1] = g[n + 1]
    OBVIOUS
  <2>1. n + 1 \in 1 .. Len(ds) /\ n + 1 \in 1 .. m /\ (n + 1) - 1 = n /\ n <= m
    BY <1>0, <1>3
  <2>2. f[n + 1] = f[n] + vs[ds[n + 1]] /\ g[n + 1] = g[n] + ws[ds[n + 1]]
    BY <1>1, <1>2, <2>1
  <2>3. f[n] = g[n] /\ vs[ds[n + 1]] = ws[ds[n + 1]]
    BY <1>0, <1>5, <2>1
  <2> QED BY <2>2, <2>3
<1>6. Nat \subseteq T
  <2> HIDE DEF T
  <2> QED BY <1>4, <1>5, Count
<1>7. m \in Nat /\ m <= m
  BY <1>0, <1>3
<1> QED BY <1>6, <1>7 DEF f, g

(* The parts of a sum that have been added up so far. *)
LEMMA PartSumsParts ==
  ASSUME NEW C, NEW ds \in Seq(C), NEW vs \in [C -> Nat], NEW n \in 0 .. Len(ds)
  PROVE  PartSums(ds, vs)[n] <= PartSums(ds, vs)[Len(ds)]
<1> DEFINE f == PartSums(ds, vs)
           T == {m \in Nat : n + m \in 0 .. Len(ds) => f[n] <= f[n + m]}
<1>1. /\ f \in [0 .. Len(ds) -> Nat]
      /\ \A m \in 1 .. Len(ds) : f[m] = f[m - 1] + vs[ds[m]]
  BY PartSumsUnfold
<1>2. Len(ds) \in Nat /\ \A m \in 1 .. Len(ds) : ds[m] \in C
  BY LenProperties, ElementOfSeq
<1> HIDE DEF f
<1>3. 0 \in T
  BY <1>1, <1>2
<1>4. ASSUME NEW m \in Nat, m \in T
      PROVE  m + 1 \in T
  <2> SUFFICES ASSUME n + (m + 1) \in 0 .. Len(ds)
               PROVE  f[n] <= f[n + (m + 1)]
    OBVIOUS
  <2>1. n + m \in 0 .. Len(ds) /\ n + (m + 1) \in 1 .. Len(ds)
        /\ (n + (m + 1)) - 1 = n + m
    BY <1>2
  <2>2. /\ f[n + (m + 1)] = f[n + m] + vs[ds[n + (m + 1)]]
        /\ f[n] \in Nat /\ f[n + m] \in Nat /\ vs[ds[n + (m + 1)]] \in Nat
    BY <1>1, <1>2, <2>1
  <2>3. f[n] <= f[n + m]
    BY <1>4, <2>1
  <2> QED BY <2>2, <2>3
<1>5. Nat \subseteq T
  <2> HIDE DEF T
  <2> QED BY <1>3, <1>4, Count
<1>6. Len(ds) - n \in Nat /\ n + (Len(ds) - n) = Len(ds) /\ Len(ds) \in 0 .. Len(ds)
  BY <1>2
<1>7. Len(ds) - n \in T
  BY <1>5, <1>6
<1> QED BY <1>6, <1>7 DEF f
=============================================================================
