------------------------------- MODULE MCAlien -------------------------------
(* Small instances of Alien for TLC: bits, and functions of one or two cells *)
EXTENDS Alien

CONSTANTS s1, s2, c1, c2, c3, e1, i1, i2, i3, p1

Bits == 0 .. 1

Fn(kind, one, two, sub) ==
  [kind |-> kind, one |-> one, two |-> two, els |-> None, sub |-> sub]
Not(d) == Fn("not", d, None, None)
Const(d) == Fn("const", d, None, None)
And(d, e) == Fn("and", d, e, None)
Pick(d, e, f) == [Fn("pick", d, e, None) EXCEPT !.els = f]
Xor(d, e) == Fn("xor", d, e, None)
Sets(d, e) == Fn("sets", d, e, None)
Both(d, e) == Fn("both", d, e, None)
Peeks(d, e) == Fn("peeks", d, e, None)
Fails(d) == Fn("fails", d, None, None)
Trips(d, e) == Fn("trips", d, e, None)
Stops(d, e) == Fn("stops", d, e, None)
Nests(d, f) == Fn("nests", d, None, f)
Opens(f, g) == Fn("opens", None, f, g)

RECURSIVE UsedBy(_)
UsedBy(f) ==
  IF f = None THEN {}
  ELSE IF f.kind = "opens" THEN UsedBy(f.two) \cup UsedBy(f.sub)
  ELSE ({f.one, f.two, f.els} \ {None}) \cup UsedBy(f.sub)

RECURSIVE FnsIn(_)
FnsIn(fs) ==
  IF fs = {} THEN {}
  ELSE fs \cup FnsIn(({f.sub : f \in fs}
                        \cup {f.two : f \in {g \in fs : g.kind = "opens"}}) \ {None})

Do(what, c, v) == [do |-> what, cell |-> c, val |-> v, fn |-> None]
Creates(f) == [do |-> "effect", cell |-> None, val |-> 0, fn |-> f]
Reading(c) == Do("read", c, 0)
Result(v) == Do("return", None, v)

DoesNext(f, seen) ==
  LET n == Len(seen)
      v(k) == seen[k].val
      k == f.kind
  IN  CASE k = "not" -> IF n = 0 THEN Reading(f.one) ELSE Result(1 - v(1))
        [] k = "const" -> IF n = 0 THEN Reading(f.one) ELSE Result(1)
        [] k = "and" -> IF n = 0 THEN Reading(f.one)
                        ELSE IF n = 1 /\ v(1) = 1 THEN Reading(f.two)
                        ELSE Result(v(n))
        [] k = "pick" -> IF n = 0 THEN Reading(f.one)
                         ELSE IF n = 1 THEN Reading(IF v(1) = 1 THEN f.two ELSE f.els)
                         ELSE Result(v(2))
        [] k = "xor" -> IF n = 0 THEN Reading(f.one)
                        ELSE IF n = 1 THEN Reading(f.two)
                        ELSE Result((v(1) + v(2)) % 2)
        [] k = "sets" -> IF n = 0 THEN Reading(f.one)
                         ELSE IF n = 1 THEN Do("write", f.two, v(1)) ELSE Result(0)
        [] k = "both" -> CASE n = 0 -> Do("start", None, 0)
                           [] n = 1 -> Do("write", f.one, 1)
                           [] n = 2 -> Do("write", f.two, 1)
                           [] n = 3 -> Do("end", None, 0)
                           [] OTHER -> Result(0)
        [] k = "peeks" -> CASE n = 0 -> Reading(f.one)
                            [] n = 1 -> Do("pause", None, 0)
                            [] n = 2 -> Reading(f.two)
                            [] n = 3 -> Do("resume", None, 0)
                            [] OTHER -> Result(v(1))
        [] k = "trips" -> CASE n = 0 -> Do("pause", None, 0)
                            [] n = 1 -> Reading(f.one)
                            [] n = 2 -> Do("resume", None, 0)
                            [] n = 3 -> IF v(2) = 1 THEN Do("panic", None, 0)
                                        ELSE Reading(f.two)
                            [] OTHER -> Result(v(4))
        [] k = "stops" -> IF n = 0 THEN Reading(f.one)
                          ELSE IF n = 1 /\ v(1) = 1 THEN Do("stop", f.two, 0)
                          ELSE Result(0)
        [] k = "fails" -> IF n = 0 THEN Reading(f.one)
                          ELSE IF v(1) = 1 THEN Do("panic", None, 0) ELSE Result(0)
        [] k = "nests" -> IF n = 0 THEN Reading(f.one)
                          ELSE IF n = 1 /\ v(1) = 1 THEN Creates(f.sub) ELSE Result(0)
        [] k = "opens" -> IF n = 0 THEN Creates(f.two)
                          ELSE IF n = 1 /\ f.sub # None THEN Creates(f.sub)
                          ELSE Result(0)

(* An effect over a diamond of computeds; c2 has one subscriber. *)
CoreOver(c) ==
  CASE c = c1 -> {Const(s1), Not(s1)}
    [] c = c2 -> {Pick(s2, c1, s1), Not(c1)}
    [] c = e1 -> {Xor(c1, c2), And(c2, s1)}
    [] OTHER -> {}
CoreFns == FnsIn(UNION {CoreOver(c) : c \in Cells})

(* An effect and a scope with effects inside; a getter, a nested effect or *)
(* one that a batch wakes may panic, and one stops another.                *)
NestedOver(c) ==
  CASE c = c1 -> {Fails(s1)}
    [] c = c2 -> {Peeks(c1, s2)}
    [] c = e1 -> {Nests(s2, Trips(s1, s1)), Nests(s1, Not(c2))}
    [] c = p1 -> {Opens(Stops(s2, e1), Not(s1))}
    [] OTHER -> {}
NestedBatches == {Both(s1, s2)}
NestedFns == FnsIn(UNION {NestedOver(c) : c \in Cells} \cup NestedBatches)

(* An effect over a computed that cannot change, behind another, and then  *)
(* over one that does.                                                     *)
StaleOver(c) ==
  CASE c = c1 -> {Const(s1)}
    [] c = c2 -> {Not(c1)}
    [] c = c3 -> {Not(s1)}
    [] c = e1 -> {Xor(c2, c3)}
    [] OTHER -> {}
StaleFns == FnsIn(UNION {StaleOver(c) : c \in Cells})
=============================================================================
