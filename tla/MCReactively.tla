---------------------------- MODULE MCReactively ----------------------------
(* Small instances of Reactively for TLC: bits, and functions that read one *)
(* cell or two, the second only if the first holds 1; "twice" reads the    *)
(* first one again before that.                                            *)
EXTENDS Reactively, TLC

CONSTANTS s1, s2, m1, m2, m3, e1

Bits == 0 .. 1

Not(d) == [kind |-> "not", one |-> d, two |-> None]
And(d, e) == [kind |-> "and", one |-> d, two |-> e]
Xor(d, e) == [kind |-> "xor", one |-> d, two |-> e]
Sets(d, e) == [kind |-> "sets", one |-> d, two |-> e]
Fails(d) == [kind |-> "fails", one |-> d, two |-> None]
Cleans(d) == [kind |-> "cleans", one |-> d, two |-> None]
Twice(d, e) == [kind |-> "twice", one |-> d, two |-> e]

UsedBy(f) == {f.one, f.two} \ {None}

Do(what, c, v) == [do |-> what, cell |-> c, val |-> v]
Reading(c) == Do("read", c, 0)
Result(v) == Do("return", None, v)

DoesNext(f, seen) ==
  LET n == Len(seen)
      v(k) == seen[k].val
  IN  CASE f.kind = "cleans" /\ n = 0 -> Do("cleanup", None, 0)
        [] f.kind = "cleans" /\ n = 1 -> Reading(f.one)
        [] f.kind = "cleans" /\ n = 2 -> Result(v(2))
        [] f.kind # "cleans" /\ n = 0 -> Reading(f.one)
        [] f.kind = "not" /\ n = 1 -> Result(1 - v(1))
        [] f.kind = "fails" /\ n = 1 -> IF v(1) = 1 THEN Do("panic", None, 0)
                                        ELSE Result(0)
        [] f.kind = "and" /\ n = 1 -> IF v(1) = 0 THEN Result(0)
                                      ELSE Reading(f.two)
        [] f.kind = "xor" /\ n = 1 -> Reading(f.two)
        [] f.kind = "twice" /\ n = 1 -> Reading(f.one)
        [] f.kind = "twice" /\ n = 2 -> IF v(2) = 0 THEN Result(0)
                                        ELSE Reading(f.two)
        [] f.kind = "twice" /\ n = 3 -> Result(v(3))
        [] f.kind = "sets" /\ n = 1 -> Do("write", f.two, v(1))
        [] f.kind = "sets" /\ n = 2 -> Result(1 - v(1))
        [] f.kind = "and" /\ n = 2 -> Result(v(2))
        [] f.kind = "xor" /\ n = 2 -> Result((v(1) + v(2)) % 2)
        [] OTHER -> Result(0)

(* m1 over the signals, perhaps with one read twice; m2 over it and a       *)
(* signal, m3 over both, and an effect over that.                          *)
FnsOver(c) ==
  CASE c = m1 -> {And(s1, s2), And(s1, s1)}
    [] c = m2 -> {Xor(m1, s1), And(m1, s2)}
    [] c = m3 -> {And(m2, m1)}
    [] c = e1 -> {Not(m3)}
    [] OTHER -> {}
CoreFns == UNION {FnsOver(c) : c \in Cells}

(* m1 may fail, m2 may ask for a cleanup, e1 may write m1. *)
FaultyOver(c) ==
  CASE c = m1 -> {Not(s1), Fails(s1)}
    [] c = m2 -> {Not(m1), Cleans(s1)}
    [] c = e1 -> {Sets(s1, m1)}
    [] OTHER -> {}
FaultyFns == UNION {FaultyOver(c) : c \in Cells}
=============================================================================
