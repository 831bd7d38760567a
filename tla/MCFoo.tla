------------------------------- MODULE MCFoo -------------------------------
(* Small instances of Foo for TLC: bits, with NAND for every getter.       *)
EXTENDS Foo, TLC

Bits == 0 .. 1

NandOf(gate, args) == IF \A j \in DOMAIN args : args[j] = 1 THEN 0 ELSE 1

CONSTANTS s1, s2, c1, c2, e1, e2

(* s2 is above what e1 depends on, so the callback of e1 may use it. *)
TwoLevels == [c \in Cells |-> IF c \in {s2, c2, e2} THEN 1 ELSE 0]

(* Two changes of s1, so that one can make good what another has lost. *)
Twice == [s \in Signals |-> IF s = s1 THEN 3 ELSE 2]

(* Chains, diamonds, and a cell over signals of two levels. *)
Chosen == {<<s1>>, <<c1, c2>>, <<s2, c1>>}
=============================================================================
