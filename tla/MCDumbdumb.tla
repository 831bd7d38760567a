----------------------------- MODULE MCDumbdumb -----------------------------
(* Small instances of Dumbdumb for TLC.  The cells hold bits and the       *)
(* getters are gates: NAND, which negates one argument and of several is   *)
(* changed by some of their changes and not by others, is enough to build  *)
(* every function of the signals.                                          *)
EXTENDS DumbdumbGraph, TLC

Bits == 0 .. 1

NandOf(gate, args) == IF \A j \in DOMAIN args : args[j] = 1 THEN 0 ELSE 1

Singles == {<<d>> : d \in Nodes}

(* Every list of at most two nodes. *)
AtMostTwo == UNION {[1 .. k -> Nodes] : k \in 1 .. 2}

(* Chains and diamonds: one node, or two computeds.                        *)
Pairs == Singles \cup {ds \in Computeds \X Computeds : ds[1] # ds[2]}

(* The same, and a signal with a computed.                                 *)
Diamonds == Pairs \cup (Signals \X Computeds)

Alike == Permutations(Goroutines) \cup Permutations(Signals)
           \cup Permutations(Computeds) \cup Permutations(Effects)
=============================================================================
