--------------------------- MODULE DumbdumbGraph ---------------------------
(***************************************************************************)
(* dumbdumb implements the abstract reactive graph: the refinement mapping *)
(* and the promise as a property.  The marks, the sweep, the recursion of  *)
(* eval() and the caches are stutters of the graph; a callback of an       *)
(* effect is a Tell, the end of an evalAll() under Value() an Answer.      *)
(***************************************************************************)
EXTENDS Dumbdumb

UpToDate == Live \ Signals

(* An effect that has never been called has its cache full of zeros. *)
LastTold(e) ==
  IF seen[e] = <<>> THEN [j \in DOMAIN deps[e] |-> Zero] ELSE seen[e]

(* The state of the graph, as that of the package shows it. *)
Inputs == [s \in made \cap Signals |-> val[s]]
Formulas ==
  [c \in UpToDate \cap Computeds |-> [args |-> deps[c], getter |-> fn[c]]]
Watches == [e \in UpToDate \cap Effects |-> deps[e]]
ToldLast == [e \in UpToDate \cap Effects |-> LastTold(e)]
Answered == pc = "done" /\ op.name = "Value" /\ op.cell \in Live
Answering == IF Answered THEN <<op.cell, val[op.cell]>> ELSE None

Graph == INSTANCE ReactiveGraph WITH
  inputs <- Inputs,
  formulas <- Formulas,
  watches <- Watches,
  told <- ToldLast,
  busy <- mu # None,
  answer <- Answering

(* The package keeps the promise of a reactive graph: each operation, as   *)
(* the program sees it through reads and through the calls of its effects, *)
(* acts at once on the whole graph, although it marks, sweeps and recurses *)
(* through a list in which removals have shuffled the cells.               *)
Promise == Graph!Spec
=============================================================================
