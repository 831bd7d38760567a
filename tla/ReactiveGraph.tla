--------------------------- MODULE ReactiveGraph ---------------------------
(***************************************************************************)
(* What a reactive system promises the program, without a word on how: the *)
(* computeds are functions of the signals, a read answers with what they   *)
(* are now, and before an operation returns each effect has been called    *)
(* with the present values of what it depends on - once per change, never  *)
(* without one, and never with a mixture of old and new values.            *)
(*                                                                         *)
(* There is no list, no mark, no cache and no order here.                  *)
(***************************************************************************)
EXTENDS Naturals, Sequences

CONSTANTS
  Signals, Computeds, Effects,  \* the kinds of cells
  Values,                       \* what a cell can hold
  Zero,                         \* Go's zero value of that type
  Getters, Apply(_, _),         \* what computes a computed
  Wirings,                      \* the argument lists of the derived cells
  None                          \* no answer

Nodes == Signals \cup Computeds

VARIABLES
  inputs,   \* inputs[s]: what the signal s, once created, holds
  formulas, \* formulas[c] of each computed that is kept up to date
  watches,  \* watches[e]: what each effect that is kept up to date depends on
  told,     \* told[e]: the arguments of its last call
  busy,     \* whether an operation of the library is in progress
  answer    \* what the read in progress is about to return, and of what

vars == <<inputs, formulas, watches, told, busy, answer>>

Init ==
  /\ inputs = <<>> /\ formulas = <<>>
  /\ watches = <<>> /\ told = <<>>
  /\ busy = FALSE /\ answer = None

Known == DOMAIN inputs \cup DOMAIN formulas
Over(ds) == \A j \in DOMAIN ds : ds[j] \in Known

(* The values that solve the equations of the graph. *)
Value[c \in Known] ==
  IF c \in Signals THEN inputs[c]
  ELSE Apply(formulas[c].getter,
             [j \in DOMAIN formulas[c].args |-> Value[formulas[c].args[j]]])

Present(e) == [j \in DOMAIN watches[e] |-> Value[watches[e][j]]]
Zeros(ds) == [j \in DOMAIN ds |-> Zero]
AllTold == \A e \in DOMAIN watches : told[e] = Present(e)

With(f, c, x) == [k \in DOMAIN f \cup {c} |-> IF k = c THEN x ELSE f[k]]
Without(f, cs) == [k \in DOMAIN f \ cs |-> f[k]]
-----------------------------------------------------------------------------
NewSignal(s, v) ==
  /\ ~busy /\ s \notin DOMAIN inputs
  /\ inputs' = With(inputs, s, v)
  /\ UNCHANGED <<formulas, watches, told, busy, answer>>

(* A computed joins at the end of its constructor. *)
NewComputed(c, ds, g) ==
  /\ busy /\ c \notin DOMAIN formulas /\ Over(ds)
  /\ formulas' = With(formulas, c, [args |-> ds, getter |-> g])
  /\ UNCHANGED <<inputs, watches, told, busy, answer>>

(* A new effect counts as called with zero values: over anything else it   *)
(* is called before its constructor returns.                               *)
NewEffect(e, ds) ==
  /\ ~busy /\ e \notin DOMAIN watches /\ Over(ds)
  /\ watches' = With(watches, e, ds)
  /\ told' = With(told, e, Zeros(ds))
  /\ busy' = TRUE
  /\ UNCHANGED <<inputs, formulas, answer>>

Write(s, v) ==
  /\ ~busy /\ s \in DOMAIN inputs
  /\ inputs' = [inputs EXCEPT ![s] = v]
  /\ busy' = TRUE
  /\ UNCHANGED <<formulas, watches, told, answer>>

(* Some cells, and all that depends on them, are no longer kept up to date.*)
Detach(cs) ==
  /\ ~busy
  /\ \A c \in DOMAIN formulas \ cs : \A j \in DOMAIN formulas[c].args :
       formulas[c].args[j] \notin cs
  /\ \A e \in DOMAIN watches \ cs : \A j \in DOMAIN watches[e] :
       watches[e][j] \notin cs
  /\ formulas' = Without(formulas, cs)
  /\ watches' = Without(watches, cs)
  /\ told' = Without(told, cs)
  /\ busy' = TRUE
  /\ UNCHANGED <<inputs, answer>>

(* An operation that changes nothing of this. *)
Begin ==
  /\ ~busy /\ busy' = TRUE
  /\ UNCHANGED <<inputs, formulas, watches, told, answer>>

(* An effect is called, because what it depends on has changed. *)
Tell(e) ==
  /\ busy /\ e \in DOMAIN watches
  /\ told[e] # Present(e)
  /\ told' = [told EXCEPT ![e] = Present(e)]
  /\ UNCHANGED <<inputs, formulas, watches, busy, answer>>

(* A read of a cell that is kept up to date. *)
Answer(c) ==
  /\ c \in Known /\ answer = None /\ AllTold
  /\ answer' = <<c, Value[c]>>
  /\ busy' = TRUE
  /\ UNCHANGED <<inputs, formulas, watches, told>>

End ==
  /\ busy /\ AllTold
  /\ busy' = FALSE /\ answer' = None
  /\ UNCHANGED <<inputs, formulas, watches, told>>

Next ==
  \/ \E s \in Signals, v \in Values : NewSignal(s, v) \/ Write(s, v)
  \/ \E c \in Computeds, ds \in Wirings, g \in Getters : NewComputed(c, ds, g)
  \/ \E e \in Effects, ds \in Wirings : NewEffect(e, ds)
  \/ \E cs \in SUBSET (Computeds \cup Effects) : Detach(cs)
  \/ \E e \in Effects : Tell(e)
  \/ \E c \in Nodes : Answer(c)
  \/ Begin \/ End

Spec == Init /\ [][Next]_vars
=============================================================================
