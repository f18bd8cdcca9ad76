------------------------------- MODULE MapOps -------------------------------
(* Finite maps, the contents of a Python dict. *)
EXTENDS Integers

(* The map with one key. *)
Single(k, v) == [j \in {k} |-> v]

(* The map e laid over m: where both have a key, e's value counts. *)
Over(e, m) == [k \in DOMAIN e \cup DOMAIN m |-> IF k \in DOMAIN e THEN e[k] ELSE m[k]]

(* The maps of a sequence laid over each other in order: a later one wins. *)
Overlay(ms) ==
  LET has(k) == {j \in DOMAIN ms : k \in DOMAIN ms[j]}
  IN  [k \in UNION {DOMAIN ms[j] : j \in DOMAIN ms} |->
         LET last == CHOOSE j \in has(k) : \A i \in has(k) : i <= j IN ms[last][k]]

=============================================================================
