--------------------------- MODULE WasmMapsRefine ---------------------------
(***************************************************************************)
(* The emitted dict/set statements implement Python's: the refinement      *)
(* mapping from WasmMaps to PyMaps, and the results of the read-only       *)
(* helpers on every heap a program can build.                              *)
(***************************************************************************)
EXTENDS WasmMaps, MapOps

(* The dict that the slots of the record at p spell, from slot i on. *)
From(m, p, i) == i .. (Count(m, p) - 1)
Entries(m, p, i) ==
  LET slot(k) == CHOOSE j \in From(m, p, i) : KeyOf(m[KeyAddr(p, j)]) = k
  IN  [k \in {KeyOf(m[KeyAddr(p, j)]) : j \in From(m, p, i)} |-> m[ValAddr(p, slot(k))]]

Contents(p) == Entries(mem, p, 0)

(* What an entry of a binding still in progress contributes, from slot i of  *)
(* a walk on.                                                                *)
Gives(w, i) ==
  IF w.kind = "put" THEN Single(KeyOf(w.k), w.v)
  ELSE LET rest == Entries(mem, loc[w.src], i)
           kept == {k \in DOMAIN rest :
                      w.gate # NoName => ((k \in DOMAIN Contents(loc[w.gate])) = w.want)}
       IN  [k \in kept |-> IF run.dst \in SetNames THEN Zero ELSE rest[k]]

(* The maps that make up the binding in progress: what its record holds by   *)
(* now, then the entries its loop has still to insert.                       *)
Pieces ==
  [j \in 1 .. Len(run.todo) + 1 |->
     IF j = 1 THEN Contents(run.r)
     ELSE Gives(run.todo[j - 1], IF j = 2 THEN run.i ELSE 0)]

(* Does x hold an object of its own, rather than a caller's? *)
Owner(x) == x \notin Params \/ x = run.dst \/ \A c \in Callers : loc[c] # loc[x] \/ ~ Bound(c)

PyRef == [x \in Names |-> IF Owner(x) THEN x ELSE CHOOSE c \in Callers : loc[c] = loc[x]]

PyExc == CASE trap = "none" -> "none" [] trap = "unreachable" -> "KeyError" [] trap = "oob" -> "MemoryError"

PyObj ==
  [x \in Names |-> IF x = run.dst THEN Overlay(Pieces)
                   ELSE IF Bound(x) /\ Owner(x) THEN Contents(loc[x]) ELSE <<>>]

(* A display as the source spells it: pairs and splatted names. *)
PyEntry(w) == IF w.kind = "put" THEN <<KeyOf(w.k), w.v>> ELSE <<w.src>>

PyStmt ==
  IF stmt.op # "display" THEN stmt
  ELSE [stmt EXCEPT !.args = [j \in DOMAIN @ |-> PyEntry(@[j])]]

PyBound == {x \in Names : Bound(x) \/ x = run.dst}

Py == INSTANCE PyMaps WITH
        Keys  <- {KeyOf(k) : k \in Keys},
        bound <- PyBound,
        obj   <- PyObj,
        ref   <- PyRef,
        exc   <- PyExc,
        stmt  <- PyStmt

(* Every statement of the emitted module has the effect, the result and the  *)
(* exception Python gives it, whatever the heap looks like by then: growth,  *)
(* relocation, swap-into-hole, aliasing parameters, merges into themselves.  *)
ImplementsPython == Py!Spec

(* set_eq, set_subset, set_disjoint and dict_eq answer what Python answers   *)
(* on the contents, in whatever order the two records store their entries.   *)
ReadsExact ==
  \A p, q \in Records :
    LET P == Contents(p)  Q == Contents(q) IN
    /\ set_eq(mem, p, q)       = (DOMAIN P = DOMAIN Q)
    /\ set_subset(mem, p, q)   = (DOMAIN P \subseteq DOMAIN Q)
    /\ set_disjoint(mem, p, q) = (DOMAIN P \cap DOMAIN Q = {})
    /\ dict_eq(mem, p, q)      = (P = Q)

KeySeq(m, p) == [i \in 1 .. Count(m, p) |-> m[KeyAddr(p, i - 1)]]

(* The record at q after the step begins with the keys p had before it. *)
KeysStay(p, q) ==
  LET old == KeySeq(mem, p)  new == KeySeq(mem', q) IN
  Len(old) <= Len(new) /\ \A i \in 1 .. Len(old) : new[i] = old[i]

(* In a program without removals the keys of a map keep their places: an     *)
(* insertion, a growth or an update only ever appends, to the map of a local *)
(* as to the one a loop still builds, so a walk of the storage is Python's   *)
(* insertion order (module_dict_order_offender).                             *)
OrderKept ==
  [][/\ \A x \in Names \ {run.dst, run'.dst} :
          Bound(x) /\ loc'[x] # 0 /\ inCall' = inCall => KeysStay(loc[x], loc'[x])
     /\ run.dst # NoName /\ run'.dst = run.dst => KeysStay(run.r, run'.r)]_vars
=============================================================================
