----------------------------- MODULE ListAliases -----------------------------
(***************************************************************************)
(* What the Python frontend does about names that share a list.            *)
(*                                                                         *)
(* Python binds references, the emitted Rust owns values.  The frontend    *)
(* walks a function body several times, each walk collecting something     *)
(* (what is mutated, how often a name is read, which names alias), and     *)
(* then decides at every binding, argument and embedded element whether    *)
(* the Rust program clones, moves, or whether the function is refused.     *)
(* This module writes any body, statement by statement, and lowers it.     *)
(***************************************************************************)
EXTENDS Naturals, Sequences, FiniteSets, SequencesExt

CONSTANTS
  Rows,      \* names of variables that hold a list of integers
  Grids,     \* names of variables that hold a list of such lists
  Callees,   \* the other functions of the module: [changes, marked] by name
  Jobs       \* what bodies may look like: see Init

Names == Rows \cup Grids

(* A variable has one type, and a job binds no name of another. *)
ASSUME AliasAssumption ==
  /\ Rows \cap Grids = {}
  /\ \A j \in Jobs : j.params \subseteq j.names /\ j.names \subseteq Names

VARIABLES
  job,       \* the bodies written: names, params, ops, blocks, size
  body,      \* the statements of the function so far
  phase,     \* where the frontend is
  emitted    \* the statements lowered so far, each with what it clones

vars == <<job, body, phase, emitted>>

(* A statement: what it does, the name it binds, writes or prints, the names *)
(* it takes, the function it calls, and the block it stands in.  A body has  *)
(* at most one block; "else" follows "if".                                   *)
Statement(op, x, ys, fn, at) == [op |-> op, x |-> x, ys |-> ys, fn |-> fn, at |-> at]

(* A lowered statement also says which names it clones. *)
Lowered(s, clones) ==
  [op |-> s.op, x |-> s.x, ys |-> s.ys, fn |-> s.fn, at |-> s.at, clones |-> clones]

Binding == {"new", "alias", "ident", "grid", "elem"}
Mutations == {"append", "store", "embed", "rowappend", "rowstore"}

-----------------------------------------------------------------------------
(* The walks.                                                                *)

(* Most walks descend into if, while and for, and not into try. *)
Visited(b) == {i \in DOMAIN b : b[i].at # "try"}

(* x.append(v), x[0] = v, g.append(x) and g[0][0] = v; g[0].append(v) is a   *)
(* call whose receiver is no name.                                           *)
collect_obj_mutated(b) ==
  {b[i].x : i \in {j \in Visited(b) : b[j].op \in {"append", "store", "embed", "rowstore"}}}

nested_mutated(b) ==
  {b[i].x : i \in {j \in Visited(b) : b[j].op \in {"rowappend", "rowstore"}}}

(* The names a statement loads: a subscript store does not load its target.  *)
Loads(s) ==
  IF s.op \in {"append", "print", "call", "embed", "rowappend"} THEN <<s.x>> \o s.ys ELSE s.ys

(* Slip: a loop body counts once. *)
count_name_reads_flat(b, n) ==
  Cardinality({l \in (DOMAIN b) \X (1..2) :
                 l[2] \in DOMAIN Loads(b[l[1]]) /\ Loads(b[l[1]])[l[2]] = n})

(* A loop body counts twice; try is descended into. *)
count_name_reads(b, n) ==
  Cardinality({l \in (DOMAIN b) \X (1..2) \X (1..2) :
                 /\ l[2] \in DOMAIN Loads(b[l[1]]) /\ Loads(b[l[1]])[l[2]] = n
                 /\ l[3] = 2 => b[l[1]].at = "loop"})

(* b = a, b = ident(a) and g = [a, ...], as positions. *)
alias_edges(b) ==
  {e \in Visited(b) \X (1..2) :
     b[e[1]].op \in {"alias", "ident", "grid"} /\ e[2] \in DOMAIN b[e[1]].ys}

rhs_occ(b, n) == Cardinality({e \in alias_edges(b) : b[e[1]].ys[e[2]] = n})

(* Slip: an alias is an edge, a chain of aliases is not. *)
alias_class_pairwise(b) ==
  [n \in Names |-> {n} \cup {m \in Names : \E e \in alias_edges(b) : {b[e[1]].x, b[e[1]].ys[e[2]]} = {m, n}}]

(* The class of each name: the least set that holds it and that no edge leaves. *)
alias_class(b) ==
  LET pairs  == {<<b[e[1]].x, b[e[1]].ys[e[2]]>> : e \in alias_edges(b)}
      nodes  == {p[1] : p \in pairs} \cup {p[2] : p \in pairs}
      unions == {S \in SUBSET nodes : \A p \in pairs : p[1] \in S <=> p[2] \in S}
  IN  [n \in Names |-> {n} \cup {m \in nodes : n \in nodes /\ \A S \in unions : n \in S => m \in S}]

(* Slip: any class of two names counts as mutated. *)
class_mutated_shared(b, class) == class # {}

class_mutated(b, class) == class \cap collect_obj_mutated(b) # {}

observable(b, n) ==
  count_name_reads(b, n) > rhs_occ(b, n) \/ n \in collect_obj_mutated(b)

(* Two observable locals of one mutated class. *)
class_violation(b, params) ==
  LET class == alias_class(b) IN
  \E n \in Names \ params : \E m \in class[n] \ (params \cup {n}) :
    class_mutated(b, class[n]) /\ observable(b, n) /\ observable(b, m)

(* Slip: a param in a mutated class is not marked. *)
mutable_params_direct(b, params) ==
  {p \in params : \E i \in DOMAIN b :
     b[i].x = p /\ b[i].op \in Binding \cup Mutations}

(* Params the caller is told of: written, rebound, or in a mutated class. *)
mutable_params(b, params) ==
  {p \in params :
     \/ alias_class(b)[p] # {p} /\ class_mutated(b, alias_class(b)[p])
     \/ \E i \in DOMAIN b :
          b[i].x = p /\ b[i].op \in Binding \cup Mutations}

(* A binding of n stands between i and j in the text. *)
rebound(b, n, i, j) == \E k \in Visited(b) : i < k /\ k < j /\ b[k].op \in Binding /\ b[k].x = n

(* g.append(x), and later in the text x mutated, unless it was rebound, or   *)
(* g[0] mutated.                                                             *)
append_then_mutate(b) ==
  \E i, j \in Visited(b) :
    /\ i < j /\ b[i].op = "embed"
    /\ \/ b[j].op \in Mutations /\ b[j].x = b[i].ys[1] /\ ~ rebound(b, b[j].x, i, j)
       \/ b[j].op = "rowappend" /\ b[j].x = b[i].x

-----------------------------------------------------------------------------
(* One binding, argument or element.                                         *)

reread(b, n)  == count_name_reads(b, n) > 1
mutated(b, n) == n \in collect_obj_mutated(b)
read(b, n)    == count_name_reads(b, n) > 0

(* Slip: a binding that is never read is clone-safe, written or not. *)
alias_clones_dead(b, x, y) == ~ read(b, x) \/ (~ mutated(b, x) /\ ~ mutated(b, y))

(* x = y: the clone cannot be told from the shared list. *)
alias_clones(b, x, y) == ~ mutated(b, x) /\ (~ mutated(b, y) \/ ~ read(b, x))

apply_alias_dispositions_refuses(b, s) ==
  CASE s.op = "alias" -> ~ alias_clones(b, s.x, s.ys[1]) /\ reread(b, s.ys[1])
    [] s.op = "ident" -> /\ mutated(b, s.ys[1]) \/ mutated(b, s.x)
                         /\ reread(b, s.ys[1])
                         /\ read(b, s.x) \/ mutated(b, s.x)
    [] s.op = "grid"  -> s.x \in nested_mutated(b) /\ ~ IsInjective(s.ys)
    [] s.op = "elem"  -> \/ mutated(b, s.x) /\ (reread(b, s.ys[1]) \/ mutated(b, s.ys[1]))
                         \/ mutated(b, s.ys[1]) /\ read(b, s.x)
    [] OTHER          -> FALSE

(* The names whose value the statement takes: it clones them or moves them. *)
Taken(s) == IF s.op = "call" THEN {s.x}
            ELSE IF s.op = "elem" THEN {} ELSE ToSet(s.ys)

cloned(b, s, bound) ==
  {n \in Taken(s) : IF s.op = "alias"
                    THEN alias_clones(b, s.x, n) \/ (s.x \in bound /\ reread(b, n))
                    ELSE reread(b, n)}

BoundBefore(b, params, i) ==
  params \cup {b[j].x : j \in {k \in 1..(i - 1) : b[k].op \in Binding}}

(* Slip: the caller's guard looks for moved arguments. *)
alias_then_mutate_moved(es) ==
  \E i \in DOMAIN es : es[i].op = "call" /\ Callees[es[i].fn].marked /\ es[i].x \notin es[i].clones

(* A clone is passed to a function that marks its parameter. *)
alias_then_mutate(es) ==
  \E i \in DOMAIN es : es[i].op = "call" /\ Callees[es[i].fn].marked /\ es[i].x \in es[i].clones

-----------------------------------------------------------------------------
(* The body: any that Python runs without a NameError.                       *)

Sort(n) == IF n \in Rows THEN Rows ELSE Grids

(* Statements over the names of a job; a name is not bound to itself. *)
Sentences == [j \in Jobs |->
  LET rows == j.names \cap Rows  grids == j.names \cap Grids
      Say(op, xs, yss, fns) == {Statement(op, x, ys, fn, at) :
                                  x \in xs, ys \in yss, fn \in fns, at \in {"top"} \cup j.blocks}
      none == {"none"}
  IN  {s \in UNION {
        Say("new", j.names, {<<>>}, none),
        Say("alias", j.names, {<<y>> : y \in j.names}, none),
        Say("ident", rows, {<<y>> : y \in rows}, none),
        Say("append", rows, {<<>>}, none), Say("store", rows, {<<>>}, none),
        Say("print", j.names, {<<>>}, none),
        Say("call", rows, {<<>>}, {f \in DOMAIN Callees : Callees[f].on = "row"}),
        Say("call", grids, {<<>>}, {f \in DOMAIN Callees : Callees[f].on = "grid"}),
        Say("grid", grids, {<<y>> : y \in rows} \cup {<<y, z>> : y \in rows, z \in rows}, none),
        Say("embed", grids, {<<y>> : y \in rows}, none),
        Say("elem", rows, {<<y>> : y \in grids}, none),
        Say("rowappend", grids, {<<>>}, none), Say("rowstore", grids, {<<>>}, none)} :
        /\ s.op \in j.ops
        /\ s.op = "alias" => s.x # s.ys[1] /\ Sort(s.x) = Sort(s.ys[1])
        /\ s.op = "ident" => s.x # s.ys[1]
        /\ s.op = "call" => s.fn \in j.calls}]

InBlock(b) == {i \in DOMAIN b : b[i].at # "top"}

(* Blocks do not bind new names: their scoping is refused or hoisted elsewhere. *)
Fits(s, b, params) ==
  LET bound == BoundBefore(b, params, Len(b) + 1) IN
  /\ ToSet(s.ys) \subseteq bound
  /\ (s.op \notin Binding \/ s.at # "top") => s.x \in bound
  /\ \/ s.at = "top"
     \/ s.at # "else" /\ InBlock(b) = {}
     \/ b # <<>> /\ (s.at = Last(b).at \/ (s.at = "else" /\ Last(b).at = "if"))

Init ==
  /\ job \in Jobs
  /\ body = <<>> /\ emitted = <<>>
  /\ phase = "writing"

(* What a body does is seen in what it prints, or in its caller's list. *)
MayEnd(s) == job.params # {} \/ s.op = "print"

Write ==
  /\ phase = "writing" /\ Len(body) < job.size
  /\ \E s \in Sentences[job] :
       /\ Fits(s, body, job.params)
       /\ Len(body) = job.size - 1 => MayEnd(s)
       /\ body' = Append(body, s)
  /\ UNCHANGED <<job, phase, emitted>>

Close ==
  /\ phase = "writing" /\ body # <<>> /\ MayEnd(Last(body))
  /\ phase' = "embeds"
  /\ UNCHANGED <<job, body, emitted>>

reject_append_then_mutate ==
  /\ phase = "embeds"
  /\ phase' = IF append_then_mutate(body) THEN "refused" ELSE "classes"
  /\ UNCHANGED <<job, body, emitted>>

alias_class_analysis ==
  /\ phase = "classes"
  /\ phase' = IF class_violation(body, job.params) THEN "refused" ELSE "lowering"
  /\ UNCHANGED <<job, body, emitted>>

lower_block_stmt ==
  /\ phase = "lowering" /\ Len(emitted) < Len(body)
  /\ LET i == Len(emitted) + 1  s == body[i] IN
     IF apply_alias_dispositions_refuses(body, s)
     THEN phase' = "refused" /\ UNCHANGED emitted
     ELSE /\ emitted' = Append(emitted,
                Lowered(s, cloned(body, s, BoundBefore(body, job.params, i))))
          /\ UNCHANGED phase
  /\ UNCHANGED <<job, body>>

reject_alias_then_mutate ==
  /\ phase = "lowering" /\ Len(emitted) = Len(body)
  /\ phase' = IF alias_then_mutate(emitted) THEN "refused" ELSE "emitted"
  /\ UNCHANGED <<job, body, emitted>>

Next ==
  \/ Write \/ Close
  \/ reject_append_then_mutate \/ alias_class_analysis
  \/ lower_block_stmt \/ reject_alias_then_mutate

Spec == Init /\ [][Next]_vars
=============================================================================
