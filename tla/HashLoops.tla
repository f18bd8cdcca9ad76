------------------------------ MODULE HashLoops ------------------------------
(***************************************************************************)
(* A loop over a set or a dict, and the check that lets it through.        *)
(*                                                                         *)
(* The emitted loop walks the storage order of its source, which swaps and *)
(* removals permute; Python walks another order.  The backend therefore    *)
(* accepts only bodies whose effect, it says, no order can change.  Here a *)
(* body is a syntax tree; the check decides it; an accepted loop is run    *)
(* in every order, on the arithmetic of WasmArith.                         *)
(***************************************************************************)
EXTENDS WasmArith, Sequences, FiniteSets, TLC

CONSTANTS
  Bodies,       \* the loop bodies a program uses: sequences of statements
  Orders,       \* the storage orders: sequences of distinct elements
  StartEnv,     \* the locals before the loop
  MixedFolds    \* may a body fold one accumulator in two ways?

(* Expressions and statements.  "x" and "y" are the loop variables.          *)
Var(n)               == [kind |-> "var", name |-> n]
Lit(v)               == [kind |-> "lit", val |-> v]
Bin(op, l, r)        == [kind |-> "bin", op |-> op, lhs |-> l, rhs |-> r]
Neg(e)               == [kind |-> "neg", arg |-> e]
Abs(e)               == [kind |-> "abs", arg |-> e]

Assign(n, e)         == [kind |-> "assign", name |-> n, value |-> e]
Let(n, e)            == [kind |-> "let", name |-> n, value |-> e]
If(op, l, r, th, el) == [kind |-> "if", op |-> op, lhs |-> l, rhs |-> r, then |-> th, else |-> el]
ForEach(v, b)        == [kind |-> "for", var |-> v, body |-> b]
DictSet(d, k, e)     == [kind |-> "store", dst |-> d, key |-> k, value |-> e]
SetAdd(d, e)         == [kind |-> "add", dst |-> d, elem |-> e]

Elems(s) == {s[i] : i \in DOMAIN s}

-----------------------------------------------------------------------------
(* The check.                                                                *)

Comparisons == {"<", "<=", ">", ">="}

RECURSIVE Within(_)
(* Every statement of a body, nested ones included. *)
Within(b) ==
  UNION {{s} \cup (CASE s.kind = "if"  -> Within(s.then) \cup Within(s.else)
                     [] s.kind = "for" -> Within(s.body)
                     [] OTHER          -> {}) : s \in Elems(b)}

collect_assigned_names(b)  == {s.name : s \in {t \in Within(b) : t.kind = "assign"}}
collect_let_names(b)       == {s.name : s \in {t \in Within(b) : t.kind = "let"}}
collect_hash_store_dsts(b) == {s.dst : s \in {t \in Within(b) : t.kind \in {"store", "add"}}}

RECURSIVE expr_references_any(_, _)
(* A form the walk does not know (unary minus) is taken to read anything. *)
expr_references_any(e, names) ==
  CASE e.kind = "var"              -> e.name \in names
    [] e.kind = "lit"              -> FALSE
    [] e.kind = "bin"              -> \E s \in {e.lhs, e.rhs} : expr_references_any(s, names)
    [] e.kind = "abs"              -> expr_references_any(e.arg, names)
    [] OTHER                       -> TRUE

(* Slip: takes subtraction for commutative. *)
is_commutative_monoid_op_with_sub(op) == op \in {"+", "*", "-"}

is_commutative_monoid_op(op) == op \in {"+", "*"}

RECURSIVE accum_spine_ok(_, _, _, _, _)
accum_spine_ok(name, op, l, r, assigned) ==
  LET side_folds(s) == \/ s = Var(name)
                       \/ s.kind = "bin" /\ s.op = op /\ accum_spine_ok(name, op, s.lhs, s.rhs, assigned)
  IN  \/ side_folds(l) /\ ~ expr_references_any(r, assigned)
      \/ side_folds(r) /\ ~ expr_references_any(l, assigned)

is_commutative_accum(name, value, assigned) ==
  /\ value.kind = "bin"
  /\ is_commutative_monoid_op(value.op)
  /\ accum_spine_ok(name, value.op, value.lhs, value.rhs, assigned)

is_extremum_idiom(s, assigned) ==
  /\ s.else = <<>> /\ Len(s.then) = 1
  /\ s.then[1].kind = "assign"
  /\ s.op \in Comparisons
  /\ LET acc == Var(s.then[1].name)  v == s.then[1].value IN
     /\ {s.lhs, s.rhs} = {acc, v}
     /\ ~ expr_references_any(v, assigned)

(* Slip: the value of a store may read any loop variable. *)
store_order_safe_any_var(s, forbidden, temps, vars, src) ==
  /\ s.dst \notin src
  /\ s.key.kind = "var" /\ s.key.name \in vars \ forbidden
  /\ ~ expr_references_any(s.value, forbidden \cup temps)

(* dst[v] = e: v is a loop variable, and e a function of v alone. *)
store_order_safe(s, forbidden, temps, vars, src) ==
  /\ s.dst \notin src
  /\ s.key.kind = "var" /\ s.key.name \in vars \ forbidden
  /\ ~ expr_references_any(s.value, forbidden \cup temps \cup (vars \ {s.key.name}))

(* dst.add(e): e is a function of the loop variables. *)
add_order_safe(s, forbidden, temps, src) ==
  /\ s.dst \notin src
  /\ ~ expr_references_any(s.elem, forbidden \cup temps)

RECURSIVE set_iter_stmt_order_safe(_, _, _, _, _)
set_iter_stmt_order_safe(s, forbidden, temps, vars, src) ==
  LET all_safe(b, vs) == \A t \in Elems(b) : set_iter_stmt_order_safe(t, forbidden, temps, vs, src) IN
  CASE s.kind = "assign" -> is_commutative_accum(s.name, s.value, forbidden)
    [] s.kind = "if"     -> \/ is_extremum_idiom(s, forbidden)
                            \/ /\ ~ expr_references_any(s.lhs, forbidden)
                               /\ ~ expr_references_any(s.rhs, forbidden)
                               /\ all_safe(s.then, vars) /\ all_safe(s.else, vars)
    [] s.kind = "for"    -> all_safe(s.body, vars \cup {s.var})
    [] s.kind = "let"    -> ~ expr_references_any(s.value, forbidden)
    [] s.kind = "store"  -> store_order_safe(s, forbidden, temps, vars, src)
    [] s.kind = "add"    -> add_order_safe(s, forbidden, temps, src)

(* The loop is `for x in s`; nested loops walk s again. *)
set_iteration_body_order_safe(b) ==
  LET forbidden == collect_assigned_names(b) \cup collect_hash_store_dsts(b) IN
  \A s \in Elems(b) : set_iter_stmt_order_safe(s, forbidden, collect_let_names(b), {"x"}, {"s"})

(* The ways a body folds into n: the operators of its accumulations, the     *)
(* directions of its extrema, the stores into it.                            *)
FoldsInto(b, n) ==
  LET extrema == {s \in Within(b) : s.kind = "if" /\ is_extremum_idiom(s, {n})
                                      /\ s.then[1].name = n}
  IN  {<<s.value.op>> : s \in {t \in Within(b) : t.kind = "assign" /\ t.name = n
                                 /\ t.value.kind = "bin" /\ \A e \in extrema : t # e.then[1]}}
      \cup {<<"extremum", (s.op \in {">", ">="}) = (s.lhs = Var(n))>> : s \in extrema}
      \cup {<<s.key, s.value>> : s \in {t \in Within(b) : t.kind = "store" /\ t.dst = n}}

OneFoldEach(b) ==
  \A n \in collect_assigned_names(b) \cup collect_hash_store_dsts(b) : Cardinality(FoldsInto(b, n)) <= 1

-----------------------------------------------------------------------------
(* Running a body.  `mode` is the arithmetic: "wasm", "python" (exact), or   *)
(* "fitting" (exact where the result fits the word, a trap elsewhere).       *)

(* Python's results; an exception is {}. *)
Exact(op, a, b) ==
  CASE op = "+"   -> {a + b}
    [] op = "-"   -> {a - b}
    [] op = "*"   -> {a * b}
    [] op = "//"  -> IF b = 0 THEN {} ELSE {FloorDiv(a, b)}
    [] op = "%"   -> IF b = 0 THEN {} ELSE {a - b * FloorDiv(a, b)}
    [] op = "<<"  -> IF b < 0 THEN {} ELSE {a * 2^b}
    [] op = ">>"  -> IF b < 0 THEN {} ELSE {a \div 2^b}
    [] op = "min" -> {IF b < a THEN b ELSE a}
    [] op = "max" -> {IF b > a THEN b ELSE a}

Emitted(op, a, b) ==
  CASE op = "+"   -> add_i64(a, b)
    [] op = "-"   -> sub_i64(a, b)
    [] op = "*"   -> mul_i64(a, b)
    [] op = "//"  -> floordiv_i64(a, b)
    [] op = "%"   -> floormod_i64(a, b)
    [] op = "<<"  -> shl_i64(a, b)
    [] op = ">>"  -> shr_i64(a, b)
    [] op = "min" -> min_i64(a, b)
    [] op = "max" -> max_i64(a, b)

(* A remainder is computed from its quotient, which has to fit as well. *)
Fitting(op, a, b) ==
  IF op = "%" /\ Exact("//", a, b) \cap I64 = {} THEN {} ELSE Exact(op, a, b) \cap I64

Apply(mode, op, a, b) ==
  CASE mode = "wasm"    -> Emitted(op, a, b)
    [] mode = "python"  -> Exact(op, a, b)
    [] mode = "fitting" -> Fitting(op, a, b)

Negated(mode, a) ==
  CASE mode = "wasm" -> neg_i64(a) [] mode = "python" -> {-a} [] mode = "fitting" -> {-a} \cap I64

Absolute(mode, a) ==
  CASE mode = "wasm"    -> abs_i64(a)
    [] mode = "python"  -> {Magnitude(a)}
    [] mode = "fitting" -> {Magnitude(a)} \cap I64

RECURSIVE Eval(_, _, _)
Eval(mode, e, env) ==
  CASE e.kind = "var" -> {env[e.name]}
    [] e.kind = "lit" -> {e.val}
    [] e.kind = "neg" -> UNION {Negated(mode, a) : a \in Eval(mode, e.arg, env)}
    [] e.kind = "abs" -> UNION {Absolute(mode, a) : a \in Eval(mode, e.arg, env)}
    [] e.kind = "bin" -> UNION {UNION {Apply(mode, e.op, a, b) : b \in Eval(mode, e.rhs, env)}
                                  : a \in Eval(mode, e.lhs, env)}

Holds(op, a, b) ==
  CASE op = "<" -> a < b [] op = "<=" -> a <= b [] op = ">" -> a > b [] op = ">=" -> a >= b

RECURSIVE Exec(_, _, _, _), Run(_, _, _, _), Loop(_, _, _, _, _, _)

(* A statement, a sequence of statements, and the iterations left of a loop  *)
(* over `ord`: the locals they leave behind.                                 *)
Exec(mode, s, env, ord) ==
  CASE s.kind \in {"assign", "let"} -> {[env EXCEPT ![s.name] = v] : v \in Eval(mode, s.value, env)}
    [] s.kind = "store" -> {[env EXCEPT ![s.dst] = (env[s.key.name] :> v) @@ @] : v \in Eval(mode, s.value, env)}
    [] s.kind = "add"   -> {[env EXCEPT ![s.dst] = @ \cup {v}] : v \in Eval(mode, s.elem, env)}
    [] s.kind = "for"   -> Loop(mode, s.var, s.body, env, ord, ord)
    [] s.kind = "if"    -> UNION {UNION {Run(mode, IF Holds(s.op, a, b) THEN s.then ELSE s.else, env, ord)
                                    : b \in Eval(mode, s.rhs, env)} : a \in Eval(mode, s.lhs, env)}

Run(mode, b, env, ord) ==
  IF b = <<>> THEN {env}
  ELSE UNION {Run(mode, Tail(b), e, ord) : e \in Exec(mode, Head(b), env, ord)}

Loop(mode, var, b, env, ord, todo) ==
  IF todo = <<>> THEN {env}
  ELSE UNION {Loop(mode, var, b, e, ord, Tail(todo)) : e \in Run(mode, b, [env EXCEPT ![var] = Head(todo)], ord)}

-----------------------------------------------------------------------------
VARIABLES
  phase,   \* "check" | "refused" | "loop" | "done" | "trapped"
  body,    \* the loop's body
  order,   \* the order in which the storage holds the elements
  idx,     \* the synthetic index of the emitted while loop
  env      \* the function's locals, as a set: {} once it has trapped

vars == <<phase, body, order, idx, env>>

Init ==
  /\ phase = "check"
  /\ body \in {b \in Bodies : MixedFolds \/ OneFoldEach(b)}
  /\ order \in Orders
  /\ idx = 0
  /\ env = {StartEnv}

Refuse ==
  /\ phase = "check"
  /\ ~ set_iteration_body_order_safe(body)
  /\ phase' = "refused"
  /\ UNCHANGED <<body, order, idx, env>>

Accept ==
  /\ phase = "check"
  /\ set_iteration_body_order_safe(body)
  /\ phase' = "loop"
  /\ UNCHANGED <<body, order, idx, env>>

(* while idx < len(s): x = s[idx]; idx = idx + 1; <body> *)
Iterate ==
  /\ phase = "loop"
  /\ idx < Len(order)
  /\ env' = UNION {Run("wasm", body, [e EXCEPT !["x"] = order[idx + 1]], order) : e \in env}
  /\ phase' = IF env' = {} THEN "trapped" ELSE "loop"
  /\ idx' = idx + 1
  /\ UNCHANGED <<body, order>>

Leave ==
  /\ phase = "loop"
  /\ idx >= Len(order)
  /\ phase' = "done"
  /\ UNCHANGED <<body, order, idx, env>>

Next == Refuse \/ Accept \/ Iterate \/ Leave

Spec == Init /\ [][Next]_vars

-----------------------------------------------------------------------------
(* Any order of the same elements; Python's, for one. *)
PythonOrder(s) ==
  LET n == Len(s)  sorted == CHOOSE t \in [1 .. n -> Elems(s)] : \A i \in 1 .. n - 1 : t[i] < t[i + 1]
  IN  sorted

(* What a function can see behind its loop: the accumulators and the dicts   *)
(* and sets stored into.  (A loop variable or a temporary read behind the    *)
(* loop reaches the backend as an assignment.)                               *)
Carried(envs) ==
  {[n \in collect_assigned_names(body) \cup collect_hash_store_dsts(body) |-> e[n]] : e \in envs}

(* An accepted loop that ends leaves the locals Python's loop leaves, in     *)
(* whatever order the storage was walked: no order-dependent body is let     *)
(* through, and no helper returns what the exact integers would not          *)
(* (set_iteration_body_order_safe, "it can NEVER accept an order-dependent   *)
(* one").                                                                    *)
LoopAgrees ==
  LET ord == PythonOrder(order) IN
  phase = "done" => Carried(env) = Carried(Loop("python", "x", body, StartEnv, ord, ord))

(* A loop traps in an iteration just when Python raises there, or computes   *)
(* something a word cannot hold: no check gives up too early, and none lets  *)
(* a wrapped value pass (the arithmetic helpers' comments).                  *)
TrapsWhenDue ==
  LET sofar == SubSeq(order, 1, idx) IN
  phase \in {"loop", "trapped"} => env = Loop("fitting", "x", body, StartEnv, order, sofar)
=============================================================================
