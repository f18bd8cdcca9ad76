----------------------------- MODULE ScalarCode -----------------------------
(***************************************************************************)
(* Scalar code in its two forms: the trees of meta-HIR, and the WebAssembly *)
(* text the backend writes for them.  What each means, and the emission.   *)
(*                                                                         *)
(* Results are sets, as in WasmArith: {} is a trap.  A boolean is 0 or 1.  *)
(* Loops run at most `fuel` times; then both forms are cut off ("hang").   *)
(***************************************************************************)
EXTENDS WasmArith, Sequences, FiniteSetsExt, TLC

CONSTANT Callees   \* the module's other functions: name -> [arity, gives: arguments -> results, value: BOOLEAN]

(* Trees.                                                                    *)
Ident(n)         == [kind |-> "ident", name |-> n]
LitInt(v)        == [kind |-> "int", val |-> v]
LitBool(v)       == [kind |-> "bool", val |-> v]
BinOp(op, l, r)  == [kind |-> "bin", op |-> op, lhs |-> l, rhs |-> r]
Not(e)           == [kind |-> "not", arg |-> e]
IfExpr(c, t, e)  == [kind |-> "ifexpr", cond |-> c, then |-> t, else |-> e]
Call(f, args)    == [kind |-> "call", callee |-> f, args |-> args]
Unit             == [kind |-> "unit"]

Let(n, e)        == [kind |-> "let", name |-> n, value |-> e]
Assign(n, e)     == [kind |-> "assign", name |-> n, value |-> e]
If(c, t, e)      == [kind |-> "if", cond |-> c, then |-> t, else |-> e]
While(c, b)      == [kind |-> "while", cond |-> c, body |-> b]
Return(e)        == [kind |-> "return", value |-> e]
Break            == [kind |-> "break"]
Continue         == [kind |-> "continue"]
SideEffectCall(f, args) == [kind |-> "effect", callee |-> f, args |-> args]
Raise            == [kind |-> "raise"]

(* A tree's parts, itself included. *)
RECURSIVE ExprParts(_)
ExprParts(e) ==
  {e} \cup (CASE e.kind = "bin"    -> ExprParts(e.lhs) \cup ExprParts(e.rhs)
              [] e.kind = "not"    -> ExprParts(e.arg)
              [] e.kind = "ifexpr" -> ExprParts(e.cond) \cup ExprParts(e.then) \cup ExprParts(e.else)
              [] e.kind = "call"   -> UNION {ExprParts(e.args[i]) : i \in DOMAIN e.args}
              [] OTHER             -> {})

RECURSIVE StmtParts(_)
StmtParts(b) ==
  UNION {LET s == b[i] IN
         {s} \cup (CASE s.kind \in {"let", "assign", "return"} -> ExprParts(s.value)
                     [] s.kind = "if"     -> ExprParts(s.cond) \cup StmtParts(s.then) \cup StmtParts(s.else)
                     [] s.kind = "while"  -> ExprParts(s.cond) \cup StmtParts(s.body)
                     [] s.kind = "effect" -> UNION {ExprParts(s.args[j]) : j \in DOMAIN s.args}
                     [] OTHER             -> {}) : i \in DOMAIN b}
Parts(f) == StmtParts(f.stmts) \cup ExprParts(f.value)

-----------------------------------------------------------------------------
(* What a tree means, in WebAssembly, where locals are the function's and    *)
(* start at zero; and in Rust, where they are `scoped`: a local that a block *)
(* declares ends with the block, and one it hides is there again.            *)

Flag(p) == IF p THEN 1 ELSE 0

Operation(op, a, b) ==
  CASE op = "+"  -> add_i64(a, b)
    [] op = "-"  -> sub_i64(a, b)
    [] op = "//" -> floordiv_i64(a, b)
    [] op = "%"  -> floormod_i64(a, b)
    [] op = "<"  -> {Flag(a < b)}
    [] op = ">"  -> {Flag(a > b)}
    [] op = "==" -> {Flag(a = b)}

RECURSIVE Eval(_, _), EvalAll(_, _)
Eval(e, env) ==
  CASE e.kind = "ident"  -> {env[e.name]}
    [] e.kind \in {"int", "bool"} -> {e.val}
    [] e.kind = "not"    -> {1 - v : v \in Eval(e.arg, env)}
    [] e.kind = "ifexpr" -> UNION {Eval(IF c # 0 THEN e.then ELSE e.else, env) : c \in Eval(e.cond, env)}
    [] e.kind = "call"   -> UNION {Callees[e.callee].gives[args] : args \in EvalAll(e.args, env)}
    [] e.kind = "unit"   -> {0}
    [] e.op = "and"      -> UNION {IF a # 0 THEN Eval(e.rhs, env) ELSE {0} : a \in Eval(e.lhs, env)}
    [] OTHER             -> UNION {UNION {Operation(e.op, a, b) : b \in Eval(e.rhs, env)} : a \in Eval(e.lhs, env)}

EvalAll(es, env) ==
  IF es = <<>> THEN {<<>>}
  ELSE UNION {{<<v>> \o vs : vs \in EvalAll(Tail(es), env)} : v \in Eval(Head(es), env)}

(* A point of an execution: how control goes on, the locals, the fuel left,  *)
(* the value returned, whether locals are scoped, and what the block's own   *)
(* locals hide.                                                              *)
At(how, env, fuel, val, scoped) ==
  [how |-> how, env |-> env, fuel |-> fuel, val |-> val, scoped |-> scoped, hidden |-> <<>>]

RECURSIVE Exec(_, _), ExecAll(_, _), Block(_, _), Again(_, _)
Exec(s, p) ==
  CASE s.kind = "let"      -> {[p EXCEPT !.env[s.name] = v, !.hidden = @ @@ (s.name :> p.env[s.name])] :
                                 v \in Eval(s.value, p.env)}
    [] s.kind = "assign"   -> {[p EXCEPT !.env[s.name] = v] : v \in Eval(s.value, p.env)}
    [] s.kind = "if"       -> UNION {Block(IF c # 0 THEN s.then ELSE s.else, p) : c \in Eval(s.cond, p.env)}
    [] s.kind = "while"    -> Again(s, p)
    [] s.kind = "return"   -> {[p EXCEPT !.how = "return", !.val = v] : v \in Eval(s.value, p.env)}
    [] s.kind \in {"break", "continue"} -> {[p EXCEPT !.how = s.kind]}
    [] s.kind = "effect"   -> {p : v \in Eval(Call(s.callee, s.args), p.env)}
    [] s.kind = "raise"    -> {}

ExecAll(b, p) ==
  IF b = <<>> \/ p.how # "on" THEN {p} ELSE UNION {ExecAll(Tail(b), q) : q \in Exec(Head(b), p)}

Block(b, p) ==
  {[q EXCEPT !.env = IF p.scoped THEN q.hidden @@ @ ELSE @, !.hidden = p.hidden] :
     q \in ExecAll(b, [p EXCEPT !.hidden = <<>>])}

Again(s, p) ==
  LET once(c) ==
        IF c = 0 THEN {p}
        ELSE IF p.fuel = 0 THEN {[p EXCEPT !.how = "hang"]}
        ELSE Block(s.body, [p EXCEPT !.fuel = @ - 1])
      next(c, q) ==
        CASE c = 0                          -> {q}
          [] q.how \in {"on", "continue"}   -> Again(s, [q EXCEPT !.how = "on"])
          [] q.how = "break"                -> {[q EXCEPT !.how = "on"]}
          [] q.how \in {"return", "hang"}   -> {q}
  IN  UNION {UNION {next(c, q) : q \in once(c)} : c \in Eval(s.cond, p.env)}

Result(how, val) == [how |-> how, val |-> val]

(* What a function of `ret` results whose body is `tree` gives: {} is a trap. *)
TreeRuns(tree, ret, env, fuel, scoped) ==
  LET returned(p) == IF p.how = "return" THEN {p.val} ELSE Eval(tree.value, p.env) IN
  UNION {IF p.how = "hang" THEN {Result("hang", 0)}
         ELSE {Result("return", IF ret = 1 THEN v ELSE 0) : v \in returned(p)} :
            p \in ExecAll(tree.stmts, At("on", env, fuel, 0, scoped))}

TreeGives(tree, ret, env, fuel)   == TreeRuns(tree, ret, env, fuel, FALSE)
ScopedGives(tree, ret, env, fuel) == TreeRuns(tree, ret, env, fuel, TRUE)

-----------------------------------------------------------------------------
(* The emission.  A word of text is an instruction with its operand; three   *)
(* groups that occur only whole are one word each:                           *)
(*   "loop"  is  (block $brk (loop $cont                                     *)
(*   "guard" is  i32.eqz br_if $brk                                          *)
(*   "again" is  br $cont ) )                                                *)

Routed == [op \in {"+", "-", "//", "%"} |->
             CASE op = "+"  -> "__wasm_add_i64"      [] op = "-" -> "__wasm_sub_i64"
               [] op = "//" -> "__wasm_floordiv_i64" [] op = "%" -> "__wasm_floormod_i64"]

(* A comparison of numbers, or (==) of booleans. *)
Compared == [op \in {"<", ">", "=="} |-> CASE op = "<" -> "i64.lt_s" [] op = ">" -> "i64.gt_s" [] op = "==" -> "i32.eq"]

emit_op(op) == IF op \in DOMAIN Routed THEN <<"call", Routed[op]>> ELSE <<Compared[op]>>

RECURSIVE emit_expr(_), emit_all(_)
emit_expr(e) ==
  CASE e.kind = "ident"  -> << <<"local.get", e.name>> >>
    [] e.kind = "int"    -> << <<"i64.const", e.val>> >>
    [] e.kind = "bool"   -> << <<"i32.const", e.val>> >>
    [] e.kind = "not"    -> emit_expr(e.arg) \o << <<"i32.eqz">> >>
    [] e.kind = "ifexpr" -> emit_expr(e.cond) \o << <<"if result">> >> \o emit_expr(e.then)
                              \o << <<"else">> >> \o emit_expr(e.else) \o << <<"end">> >>
    [] e.kind = "call"   -> emit_all(e.args) \o << <<"call", e.callee>> >>
    [] e.kind = "unit"   -> <<>>
    [] e.op = "and"      -> emit_expr(IfExpr(e.lhs, e.rhs, LitBool(0)))
    [] OTHER             -> emit_expr(e.lhs) \o emit_expr(e.rhs) \o <<emit_op(e.op)>>

emit_all(es) == IF es = <<>> THEN <<>> ELSE emit_expr(Head(es)) \o emit_all(Tail(es))

RECURSIVE emit_stmt(_), emit_block(_)
emit_stmt(s) ==
  CASE s.kind \in {"let", "assign"} -> emit_expr(s.value) \o << <<"local.set", s.name>> >>
    [] s.kind = "if"       -> emit_expr(s.cond) \o << <<"if">> >> \o emit_block(s.then)
                                \o (IF s.else = <<>> THEN <<>> ELSE << <<"else">> >> \o emit_block(s.else))
                                \o << <<"end">> >>
    [] s.kind = "while"    -> << <<"loop">> >> \o emit_expr(s.cond) \o << <<"guard">> >>
                                \o emit_block(s.body) \o << <<"again">> >>
    [] s.kind = "return"   -> emit_expr(s.value) \o << <<"return">> >>
    [] s.kind = "break"    -> << <<"br", "brk">> >>
    [] s.kind = "continue" -> << <<"br", "cont">> >>
    [] s.kind = "effect"   -> emit_all(s.args) \o << <<"call", s.callee>> >>
                                \o (IF Callees[s.callee].value THEN << <<"drop">> >> ELSE <<>>)
    [] s.kind = "raise"    -> << <<"unreachable">> >>

emit_block(b) == IF b = <<>> THEN <<>> ELSE emit_stmt(Head(b)) \o emit_block(Tail(b))

emit_function(tree) == emit_block(tree.stmts) \o emit_expr(tree.value)

-----------------------------------------------------------------------------
(* What text means: the machine of the WebAssembly standard.                 *)

Opens  == {"if", "if result", "loop"}
Closes == {"end", "again"}

(* Text and its structure: where the construct that a word opens closes, and *)
(* where its else is.                                                        *)
Structured(text) ==
  LET depth     == [j \in DOMAIN text |-> Cardinality({k \in 1 .. j : text[k][1] \in Opens})
                                            - Cardinality({k \in 1 .. j : text[k][1] \in Closes})]
      opens     == {i \in DOMAIN text : text[i][1] \in Opens}
      close     == [i \in opens |-> Min({j \in i .. Len(text) : depth[j] < depth[i]})]
  IN  [words |-> text,
       close |-> close,
       else  |-> [i \in opens |-> {j \in i .. close[i] : text[j][1] = "else" /\ depth[j] = depth[i]}]]

Helpers     == Range(Routed)
Comparisons == Range(Compared)

(* Operands a word takes. *)
Takes(t) ==
  CASE t[1] \in {"local.set", "if", "if result", "guard", "i32.eqz", "drop"} -> 1
    [] t[1] = "call"     -> IF t[2] \in Helpers THEN 2 ELSE Callees[t[2]].arity
    [] t[1] \in Comparisons -> 2
    [] OTHER             -> 0

Called(f, args) ==
  CASE f = "__wasm_add_i64"      -> add_i64(args[1], args[2])
    [] f = "__wasm_sub_i64"      -> sub_i64(args[1], args[2])
    [] f = "__wasm_floordiv_i64" -> floordiv_i64(args[1], args[2])
    [] f = "__wasm_floormod_i64" -> floormod_i64(args[1], args[2])
    [] OTHER                     -> Callees[f].gives[args]

HasValue(f) == f \in Helpers \/ Callees[f].value

(* A machine: the next word, the operands, the open constructs (where each   *)
(* begins, whether it is a loop, the operands below it), locals and fuel.    *)
Machine(env, fuel) == [pc |-> 1, ops |-> <<>>, open |-> <<>>, env |-> env, fuel |-> fuel]

FloorOf(m) == IF m.open = <<>> THEN 0 ELSE m.open[Len(m.open)].floor

(* The machine at the innermost loop, what was opened inside it closed. *)
AtLoop(m) ==
  LET n == Max({i \in DOMAIN m.open : m.open[i].loop}) IN
  [m EXCEPT !.open = SubSeq(@, 1, n), !.ops = SubSeq(@, 1, m.open[n].floor)]

Leave(code, m) ==
  LET c == m.open[Len(m.open)] IN
  [m EXCEPT !.open = SubSeq(@, 1, Len(@) - 1), !.pc = code.close[c.begin] + 1]

(* One word, its operands `args` taken off: the machines that may follow.    *)
StepOf(code, m, t, args) ==
  LET go     == [m EXCEPT !.pc = @ + 1]
      push(v) == [go EXCEPT !.ops = Append(@, v)]
      enter  == [go EXCEPT !.open = Append(@, [begin |-> m.pc, loop |-> t[1] = "loop", floor |-> Len(m.ops)])]
  IN CASE t[1] = "local.get"             -> {push(m.env[t[2]])}
       [] t[1] \in {"i64.const", "i32.const"} -> {push(t[2])}
       [] t[1] = "local.set"             -> {[go EXCEPT !.env[t[2]] = args[1]]}
       [] t[1] = "drop"                  -> {go}
       [] t[1] = "unreachable"           -> {}
       [] t[1] = "i32.eqz"               -> {push(Flag(args[1] = 0))}
       [] t[1] = "i64.lt_s"              -> {push(Flag(args[1] < args[2]))}
       [] t[1] = "i64.gt_s"              -> {push(Flag(args[1] > args[2]))}
       [] t[1] = "i32.eq"                -> {push(Flag(args[1] = args[2]))}
       [] t[1] = "call"                  -> {IF HasValue(t[2]) THEN push(v) ELSE go : v \in Called(t[2], args)}
       [] t[1] = "loop"                  -> {enter}
       [] t[1] \in {"if", "if result"}   ->
            {IF args[1] # 0 THEN enter
             ELSE IF code.else[m.pc] # {} THEN [enter EXCEPT !.pc = Max(code.else[m.pc]) + 1]
             ELSE [go EXCEPT !.pc = code.close[m.pc] + 1]}
       [] t[1] \in {"else", "end"}       -> {Leave(code, m)}
       [] t[1] = "guard"                 ->
            {IF args[1] = 0 THEN Leave(code, AtLoop(m)) ELSE [go EXCEPT !.fuel = @ - 1]}
       [] t = <<"br", "brk">>            -> {Leave(code, AtLoop(m))}
       [] t[1] \in {"again", "br"}       ->
            LET l == AtLoop(m) IN {[l EXCEPT !.pc = l.open[Len(l.open)].begin + 1]}

(* Does a construct end with the operands it owes? *)
Balanced(code, m, t) ==
  LET owed == IF code.words[m.open[Len(m.open)].begin][1] = "if result" THEN 1 ELSE 0 IN
  t[1] \in {"else", "end", "again"} => Len(m.ops) = FloorOf(m) + owed

RECURSIVE Runs(_, _, _)
(* What text gives from m; "invalid" is text no validator would accept.      *)
Runs(code, ret, m) ==
  IF m.pc > Len(code.words) \/ code.words[m.pc][1] = "return"
  THEN LET have == Len(m.ops) - FloorOf(m) IN
       IF have < ret \/ (m.pc > Len(code.words) /\ have # ret) THEN {Result("invalid", 0)}
       ELSE {Result("return", IF ret = 1 THEN m.ops[Len(m.ops)] ELSE 0)}
  ELSE LET t == code.words[m.pc]
           n == Takes(t)
           k == Len(m.ops) - n
       IN  IF k < FloorOf(m) \/ ~ Balanced(code, m, t) THEN {Result("invalid", 0)}
           ELSE IF t[1] = "guard" /\ m.fuel = 0 /\ m.ops[k + 1] # 0 THEN {Result("hang", 0)}
           ELSE UNION {Runs(code, ret, next) :
                         next \in StepOf(code, [m EXCEPT !.ops = SubSeq(@, 1, k)], t, SubSeq(m.ops, k + 1, k + n))}

TextGives(code, ret, env, fuel) == Runs(code, ret, Machine(env, fuel))
=============================================================================
