------------------------------- MODULE PyNames -------------------------------
(***************************************************************************)
(* How the Python frontend places a function's names in meta-HIR.  A name   *)
(* of Python belongs to its function; one of Rust to its block.  The         *)
(* frontend therefore decides which assignment declares a name, which range  *)
(* loop declares its target, what is declared before a loop because it is    *)
(* read after it, and where a guard must stand for CPython's                 *)
(* UnboundLocalError; and it turns range loops, loop `else` clauses and      *)
(* assignments under an `if` into the forms of meta-HIR.                     *)
(*                                                                         *)
(* A function is its leading statements and the expression it returns.       *)
(***************************************************************************)
EXTENDS PyScalars

CONSTANT Programs   \* [params, leading, value, start: the arguments it is run with]

VARIABLES
  program,   \* the function being lowered
  at,        \* the leading statement that is lowered next
  ctx,       \* LoweringCtx: see NoCtx
  hir,       \* the statements lowered so far
  guards,    \* the guards to come: [before: a statement's position, stmt]
  lowering   \* "lowering" | "lowered" | "refused"

pyvars == <<program, at, ctx, hir, guards, lowering>>

-----------------------------------------------------------------------------
(* The walks over Python statements.                                         *)

RECURSIVE count_reads(_)
(* The names a block reads: neither the target of `n += e` nor the else of a *)
(* loop counts.                                                              *)
count_reads(b) ==
  UNION {LET s == b[i] IN
         CASE s.kind \in {"assign", "aug", "return"} -> Names(s.value)
           [] s.kind = "if"    -> Names(s.cond) \cup count_reads(s.then) \cup count_reads(s.else)
           [] s.kind = "while" -> Names(s.cond) \cup count_reads(s.body)
           [] s.kind = "for"   -> RangeNames(s.range) \cup count_reads(s.body)
           [] OTHER            -> {} : i \in DOMAIN b}

RECURSIVE walk_counts(_)
(* The names a block binds. *)
walk_counts(b) ==
  UNION {LET s == b[i] IN
         CASE s.kind \in {"assign", "aug"} -> {s.name}
           [] s.kind = "if"    -> walk_counts(s.then) \cup walk_counts(s.else)
           [] s.kind = "while" -> walk_counts(s.body) \cup walk_counts(s.else)
           [] s.kind = "for"   -> {s.name} \cup walk_counts(s.body) \cup walk_counts(s.else)
           [] OTHER            -> {} : i \in DOMAIN b}

(* What a statement reads whenever it runs, before anything else it does. *)
Prelude(s) ==
  CASE s.kind \in {"assign", "return"} -> Names(s.value)
    [] s.kind = "aug"                  -> {s.name} \cup Names(s.value)
    [] s.kind \in {"if", "while"}      -> Names(s.cond)
    [] s.kind = "for"                  -> RangeNames(s.range)
    [] OTHER                           -> {}

(* A slip: the target of `n += e` is not seen to be read. *)
ReadClassOfLoads(s, n) ==
  CASE n \in Prelude(s) /\ s.kind # "aug" -> "read"
    [] n \notin count_reads(<<s>>) \cup walk_counts(<<s>>) -> "clean"
    [] OTHER -> "mentions"

leak_read_class(s, n) ==
  CASE n \in Prelude(s)                                -> "read"
    [] n \notin Prelude(s) \cup count_reads(<<s>>) \cup walk_counts(<<s>>) -> "clean"
    [] OTHER                                           -> "mentions"

(* Which of the statements after a loop is the first to read its target in   *)
(* any case: 0 if one before it involves the target, or ends the function.   *)
leak_guard_scan(after, n) ==
  LET stops == {k \in DOMAIN after : leak_read_class(after[k], n) # "clean" \/ after[k].kind = "return"} IN
  IF leak_read_class(after[Min(stops)], n) = "read" THEN Min(stops) ELSE 0

-----------------------------------------------------------------------------
(* Lowering a statement.                                                     *)

(* Names bound; those only a range loop bound; those first bound in a branch *)
(* of an if; the number of the next fresh name; the flag and target of the   *)
(* loop about to be lowered, and whether it took them; has it been refused?  *)
NoCtx == [bound |-> {}, loop_scoped |-> {}, if_dead |-> {}, loop_counter |-> 0,
          pending |-> <<>>, consumed |-> FALSE, refused |-> FALSE]

Lowered(c, out) == [ctx |-> c, out |-> out]
Then(l, r)      == Lowered(r.ctx, l.out \o r.out)

Bind(c, ns)      == [c EXCEPT !.bound = @ \cup ns]
Fresh(c, prefix) == prefix \o ToString(c.loop_counter)
Minted(c)        == [c EXCEPT !.loop_counter = @ + 1]
Refused(c)        == [c EXCEPT !.refused = TRUE]

(* A name of a branch that is over is not read. *)
lower_reads(c, ns) == IF \E n \in ns : n \notin c.bound /\ n \in c.if_dead THEN Refused(c) ELSE c

lower_assign(c, s) ==
  Lowered(Bind(lower_reads(c, Names(s.value)), {s.name}),
          <<IF s.name \in c.bound THEN Assign(s.name, s.value) ELSE Let(s.name, s.value)>>)

lower_aug_assign(c, s) ==
  LET l == lower_reads(c, Names(s.value)) IN
  Lowered(IF s.name \in c.bound THEN l ELSE Refused(l), <<Assign(s.name, BinOp("+", Ident(s.name), s.value))>>)

(* A slip: a jump in a branch of an if is missed. *)
InjectedAtTop(b, jump, before) ==
  FlattenSeq([i \in DOMAIN b |-> IF b[i].kind = jump THEN <<before, b[i]>> ELSE <<b[i]>>])

RECURSIVE inject(_, _, _)
(* `before` in front of each jump of this loop, not of the loops inside it. *)
inject(b, jump, before) ==
  FlattenSeq([i \in DOMAIN b |->
    LET s == b[i] IN
    CASE s.kind = jump -> <<before, s>>
      [] s.kind = "if" -> <<If(s.cond, inject(s.then, jump, before), inject(s.else, jump, before))>>
      [] OTHER         -> <<s>>])

inject_continue_increment(b, advance) == inject(b, "continue", advance)
inject_loop_break_flag(b, flag)       == inject(b, "break", Assign(flag, LitBool(1)))

(* The loops of the lowered statements, their breaks raising the flag; then  *)
(* the else, unless it is raised.                                            *)
wrap_loop_else(flag, loop, else) ==
  <<Let(flag, LitBool(0))>>
    \o [i \in DOMAIN loop |-> IF loop[i].kind = "while" THEN [loop[i] EXCEPT !.body = inject_loop_break_flag(@, flag)]
                              ELSE loop[i]]
    \o <<If(BinOp("==", Ident(flag), LitBool(0)), else, <<>>)>>

(* The arms of an if, its elifs' and its else's among them. *)
IsElif(b) == Len(b) = 1 /\ b[1].kind = "if"

RECURSIVE Arms(_), if_chain(_, _)
Arms(s) == <<s.then>> \o (IF IsElif(s.else) THEN Arms(s.else[1]) ELSE <<s.else>>)

find_assignment_value(b, n) == b[Min({i \in DOMAIN b : b[i].name = n})].value

if_chain(s, n) ==
  IfExpr(s.cond, find_assignment_value(s.then, n),
         IF IsElif(s.else) THEN if_chain(s.else[1], n) ELSE find_assignment_value(s.else, n))

is_if_as_let_shape(s) == \A b \in Range(Arms(s)) : b # <<>> /\ \A i \in DOMAIN b : b[i].kind = "assign"

SameNames(a, b) ==
  \A n \in walk_counts(a) \cup walk_counts(b) :
    Cardinality({i \in DOMAIN a : a[i].name = n}) = Cardinality({i \in DOMAIN b : b[i].name = n})

branch_name_sets_differ(s) == \E b \in Range(Arms(s)) : ~ SameNames(s.then, b)
any_arm_seq_hazard(s)      == \E b \in Range(Arms(s)) : walk_counts(b) \cap count_reads(b) # {}

(* Each name its own conditional, in the order of the first arm. *)
lower_if_stmt_as_lets(c, s) ==
  LET one(l, i) == Then(l, lower_assign(l.ctx, Assign(s.then[i].name, if_chain(s, s.then[i].name)))) IN
  IF branch_name_sets_differ(s) THEN Lowered(Refused(c), <<>>)
  ELSE FoldLeft(one, Lowered(c, <<>>), [i \in DOMAIN s.then |-> i])

(* A slip: names alone decide. *)
DivertsByNames(c, s) ==
  /\ UNION {walk_counts(b) : b \in Range(Arms(s))} \subseteq c.bound
  /\ branch_name_sets_differ(s)

(* The if is lowered as such: the names are bound, and one conditional each  *)
(* would lose the order of an arm or has no value for a name.                *)
Diverts(c, s) ==
  /\ UNION {walk_counts(b) : b \in Range(Arms(s))} \subseteq c.bound
  /\ branch_name_sets_differ(s) \/ any_arm_seq_hazard(s)

RECURSIVE lower_block_stmt(_, _)
lower_block(c, b) == FoldLeft(LAMBDA l, s : Then(l, lower_block_stmt(l.ctx, s)), Lowered(c, <<>>), b)

(* What a branch binds first ends with it. *)
lower_if_stmt(c, s) ==
  LET then == lower_block(lower_reads(c, Names(s.cond)), s.then)
      else == lower_block(then.ctx, s.else)
  IN  Lowered([else.ctx EXCEPT !.bound = c.bound, !.if_dead = @ \cup (else.ctx.bound \ c.bound)],
              <<If(s.cond, then.out, else.out)>>)

lower_while_stmt(c, s) ==
  LET body == lower_block(lower_reads(c, Names(s.cond)), s.body)
      loop == <<While(s.cond, body.out)>>
      else == lower_block(Minted(body.ctx), s.else)
  IN  IF s.else = <<>> THEN Lowered(body.ctx, loop)
      ELSE Lowered(else.ctx, wrap_loop_else(Fresh(body.ctx, "__broke"), loop, else.out))

(* Where a range starts and stops, and its step. *)
Bounds(r) ==
  IF r.reversed THEN [start |-> BinOp("-", r.hi, LitInt(1)), stop |-> BinOp("-", r.lo, LitInt(1)), step |-> -1]
  ELSE [start |-> r.lo, stop |-> r.hi, step |-> r.step]

(* A counter of its own drives the loop; the target takes its value where    *)
(* the body begins, and is declared unless an assignment has bound it; the   *)
(* stop is computed once.                                                    *)
lower_for_range(c0, s) ==
  LET c        == lower_reads(c0, RangeNames(s.range))
      range    == Bounds(s.range)
      counter  == Fresh(c, "__forc")
      declares == s.name \notin c.bound \/ s.name \in c.loop_scoped
      literal  == range.stop.kind = "int"
      stop     == IF literal THEN range.stop ELSE Ident(Fresh(Minted(c), "__forstop"))
      takes    == c.pending # <<>> /\ c.pending[2] = s.name
      inside   == [(IF literal THEN Minted(c) ELSE Minted(Minted(c))) EXCEPT
                     !.bound = @ \cup {s.name},
                     !.loop_scoped = IF declares THEN @ \cup {s.name} ELSE @,
                     !.pending = <<>>,
                     !.consumed = @ \/ takes]
      body     == lower_block(inside, s.body)
      advance  == Assign(counter, BinOp("+", Ident(counter), LitInt(range.step)))
      round    == <<Assign(s.name, Ident(counter))>> \o (IF takes THEN <<Assign(c.pending[1], LitBool(1))>> ELSE <<>>)
                    \o body.out
  IN  Lowered(body.ctx,
        <<Let(counter, range.start)>>
          \o (IF declares THEN <<Let(s.name, Ident(counter))>> ELSE <<>>)
          \o (IF literal THEN <<>> ELSE <<Let(stop.name, range.stop)>>)
          \o <<While(BinOp(IF range.step > 0 THEN "<" ELSE ">", Ident(counter), stop),
                     Append(inject_continue_increment(round, advance), advance))>>)

lower_for_stmt(c, s) ==
  IF s.else = <<>> THEN lower_for_range(c, s)
  ELSE LET loop == lower_for_range(Minted(c), s)
           else == lower_block(loop.ctx, s.else)
       IN  Lowered(else.ctx, wrap_loop_else(Fresh(c, "__broke"), loop.out, else.out))

lower_block_stmt(c, s) ==
  CASE c.refused          -> Lowered(c, <<>>)
    [] s.kind = "assign"  -> lower_assign(c, s)
    [] s.kind = "aug"     -> lower_aug_assign(c, s)
    [] s.kind = "if"      -> IF is_if_as_let_shape(s) /\ ~ Diverts(c, s) THEN lower_if_stmt_as_lets(c, s)
                             ELSE lower_if_stmt(c, s)
    [] s.kind = "while"   -> lower_while_stmt(c, s)
    [] s.kind = "for"     -> lower_for_stmt(c, s)
    [] s.kind = "return"  -> Lowered(lower_reads(c, Names(s.value)), <<s>>)
    [] s.kind \in {"break", "continue"} -> Lowered(c, <<s>>)

-----------------------------------------------------------------------------
(* Lowering a function, a leading statement at a time.                       *)

After(i) == SubSeq(program.leading, i + 1, Len(program.leading)) \o <<Return(program.value)>>

(* Before which statement a guard is due for the loop at i; 0 for none. *)
leak_plan(c, i) ==
  LET s == program.leading[i] IN
  IF s.kind = "for" /\ s.else = <<>> /\ s.name \notin c.bound \cup c.loop_scoped
  THEN LET k == leak_guard_scan(After(i), s.name) IN IF k = 0 THEN 0 ELSE i + k
  ELSE 0

(* The names the loop's body binds first, at its top level, and that are     *)
(* read after the loop: they are declared before it.                         *)
predeclared(c, s, after) ==
  LET target     == IF s.kind = "for" THEN {s.name} ELSE {}
      take(ns, b) ==
        IF /\ b.kind = "assign"
           /\ b.name \notin c.bound \cup target \cup c.loop_scoped \cup Range(ns)
           /\ b.name \in count_reads(after)
           /\ ~ lower_reads(Bind(c, target \cup Range(ns)), Names(b.value)).refused
        THEN Append(ns, b.name) ELSE ns
  IN  IF s.kind \in {"for", "while"} /\ s.else = <<>> THEN FoldLeft(take, <<>>, s.body) ELSE <<>>

leak_guard_stmt(flag) == If(BinOp("==", Ident(flag), LitBool(0)), <<Raise>>, <<>>)

Due(i) == LET here == SelectSeq(guards, LAMBDA g : g.before = i) IN [k \in DOMAIN here |-> here[k].stmt]

PyInit ==
  /\ program \in Programs
  /\ at = 1
  /\ ctx = Bind(NoCtx, program.params)
  /\ hir = <<>>
  /\ guards = <<>>
  /\ lowering = "lowering"

LowerStatement ==
  /\ lowering = "lowering" /\ at <= Len(program.leading)
  /\ LET s      == program.leading[at]
         before == leak_plan(ctx, at)
         flag   == Fresh(ctx, "__feset")
         c      == IF before = 0 THEN ctx ELSE [Minted(ctx) EXCEPT !.pending = <<flag, s.name>>]
         early  == predeclared(c, s, After(at))
         l      == lower_block_stmt(Bind(c, Range(early)), s)
     IN
     /\ lowering' = IF l.ctx.refused THEN "refused" ELSE "lowering"
     /\ hir' = hir \o Due(at) \o [k \in DOMAIN early |-> Let(early[k], LitInt(0))]
                   \o (IF l.ctx.consumed THEN <<Let(flag, LitBool(0))>> ELSE <<>>) \o l.out
     /\ guards' = IF l.ctx.consumed THEN Append(guards, [before |-> before, stmt |-> leak_guard_stmt(flag)]) ELSE guards
     /\ ctx' = [l.ctx EXCEPT !.pending = <<>>, !.consumed = FALSE]
  /\ at' = at + 1
  /\ UNCHANGED program

LowerReturn ==
  /\ lowering = "lowering" /\ at = Len(program.leading) + 1
  /\ lowering' = IF lower_reads(ctx, Names(program.value)).refused THEN "refused" ELSE "lowered"
  /\ hir' = hir \o Due(at)
  /\ at' = at + 1
  /\ UNCHANGED <<program, ctx, guards>>

PyNext == LowerStatement \/ LowerReturn

lowered_function == [stmts |-> hir, value |-> program.value]
=============================================================================
