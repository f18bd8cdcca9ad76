------------------------------ MODULE PyScalars ------------------------------
(***************************************************************************)
(* The scalar part of Python: its statements, and what they mean.  A name   *)
(* has no value until it is bound, and then keeps one to the end of the      *)
(* function; a range is computed once; a loop's else runs unless a break     *)
(* left the loop.                                                            *)
(*                                                                         *)
(* Assignments, ifs, returns, breaks and continues are written as the trees  *)
(* of ScalarCode are; an elif is an if alone in an else.  A word that does   *)
(* not hold a result ends the run ({}), where Python would go on with a      *)
(* larger number.                                                            *)
(***************************************************************************)
EXTENDS ScalarCode, SequencesExt

Aug(n, e)             == [kind |-> "aug", name |-> n, value |-> e]
PyWhile(c, b, e)      == [kind |-> "while", cond |-> c, body |-> b, else |-> e]
PyRange(lo, hi, step) == [lo |-> lo, hi |-> hi, step |-> step, reversed |-> FALSE]
Reversed(r)           == [r EXCEPT !.reversed = TRUE]
PyFor(n, r, b, e)     == [kind |-> "for", name |-> n, range |-> r, body |-> b, else |-> e]

Names(e)      == {p.name : p \in {q \in ExprParts(e) : q.kind = "ident"}}
RangeNames(r) == Names(r.lo) \cup Names(r.hi)

(* A point of a run: how it goes on, the names bound, the loops left to run,  *)
(* the value returned, and the names whose reading ended it.                 *)
Running(env, fuel) == [how |-> "on", env |-> env, fuel |-> fuel, val |-> 0, unbound |-> {}]

(* Goes on with the value of an expression, if all its names are bound. *)
Given(e, p, go(_)) ==
  LET missing == Names(e) \ DOMAIN p.env IN
  IF missing # {} THEN {[p EXCEPT !.how = "unbound", !.unbound = missing]}
  ELSE UNION {go(v) : v \in Eval(e, p.env)}

Store(p, n, v) == [p EXCEPT !.env = (n :> v) @@ @]

(* The values of a range, in the order they come. *)
RangeItems(lo, hi, r) ==
  LET count == Cardinality({k \in 0 .. 2 * Half : IF r.step > 0 THEN lo + k * r.step < hi ELSE lo + k * r.step > hi})
      items == [k \in 1 .. count |-> lo + (k - 1) * r.step]
  IN  IF r.reversed THEN Reverse(items) ELSE items

RECURSIVE PyExec(_, _), PyBlock(_, _), PyLoop(_, _, _)
PyExec(s, p) ==
  CASE s.kind = "assign" -> Given(s.value, p, LAMBDA v : {Store(p, s.name, v)})
    [] s.kind = "aug"    -> Given(BinOp("+", Ident(s.name), s.value), p, LAMBDA v : {Store(p, s.name, v)})
    [] s.kind = "return" -> Given(s.value, p, LAMBDA v : {[p EXCEPT !.how = "return", !.val = v]})
    [] s.kind = "if"     -> Given(s.cond, p, LAMBDA c : PyBlock(IF c # 0 THEN s.then ELSE s.else, p))
    [] s.kind = "while"  -> Given(s.cond, p, LAMBDA c : PyLoop(s, IF c # 0 THEN <<0>> ELSE <<>>, p))
    [] s.kind = "for"    -> Given(s.range.lo, p, LAMBDA lo : Given(s.range.hi, p, LAMBDA hi :
                              PyLoop(s, RangeItems(lo, hi, s.range), p)))
    [] s.kind \in {"break", "continue"} -> {[p EXCEPT !.how = s.kind]}

PyBlock(b, p) ==
  IF b = <<>> \/ p.how # "on" THEN {p} ELSE UNION {PyBlock(Tail(b), q) : q \in PyExec(Head(b), p)}

(* The rounds of a loop whose next items are `items`: a while has one while  *)
(* its condition holds.                                                      *)
PyLoop(s, items, p) ==
  LET entered == [(IF s.kind = "for" THEN Store(p, s.name, Head(items)) ELSE p) EXCEPT !.fuel = @ - 1]
      next(q) ==
        CASE q.how \in {"on", "continue"} ->
               LET r == [q EXCEPT !.how = "on"] IN
               IF s.kind = "for" THEN PyLoop(s, Tail(items), r) ELSE PyExec(s, r)
          [] q.how = "break"             -> {[q EXCEPT !.how = "on"]}
          [] OTHER                       -> {q}
  IN  IF items = <<>> THEN PyBlock(s.else, p)
      ELSE IF p.fuel = 0 THEN {[p EXCEPT !.how = "hang"]}
      ELSE UNION {next(q) : q \in PyBlock(s.body, entered)}

(* How the runs of a function end, its value returned last. *)
PyRuns(f, args, fuel) == PyBlock(Append(f.leading, Return(f.value)), Running(args, fuel))
PyGives(f, args, fuel) == {Result(p.how, p.val) : p \in PyRuns(f, args, fuel)}
=============================================================================
