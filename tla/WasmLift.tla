------------------------------ MODULE WasmLift ------------------------------
(***************************************************************************)
(* The lift of WebAssembly text back to meta-HIR: one pass over the words  *)
(* of a function's body that simulates the operand stack with expressions  *)
(* and recovers the control forms the backend emits.  Its recursive calls  *)
(* are a stack of activations here.                                        *)
(*                                                                         *)
(* The text is either what the backend emits for some tree, or written by  *)
(* hand, a word at a time, as the lift reads it.                           *)
(***************************************************************************)
EXTENDS ScalarCode

CONSTANTS
  Jobs,      \* [source, text, vocabulary, most, ret, start, fuel]: see MCWasmLift
  Pending    \* may written text change what an operand on the stack has read?

VARIABLES
  job,       \* the function being lifted
  text,      \* its body, as far as it is read
  calls,     \* the activations of the lift, the innermost last
  assigned,  \* locals already bound by a Let
  verdict,   \* "lifting" | "lifted" | "refused"
  tree       \* the function lifted

vars == <<job, text, calls, assigned, verdict, tree>>

(* What an activation is reading ("body", "then", "else", the two arms of a  *)
(* typed if, "cond" and "loop" of a while), the condition it belongs to, the *)
(* statements of the arm before it, its own statements and operands.         *)
Activation(at, cond) == [at |-> at, cond |-> cond, arm |-> <<>>, stmts |-> <<>>, stack |-> <<>>]

Top == calls[Len(calls)]

OnTop(a) == [calls EXCEPT ![Len(calls)] = a]

(* Back to the caller `below`, with a statement or an operand more. *)
Below              == calls[Len(calls) - 1]
ReturnTo(a)        == Append(SubSeq(calls, 1, Len(calls) - 2), a)
WithStmt(a, s)     == [a EXCEPT !.stmts = Append(@, s)]
WithOperand(a, e)  == [a EXCEPT !.stack = Append(@, e)]

(* The activation without its last n operands, and those operands. *)
Popped(a, n) == [a EXCEPT !.stack = SubSeq(@, 1, Len(@) - n)]
Operands(n)  == SubSeq(Top.stack, Len(Top.stack) - n + 1, Len(Top.stack))
Operand      == Top.stack[Len(Top.stack)]

NoTree == [stmts |-> <<>>, value |-> Unit]

Init ==
  /\ job \in Jobs
  /\ text = <<>>
  /\ calls = <<Activation("body", Unit)>>
  /\ assigned = {}
  /\ verdict = "lifting"
  /\ tree = NoTree

-----------------------------------------------------------------------------
(* What the lift takes.                                                      *)

(* Slip: subtraction went through a helper, and the lift was not told. *)
InvertedWithoutSub ==
  [f \in Helpers \ {"__wasm_sub_i64"} |->
     CASE f = "__wasm_add_i64" -> "+" [] f = "__wasm_floordiv_i64" -> "//" [] f = "__wasm_floormod_i64" -> "%"]

(* The helper calls that go back to an operator. *)
Inverted ==
  [f \in Helpers |->
     CASE f = "__wasm_add_i64"      -> "+"  [] f = "__wasm_sub_i64"      -> "-"
       [] f = "__wasm_floordiv_i64" -> "//" [] f = "__wasm_floormod_i64" -> "%"]

(* The comparisons that go back to an operator. *)
lift_binary == [w \in Comparisons |-> CASE w = "i64.lt_s" -> "<" [] w = "i64.gt_s" -> ">" [] w = "i32.eq" -> "=="]

lift_call(f, args) ==
  IF f \in DOMAIN Inverted THEN BinOp(Inverted[f], args[1], args[2]) ELSE Call(f, args)

(* A local's first write in the text is a Let. *)
lift_local_set(n, e) == IF n \in job.locals \ assigned THEN Let(n, e) ELSE Assign(n, e)

stmts_only   == Top.stack = <<>>
single_value == Top.stmts = <<>> /\ Len(Top.stack) = 1

(* How many operands a word takes off the lift's own stack. *)
Pops(t) ==
  CASE t[1] = "return" -> IF Top.stack = <<>> THEN 0 ELSE 1
    [] t[1] = "call"   -> IF t[2] \in DOMAIN Callees THEN Callees[t[2]].arity ELSE 2
    [] OTHER           -> Takes(t)

(* Can the lift take the word?  It refuses the text otherwise.               *)
Liftable(t) ==
  LET statement == Top.at # "cond"   \* a loop's condition is operands only
      enough    == Len(Top.stack) >= Pops(t)
  IN CASE t[1] \in {"local.get", "i64.const"} -> TRUE
       [] t[1] = "i32.const"  -> t[2] \in {0, 1}
       [] t[1] = "call"       -> (t[2] \in DOMAIN Inverted \/ t[2] \in DOMAIN Callees) /\ enough
       [] t[1] \in Comparisons -> enough
       [] t[1] \in {"local.set", "return", "br", "if", "if result", "loop"} -> statement /\ enough
       [] t[1] = "else"       -> (Top.at = "then" /\ stmts_only) \/ (Top.at = "then value" /\ single_value)
       [] t[1] = "end"        -> (Top.at \in {"then", "else"} /\ stmts_only) \/ (Top.at = "else value" /\ single_value)
       [] t[1] = "guard"      -> Top.at = "cond" /\ Len(Top.stack) = 1
       [] t[1] = "again"      -> Top.at = "loop" /\ stmts_only
       [] OTHER               -> FALSE

(* The operands that stay below a word, in every activation. *)
Waiting(t) ==
  LET kept(i) == IF i = Len(calls) THEN SubSeq(Top.stack, 1, Len(Top.stack) - Pops(t)) ELSE calls[i].stack IN
  UNION {Range(kept(i)) : i \in DOMAIN calls}

Reads(e, n) == Ident(n) \in ExprParts(e)
MayTrap(e)  == \E p \in ExprParts(e) : p.kind = "call" \/ (p.kind = "bin" /\ p.op \notin DOMAIN Compared)

(* The lift evaluates an operand where it is used, the machine where it is   *)
(* pushed.  Nothing tells the two apart if no word between them writes what  *)
(* the operand reads, or gets past a trap of it; and an operand that a call  *)
(* does not give must not be above one.                                      *)
Settled(t) ==
  /\ \A e \in Waiting(t) : /\ t[1] = "local.set" => ~ Reads(e, t[2])
                           /\ t[1] \in {"return", "loop"} => ~ MayTrap(e)
  /\ t[1] = "call" /\ ~ HasValue(t[2]) => Len(Top.stack) = Pops(t)

(* A br names the label of a loop around it. *)
Resolves(t) == t[1] = "br" => \E i \in DOMAIN calls : calls[i].at = "loop"

(* The word that comes next: the emitted one, or any of the vocabulary. *)
Words ==
  IF job.text # <<>>
  THEN {job.text[i] : i \in {Len(text) + 1} \cap DOMAIN job.text}
  ELSE {t \in job.vocabulary : Len(text) < job.most /\ Resolves(t) /\ (Pending \/ Len(Top.stack) < Pops(t) \/ Settled(t))}

-----------------------------------------------------------------------------
(* One action per kind of word.                                              *)

Takeable(t, kinds) == verdict = "lifting" /\ t[1] \in kinds /\ Liftable(t) /\ text' = Append(text, t)

(* local.get, i64.const, i32.const *)
Leaf(t) ==
  /\ Takeable(t, {"local.get", "i64.const", "i32.const"})
  /\ calls' = OnTop(WithOperand(Top, CASE t[1] = "local.get" -> Ident(t[2])
                                       [] t[1] = "i64.const" -> LitInt(t[2])
                                       [] t[1] = "i32.const" -> LitBool(t[2])))
  /\ UNCHANGED <<job, assigned, verdict, tree>>

LocalSet(t) ==
  /\ Takeable(t, {"local.set"})
  /\ calls' = OnTop(WithStmt(Popped(Top, 1), lift_local_set(t[2], Operand)))
  /\ assigned' = assigned \cup ({t[2]} \cap job.locals)
  /\ UNCHANGED <<job, verdict, tree>>

CallWord(t) ==
  /\ Takeable(t, {"call"})
  /\ calls' = OnTop(WithOperand(Popped(Top, Pops(t)), lift_call(t[2], Operands(Pops(t)))))
  /\ UNCHANGED <<job, assigned, verdict, tree>>

Binary(t) ==
  /\ Takeable(t, Comparisons)
  /\ calls' = OnTop(WithOperand(Popped(Top, 2), BinOp(lift_binary[t[1]], Operands(2)[1], Operands(2)[2])))
  /\ UNCHANGED <<job, assigned, verdict, tree>>

(* The value is the last operand, if there is one. *)
ReturnWord(t) ==
  /\ Takeable(t, {"return"})
  /\ calls' = OnTop(WithStmt(Popped(Top, Pops(t)), Return(IF Top.stack = <<>> THEN Unit ELSE Operand)))
  /\ UNCHANGED <<job, assigned, verdict, tree>>

(* A br that is not a loop's back edge. *)
Branch(t) ==
  /\ Takeable(t, {"br"})
  /\ calls' = OnTop(WithStmt(Top, IF t[2] = "brk" THEN Break ELSE Continue))
  /\ UNCHANGED <<job, assigned, verdict, tree>>

IfWord(t) ==
  /\ Takeable(t, {"if", "if result"})
  /\ calls' = Append(OnTop(Popped(Top, 1)), Activation(IF t[1] = "if" THEN "then" ELSE "then value", Operand))
  /\ UNCHANGED <<job, assigned, verdict, tree>>

ElseWord(t) ==
  /\ Takeable(t, {"else"})
  /\ calls' = OnTop(IF Top.at = "then"
                    THEN [Activation("else", Top.cond) EXCEPT !.arm = Top.stmts]
                    ELSE [Activation("else value", Top.cond) EXCEPT !.arm = Top.stack])
  /\ UNCHANGED <<job, assigned, verdict, tree>>

EndWord(t) ==
  /\ Takeable(t, {"end"})
  /\ calls' = ReturnTo(CASE Top.at = "then"       -> WithStmt(Below, If(Top.cond, Top.stmts, <<>>))
                         [] Top.at = "else"       -> WithStmt(Below, If(Top.cond, Top.arm, Top.stmts))
                         [] Top.at = "else value" -> WithOperand(Below, IfExpr(Top.cond, Top.arm[1], Operand)))
  /\ UNCHANGED <<job, assigned, verdict, tree>>

LoopWord(t) ==
  /\ Takeable(t, {"loop"})
  /\ calls' = Append(calls, Activation("cond", Unit))
  /\ UNCHANGED <<job, assigned, verdict, tree>>

(* Slip: the guard's negation becomes part of the condition. *)
GuardKeepingNot(t) ==
  /\ Takeable(t, {"guard"})
  /\ calls' = OnTop(Activation("loop", Not(Operand)))
  /\ UNCHANGED <<job, assigned, verdict, tree>>

(* The guard leaves the loop when the condition fails: not negated here. *)
GuardWord(t) ==
  /\ Takeable(t, {"guard"})
  /\ calls' = OnTop(Activation("loop", Operand))
  /\ UNCHANGED <<job, assigned, verdict, tree>>

BackEdge(t) ==
  /\ Takeable(t, {"again"})
  /\ calls' = ReturnTo(WithStmt(Below, While(Top.cond, Top.stmts)))
  /\ UNCHANGED <<job, assigned, verdict, tree>>

Refuse(t) ==
  /\ verdict = "lifting"
  /\ ~ Liftable(t)
  /\ text' = Append(text, t)
  /\ verdict' = "refused"
  /\ UNCHANGED <<job, calls, assigned, tree>>

(* The end of the body: the operands left are the function's value.          *)
Finish ==
  /\ verdict = "lifting"
  /\ Words = {} \/ job.text = <<>>
  /\ Len(calls) = 1
  /\ LET whole == Len(Top.stack) = job.ret IN
     /\ verdict' = IF whole THEN "lifted" ELSE "refused"
     /\ tree' = IF whole THEN [stmts |-> Top.stmts, value |-> IF job.ret = 1 THEN Operand ELSE Unit] ELSE tree
  /\ UNCHANGED <<job, text, calls, assigned>>

Next ==
  \/ \E t \in Words : \/ Leaf(t) \/ LocalSet(t) \/ CallWord(t) \/ Binary(t) \/ ReturnWord(t) \/ Branch(t)
                      \/ IfWord(t) \/ ElseWord(t) \/ EndWord(t) \/ LoopWord(t) \/ GuardWord(t) \/ BackEdge(t)
                      \/ Refuse(t)
  \/ Finish

Spec == Init /\ [][Next]_vars

-----------------------------------------------------------------------------
(* What is lifted means what the text means, whatever the arguments: the     *)
(* same value, the same trap, the same endless loop.  Text of another shape  *)
(* "is refused rather than mis-reconstructed" (lib.rs 1535, 126).  Text that *)
(* no WebAssembly validator accepts means nothing.                           *)
LiftMeans ==
  verdict = "lifted" =>
    LET code  == Structured(text)
        gives == [env \in job.start |-> TextGives(code, job.ret, env, job.fuel)]
        valid == \A env \in job.start : Result("invalid", 0) \notin gives[env]
    IN  valid => \A env \in job.start : TreeGives(tree, job.ret, env, job.fuel) = gives[env]

(* The emitted constructs without a way back: `not`, a call made for its     *)
(* effect, a trap, a conditional in a loop's condition.                      *)
Uninverted(f) ==
  \E p \in Parts(f) :
    \/ p.kind \in {"not", "effect", "raise"}
    \/ p.kind = "while" /\ \E q \in ExprParts(p.cond) : q.kind = "ifexpr" \/ (q.kind = "bin" /\ q.op = "and")

(* Emitted text goes back to a function that is emitted as the same text and *)
(* means what its source means, and only the constructs named above are      *)
(* refused ("a right-inverse of emit on the part of its WAT image the lift   *)
(* accepts", lib.rs 136).                                                    *)
RoundTrips ==
  job.text # <<>> =>
    /\ verdict = "lifted"  => /\ emit_function(tree) = text
                              /\ \A env \in job.start :
                                   TreeGives(tree, job.ret, env, job.fuel) = TreeGives(job.source, job.ret, env, job.fuel)
    /\ verdict = "refused" => Uninverted(job.source)
=============================================================================
