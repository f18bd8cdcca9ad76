--------------------------- MODULE MCScalarPipeline ---------------------------
(* Small instances of ScalarPipeline for TLC. *)
EXTENDS ScalarPipeline

A == Ident("a")
B == Ident("b")
X == Ident("x")
One == LitInt(1)

(* inc traps at the largest word; note gives nothing. *)
CalleesDef ==
  [inc  |-> [arity |-> 1, value |-> TRUE,  gives |-> [args \in {<<v>> : v \in I64} |-> add_i64(args[1], 1)]],
   note |-> [arity |-> 0, value |-> FALSE, gives |-> [args \in {<<>>} |-> {0}]]]

Starts == {[a |-> a, b |-> b, x |-> 0] : a \in {-2, 0, 1}, b \in {0, 1}}

Values == {A, X, One, BinOp("-", X, One), BinOp("-", One, A), BinOp("//", A, X), Call("inc", <<X>>), IfExpr(B, X, One)}
Conds  == {B, BinOp("<", X, One), BinOp("and", B, BinOp("<", A, X)), Not(B)}

Simple  == {Let("x", v) : v \in Values} \cup {Assign("a", BinOp("-", X, One)), Assign("b", LitBool(0)),
              Return(X), SideEffectCall("note", <<>>), SideEffectCall("inc", <<X>>)}
Few     == {Let("x", BinOp("-", X, One)), Assign("b", LitBool(0)), Return(A)}
Jumps   == {Break, Continue}
Ifs(ss) == {If(c, <<s>>, e) : c \in {B, BinOp("<", X, One)}, s \in ss, e \in {<<>>} \cup {<<s>> : s \in Few}}

Inner == Few \cup Jumps \cup Ifs(Few \cup Jumps)
Loops ==
  {While(c, <<s>>) : c \in Conds, s \in Inner} \cup {While(B, <<s, t>>) : s \in Inner, t \in Inner}
    \cup {While(BinOp("<", X, One), <<While(B, <<s>>), t>>) : s \in Inner, t \in {Let("x", One), Break}}

Pool   == Simple \cup Ifs(Simple) \cup {If(c, <<Let("x", One)>>, <<>>) : c \in Conds} \cup Loops
Bodies == {<<>>} \cup {<<s>> : s \in Pool} \cup {<<s, t>> : s \in Simple \cup Ifs(Few), t \in Simple \cup Ifs(Few)}
            \cup {<<Let("x", A), s>> : s \in Loops}

Sources == {[stmts |-> b, value |-> v] : b \in Bodies, v \in {X, BinOp("-", A, X)}}

Emitted ==
  {[source |-> f, text |-> emit_function(f), vocabulary |-> {}, most |-> 0, ret |-> 1,
    locals |-> {"x"}, start |-> Starts, fuel |-> 2] : f \in Sources}

Written(words, most, ret) ==
  [source |-> NoTree, text |-> <<>>, vocabulary |-> words, most |-> most, ret |-> ret,
   locals |-> {"x"}, start |-> Starts, fuel |-> 2]

Get(n) == <<"local.get", n>>
Set(n) == <<"local.set", n>>

HandWritten ==
  {Written({Get("a"), Get("x"), Set("a"), Set("x"), <<"call", "__wasm_sub_i64">>, <<"call", "inc">>,
            <<"call", "note">>, <<"i32.const", 2>>, <<"return">>}, 6, 1),
   Written({Get("a"), Set("a"), <<"i64.const", 1>>, <<"if">>, <<"if result">>, <<"else">>, <<"end">>, <<"i64.lt_s">>,
            <<"return">>}, 7, 1),
   Written({Get("b"), <<"i32.const", 0>>, Set("b"), <<"loop">>, <<"guard">>, <<"again">>, <<"if">>, <<"end">>,
            <<"br", "brk">>, <<"br", "cont">>}, 10, 1),
   Written({Get("b"), <<"call", "note">>, <<"if">>, <<"end">>, <<"return">>, Set("x")}, 7, 0)}

JobsDef == Emitted \cup HandWritten

(* Python functions of an int n and a bool b. *)
I == Ident("i")
J == Ident("j")
N == Ident("n")
Zero == LitInt(0)

Args == {[n |-> n, b |-> b] : n \in {-1, 0, 2}, b \in {0, 1}}

Function(leading, value) == [params |-> {"n", "b"}, leading |-> leading, value |-> value, start |-> Args]

(* Conditionals, with their elif arms: what one arm assigns and the other,   *)
(* or the condition, reads.                                                  *)
ArmPy  == {Assign("x", N), Assign("i", X), Aug("x", One), Aug("n", One)}
OnePy  == {<<s>> : s \in ArmPy}
ArmsPy == OnePy \cup {<<s, t>> : s \in ArmPy, t \in {Assign("i", X), Aug("n", One)}} \cup {<<Assign("i", X), Assign("x", N)>>}
ElsePy == {<<>>} \cup ArmsPy \cup {<<If(BinOp("<", N, One), t, e)>> : t \in OnePy, e \in OnePy}

Conditionals ==
  {Function(<<Assign("x", One), Assign("i", N), If(c, t, e)>>, v) :
     c \in {B, BinOp(">", X, N)}, t \in ArmsPy, e \in ElsePy, v \in {X, BinOp("-", I, N)}}

(* One loop over a range: jumps out of it and over its end, its target bound *)
(* before it, inside it, after it, never.                                    *)
JumpsPy == {If(B, <<Break>>, <<>>), If(B, <<Continue>>, <<>>), If(BinOp("<", I, One), <<>>, <<Continue>>), Return(X)}
StepPy  == {Aug("x", I), Assign("x", I), Assign("i", N), Aug("n", One), If(B, <<Assign("x", One)>>, <<Assign("x", I)>>)}
Ranges  == {PyRange(Zero, N, 1), PyRange(N, Zero, -1), Reversed(PyRange(Zero, N, 1))}

OneLoop ==
  {Function(pre \o <<PyFor("i", r, b, e)>> \o post, v) :
     pre \in {<<>>, <<Assign("x", One)>>, <<Assign("i", One)>>}, r \in Ranges,
     b \in {<<s>> : s \in StepPy} \cup {<<s, t>> : s \in JumpsPy, t \in StepPy},
     e \in {<<>>, <<Assign("x", N)>>}, post \in {<<>>, <<Aug("i", One)>>}, v \in {I, X}}

(* Two loops, one after the other.                                           *)
AlonePy == {Assign("x", I), Assign("i", N), If(B, <<Assign("x", One)>>, <<>>), If(B, <<Assign("i", One)>>, <<>>)}
For(n)  == {PyFor(n, r, <<s>>, <<>>) : r \in {PyRange(Zero, N, 1), PyRange(I, LitInt(2), 1)}, s \in AlonePy}
Whiles  == {PyWhile(BinOp("<", N, One), <<Aug("n", One), s>>, <<>>) : s \in AlonePy}

TwoLoops ==
  {Function(pre \o <<s, t>>, v) :
     pre \in {<<>>, <<Assign("x", One)>>, <<If(B, <<Assign("i", One)>>, <<>>)>>},
     s \in For("i") \cup For("j") \cup Whiles, t \in For("i") \cup Whiles \cup AlonePy, v \in {X, I}}

(* A loop inside a loop: a break, a continue and an else of either.          *)
InnerPy ==
  {PyFor(m, r, <<s>>, e) :
     m \in {"i", "j"}, r \in {PyRange(Zero, N, 1), PyRange(I, LitInt(2), 1)},
     s \in {Aug("x", J), Assign("i", N), If(B, <<Break>>, <<>>), If(B, <<Continue>>, <<>>)},
     e \in {<<>>, <<If(B, <<Break>>, <<>>)>>, <<Assign("x", J)>>}}

Nested ==
  {Function(<<Assign("x", One), outer>>, v) :
     outer \in {PyFor("i", PyRange(Zero, LitInt(2), 1), <<s, t>>, e) :
                  s \in InnerPy, t \in {Aug("x", I), If(B, <<Break>>, <<>>)}, e \in {<<>>, <<Aug("x", One)>>}}
           \cup {PyWhile(BinOp("<", N, One), <<Aug("n", One), s>>, e) :
                  s \in InnerPy, e \in {<<>>, <<Assign("j", One)>>}},
     v \in {X, I, J}}

ProgramsDef == Conditionals \cup OneLoop \cup TwoLoops \cup Nested
=============================================================================
