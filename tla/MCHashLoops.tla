----------------------------- MODULE MCHashLoops -----------------------------
(* Small instances of HashLoops for TLC. *)
EXTENDS HashLoops

X == Var("x")
Y == Var("y")
Acc == Var("acc")

(* What an iteration may compute from its element. *)
Terms ==
  {X, Lit(1), Abs(Bin("//", X, Lit(-2))), Bin("//", X, Lit(-2)), Bin("%", X, Lit(3)), Bin(">>", X, Lit(1)),
   Bin(">>", X, Lit(5)), Bin("<<", Lit(1), Lit(2)), Bin("min", X, Lit(2)), Bin("-", Lit(1), X)}

Folds ==
  {Assign("acc", Bin(op, Acc, e)) : op \in {"+", "*", "-", "//"}, e \in {X, Bin("//", X, Lit(-2))}}
    \cup {Assign("acc", Bin(op, X, Acc)) : op \in {"*", "-"}}
    \cup {Assign("acc", Bin("+", Acc, e)) : e \in Terms}
    \cup {Assign("acc", Bin("+", Bin("+", Acc, X), Lit(1))), Assign("acc", Bin("*", Bin("+", Acc, X), Lit(2))),
          Assign("acc", X), Assign("n", Bin("+", Var("n"), Lit(1))), Assign("n", Bin("+", Var("n"), Acc))}

Guarded ==
  {If("<", Acc, X, <<Assign("acc", X)>>, <<>>),
   If("<", X, Acc, <<Assign("acc", X)>>, <<>>),
   If("<", X, Lit(1), <<Assign("acc", X)>>, <<>>),
   If("<", X, Lit(1), <<Assign("acc", Bin("+", Acc, X))>>, <<Assign("n", Bin("+", Var("n"), Lit(1)))>>),
   If("<", Acc, Lit(1), <<Assign("acc", Bin("+", Acc, X))>>, <<>>)}

Writes ==
  {DictSet("r", X, Bin("//", Lit(6), X)), DictSet("r", X, Acc), DictSet("r", Lit(0), X),
   DictSet("s", X, Lit(1)), SetAdd("t", Bin("%", X, Lit(2))), SetAdd("t", Acc)}

(* A temporary, and what reads it. *)
Z == Var("z")
Temporaries ==
  {<<Let("z", e), u>> : e \in {Bin("*", X, Lit(-1)), Acc},
     u \in {Assign("acc", Bin("+", Acc, Z)), DictSet("r", X, Z), SetAdd("t", Z),
           If("<", Acc, Z, <<Assign("acc", Z)>>, <<>>)}}

Nested ==
  {ForEach("y", b) : b \in
     {<<s>> : s \in
        {Assign("acc", Bin("+", Acc, Bin("-", X, Y))), DictSet("r", X, Y), DictSet("r", Y, Lit(1)),
         DictSet("r", Y, Bin("%", Y, Lit(2))), SetAdd("t", Bin("-", X, Y)),
         If("<", Acc, Y, <<Assign("acc", Y)>>, <<>>)}}
     \cup {<<Let("z", Bin("-", X, Y)), Assign("acc", Bin("+", Acc, Z))>>,
           <<Let("z", X), DictSet("r", Y, Z)>>}}

Pool == Folds \cup Guarded \cup Writes \cup Nested

OneOrTwo == Temporaries \cup {<<s>> : s \in Pool} \cup {<<s, u>> : s \in Pool, u \in Pool}

Distinct(s) == \A i, j \in DOMAIN s : i # j => s[i] # s[j]

ElementOrders == {s \in UNION {[1 .. n -> {-8, -3, 2, 5}] : n \in 0 .. 3} : Distinct(s)}

Locals == [n \in {"acc", "n", "r", "s", "t", "x", "y", "z"} |->
             CASE n \in {"r", "s"} -> <<>> [] n = "t" -> {} [] OTHER -> 0]
=============================================================================
