---------------------------- MODULE MCListAliases ----------------------------
(***************************************************************************)
(* Instances of AliasOutcomes for TLC.                                     *)
(***************************************************************************)
EXTENDS AliasOutcomes, TLC

MCRows == {"a", "b", "c"}
MCGrids == {"g", "h"}

(* The other functions of the module, each of one parameter.                 *)
Top(op, x, ys, fn) == Statement(op, x, ys, fn, "top")

Bodies ==
  [bump |-> <<Top("append", "a", <<>>, "none")>>,
   look |-> <<Top("print", "a", <<>>, "none")>>,
   launder |-> <<Top("alias", "b", <<"a">>, "none"), Top("append", "b", <<>>, "none")>>,
   patch |-> <<Top("rowappend", "g", <<>>, "none")>>,
   peel |-> <<Top("elem", "a", <<"g">>, "none"), Top("append", "a", <<>>, "none")>>,
   relay |-> <<Top("call", "a", <<>>, "bump")>>]

(* relay calls bump; the others call none. *)
MCCallees ==
  LET known[f \in DOMAIN Bodies] ==
        Signature(IF f = "relay" THEN [bump |-> known["bump"]] ELSE <<>>,
                  IF f \in {"patch", "peel"} THEN "g" ELSE "a", Bodies[f])
  IN  known

Job(names, params, ops, calls, blocks, size) ==
  [names |-> names, params |-> params, ops |-> ops, calls |-> calls, blocks |-> blocks, size |-> size]

RowOps == {"new", "alias", "append", "store", "print"}
GridOps == {"new", "grid", "embed", "elem", "append", "rowappend", "rowstore", "print"}

MCJobs ==
  {Job({"a", "b", "c"}, {}, RowOps \ {"store"}, {}, {}, 5),
   Job({"a", "b"}, {}, RowOps, {}, {}, 6),
   Job({"a", "b", "c"}, {"a"}, RowOps \ {"new"}, {}, {}, 4),
   Job({"a", "b"}, {"a"}, RowOps \ {"new"}, {}, {}, 5),
   Job({"a", "b"}, {}, RowOps \cup {"ident"}, {}, {}, 5),
   Job({"a", "b"}, {}, RowOps \cup {"call"}, {"bump", "look"}, {}, 5),
   Job({"a", "b"}, {}, (RowOps \ {"store"}) \cup {"call"}, {"launder"}, {"loop", "if", "else", "try"}, 5),
   Job({"a", "b", "g"}, {}, GridOps \cup {"alias", "store"}, {}, {}, 5),
   Job({"a", "g"}, {}, GridOps \cup {"store"}, {}, {"loop", "if"}, 5),
   Job({"a", "g"}, {"g"}, {"new", "embed", "append", "print"}, {}, {"if"}, 5),
   Job({"a", "g"}, {"g"}, {"new", "embed", "append", "print"}, {}, {"loop"}, 4),
   Job({"a", "g"}, {"g"}, GridOps, {}, {}, 5),
   Job({"a", "g"}, {"a"}, GridOps, {}, {}, 4),
   Job({"a", "g", "h"}, {}, GridOps \cup {"alias"}, {}, {}, 5)}
=============================================================================
