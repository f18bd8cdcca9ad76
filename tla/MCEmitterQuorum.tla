--------------------------- MODULE MCEmitterQuorum ---------------------------
(* Small instances of EmitterQuorum for TLC. *)
EXTENDS EmitterQuorum, TLC

CONSTANTS t1, t2

AllTexts == {"right", "wrong", "nan", "short"}

WhatTheyPrint ==
  [x \in AllTexts |->
     CASE x = "right" -> <<1, 3>> [] x = "wrong" -> <<1, 4>> [] x = "nan" -> <<NaN, 3>> [] x = "short" -> <<1>>]

Backend(kind, policy, g, s, required) ==
  [kind |-> kind, policy |-> policy, general |-> g, specialist |-> s, required |-> required]

Kernels == {"right", "wrong"}

(* The texts of a vote; every emitter may fail instead. *)
Voting(kind, texts) == {Backend(kind, "diffexec", g, s, FALSE) : g, s \in texts}

Witnesses ==
  Voting("wasm", AllTexts)
    \cup UNION {Voting(k, Kernels) : k \in {"cuda", "ptx", "ptx3", "gpu"}}
    \cup {Backend("wasm", "diffexec", "right", "right", TRUE)}
    \cup {Backend("ptx", p, g, s, FALSE) : p \in {"prefer", "strict", "diffexec"},
            g \in {"right", "refuses"}, s \in {"right", "wrong", "absent", "declines", "refuses"}}

(* What runs beside it: the same engine, or another one. *)
Beside == {Backend(k, "diffexec", "right", "wrong", FALSE) : k \in Kinds}

MCJobs == {[t \in Lowerings |-> IF t = t1 THEN b ELSE c] : b \in Witnesses, c \in Beside}

MCPrints == WhatTheyPrint
MCExpected == <<1, 3>>
=============================================================================
