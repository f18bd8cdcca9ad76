---------------------------- MODULE AliasProofs ----------------------------
(***************************************************************************)
(* Proofs about AliasOutcomes, for every set of names, every module of     *)
(* functions and every job: what the frontend has lowered is the body it   *)
(* read, what it emits compiles on every path, a body that only binds and  *)
(* prints is never refused, a function that changes its caller's list is   *)
(* marked, and what is emitted for lists of integers prints what Python    *)
(* prints, on every path.                                                  *)
(***************************************************************************)
EXTENDS AliasOutcomes, FiniteSetTheorems, WellFoundedInduction, TLAPS

-----------------------------------------------------------------------------
(* The inductive invariant.                                                  *)

(* Every statement a job may write. *)
Stmts == UNION {Sentences[j] : j \in Jobs}

(* What a statement says, whatever the job. *)
Said(s) ==
  /\ s.x \in Names
  /\ s.op \in {"new", "append", "store", "print", "call", "rowappend", "rowstore",
               "alias", "ident", "elem", "embed", "grid"}
  /\ s.op \in {"new", "append", "store", "print", "call", "rowappend", "rowstore"} => s.ys = <<>>
  /\ s.op \in {"alias", "ident", "elem", "embed"} => \E y \in Names : s.ys = <<y>>
  /\ s.op = "grid" => \E y, z \in Names : s.ys \in {<<y>>, <<y, z>>}
  /\ s.op \in {"alias", "ident", "grid"} => \A i \in DOMAIN s.ys : s.ys[i] # s.x

(* The places from i to j of a block are in it, the else behind the if. *)
Laid(b) ==
  \A i, j \in InBlock(b) : i <= j =>
    \A k \in i .. j : b[k].at = b[i].at \/ (b[i].at = "if" /\ b[k].at = "else")

(* A block binds only names that are bound. *)
Bounded(b, params) == \A i \in InBlock(b) : b[i].x \in BoundBefore(b, params, i)

(* A statement uses only names that are bound. *)
Supplied(b, params) == \A i \in DOMAIN b : Uses(b[i]) \subseteq BoundBefore(b, params, i)

(* What lower_block_stmt makes of the i-th statement. *)
LowerAt(b, params, i) == Lowered(b[i], cloned(b, b[i], BoundBefore(b, params, i)))

(* es is what the first n statements of b are lowered to. *)
LoweredTo(es, b, params, n) ==
  /\ es = [i \in 1 .. n |-> LowerAt(b, params, i)]
  /\ \A i \in 1 .. n : ~ apply_alias_dispositions_refuses(b, b[i])

(* A reason to refuse b. *)
Refusable(b, params, es) ==
  \/ append_then_mutate(b)
  \/ class_violation(b, params)
  \/ \E i \in DOMAIN b : apply_alias_dispositions_refuses(b, b[i])
  \/ alias_then_mutate(es)

(* The body, what is lowered of it, and what each pass has found by then. *)
AliasInv ==
  /\ job \in Jobs /\ body \in Seq(Stmts)
  /\ phase \in {"writing", "embeds", "classes", "lowering", "emitted", "refused"}
  /\ Laid(body) /\ Bounded(body, job.params) /\ Supplied(body, job.params)
  /\ phase = "writing" => emitted = <<>>
  /\ \E n \in 0 .. Len(body) : /\ LoweredTo(emitted, body, job.params, n)
                               /\ phase = "emitted" => n = Len(body)
                               /\ phase \in {"writing", "embeds", "classes"} => n = 0
  /\ phase \in {"classes", "lowering", "emitted"} => ~ append_then_mutate(body)
  /\ phase \in {"lowering", "emitted"} => ~ class_violation(body, job.params)
  /\ phase = "emitted" => ~ alias_then_mutate(emitted)
  /\ phase = "refused" => Refusable(body, job.params, emitted)

-----------------------------------------------------------------------------
(* Each step of Init and Next keeps the invariant.                           *)

(* Each sentence of a job is a statement of its kind. *)
LEMMA SaidAll ==
  ASSUME NEW s \in Stmts
  PROVE  Said(s)
<1>1. PICK j \in Jobs : s \in Sentences[j]
  BY DEF Stmts
<1>2. j.names \subseteq Names
  BY AliasAssumption
<1> DEFINE Say(op, xs, yss, fns) == {Statement(op, x, ys, fn, at) :
                                  x \in xs, ys \in yss, fn \in fns, at \in {"top"} \cup j.blocks}
           rows == j.names \cap Rows
           grids == j.names \cap Grids
           none == {"none"}
<1>3. /\ \/ s \in Say("new", j.names, {<<>>}, none)
         \/ s \in Say("alias", j.names, {<<y>> : y \in j.names}, none)
         \/ s \in Say("ident", rows, {<<y>> : y \in rows}, none)
         \/ s \in Say("append", rows, {<<>>}, none) \/ s \in Say("store", rows, {<<>>}, none)
         \/ s \in Say("print", j.names, {<<>>}, none)
         \/ s \in Say("call", rows, {<<>>}, {f \in DOMAIN Callees : Callees[f].on = "row"})
         \/ s \in Say("call", grids, {<<>>}, {f \in DOMAIN Callees : Callees[f].on = "grid"})
         \/ s \in Say("grid", grids, {<<y>> : y \in rows} \cup {<<y, z>> : y \in rows, z \in rows}, none)
         \/ s \in Say("embed", grids, {<<y>> : y \in rows}, none)
         \/ s \in Say("elem", rows, {<<y>> : y \in grids}, none)
         \/ s \in Say("rowappend", grids, {<<>>}, none) \/ s \in Say("rowstore", grids, {<<>>}, none)
      /\ s.op = "alias" => s.x # s.ys[1] /\ Sort(s.x) = Sort(s.ys[1])
      /\ s.op = "ident" => s.x # s.ys[1]
  BY <1>1 DEF Sentences
<1>4. ASSUME NEW op, NEW xs \in SUBSET Names, NEW yss, NEW fns, s \in Say(op, xs, yss, fns)
      PROVE  s.op = op /\ s.x \in xs /\ s.ys \in yss
  BY <1>4 DEF Statement
<1>5. rows \subseteq Names /\ grids \subseteq Names /\ rows \cap grids = {} /\ j.names \subseteq Names
  BY <1>2, AliasAssumption
<1> HIDE DEF Say, rows, grids
<1>6. CASE \/ s \in Say("new", j.names, {<<>>}, none)
           \/ s \in Say("append", rows, {<<>>}, none) \/ s \in Say("store", rows, {<<>>}, none)
           \/ s \in Say("print", j.names, {<<>>}, none)
           \/ s \in Say("call", rows, {<<>>}, {f \in DOMAIN Callees : Callees[f].on = "row"})
           \/ s \in Say("call", grids, {<<>>}, {f \in DOMAIN Callees : Callees[f].on = "grid"})
           \/ s \in Say("rowappend", grids, {<<>>}, none) \/ s \in Say("rowstore", grids, {<<>>}, none)
  <2>1. s.op \in {"new", "append", "store", "print", "call", "rowappend", "rowstore"} /\ s.x \in Names /\ s.ys = <<>>
    BY <1>4, <1>5, <1>6
  <2> QED BY <2>1 DEF Said
<1>7. CASE s \in Say("alias", j.names, {<<y>> : y \in j.names}, none)
  <2>1. s.op = "alias" /\ s.x \in Names /\ \E y \in Names : s.ys = <<y>>
    BY <1>4, <1>5, <1>7
  <2>2. PICK y \in Names : s.ys = <<y>>
    BY <2>1
  <2>3. s.x # y
    BY <1>3, <2>1, <2>2
  <2> QED BY <2>1, <2>2, <2>3 DEF Said
<1>8. CASE s \in Say("ident", rows, {<<y>> : y \in rows}, none)
  <2>1. s.op = "ident" /\ s.x \in Names /\ \E y \in Names : s.ys = <<y>>
    BY <1>4, <1>5, <1>8
  <2>2. PICK y \in Names : s.ys = <<y>>
    BY <2>1
  <2>3. s.x # y
    BY <1>3, <2>1, <2>2
  <2> QED BY <2>1, <2>2, <2>3 DEF Said
<1>9. CASE s \in Say("grid", grids, {<<y>> : y \in rows} \cup {<<y, z>> : y \in rows, z \in rows}, none)
  <2>1. s.op = "grid" /\ s.x \in grids /\ \E y, z \in rows : s.ys \in {<<y>>, <<y, z>>}
    BY <1>4, <1>5, <1>9
  <2>2. PICK y \in rows, z \in rows : s.ys \in {<<y>>, <<y, z>>}
    BY <2>1
  <2>3. s.x # y /\ s.x # z /\ s.x \in Names /\ y \in Names /\ z \in Names
    BY <1>5, <2>1
  <2> QED BY <2>1, <2>2, <2>3 DEF Said
<1>10. CASE s \in Say("embed", grids, {<<y>> : y \in rows}, none)
  BY <1>4, <1>5, <1>10 DEF Said
<1>11. CASE s \in Say("elem", rows, {<<y>> : y \in grids}, none)
  BY <1>4, <1>5, <1>11 DEF Said
<1> QED BY <1>3, <1>6, <1>7, <1>8, <1>9, <1>10, <1>11

(* The places of a block, as numbers. *)
LEMMA InBlockIs ==
  ASSUME NEW b \in Seq(Stmts)
  PROVE  InBlock(b) = {i \in 1 .. Len(b) : b[i].at # "top"}
BY DEF InBlock

(* A statement that fits keeps a block together, binds in it no new name and  *)
(* uses none anywhere.                                                       *)
LEMMA WriteKeeps ==
  ASSUME NEW b \in Seq(Stmts), NEW s \in Stmts, NEW params, Laid(b), Bounded(b, params), Supplied(b, params),
         Fits(s, b, params)
  PROVE  Laid(Append(b, s)) /\ Bounded(Append(b, s), params) /\ Supplied(Append(b, s), params)
<1> DEFINE c == Append(b, s)
           n == Len(b) + 1
<1>1. c \in Seq(Stmts) /\ Len(c) = n /\ n \in Nat /\ c[n] = s /\ \A i \in 1 .. Len(b) : c[i] = b[i]
  OBVIOUS
<1>2. InBlock(c) = {i \in 1 .. n : c[i].at # "top"} /\ InBlock(b) = {i \in 1 .. Len(b) : b[i].at # "top"}
  BY <1>1, InBlockIs
<1>3. Laid(c)
  <2> SUFFICES ASSUME NEW i \in InBlock(c), NEW j \in InBlock(c), i <= j, NEW k \in i .. j
               PROVE  c[k].at = c[i].at \/ (c[i].at = "if" /\ c[k].at = "else")
    BY DEF Laid
  <2>1. i \in 1 .. n /\ j \in 1 .. n /\ k \in 1 .. n /\ c[i].at # "top" /\ c[j].at # "top"
    BY <1>1, <1>2
  <2>2. CASE j \in 1 .. Len(b)
    <3>1. i \in 1 .. Len(b) /\ k \in 1 .. Len(b)
      BY <2>1, <2>2
    <3>2. i \in InBlock(b) /\ j \in InBlock(b) /\ c[k] = b[k] /\ c[i] = b[i]
      BY <1>1, <1>2, <2>1, <2>2, <3>1
    <3> QED BY <3>2 DEF Laid
  <2>3. CASE j = n /\ i = n
    BY <2>1, <2>3
  <2>4. CASE j = n /\ i \in 1 .. Len(b)
    <3>1. i \in InBlock(b) /\ c[i] = b[i] /\ s.at # "top"
      BY <1>1, <1>2, <2>1, <2>4
    <3>2. b # <<>> /\ (s.at = Last(b).at \/ (s.at = "else" /\ Last(b).at = "if"))
      BY <3>1 DEF Fits
    <3>3. Last(b) = b[Len(b)] /\ Len(b) \in 1 .. Len(b)
      BY <3>2 DEF Last
    <3>4. Len(b) \in InBlock(b)
      <4>1. b[Len(b)].at # "top"
        BY <3>1, <3>2, <3>3
      <4> QED BY <1>2, <3>3, <4>1
    <3>5. \A m \in i .. Len(b) : b[m].at = b[i].at \/ (b[i].at = "if" /\ b[m].at = "else")
      BY <2>4, <3>1, <3>4 DEF Laid
    <3>6. CASE k = n
      <4>1. Len(b) \in i .. Len(b)
        BY <2>4
      <4> QED BY <1>1, <3>1, <3>2, <3>3, <3>5, <3>6, <4>1
    <3>7. CASE k \in i .. Len(b)
      <4>1. k \in 1 .. Len(b)
        BY <2>4, <3>7
      <4> QED BY <1>1, <3>1, <3>5, <3>7, <4>1
    <3> QED BY <2>1, <2>4, <3>6, <3>7
  <2> QED BY <2>1, <2>2, <2>3, <2>4
<1>4. \A i \in 1 .. n : BoundBefore(c, params, i) = BoundBefore(b, params, i)
  <2> SUFFICES ASSUME NEW i \in 1 .. n PROVE BoundBefore(c, params, i) = BoundBefore(b, params, i)
    OBVIOUS
  <2>1. \A j \in 1 .. (i - 1) : c[j] = b[j]
    BY <1>1
  <2> QED BY <2>1 DEF BoundBefore
<1>5. Bounded(c, params)
  <2> SUFFICES ASSUME NEW i \in InBlock(c) PROVE c[i].x \in BoundBefore(c, params, i)
    BY DEF Bounded
  <2>1. i \in 1 .. n /\ c[i].at # "top"
    BY <1>2
  <2>2. CASE i = n
    <3>1. s.x \in BoundBefore(b, params, Len(b) + 1)
      BY <1>1, <2>1, <2>2 DEF Fits
    <3> QED BY <1>1, <1>4, <2>1, <2>2, <3>1
  <2>3. CASE i \in 1 .. Len(b)
    <3>1. i \in InBlock(b) /\ c[i] = b[i]
      BY <1>1, <1>2, <2>1, <2>3
    <3> QED BY <1>4, <2>1, <3>1 DEF Bounded
  <2> QED BY <2>1, <2>2, <2>3
<1>6. Supplied(c, params)
  <2> SUFFICES ASSUME NEW i \in DOMAIN c PROVE Uses(c[i]) \subseteq BoundBefore(b, params, i)
    BY <1>1, <1>4 DEF Supplied
  <2>1. i \in 1 .. n /\ DOMAIN c = 1 .. n
    BY <1>1
  <2>2. CASE i = n
    <3>1. ToSet(s.ys) \subseteq BoundBefore(b, params, n)
          /\ (s.op \notin Binding => s.x \in BoundBefore(b, params, n))
      BY DEF Fits
    <3> QED BY <1>1, <2>2, <3>1 DEF Uses
  <2>3. CASE i \in 1 .. Len(b)
    <3>1. c[i] = b[i] /\ i \in DOMAIN b
      BY <1>1, <2>3
    <3> QED BY <3>1 DEF Supplied
  <2> QED BY <2>1, <2>2, <2>3
<1> QED BY <1>3, <1>5, <1>6

(* As many statements are lowered as were read. *)
LEMMA LoweredLen ==
  ASSUME NEW es, NEW b, NEW params, NEW n \in Nat, LoweredTo(es, b, params, n)
  PROVE  es \in Seq({LowerAt(b, params, i) : i \in 1 .. n}) /\ Len(es) = n
BY DEF LoweredTo

(* One more statement lowered. *)
LEMMA LowerOne ==
  ASSUME NEW es, NEW b, NEW params, NEW n \in Nat, LoweredTo(es, b, params, n),
         ~ apply_alias_dispositions_refuses(b, b[n + 1])
  PROVE  LoweredTo(Append(es, LowerAt(b, params, n + 1)), b, params, n + 1)
<1> DEFINE L(i) == LowerAt(b, params, i)
<1>1. es = [i \in 1 .. n |-> L(i)] /\ \A i \in 1 .. n : ~ apply_alias_dispositions_refuses(b, b[i])
  BY DEF LoweredTo
<1> HIDE DEF L
<1>2. Append(es, L(n + 1)) = [i \in 1 .. (n + 1) |-> L(i)]
  <2>1. es \in Seq({L(i) : i \in 1 .. n}) /\ Len(es) = n
    BY <1>1
  <2>2. \A i \in 1 .. n : es[i] = L(i)
    BY <1>1
  <2>3. PICK c : c = Append(es, L(n + 1))
    OBVIOUS
  <2>4. c \in Seq({L(i) : i \in 1 .. (n + 1)}) /\ Len(c) = n + 1
    <3>1. es \in Seq({L(i) : i \in 1 .. (n + 1)})
      BY <1>1
    <3>2. L(n + 1) \in {L(i) : i \in 1 .. (n + 1)}
      OBVIOUS
    <3> QED BY <2>1, <2>3, <3>1, <3>2
  <2>5. \A i \in 1 .. (n + 1) : c[i] = L(i)
    BY <2>1, <2>2, <2>3
  <2> QED BY <2>3, <2>4, <2>5
<1>3. \A i \in 1 .. (n + 1) : ~ apply_alias_dispositions_refuses(b, b[i])
  BY <1>1
<1> QED BY <1>2, <1>3 DEF LoweredTo, L

(* The invariant holds of an empty body. *)
LEMMA AliasInvInit == Init => AliasInv
<1> SUFFICES ASSUME Init PROVE AliasInv
  OBVIOUS
<1>1. /\ job \in Jobs /\ body = <<>> /\ body \in Seq(Stmts) /\ Len(body) = 0
      /\ phase = "writing" /\ emitted = <<>>
  BY DEF Init
<1>2. InBlock(body) = {}
  BY <1>1 DEF InBlock
<1>3. LoweredTo(emitted, body, job.params, 0)
  BY <1>1 DEF LoweredTo
<1> QED BY <1>1, <1>2, <1>3 DEF AliasInv, Laid, Bounded, Supplied

(* Every pass keeps the invariant. *)
LEMMA AliasInvNext == AliasInv /\ [Next]_vars => AliasInv'
<1> SUFFICES ASSUME AliasInv, [Next]_vars PROVE AliasInv'
  OBVIOUS
<1>1. /\ job \in Jobs /\ body \in Seq(Stmts)
      /\ phase \in {"writing", "embeds", "classes", "lowering", "emitted", "refused"}
      /\ Laid(body) /\ Bounded(body, job.params) /\ Supplied(body, job.params)
      /\ phase = "writing" => emitted = <<>>
  BY DEF AliasInv
<1>2. PICK n \in 0 .. Len(body) :
         /\ LoweredTo(emitted, body, job.params, n)
         /\ phase = "emitted" => n = Len(body)
         /\ phase \in {"writing", "embeds", "classes"} => n = 0
  BY DEF AliasInv
<1>3. /\ phase \in {"classes", "lowering", "emitted"} => ~ append_then_mutate(body)
      /\ phase \in {"lowering", "emitted"} => ~ class_violation(body, job.params)
      /\ phase = "emitted" => ~ alias_then_mutate(emitted)
      /\ phase = "refused" => Refusable(body, job.params, emitted)
  BY DEF AliasInv
<1>4. n \in Nat /\ Len(emitted) = n
  <2>1. n \in Nat
    BY <1>1, <1>2
  <2>2. PICK e, b, p : e = emitted /\ b = body /\ p = job.params
    OBVIOUS
  <2>3. LoweredTo(e, b, p, n)
    BY <1>2, <2>2
  <2>4. Len(e) = n
    BY <2>1, <2>3, LoweredLen
  <2> QED BY <2>1, <2>2, <2>4
<1>5. CASE Write
  <2>1. PICK s \in Sentences[job] : Fits(s, body, job.params) /\ body' = Append(body, s)
    BY <1>5 DEF Write
  <2>2. s \in Stmts
    BY <1>1, <2>1 DEF Stmts
  <2>3. body' \in Seq(Stmts) /\ Laid(body') /\ Bounded(body', job.params) /\ Supplied(body', job.params)
        /\ 0 \in 0 .. Len(body')
    BY <1>1, <2>1, <2>2, WriteKeeps
  <2>4. job' = job /\ phase' = "writing" /\ emitted' = <<>>
    BY <1>1, <1>5 DEF Write
  <2>5. LoweredTo(emitted', body', job.params, 0)
    BY <2>4 DEF LoweredTo
  <2> QED BY <1>1, <2>3, <2>4, <2>5 DEF AliasInv
<1>6. CASE Close
  <2>1. job' = job /\ body' = body /\ emitted' = emitted /\ phase = "writing" /\ phase' = "embeds"
    BY <1>6 DEF Close
  <2> QED BY <1>1, <1>2, <2>1 DEF AliasInv
<1>7. CASE reject_append_then_mutate
  <2>1. job' = job /\ body' = body /\ emitted' = emitted /\ phase = "embeds"
    BY <1>7 DEF reject_append_then_mutate
  <2>2. CASE append_then_mutate(body)
    <3>1. phase' = "refused" /\ Refusable(body, job.params, emitted)
      BY <1>7, <2>2 DEF reject_append_then_mutate, Refusable
    <3> QED BY <1>1, <1>2, <2>1, <3>1 DEF AliasInv
  <2>3. CASE ~ append_then_mutate(body)
    <3>1. phase' = "classes"
      BY <1>7, <2>3 DEF reject_append_then_mutate
    <3> QED BY <1>1, <1>2, <2>1, <2>3, <3>1 DEF AliasInv
  <2> QED BY <2>2, <2>3
<1>8. CASE alias_class_analysis
  <2>1. job' = job /\ body' = body /\ emitted' = emitted /\ phase = "classes"
    BY <1>8 DEF alias_class_analysis
  <2>2. CASE class_violation(body, job.params)
    <3>1. phase' = "refused" /\ Refusable(body, job.params, emitted)
      BY <1>8, <2>2 DEF alias_class_analysis, Refusable
    <3> QED BY <1>1, <1>2, <2>1, <3>1 DEF AliasInv
  <2>3. CASE ~ class_violation(body, job.params)
    <3>1. phase' = "lowering"
      BY <1>8, <2>3 DEF alias_class_analysis
    <3> QED BY <1>1, <1>2, <1>3, <2>1, <2>3, <3>1 DEF AliasInv
  <2> QED BY <2>2, <2>3
<1>9. CASE lower_block_stmt
  <2>1. job' = job /\ body' = body /\ phase = "lowering" /\ n < Len(body) /\ n + 1 \in 0 .. Len(body)
        /\ n + 1 \in DOMAIN body
    BY <1>1, <1>4, <1>9 DEF lower_block_stmt
  <2>2. CASE apply_alias_dispositions_refuses(body, body[n + 1])
    <3>1. phase' = "refused" /\ emitted' = emitted
      BY <1>4, <1>9, <2>2 DEF lower_block_stmt
    <3>2. Refusable(body, job.params, emitted)
      BY <2>1, <2>2 DEF Refusable
    <3> QED BY <1>1, <1>2, <2>1, <3>1, <3>2 DEF AliasInv
  <2>3. CASE ~ apply_alias_dispositions_refuses(body, body[n + 1])
    <3>1. phase' = "lowering" /\ emitted' = Append(emitted, LowerAt(body, job.params, n + 1))
      BY <1>4, <1>9, <2>1, <2>3 DEF lower_block_stmt, LowerAt
    <3>2. LoweredTo(emitted', body, job.params, n + 1)
      BY <1>2, <1>4, <2>3, <3>1, LowerOne
    <3> QED BY <1>1, <1>3, <2>1, <3>1, <3>2 DEF AliasInv
  <2> QED BY <2>2, <2>3
<1>10. CASE reject_alias_then_mutate
  <2>1. job' = job /\ body' = body /\ emitted' = emitted /\ phase = "lowering" /\ n = Len(body)
    BY <1>4, <1>10 DEF reject_alias_then_mutate
  <2>2. CASE alias_then_mutate(emitted)
    <3>1. phase' = "refused" /\ Refusable(body, job.params, emitted)
      BY <1>10, <2>2 DEF reject_alias_then_mutate, Refusable
    <3> QED BY <1>1, <1>2, <2>1, <3>1 DEF AliasInv
  <2>3. CASE ~ alias_then_mutate(emitted)
    <3>1. phase' = "emitted"
      BY <1>10, <2>3 DEF reject_alias_then_mutate
    <3> QED BY <1>1, <1>2, <1>3, <2>1, <2>3, <3>1 DEF AliasInv
  <2> QED BY <2>2, <2>3
<1>11. CASE UNCHANGED vars
  <2>1. job' = job /\ body' = body /\ emitted' = emitted /\ phase' = phase
    BY <1>11 DEF vars
  <2> QED BY <1>1, <1>2, <1>3, <2>1 DEF AliasInv
<1> QED BY <1>5, <1>6, <1>7, <1>8, <1>9, <1>10, <1>11 DEF Next

(* What is lowered so far is the body read, statement by statement, each with *)
(* the clones the counts call for; a refused body has a reason to be refused   *)
(* (lower_block_stmt and the passes before it).                                *)
THEOREM BodiesLowered == Spec => []AliasInv
BY AliasInvInit, AliasInvNext, PTL DEF Spec

-----------------------------------------------------------------------------
(* Reads: what a statement moves away is read nowhere else.                  *)

(* What a body consists of. *)
LEMMA StmtsSaid ==
  ASSUME NEW b \in Seq(Stmts)
  PROVE  Len(b) \in Nat /\ DOMAIN b = 1 .. Len(b) /\ \A i \in DOMAIN b : Said(b[i])
<1>1. \A i \in DOMAIN b : b[i] \in Stmts
  OBVIOUS
<1> QED BY <1>1, SaidAll

(* Where a statement loads the names it does. *)
LEMMA LoadsAre ==
  ASSUME NEW s, Said(s)
  PROVE  /\ DOMAIN Loads(s) \subseteq 1 .. 2
         /\ \A n \in Taken(s) : \E m \in DOMAIN Loads(s) : Loads(s)[m] = n
         /\ \A n \in Uses(s) : \/ \E m \in DOMAIN Loads(s) : Loads(s)[m] = n
                               \/ s.op \in {"store", "rowstore"} /\ n = s.x
<1>1. CASE s.op \in {"append", "print", "call", "rowappend"}
  <2>1. s.ys = <<>>
    BY <1>1 DEF Said
  <2>2. Loads(s) = <<s.x>>
    BY <1>1, <2>1 DEF Loads
  <2>3. Taken(s) \subseteq {s.x} /\ Uses(s) \subseteq {s.x}
    BY <1>1, <2>1 DEF Taken, Uses, ToSet
  <2> QED BY <2>2, <2>3
<1>2. CASE s.op = "embed"
  <2>1. PICK y \in Names : s.ys = <<y>>
    BY <1>2 DEF Said
  <2>2. Loads(s) = <<s.x, y>>
    <3>1. Loads(s) = <<s.x>> \o <<y>>
      BY <1>2, <2>1 DEF Loads
    <3>2. PICK c : c = <<s.x>> \o <<y>>
      OBVIOUS
    <3>3. <<s.x>> \in Seq({s.x, y}) /\ <<y>> \in Seq({s.x, y}) /\ Len(<<s.x>>) = 1 /\ Len(<<y>>) = 1
      OBVIOUS
    <3>4. c \in Seq({s.x, y}) /\ Len(c) = 2 /\ c[1] = s.x /\ c[2] = y
      BY <3>2, <3>3
    <3>5. c = <<s.x, y>>
      BY <3>4
    <3> QED BY <3>1, <3>2, <3>5
  <2>3. Taken(s) = {y} /\ Uses(s) = {s.x, y}
    <3>1. ToSet(s.ys) = {y}
      BY <2>1 DEF ToSet
    <3> QED BY <1>2, <3>1 DEF Taken, Uses, Binding
  <2> QED BY <2>2, <2>3
<1>3. CASE s.op \in {"new", "store", "rowstore", "alias", "ident", "elem", "grid"}
  <2>1. Loads(s) = s.ys
    BY <1>3 DEF Loads
  <2>2. DOMAIN s.ys \subseteq 1 .. 2
    BY <1>3 DEF Said
  <2>3. Taken(s) \subseteq ToSet(s.ys) /\ Uses(s) \subseteq ToSet(s.ys) \cup {s.x}
        /\ (s.op \in Binding => Uses(s) \subseteq ToSet(s.ys))
    BY <1>3 DEF Taken, Uses
  <2>4. \A n \in ToSet(s.ys) : \E m \in DOMAIN s.ys : s.ys[m] = n
    BY DEF ToSet
  <2>5. s.op \in Binding \/ s.op \in {"store", "rowstore"}
    BY <1>3 DEF Binding
  <2> QED BY <2>1, <2>2, <2>3, <2>4, <2>5
<1> QED BY <1>1, <1>2, <1>3 DEF Said

(* The reads of a name: where in the text, where in the statement, and once   *)
(* more for a loop.                                                          *)
ReadsOf(b, n) == {l \in (DOMAIN b) \X (1..2) \X (1..2) :
                    /\ l[2] \in DOMAIN Loads(b[l[1]]) /\ Loads(b[l[1]])[l[2]] = n
                    /\ l[3] = 2 => b[l[1]].at = "loop"}

LEMMA ReadsFinite ==
  ASSUME NEW b, Len(b) \in Nat, DOMAIN b = 1 .. Len(b), NEW n
  PROVE  IsFiniteSet(ReadsOf(b, n)) /\ count_name_reads(b, n) = Cardinality(ReadsOf(b, n))
<1>1. IsFiniteSet(DOMAIN b) /\ IsFiniteSet(1 .. 2)
  <2>1. 1 \in Int /\ 2 \in Int /\ Len(b) \in Int
    OBVIOUS
  <2> QED BY <2>1, FS_Interval
<1>2. IsFiniteSet((1 .. 2) \X (1 .. 2))
  BY <1>1, FS_Product
<1> DEFINE P == (DOMAIN b) \X ((1 .. 2) \X (1 .. 2))
           T == (DOMAIN b) \X (1..2) \X (1..2)
           f == [q \in P |-> <<q[1], q[2][1], q[2][2]>>]
<1>3. IsFiniteSet(P)
  BY <1>1, <1>2, FS_Product
<1>4. f \in Surjection(P, T)
  <2>1. f \in [P -> T]
    OBVIOUS
  <2>2. ASSUME NEW l \in T PROVE \E q \in P : f[q] = l
    <3>1. <<l[1], <<l[2], l[3]>>>> \in P /\ l = <<l[1], l[2], l[3]>>
      OBVIOUS
    <3> QED BY <3>1
  <2> QED BY <2>1, <2>2 DEF Surjection
<1>5. IsFiniteSet(T)
  BY <1>3, <1>4, FS_Surjection
<1>6. ReadsOf(b, n) \subseteq T
  BY DEF ReadsOf
<1> HIDE DEF T
<1>7. IsFiniteSet(ReadsOf(b, n))
  BY <1>5, <1>6, FS_Subset
<1> QED BY <1>7 DEF ReadsOf, count_name_reads

(* Two reads of a name make it read again. *)
LEMMA TwoReads ==
  ASSUME NEW b, Len(b) \in Nat, DOMAIN b = 1 .. Len(b), NEW n,
         NEW i \in DOMAIN b, NEW m \in 1 .. 2, m \in DOMAIN Loads(b[i]), Loads(b[i])[m] = n,
         NEW j \in DOMAIN b, NEW p \in 1 .. 2, p \in DOMAIN Loads(b[j]), Loads(b[j])[p] = n,
         <<i, m>> # <<j, p>> \/ b[i].at = "loop"
  PROVE  reread(b, n)
<1> DEFINE R == ReadsOf(b, n)
<1>1. \E l, k \in R : l # k
  <2>1. CASE b[i].at = "loop"
    <3>1. <<i, m, 1>> \in R /\ <<i, m, 2>> \in R /\ <<i, m, 1>> # <<i, m, 2>>
      BY <2>1 DEF ReadsOf
    <3> QED BY <3>1
  <2>2. CASE <<i, m>> # <<j, p>>
    <3>1. <<i, m, 1>> \in R /\ <<j, p, 1>> \in R /\ <<i, m, 1>> # <<j, p, 1>>
      BY <2>2 DEF ReadsOf
    <3> QED BY <3>1
  <2> QED BY <2>1, <2>2
<1>2. IsFiniteSet(R) /\ count_name_reads(b, n) = Cardinality(R)
  BY ReadsFinite
<1>3. PICK l, k \in R : l # k
  BY <1>1
<1> HIDE DEF R
<1>4. IsFiniteSet({l}) /\ Cardinality({l}) = 1
  BY FS_Singleton
<1>5. Cardinality({l} \cup {k}) = 2 /\ {l} \cup {k} \in SUBSET R
  <2>1. k \notin {l} /\ {l} \cup {k} \in SUBSET R
    BY <1>3
  <2>2. PICK T : T = {l}
    OBVIOUS
  <2>3. Cardinality(T \cup {k}) = IF k \in T THEN Cardinality(T) ELSE Cardinality(T) + 1
    BY <1>4, <2>2, FS_AddElement
  <2>4. k \notin T /\ Cardinality(T) = 1
    BY <1>4, <2>1, <2>2
  <2>5. Cardinality(T \cup {k}) = 2
    BY <2>3, <2>4
  <2> QED BY <2>1, <2>2, <2>5
<1>6. 2 <= Cardinality(R) /\ Cardinality(R) \in Nat
  BY <1>2, <1>5, FS_Subset, FS_CardinalityType
<1> QED BY <1>2, <1>6 DEF reread

(* A name whose list a statement takes, and which is not read again, is read *)
(* nowhere else, and not in a loop.                                           *)
LEMMA TakenOnce ==
  ASSUME NEW b \in Seq(Stmts), NEW i \in DOMAIN b, NEW n \in Taken(b[i]), ~ reread(b, n)
  PROVE  /\ b[i].at # "loop"
         /\ \A j \in DOMAIN b : j # i => \A p \in DOMAIN Loads(b[j]) : Loads(b[j])[p] # n
<1>1. Len(b) \in Nat /\ DOMAIN b = 1 .. Len(b) /\ \A j \in DOMAIN b : Said(b[j])
  BY StmtsSaid
<1>2. \A j \in DOMAIN b : DOMAIN Loads(b[j]) \subseteq 1 .. 2
  BY <1>1, LoadsAre
<1>3. PICK m \in DOMAIN Loads(b[i]) : Loads(b[i])[m] = n
  BY <1>1, LoadsAre
<1>4. m \in 1 .. 2
  BY <1>2
<1>5. b[i].at # "loop"
  BY <1>1, <1>3, <1>4, TwoReads
<1>6. ASSUME NEW j \in DOMAIN b, j # i, NEW p \in DOMAIN Loads(b[j]), Loads(b[j])[p] = n
      PROVE  FALSE
  <2>1. p \in 1 .. 2 /\ <<i, m>> # <<j, p>>
    BY <1>2, <1>6
  <2> QED BY <1>1, <1>3, <1>4, <1>6, <2>1, TwoReads
<1> QED BY <1>5, <1>6

(* What a lowered statement moves is not read again. *)
LEMMA MovedNotReread ==
  ASSUME NEW b \in Seq(Stmts), NEW params, NEW i \in DOMAIN b,
         ~ apply_alias_dispositions_refuses(b, b[i]), NEW n \in Moves(LowerAt(b, params, i))
  PROVE  n \in Taken(b[i]) /\ ~ reread(b, n)
<1> DEFINE s == b[i]
           e == LowerAt(b, params, i)
<1>1. Said(s)
  BY StmtsSaid
<1>2. e.op = s.op /\ e.x = s.x /\ e.ys = s.ys /\ e.at = s.at /\ e.clones = cloned(b, s, BoundBefore(b, params, i))
  BY DEF LowerAt, Lowered
<1>3. Taken(e) = Taken(s)
  BY <1>2 DEF Taken
<1>4. n \in Taken(s) /\ n \notin cloned(b, s, BoundBefore(b, params, i))
  BY <1>2, <1>3 DEF Moves
<1>5. CASE s.op = "alias"
  <2>1. PICK y \in Names : s.ys = <<y>>
    BY <1>1, <1>5 DEF Said
  <2>2. Taken(s) = {y} /\ s.ys[1] = y
    BY <1>5, <2>1 DEF Taken, ToSet
  <2>3. ~ alias_clones(b, s.x, n)
    BY <1>4, <1>5 DEF cloned
  <2>4. alias_clones(b, s.x, y) \/ ~ reread(b, y)
    BY <1>5, <2>2 DEF apply_alias_dispositions_refuses
  <2> QED BY <1>4, <2>2, <2>3, <2>4
<1>6. CASE s.op # "alias"
  BY <1>4, <1>6 DEF cloned
<1> QED BY <1>4, <1>5, <1>6

-----------------------------------------------------------------------------
(* Paths: from one place to a later one, every place between is passed.      *)

(* A set of numbers that is not empty has a least one. *)
LEMMA Least ==
  ASSUME NEW T \in SUBSET Nat, T # {}
  PROVE  \E n \in T : \A m \in T : n <= m
<1>1. PICK n \in T : \A m \in T : <<m, n>> \notin OpToRel(<, Nat)
  BY WFMin, NatLessThanWellFounded, Zenon
<1>2. ASSUME NEW m \in T, m < n PROVE FALSE
  <2>1. <<m, n>> \in Nat \X Nat /\ <<m, n>>[1] < <<m, n>>[2]
    BY <1>2
  <2>2. <<m, n>> \in OpToRel(<, Nat)
    BY <2>1, Zenon DEF OpToRel
  <2> QED BY <1>1, <2>2
<1> QED BY <1>2

(* A set of numbers up to n that is not empty has a greatest one. *)
LEMMA Greatest ==
  ASSUME NEW n \in Nat, NEW T \in SUBSET (1 .. n), T # {}
  PROVE  \E i \in T : \A j \in T : j <= i
<1> DEFINE D == {n - i : i \in T}
<1>1. D \in SUBSET Nat /\ D # {}
  <2>1. \A i \in T : i \in 1 .. n /\ n - i \in Nat
    OBVIOUS
  <2> QED BY <2>1
<1>2. PICK d \in D : \A e \in D : d <= e
  BY <1>1, Least
<1>3. PICK i \in T : d = n - i
  OBVIOUS
<1>4. ASSUME NEW j \in T PROVE j <= i
  <2>1. n - j \in D
    OBVIOUS
  <2>2. n - i <= n - j
    BY <1>2, <1>3, <2>1
  <2>3. i \in 1 .. n /\ j \in 1 .. n
    OBVIOUS
  <2> QED BY <2>2, <2>3
<1> QED BY <1>3, <1>4

(* The places of a path stand in the text. *)
PlacesOf(p, b) == p \in Seq(1 .. Len(b))

(* A path goes back in the text only from a loop. *)
Forward(p, b) ==
  \A i, j \in DOMAIN p : i < j => p[i] < p[j] \/ b[p[i]].at = "loop"

(* Between two places of a path, the first of them not in a loop, it passes  *)
(* every place outside the block and every place of the block of the second. *)
Passes(p, b) ==
  \A i, j \in DOMAIN p : \A m \in 1 .. Len(b) :
    /\ i < j /\ p[i] < m /\ m < p[j]
    /\ b[p[i]].at # "loop"
    /\ b[m].at \in {"top", b[p[j]].at}
    => \E d \in DOMAIN p : i < d /\ d < j /\ p[d] = m

(* A path passes every place outside the block that stands before one of its  *)
(* own before it comes to that one.                                          *)
TopFirst(p, b) ==
  \A j \in DOMAIN p : \A m \in 1 .. Len(b) :
    m < p[j] /\ b[m].at = "top" => \E d \in DOMAIN p : d < j /\ p[d] = m

(* What the part of a path in the block is. *)
BlockPath(q, b, first, last) ==
  /\ q \in Seq(first .. last)
  /\ \A i, j \in DOMAIN q : i < j => q[i] < q[j] \/ b[q[i]].at = "loop"
  /\ \A i, j \in DOMAIN q : \A m \in first .. last :
       i < j /\ q[i] < m /\ m < q[j] /\ b[q[i]].at # "loop" /\ b[m].at = b[q[j]].at
       => \E d \in DOMAIN q : i < d /\ d < j /\ q[d] = m
  /\ \A j \in DOMAIN q : \A m \in first .. last :
       m < q[j] /\ b[m].at = b[q[j]].at => \E d \in DOMAIN q : d < j /\ q[d] = m

(* Places counts from i to j. *)
LEMMA PlacesAre ==
  ASSUME NEW i \in Nat, NEW j \in Nat, i <= j + 1
  PROVE  /\ Places(i, j) \in Seq(i .. j) /\ Len(Places(i, j)) = j - i + 1
         /\ j - i + 1 \in Nat
         /\ \A n \in 1 .. (j - i + 1) : Places(i, j)[n] = i + n - 1
<1> DEFINE n == j - i + 1
<1>1. n \in Nat /\ (IF i <= j THEN j - i + 1 ELSE 0) = n
  OBVIOUS
<1>2. Places(i, j) = [k \in 1 .. n |-> i + k - 1]
  BY <1>1 DEF Places
<1>3. \A k \in 1 .. n : i + k - 1 \in i .. j
  OBVIOUS
<1> HIDE DEF n
<1> QED BY <1>1, <1>2, <1>3 DEF n

(* The block of a path starts at its first place and ends at its last. *)
LEMMA PlacesBlock ==
  ASSUME NEW b, NEW N \in Nat, NEW first \in 1 .. N, NEW last \in first .. N,
         NEW i \in first .. (last + 1), NEW j \in first .. last, i <= j + 1,
         \A m \in first .. (i - 1) : \A k \in i .. j : b[m].at # b[k].at
  PROVE  BlockPath(Places(i, j), b, first, last)
<1> DEFINE q == Places(i, j)
<1>1. /\ i \in Nat /\ j \in Nat /\ q \in Seq(i .. j) /\ Len(q) = j - i + 1 /\ j - i + 1 \in Nat
      /\ \A n \in 1 .. (j - i + 1) : q[n] = i + n - 1
  BY PlacesAre
<1>2. PICK L \in Nat : L = j - i + 1
  BY <1>1
<1> HIDE DEF q
<1>3. DOMAIN q = 1 .. L /\ (\A n \in 1 .. L : q[n] = i + n - 1) /\ \A n \in 1 .. L : q[n] \in i .. j
  BY <1>1, <1>2
<1>4. q \in Seq(first .. last)
  BY <1>1
<1>5. \A u, v \in DOMAIN q : u < v => q[u] < q[v] \/ b[q[u]].at = "loop"
  BY <1>3
<1>6. ASSUME NEW u \in DOMAIN q, NEW v \in DOMAIN q, NEW m \in first .. last,
             u < v, q[u] < m, m < q[v]
      PROVE  \E d \in DOMAIN q : u < d /\ d < v /\ q[d] = m
  <2>1. u \in 1 .. L /\ v \in 1 .. L /\ m \in Int
    BY <1>3
  <2>2. i + u - 1 < m /\ m < i + v - 1
    BY <1>3, <1>6, <2>1
  <2> DEFINE d == m - i + 1
  <2>3. d \in 1 .. L /\ u < d /\ d < v /\ q[d] = m
    BY <1>2, <1>3, <2>1, <2>2
  <2> QED BY <1>3, <2>3
<1>7. ASSUME NEW v \in DOMAIN q, NEW m \in first .. last, m < q[v], b[m].at = b[q[v]].at
      PROVE  \E d \in DOMAIN q : d < v /\ q[d] = m
  <2>1. v \in 1 .. L /\ m \in Int /\ q[v] \in i .. j /\ q[v] = i + v - 1
    BY <1>3
  <2>2. i <= m
    <3>1. m \notin first .. (i - 1)
      BY <1>7, <2>1
    <3> QED BY <3>1
  <2> DEFINE d == m - i + 1
  <2>3. d \in 1 .. L /\ d < v /\ q[d] = m
    BY <1>2, <1>3, <1>7, <2>1, <2>2
  <2> QED BY <1>3, <2>3
<1> QED BY <1>4, <1>5, <1>6, <1>7 DEF BlockPath, q

(* Two sequences of known lengths. *)
Pieces(r, t, S, A, B) ==
  r \in Seq(S) /\ t \in Seq(S) /\ A \in Nat /\ B \in Nat /\ Len(r) = A /\ Len(t) = B

(* c is r, and then t. *)
JoinOf(c, r, t, S, A, B) ==
  /\ c \in Seq(S) /\ Len(c) = A + B
  /\ \A n \in 1 .. A : c[n] = r[n]
  /\ \A n \in 1 .. B : c[A + n] = t[n]

(* What a concatenation consists of. *)
LEMMA Joining ==
  ASSUME NEW S, NEW r, NEW t, NEW A, NEW B, Pieces(r, t, S, A, B)
  PROVE  JoinOf(r \o t, r, t, S, A, B)
<1> r \in Seq(S) /\ t \in Seq(S) /\ A \in Nat /\ B \in Nat /\ Len(r) = A /\ Len(t) = B
  BY DEF Pieces
<1>1. r \o t \in Seq(S) /\ Len(r \o t) = A + B
  OBVIOUS
<1>2. ASSUME NEW n \in 1 .. A PROVE (r \o t)[n] = r[n]
  OBVIOUS
<1>3. ASSUME NEW n \in 1 .. B PROVE (r \o t)[A + n] = t[n]
  OBVIOUS
<1> QED BY <1>1, <1>2, <1>3 DEF JoinOf

(* A sequence over a set is one over a larger set. *)
LEMMA WiderSeq ==
  ASSUME NEW S, NEW T, S \subseteq T, NEW r \in Seq(S)
  PROVE  r \in Seq(T) /\ DOMAIN r = 1 .. Len(r) /\ \A n \in 1 .. Len(r) : r[n] \in S
<1>1. Len(r) \in Nat /\ DOMAIN r = 1 .. Len(r) /\ \A n \in 1 .. Len(r) : r[n] \in S
  OBVIOUS
<1>2. r \in [1 .. Len(r) -> T]
  BY <1>1
<1> QED BY <1>1, <1>2

(* A loop that runs twice. *)
LEMMA TwiceBlock ==
  ASSUME NEW b, NEW N \in Nat, NEW first \in 1 .. N, NEW last \in first .. N,
         \A m \in first .. last : b[m].at = "loop"
  PROVE  BlockPath(Places(first, last) \o Places(first, last), b, first, last)
<1> DEFINE r == Places(first, last)
           q == r \o r
<1>1. PICK L \in Nat : L = last - first + 1
  OBVIOUS
<1>2. /\ r \in Seq(first .. last) /\ Len(r) = L
      /\ \A n \in 1 .. L : r[n] = first + n - 1
  <2>1. first \in Nat /\ last \in Nat /\ first <= last + 1
    OBVIOUS
  <2> QED BY <1>1, <2>1, PlacesAre
<1> HIDE DEF r
<1>3. q \in Seq(first .. last) /\ Len(q) = L + L /\ \A n \in 1 .. L : q[n] = first + n - 1
  <2>1. PICK S : S = first .. last
    OBVIOUS
  <2>2. q \in Seq(S) /\ Len(q) = L + L /\ \A n \in 1 .. L : q[n] = r[n]
    <3>1. Pieces(r, r, S, L, L)
      BY <1>2, <2>1 DEF Pieces
    <3>2. JoinOf(r \o r, r, r, S, L, L)
      BY <3>1, Joining
    <3> QED BY <3>2 DEF JoinOf
  <2> QED BY <1>2, <2>1, <2>2
<1> HIDE DEF q
<1>4. DOMAIN q = 1 .. (L + L) /\ \A n \in 1 .. (L + L) : q[n] \in first .. last
  BY <1>3
<1>6. \A u \in DOMAIN q : b[q[u]].at = "loop"
  BY <1>4
<1>7. ASSUME NEW v \in DOMAIN q, NEW m \in first .. last, m < q[v]
      PROVE  \E d \in DOMAIN q : d < v /\ q[d] = m
  <2> DEFINE d == m - first + 1
  <2>1. d \in 1 .. L /\ q[d] = m
    BY <1>1, <1>3
  <2>2. d < v
    <3>1. CASE v \in 1 .. L
      BY <1>1, <1>3, <1>7, <3>1
    <3>2. CASE v \notin 1 .. L
      BY <1>4, <2>1, <3>2
    <3> QED BY <3>1, <3>2
  <2>3. d \in DOMAIN q
    BY <1>4, <2>1
  <2> QED BY <2>1, <2>2, <2>3
<1> QED BY <1>3, <1>6, <1>7 DEF BlockPath, q, r

(* A block that does not run. *)
LEMMA EmptyBlock ==
  ASSUME NEW b, NEW first, NEW last
  PROVE  BlockPath(<<>>, b, first, last)
BY DEF BlockPath

(* A path is what stands before the block, the block's part, and what stands *)
(* behind it.                                                                *)
LEMMA GluedPath ==
  ASSUME NEW b, NEW N \in Nat, Len(b) = N, NEW first \in 1 .. N, NEW last \in first .. N, NEW q,
         \A m \in 1 .. N : b[m].at = "top" <=> m \notin first .. last,
         BlockPath(q, b, first, last)
  PROVE  LET p == Places(1, first - 1) \o q \o Places(last + 1, N) IN
         PlacesOf(p, b) /\ Forward(p, b) /\ Passes(p, b) /\ TopFirst(p, b)
<1> DEFINE u == Places(1, first - 1)
           v == Places(last + 1, N)
           p == u \o q \o v
<1>1. PICK F \in Nat, R \in Nat : F = first - 1 /\ R = N - last
  OBVIOUS
<1>2. u \in Seq(1 .. F) /\ Len(u) = F /\ \A n \in 1 .. F : u[n] = n
  <2>1. first - 1 \in Nat /\ 1 \in Nat /\ 1 <= (first - 1) + 1
    OBVIOUS
  <2>2. /\ u \in Seq(1 .. (first - 1)) /\ Len(u) = (first - 1) - 1 + 1
        /\ \A n \in 1 .. ((first - 1) - 1 + 1) : u[n] = 1 + n - 1
    BY <2>1, PlacesAre
  <2> QED BY <1>1, <2>2
<1>3. v \in Seq((last + 1) .. N) /\ Len(v) = R /\ \A n \in 1 .. R : v[n] = last + n
  <2>1. last + 1 \in Nat /\ last + 1 <= N + 1
    OBVIOUS
  <2>2. /\ v \in Seq((last + 1) .. N) /\ Len(v) = N - (last + 1) + 1
        /\ \A n \in 1 .. (N - (last + 1) + 1) : v[n] = (last + 1) + n - 1
    BY <2>1, PlacesAre
  <2> QED BY <1>1, <2>2
<1> HIDE DEF u, v
<1>4. q \in Seq(first .. last) /\ Len(q) \in Nat
  BY DEF BlockPath
<1>5. PICK L \in Nat : L = Len(q)
  BY <1>4
<1>6. u \in Seq(1 .. N) /\ v \in Seq(1 .. N) /\ q \in Seq(1 .. N)
  <2>1. 1 .. F \subseteq 1 .. N /\ (last + 1) .. N \subseteq 1 .. N /\ first .. last \subseteq 1 .. N
    BY <1>1
  <2>2. PICK S, T, U, V : S = 1 .. N /\ T = 1 .. F /\ U = (last + 1) .. N /\ V = first .. last
    OBVIOUS
  <2>3. u \in Seq(T) /\ v \in Seq(U) /\ q \in Seq(V) /\ T \subseteq S /\ U \subseteq S /\ V \subseteq S
    BY <1>2, <1>3, <1>4, <2>1, <2>2
  <2>4. u \in Seq(S) /\ v \in Seq(S) /\ q \in Seq(S)
    BY <2>3, WiderSeq
  <2> QED BY <2>2, <2>4
<1>7. PICK uq : uq = u \o q
  OBVIOUS
<1>8. uq \in Seq(1 .. N) /\ Len(uq) = F + L /\ (\A n \in 1 .. F : uq[n] = n) /\ \A n \in 1 .. L : uq[F + n] = q[n]
  <2>1. PICK S : S = 1 .. N
    OBVIOUS
  <2>2. u \in Seq(S) /\ q \in Seq(S)
    BY <1>6, <2>1
  <2>3. JoinOf(u \o q, u, q, S, F, L)
    <3>1. Pieces(u, q, S, F, L)
      BY <1>2, <1>5, <2>2 DEF Pieces
    <3> QED BY <3>1, Joining
  <2> QED BY <1>2, <1>7, <2>1, <2>3 DEF JoinOf
<1>9. PICK w : w = uq \o v
  OBVIOUS
<1>10. /\ w \in Seq(1 .. N) /\ DOMAIN w = 1 .. (F + L + R)
       /\ \A n \in 1 .. F : w[n] = n
       /\ \A n \in 1 .. L : w[F + n] = q[n]
       /\ \A n \in 1 .. R : w[F + L + n] = last + n
  <2>0. F + L \in Nat
    OBVIOUS
  <2>1. PICK S, A : S = 1 .. N /\ A \in Nat /\ A = F + L
    BY <2>0
  <2>2. uq \in Seq(S) /\ v \in Seq(S) /\ Len(uq) = A /\ Len(v) = R
    BY <1>3, <1>6, <1>8, <2>1
  <2>3. /\ w \in Seq(S) /\ Len(w) = A + R
        /\ \A n \in 1 .. A : w[n] = uq[n]
        /\ \A n \in 1 .. R : w[A + n] = v[n]
    <3>1. Pieces(uq, v, S, A, R)
      BY <2>1, <2>2 DEF Pieces
    <3>2. JoinOf(uq \o v, uq, v, S, A, R)
      BY <3>1, Joining
    <3> QED BY <1>9, <3>2 DEF JoinOf
  <2>4. w \in Seq(1 .. N) /\ DOMAIN w = 1 .. (F + L + R)
    BY <2>1, <2>3
  <2>5. \A n \in 1 .. F : w[n] = n
    BY <1>8, <2>1, <2>3
  <2>6. ASSUME NEW n \in 1 .. L PROVE w[F + n] = q[n]
    <3>1. F + n \in 1 .. A
      BY <2>1
    <3> QED BY <1>8, <2>3, <3>1
  <2>7. \A n \in 1 .. R : w[F + L + n] = last + n
    BY <1>3, <2>1, <2>3
  <2> QED BY <2>4, <2>5, <2>6, <2>7
<1>11. ASSUME NEW i \in DOMAIN w
       PROVE  \/ i \in 1 .. F /\ w[i] = i
              \/ \E n \in DOMAIN q : i = F + n /\ w[i] = q[n] /\ q[n] \in first .. last
              \/ \E n \in 1 .. R : i = F + L + n /\ w[i] = last + n
  <2>1. CASE i \in 1 .. F
    BY <1>10, <2>1
  <2>2. CASE i \in (F + 1) .. (F + L)
    <3>1. i - F \in 1 .. L /\ i = F + (i - F)
      BY <2>2
    <3>2. DOMAIN q = 1 .. L
      BY <1>4, <1>5
    <3>3. w[F + (i - F)] = q[i - F]
      BY <1>10, <3>1
    <3>4. q[i - F] \in first .. last
      BY <1>4, <3>1, <3>2
    <3> QED BY <3>1, <3>2, <3>3, <3>4
  <2>3. CASE i \in (F + L + 1) .. (F + L + R)
    <3>1. i - (F + L) \in 1 .. R /\ i = F + L + (i - (F + L))
      BY <2>3
    <3> QED BY <1>10, <3>1
  <2> QED BY <1>10, <2>1, <2>2, <2>3
<1>12. DOMAIN q = 1 .. L
  BY <1>4, <1>5
<1>13. Forward(w, b)
  <2> SUFFICES ASSUME NEW i \in DOMAIN w, NEW j \in DOMAIN w, i < j
               PROVE  w[i] < w[j] \/ b[w[i]].at = "loop"
    BY DEF Forward
  <2>1. CASE \E n, m \in DOMAIN q : i = F + n /\ w[i] = q[n] /\ j = F + m /\ w[j] = q[m]
    <3>1. PICK n \in DOMAIN q, m \in DOMAIN q : i = F + n /\ w[i] = q[n] /\ j = F + m /\ w[j] = q[m]
      BY <2>1
    <3>2. n < m
      BY <1>12, <3>1
    <3>3. q[n] < q[m] \/ b[q[n]].at = "loop"
      BY <3>2 DEF BlockPath
    <3> QED BY <3>1, <3>3
  <2>2. CASE ~ \E n, m \in DOMAIN q : i = F + n /\ w[i] = q[n] /\ j = F + m /\ w[j] = q[m]
    <3>1. \/ i \in 1 .. F /\ w[i] = i
          \/ \E n \in DOMAIN q : i = F + n /\ w[i] = q[n] /\ q[n] \in first .. last
          \/ \E n \in 1 .. R : i = F + L + n /\ w[i] = last + n
      BY <1>11
    <3>2. \/ j \in 1 .. F /\ w[j] = j
          \/ \E n \in DOMAIN q : j = F + n /\ w[j] = q[n] /\ q[n] \in first .. last
          \/ \E n \in 1 .. R : j = F + L + n /\ w[j] = last + n
      BY <1>11
    <3>3. i \in Nat /\ j \in Nat /\ \A n \in DOMAIN q : n \in 1 .. L
      BY <1>10, <1>12
    <3>4. CASE i \in 1 .. F /\ w[i] = i
      BY <1>1, <3>2, <3>3, <3>4
    <3>5. CASE \E n \in DOMAIN q : i = F + n /\ w[i] = q[n] /\ q[n] \in first .. last
      <4>1. PICK n \in DOMAIN q : i = F + n /\ w[i] = q[n] /\ q[n] \in first .. last
        BY <3>5
      <4>2. ~ (j \in 1 .. F)
        BY <3>3, <4>1
      <4>3. ~ \E m \in DOMAIN q : j = F + m /\ w[j] = q[m]
        BY <2>2, <4>1
      <4>4. \E m \in 1 .. R : j = F + L + m /\ w[j] = last + m
        BY <3>2, <4>2, <4>3
      <4> QED BY <4>1, <4>4
    <3>6. CASE \E n \in 1 .. R : i = F + L + n /\ w[i] = last + n
      <4>1. PICK n \in 1 .. R : i = F + L + n /\ w[i] = last + n
        BY <3>6
      <4>2. ~ (j \in 1 .. F)
        BY <4>1
      <4>3. ~ \E m \in DOMAIN q : j = F + m /\ w[j] = q[m]
        BY <3>3, <4>1
      <4>4. \E m \in 1 .. R : j = F + L + m /\ w[j] = last + m
        BY <3>2, <4>2, <4>3
      <4> QED BY <4>1, <4>4
    <3> QED BY <3>1, <3>4, <3>5, <3>6
  <2> QED BY <2>1, <2>2
<1>14. Passes(w, b)
  <2> SUFFICES ASSUME NEW i \in DOMAIN w, NEW j \in DOMAIN w, NEW m \in 1 .. N, i < j,
                      w[i] < m, m < w[j], b[w[i]].at # "loop", b[m].at \in {"top", b[w[j]].at}
               PROVE  \E d \in DOMAIN w : i < d /\ d < j /\ w[d] = m
    BY DEF Passes
  <2>1. w[i] \in 1 .. N /\ w[j] \in 1 .. N /\ i \in Nat /\ j \in Nat /\ i \in 1 .. (F + L + R) /\ j \in 1 .. (F + L + R)
    BY <1>10
  <2>2. CASE m < first
    <3>1. m \in 1 .. F /\ w[m] = m /\ m \in DOMAIN w
      BY <1>1, <1>10, <2>2
    <3>2. i \in 1 .. F /\ w[i] = i
      BY <1>1, <1>11, <1>12, <2>1, <2>2
    <3>3. m < j
      <4>1. CASE j \in 1 .. F
        BY <1>10, <4>1
      <4>2. CASE j \notin 1 .. F
        BY <2>1, <3>1, <4>2
      <4> QED BY <4>1, <4>2
    <3> QED BY <3>1, <3>2, <3>3
  <2>3. CASE m \in first .. last
    <3>1. b[m].at # "top" /\ b[m].at = b[w[j]].at
      BY <2>3
    <3>2. w[j] \in first .. last
      BY <2>1, <3>1
    <3>3. PICK y \in DOMAIN q : j = F + y /\ w[j] = q[y]
      BY <1>1, <1>11, <3>2
    <3>4. CASE i \in 1 .. F
      <4>1. PICK d \in DOMAIN q : d < y /\ q[d] = m
        <5>1. m < q[y] /\ b[m].at = b[q[y]].at
          BY <3>1, <3>3
        <5>2. \A x \in DOMAIN q : \A n \in first .. last :
                n < q[x] /\ b[n].at = b[q[x]].at => \E d \in DOMAIN q : d < x /\ q[d] = n
          BY DEF BlockPath
        <5> QED BY <2>3, <5>1, <5>2
      <4>2. F + d \in DOMAIN w /\ w[F + d] = m
        <5>1. d \in 1 .. L /\ F + d \in 1 .. (F + L + R)
          BY <1>12
        <5> QED BY <1>10, <4>1, <5>1
      <4> QED BY <1>12, <3>3, <3>4, <4>1, <4>2
    <3>5. CASE \E x \in DOMAIN q : i = F + x /\ w[i] = q[x]
      <4>1. PICK x \in DOMAIN q : i = F + x /\ w[i] = q[x]
        BY <3>5
      <4>2. x < y
        BY <1>12, <3>3, <4>1
      <4>3. PICK d \in DOMAIN q : x < d /\ d < y /\ q[d] = m
        BY <2>3, <3>1, <3>3, <4>1, <4>2 DEF BlockPath
      <4>4. F + d \in DOMAIN w /\ w[F + d] = m
        BY <1>10, <1>12, <4>3
      <4> QED BY <1>12, <3>3, <4>1, <4>3, <4>4
    <3>6. ~ \E n \in 1 .. R : i = F + L + n
      BY <1>12, <3>3
    <3> QED BY <1>11, <3>4, <3>5, <3>6
  <2>4. CASE m > last
    <3>1. PICK n \in 1 .. R : m = last + n
      <4>1. m - last \in 1 .. R /\ m = last + (m - last)
        BY <1>1, <2>4
      <4> QED BY <4>1
    <3>2. PICK d : d = F + L + n
      OBVIOUS
    <3>3. w[d] = m /\ d \in DOMAIN w /\ d \in Nat
      <4>1. n \in 1 .. R /\ F + L + n \in 1 .. (F + L + R)
        OBVIOUS
      <4>2. w[F + L + n] = last + n
        BY <1>10
      <4>3. F + L + n \in DOMAIN w
        BY <1>10, <4>1
      <4> QED BY <3>1, <3>2, <4>2, <4>3
    <3>6. PICK y \in 1 .. R : j = F + L + y /\ w[j] = last + y
      <4>1. ~ (j \in 1 .. F /\ w[j] = j)
        BY <1>1, <2>1, <2>4
      <4>2. w[j] \notin first .. last
        BY <2>1, <2>4
      <4> QED BY <1>11, <4>1, <4>2
    <3>4. d < j
      BY <3>1, <3>2, <3>6
    <3>5. i < d
      <4>1. CASE \E x \in 1 .. R : i = F + L + x /\ w[i] = last + x
        BY <3>1, <3>2, <4>1
      <4>2. CASE i \in 1 .. F
        BY <3>2, <4>2
      <4>3. CASE \E x \in DOMAIN q : i = F + x
        BY <1>12, <3>2, <4>3
      <4> QED BY <1>11, <4>1, <4>2, <4>3
    <3> QED BY <3>3, <3>4, <3>5
  <2> QED BY <2>2, <2>3, <2>4
<1>15. w = p /\ PlacesOf(w, b)
  BY <1>7, <1>9, <1>10 DEF PlacesOf
<1>16. TopFirst(w, b)
  <2> SUFFICES ASSUME NEW j \in DOMAIN w, NEW m \in 1 .. N, m < w[j], b[m].at = "top"
               PROVE  \E d \in DOMAIN w : d < j /\ w[d] = m
    BY DEF TopFirst
  <2>1. w[j] \in 1 .. N /\ j \in Nat /\ j \in 1 .. (F + L + R) /\ m \notin first .. last
    BY <1>10
  <2>2. CASE m < first
    <3>1. m \in 1 .. F /\ w[m] = m /\ m \in DOMAIN w
      BY <1>1, <1>10, <2>2
    <3>2. CASE j \in 1 .. F
      <4>1. w[j] = j
        BY <1>10, <3>2
      <4> QED BY <3>1, <4>1
    <3>3. CASE j \notin 1 .. F
      BY <2>1, <3>1, <3>3
    <3> QED BY <3>2, <3>3
  <2>3. CASE m > last
    <3>1. m - last \in 1 .. R /\ m = last + (m - last)
      BY <1>1, <2>3
    <3>2. PICK n \in 1 .. R : m = last + n
      BY <3>1
    <3>3. PICK y \in 1 .. R : j = F + L + y /\ w[j] = last + y
      <4>1. ~ (j \in 1 .. F /\ w[j] = j)
        BY <1>1, <2>1, <2>3
      <4>2. w[j] \notin first .. last
        BY <2>1, <2>3
      <4> QED BY <1>11, <4>1, <4>2
    <3>4. PICK d : d = F + L + n
      OBVIOUS
    <3>5. w[d] = m /\ d \in DOMAIN w
      <4>1. n \in 1 .. R /\ F + L + n \in 1 .. (F + L + R)
        OBVIOUS
      <4>2. w[F + L + n] = last + n
        BY <1>10
      <4>3. F + L + n \in DOMAIN w
        BY <1>10, <4>1
      <4> QED BY <3>2, <3>4, <4>2, <4>3
    <3>6. d < j
      BY <3>2, <3>3, <3>4
    <3> QED BY <3>5, <3>6
  <2> QED BY <2>1, <2>2, <2>3
<1> QED BY <1>13, <1>14, <1>15, <1>16 DEF u, v

(* A path through b. *)
Traced(p, b) == PlacesOf(p, b) /\ Forward(p, b) /\ Passes(p, b) /\ TopFirst(p, b)

(* A body without a block runs from its first place to its last. *)
LEMMA WholePath ==
  ASSUME NEW b, Len(b) \in Nat
  PROVE  Traced(Places(1, Len(b)), b)
<1> DEFINE p == Places(1, Len(b))
<1>1. p \in Seq(1 .. Len(b)) /\ Len(p) = Len(b) /\ \A n \in 1 .. Len(b) : p[n] = n
  <2>1. PICK N \in Nat : N = Len(b)
    OBVIOUS
  <2>2. 1 \in Nat /\ 1 <= N + 1
    OBVIOUS
  <2>3. /\ Places(1, N) \in Seq(1 .. N) /\ Len(Places(1, N)) = N - 1 + 1
        /\ \A n \in 1 .. (N - 1 + 1) : Places(1, N)[n] = 1 + n - 1
    BY <2>2, PlacesAre
  <2> QED BY <2>1, <2>3
<1>2. DOMAIN p = 1 .. Len(b)
  BY <1>1
<1> HIDE DEF p
<1>3. PlacesOf(p, b) /\ Forward(p, b)
  BY <1>1, <1>2 DEF PlacesOf, Forward
<1>4. ASSUME NEW i \in DOMAIN p, NEW j \in DOMAIN p, NEW m \in 1 .. Len(b), p[i] < m, m < p[j]
      PROVE  m \in DOMAIN p /\ i < m /\ m < j /\ p[m] = m
  BY <1>1, <1>2, <1>4
<1>5. Passes(p, b)
  BY <1>4 DEF Passes
<1>6. TopFirst(p, b)
  BY <1>1, <1>2 DEF TopFirst
<1> QED BY <1>3, <1>5, <1>6 DEF Traced, p

(* Path is a path, however often the block runs: the four forms of its block are. *)
LEMMA PathTraced ==
  ASSUME NEW b, Len(b) \in Nat, DOMAIN b = 1 .. Len(b), Laid(b), NEW k \in Runs
  PROVE  Traced(Path(b, k), b)
<1>1. CASE InBlock(b) = {}
  BY <1>1, WholePath DEF Path
<1>2. CASE InBlock(b) # {}
  <2> DEFINE first == CHOOSE i \in InBlock(b) : \A j \in InBlock(b) : i <= j
             last  == CHOOSE i \in InBlock(b) : \A j \in InBlock(b) : j <= i
             fork  == CHOOSE i \in first .. last : /\ b[i].at = b[first].at
                                                   /\ \A j \in (i + 1) .. last : b[j].at = "else"
             block == CASE b[first].at = "if" /\ k = 0   -> Places(fork + 1, last)
                        [] b[first].at = "loop" /\ k = 0 -> <<>>
                        [] b[first].at = "loop" /\ k = 2 -> Places(first, last) \o Places(first, last)
                        [] OTHER -> Places(first, fork)
  <2>0. Path(b, k) = Places(1, first - 1) \o block \o Places(last + 1, Len(b))
    BY <1>2 DEF Path
  <2>1. PICK N \in Nat : N = Len(b)
    OBVIOUS
  <2>2. InBlock(b) \in SUBSET Nat /\ InBlock(b) \in SUBSET (1 .. N) /\ \A i \in InBlock(b) : b[i].at # "top"
    BY <2>1 DEF InBlock
  <2>3. first \in InBlock(b) /\ \A j \in InBlock(b) : first <= j
    <3>1. \E i \in InBlock(b) : \A j \in InBlock(b) : i <= j
      BY <1>2, <2>2, Least
    <3> QED BY <3>1
  <2>4. last \in InBlock(b) /\ \A j \in InBlock(b) : j <= last
    <3>1. \E i \in InBlock(b) : \A j \in InBlock(b) : j <= i
      BY <1>2, <2>2, Greatest
    <3> QED BY <3>1
  <2> HIDE DEF first, last
  <2>5. first \in 1 .. N /\ last \in first .. N
    BY <2>2, <2>3, <2>4
  <2>6. \A m \in first .. last : b[m].at = b[first].at \/ (b[first].at = "if" /\ b[m].at = "else")
    BY <2>3, <2>4, <2>5 DEF Laid
  <2>7. \A m \in 1 .. N : b[m].at = "top" <=> m \notin first .. last
    <3> SUFFICES ASSUME NEW m \in 1 .. N PROVE b[m].at = "top" <=> m \notin first .. last
      OBVIOUS
    <3>1. CASE m \in first .. last
      <4>1. b[first].at # "top"
        BY <2>2, <2>3
      <4>2. b[m].at # "top"
        BY <2>6, <3>1, <4>1
      <4> QED BY <3>1, <4>2
    <3>2. CASE m \notin first .. last
      <4>1. m \notin InBlock(b)
        BY <2>3, <2>4, <2>5, <3>2
      <4> QED BY <2>1, <3>2, <4>1 DEF InBlock
    <3> QED BY <3>1, <3>2
  <2>8. fork \in first .. last /\ b[fork].at = b[first].at /\ \A j \in (fork + 1) .. last : b[j].at = "else"
    <3> DEFINE T == {i \in first .. last : b[i].at = b[first].at}
    <3>1. T \in SUBSET (1 .. N) /\ T # {}
      BY <2>5
    <3>2. PICK i \in T : \A j \in T : j <= i
      BY <3>1, Greatest
    <3>3. ASSUME NEW j \in (i + 1) .. last PROVE b[j].at = "else"
      <4>1. j \in first .. last /\ j \notin T
        BY <2>5, <3>1, <3>2
      <4> QED BY <2>6, <4>1
    <3>4. \E x \in first .. last : /\ b[x].at = b[first].at
                                   /\ \A j \in (x + 1) .. last : b[j].at = "else"
      BY <3>3
    <3> QED BY <3>4
  <2> HIDE DEF fork
  <2>9. BlockPath(block, b, first, last)
    <3>1. CASE b[first].at = "if" /\ k = 0
      <4>1. ASSUME NEW m \in first .. fork, NEW j \in (fork + 1) .. last PROVE b[m].at # b[j].at
        <5>1. b[j].at = "else" /\ b[fork].at = "if"
          BY <2>8, <3>1
        <5>2. m \in InBlock(b) /\ fork \in InBlock(b) /\ m <= fork /\ fork \in m .. fork
          BY <2>1, <2>5, <2>7, <2>8 DEF InBlock
        <5>3. b[fork].at = b[m].at \/ (b[m].at = "if" /\ b[fork].at = "else")
          BY <5>2 DEF Laid
        <5> QED BY <5>1, <5>3
      <4>2. fork + 1 \in first .. (last + 1) /\ last \in first .. last /\ fork + 1 <= last + 1
        BY <2>5, <2>8
      <4>3. PICK f, g : f = fork + 1 /\ g = last
        OBVIOUS
      <4>4. f \in first .. (last + 1) /\ g \in first .. last /\ f <= g + 1
        BY <4>2, <4>3
      <4>5. \A m \in first .. (f - 1) : \A j \in f .. g : b[m].at # b[j].at
        <5>1. f - 1 = fork
          BY <2>5, <2>8, <4>3
        <5> QED BY <4>1, <4>3, <5>1
      <4>6. BlockPath(Places(f, g), b, first, last)
        BY <2>5, <4>4, <4>5, PlacesBlock
      <4> QED BY <3>1, <4>3, <4>6
    <3>2. CASE b[first].at = "loop" /\ k = 0
      BY <3>2, EmptyBlock
    <3>3. CASE b[first].at = "loop" /\ k = 2
      <4>1. \A m \in first .. last : b[m].at = "loop"
        BY <2>6, <3>3
      <4>2. BlockPath(Places(first, last) \o Places(first, last), b, first, last)
        BY <2>5, <4>1, TwiceBlock
      <4> QED BY <3>3, <4>2
    <3>4. CASE ~ (b[first].at = "if" /\ k = 0) /\ ~ (b[first].at = "loop" /\ k = 0) /\ ~ (b[first].at = "loop" /\ k = 2)
      <4>1. first \in first .. (last + 1) /\ fork \in first .. last /\ first <= fork + 1
        BY <2>5, <2>8
      <4>2. \A m \in first .. (first - 1) : \A j \in first .. fork : b[m].at # b[j].at
        BY <2>5
      <4>3. BlockPath(Places(first, fork), b, first, last)
        BY <2>5, <4>1, <4>2, PlacesBlock
      <4> QED BY <3>4, <4>3
    <3> QED BY <3>1, <3>2, <3>3, <3>4
  <2> HIDE DEF block
  <2>10. Traced(Places(1, first - 1) \o block \o Places(last + 1, N), b)
    BY <2>1, <2>5, <2>7, <2>9, GluedPath DEF Traced
  <2> QED BY <2>0, <2>1, <2>10
<1> QED BY <1>1, <1>2

-----------------------------------------------------------------------------
(* What is accepted compiles.                                                *)

(* The lowered statements stand where those of the body do. *)
LEMMA LoweredSays ==
  ASSUME NEW b, Len(b) \in Nat, DOMAIN b = 1 .. Len(b), NEW params, NEW es, LoweredTo(es, b, params, Len(b))
  PROVE  /\ Len(es) = Len(b) /\ DOMAIN es = 1 .. Len(b)
         /\ \A i \in 1 .. Len(b) : /\ es[i] = LowerAt(b, params, i)
                                   /\ es[i].op = b[i].op /\ es[i].x = b[i].x /\ es[i].at = b[i].at
                                   /\ Uses(es[i]) = Uses(b[i])
                                   /\ ~ apply_alias_dispositions_refuses(b, b[i])
<1>1. Len(es) = Len(b) /\ DOMAIN es = 1 .. Len(b)
  BY DEF LoweredTo
<1>2. ASSUME NEW i \in 1 .. Len(b)
      PROVE /\ es[i] = LowerAt(b, params, i)
            /\ es[i].op = b[i].op /\ es[i].x = b[i].x /\ es[i].at = b[i].at
            /\ Uses(es[i]) = Uses(b[i])
            /\ ~ apply_alias_dispositions_refuses(b, b[i])
  <2>1. es[i] = LowerAt(b, params, i) /\ ~ apply_alias_dispositions_refuses(b, b[i])
    BY DEF LoweredTo
  <2>2. es[i].op = b[i].op /\ es[i].x = b[i].x /\ es[i].at = b[i].at /\ es[i].ys = b[i].ys
    BY <2>1 DEF LowerAt, Lowered
  <2>3. Uses(es[i]) = Uses(b[i])
    BY <2>2 DEF Uses
  <2> QED BY <2>1, <2>2, <2>3
<1> QED BY <1>1, <1>2

(* Lowering leaves every statement in its block. *)
LEMMA LoweredLaid ==
  ASSUME NEW b, Len(b) \in Nat, DOMAIN b = 1 .. Len(b), NEW params, NEW es, LoweredTo(es, b, params, Len(b)), Laid(b)
  PROVE  Laid(es)
<1>1. DOMAIN es = DOMAIN b /\ \A i \in DOMAIN b : es[i].at = b[i].at
  BY LoweredSays
<1>2. InBlock(es) = InBlock(b)
  BY <1>1 DEF InBlock
<1>3. ASSUME NEW i \in InBlock(es), NEW j \in InBlock(es), i <= j, NEW k \in i .. j
      PROVE  es[k].at = es[i].at \/ (es[i].at = "if" /\ es[k].at = "else")
  <2>1. i \in DOMAIN b /\ j \in DOMAIN b /\ k \in DOMAIN b
    BY <1>2, <1>3 DEF InBlock
  <2>2. b[k].at = b[i].at \/ (b[i].at = "if" /\ b[k].at = "else")
    BY <1>2, <1>3 DEF Laid
  <2> QED BY <1>1, <2>1, <2>2
<1> QED BY <1>3 DEF Laid

(* The name a binding takes is in the class of the name it binds. *)
LEMMA LinkedClass ==
  ASSUME NEW b, DOMAIN b \subseteq Nat, NEW i \in Visited(b), b[i].op \in {"alias", "ident", "grid"},
         NEW m \in DOMAIN b[i].ys, m \in 1 .. 2, b[i].ys[m] \in Names, b[i].x \in Names
  PROVE  {b[i].x, b[i].ys[m]} \subseteq alias_class(b)[b[i].ys[m]]
<1> DEFINE n == b[i].ys[m]
           x == b[i].x
           pairs  == {<<b[e[1]].x, b[e[1]].ys[e[2]]>> : e \in alias_edges(b)}
           nodes  == {p[1] : p \in pairs} \cup {p[2] : p \in pairs}
           unions == {S \in SUBSET nodes : \A p \in pairs : p[1] \in S <=> p[2] \in S}
<1>1. <<i, m>> \in alias_edges(b)
  BY DEF alias_edges
<1>2. <<x, n>> \in pairs
  BY <1>1
<1> HIDE DEF pairs
<1>3. x \in nodes /\ n \in nodes
  <2>1. <<x, n>>[1] = x /\ <<x, n>>[2] = n
    OBVIOUS
  <2> QED BY <1>2, <2>1
<1>4. \A S \in unions : n \in S => x \in S
  BY <1>2
<1> HIDE DEF nodes, unions
<1>5. alias_class(b) = [y \in Names |-> {y} \cup {z \in nodes : y \in nodes /\ \A S \in unions : y \in S => z \in S}]
  BY DEF alias_class, pairs, nodes, unions
<1>6. alias_class(b)[n] = {n} \cup {z \in nodes : n \in nodes /\ \A S \in unions : n \in S => z \in S}
  BY <1>5
<1> QED BY <1>3, <1>4, <1>6

(* A store to a name whose list a visible statement took, both seen by the   *)
(* walks, finds the name bound again in between, and on the store's path.    *)
LEMMA StoreSeen ==
  ASSUME NEW b \in Seq(Stmts), NEW params, params = job.params,
         ~ append_then_mutate(b), ~ class_violation(b, params), ~ WrittenUnwatched(b),
         NEW i \in DOMAIN b, NEW j \in DOMAIN b, i < j,
         b[j].op \in {"store", "rowstore"}, b[j].x \in Taken(b[i])
  PROVE  \E k \in DOMAIN b : /\ i < k /\ k < j
                             /\ b[k].op \in Binding /\ b[k].x = b[j].x
                             /\ b[k].at \in {"top", b[j].at}
<1> DEFINE n == b[j].x
           x == b[i].x
<1>1. DOMAIN b = 1 .. Len(b) /\ Len(b) \in Nat /\ Said(b[i]) /\ Said(b[j])
  BY StmtsSaid
<1>2. /\ b[i].at # "try" /\ b[j].at # "try" /\ b[i].op # "call"
      /\ b[i].op \in {"alias", "ident", "grid"} =>
           x \notin params /\ n \notin params /\ observable(b, x)
      /\ b[i].op = "embed" => ~ ForgottenEmbed(b, i)
  BY DEF WrittenUnwatched
<1>3. i \in Visited(b) /\ j \in Visited(b)
  BY <1>2 DEF Visited
<1>4. n \in ToSet(b[i].ys) /\ b[i].op # "elem"
  BY <1>2 DEF Taken
<1>5. PICK m \in DOMAIN b[i].ys : b[i].ys[m] = n
  BY <1>4 DEF ToSet
<1>6. b[i].op \in {"alias", "ident", "grid", "embed"}
  BY <1>1, <1>2, <1>4, <1>5 DEF Said
<1>7. CASE b[i].op \in {"alias", "ident", "grid"}
  <2>1. m \in 1 .. 2 /\ x # n /\ n \in Names /\ x \in Names
    BY <1>1, <1>5, <1>7 DEF Said
  <2>2. {x, n} \subseteq alias_class(b)[n]
    BY <1>1, <1>3, <1>5, <1>7, <2>1, LinkedClass
  <2>3. n \in collect_obj_mutated(b)
    BY <1>3 DEF collect_obj_mutated
  <2>4. class_mutated(b, alias_class(b)[n]) /\ observable(b, n)
    BY <2>2, <2>3 DEF class_mutated, observable
  <2>5. class_violation(b, params)
    BY <1>2, <1>7, <2>1, <2>2, <2>4 DEF class_violation
  <2> QED BY <2>5
<1>8. CASE b[i].op = "embed"
  <2>1. b[i].ys[1] = n /\ ToSet(b[i].ys) = {n}
    BY <1>1, <1>5, <1>8 DEF Said, ToSet
  <2>2. rebound(b, n, i, j)
    BY <1>3, <1>8, <2>1 DEF append_then_mutate, Mutations
  <2>3. PICK k \in Visited(b) : i < k /\ k < j /\ b[k].op \in Binding /\ b[k].x = n
    BY <2>2 DEF rebound
  <2>4. k \in DOMAIN b /\ k \in (i + 1) .. (j - 1)
    BY <1>1, <2>3 DEF Visited
  <2>5. b[k].at \in {"top", b[j].at}
    BY <1>2, <1>8, <2>1, <2>3, <2>4 DEF ForgottenEmbed, Mutations
  <2> QED BY <2>3, <2>4, <2>5
<1> QED BY <1>6, <1>7, <1>8

(* What an accepted body is lowered to compiles. *)
LEMMA AcceptedCompiles ==
  ASSUME NEW b \in Seq(Stmts), NEW params, params = job.params, Laid(b),
         NEW es, LoweredTo(es, b, params, Len(b)),
         ~ append_then_mutate(b), ~ class_violation(b, params), ~ WrittenUnwatched(b)
  PROVE  Compiles(es)
<1>1. DOMAIN b = 1 .. Len(b) /\ Len(b) \in Nat /\ \A i \in DOMAIN b : Said(b[i])
  BY StmtsSaid
<1>2. /\ Len(es) = Len(b) /\ DOMAIN es = 1 .. Len(b)
      /\ \A i \in 1 .. Len(b) : /\ es[i] = LowerAt(b, params, i)
                                /\ es[i].op = b[i].op /\ es[i].x = b[i].x /\ es[i].at = b[i].at
                                /\ Uses(es[i]) = Uses(b[i])
                                /\ ~ apply_alias_dispositions_refuses(b, b[i])
  BY <1>1, LoweredSays
<1>3. Laid(es)
  BY <1>1, LoweredLaid
<1> SUFFICES ASSUME NEW k \in Runs, NEW path, path = Unrolled(es, k), NEW j \in DOMAIN path,
                    NEW n \in Uses(path[j]), n \in MovedAway(path, j)
             PROVE  FALSE
  BY DEF Compiles
<1>4. PICK p : p = Path(es, k)
  OBVIOUS
<1>5. Traced(p, es)
  BY <1>1, <1>2, <1>3, <1>4, PathTraced
<1>6. p \in Seq(1 .. Len(b)) /\ DOMAIN path = DOMAIN p /\ \A i \in DOMAIN p : path[i] = es[p[i]] /\ p[i] \in 1 .. Len(b)
  BY <1>2, <1>4, <1>5 DEF Traced, PlacesOf, Unrolled
<1>7. DOMAIN p = 1 .. Len(p) /\ Len(p) \in Nat
  BY <1>6
<1>8. PICK i \in 1 .. (j - 1) : /\ n \in Moves(path[i])
                                /\ \A q \in i .. (j - 1) : path[q].op \in Binding => path[q].x # n
  BY DEF MovedAway
<1>9. i \in DOMAIN p /\ j \in DOMAIN p /\ i < j
  BY <1>6, <1>7
<1>10. PICK I \in 1 .. Len(b), J \in 1 .. Len(b) : I = p[i] /\ J = p[j]
  BY <1>6, <1>9
<1>11. n \in Moves(LowerAt(b, params, I)) /\ n \in Uses(b[J])
  BY <1>2, <1>6, <1>8, <1>9, <1>10
<1>12. n \in Taken(b[I]) /\ ~ reread(b, n)
  BY <1>1, <1>2, <1>11, MovedNotReread
<1>13. b[I].at # "loop" /\ \A q \in DOMAIN b : q # I => \A r \in DOMAIN Loads(b[q]) : Loads(b[q])[r] # n
  BY <1>1, <1>12, TakenOnce
<1>14. I < J
  BY <1>2, <1>5, <1>9, <1>10, <1>13 DEF Traced, Forward
<1>15. b[J].op \in {"store", "rowstore"} /\ n = b[J].x
  BY <1>1, <1>11, <1>13, <1>14, LoadsAre
<1>16. PICK K \in DOMAIN b : /\ I < K /\ K < J
                             /\ b[K].op \in Binding /\ b[K].x = n
                             /\ b[K].at \in {"top", b[J].at}
  BY <1>1, <1>12, <1>14, <1>15, StoreSeen
<1>17. PICK d \in DOMAIN p : i < d /\ d < j /\ p[d] = K
  <2>1. /\ p[i] < K /\ K < p[j] /\ es[p[i]].at # "loop" /\ es[K].at \in {"top", es[p[j]].at} /\ K \in 1 .. Len(es)
    BY <1>1, <1>2, <1>10, <1>13, <1>16
  <2>2. Passes(p, es)
    BY <1>5 DEF Traced
  <2> QED BY <1>9, <2>1, <2>2 DEF Passes
<1>18. d \in i .. (j - 1) /\ path[d].op \in Binding /\ path[d].x = n
  BY <1>1, <1>2, <1>6, <1>7, <1>9, <1>16, <1>17
<1> QED BY <1>8, <1>18

(* The invariant says enough of the emitted body. *)
LEMMA CompilesFromInv == AliasInv => EmittedCompiles
<1> SUFFICES ASSUME AliasInv, phase = "emitted", ~ WrittenUnwatched(body) PROVE Compiles(emitted)
  BY DEF EmittedCompiles
<1>1. PICK b, es, params : b = body /\ es = emitted /\ params = job.params
  OBVIOUS
<1>2. body \in Seq(Stmts) /\ Laid(body) /\ ~ append_then_mutate(body) /\ ~ class_violation(body, job.params)
  BY DEF AliasInv
<1>3. LoweredTo(emitted, body, job.params, Len(body))
  BY DEF AliasInv
<1>4. /\ b \in Seq(Stmts) /\ Laid(b) /\ LoweredTo(es, b, params, Len(b))
      /\ ~ append_then_mutate(b) /\ ~ class_violation(b, params) /\ ~ WrittenUnwatched(b)
  BY <1>1, <1>2, <1>3
<1>5. Compiles(es)
  BY <1>1, <1>4, AcceptedCompiles
<1> QED BY <1>1, <1>5

(* A body that binds and prints gives no pass a reason to refuse it. *)
LEMMA ReadOnlyBody ==
  ASSUME NEW b \in Seq(Stmts), NEW params, NEW es, NEW n \in 0 .. Len(b), LoweredTo(es, b, params, n),
         \A i \in DOMAIN b : b[i].op \in {"new", "alias", "ident", "grid", "elem", "print"}
  PROVE  ~ Refusable(b, params, es) /\ ~ WrittenUnwatched(b)
<1>1. collect_obj_mutated(b) = {} /\ nested_mutated(b) = {}
  BY DEF collect_obj_mutated, nested_mutated, Visited
<1>2. ~ append_then_mutate(b)
  BY DEF append_then_mutate, Visited
<1>3. ~ class_violation(b, params)
  BY <1>1 DEF class_violation, class_mutated
<1>4. ASSUME NEW i \in DOMAIN b PROVE ~ apply_alias_dispositions_refuses(b, b[i])
  BY <1>1 DEF apply_alias_dispositions_refuses, alias_clones, mutated
<1>5. ~ alias_then_mutate(es)
  <2>1. DOMAIN es = 1 .. n /\ \A i \in 1 .. n : es[i].op = b[i].op
    BY DEF LoweredTo, LowerAt, Lowered
  <2>2. n \in Nat /\ \A i \in 1 .. n : i \in DOMAIN b
    OBVIOUS
  <2> QED BY <2>1, <2>2 DEF alias_then_mutate
<1>6. ~ WrittenUnwatched(b)
  BY DEF WrittenUnwatched
<1> QED BY <1>2, <1>3, <1>4, <1>5, <1>6 DEF Refusable

(* The invariant says enough of a refused body. *)
LEMMA ReadOnlyFromInv == AliasInv => ReadOnlyAccepted
<1> SUFFICES ASSUME AliasInv,
                    \A i \in DOMAIN body : body[i].op \in {"new", "alias", "ident", "grid", "elem", "print"}
             PROVE  phase # "refused" /\ (phase = "emitted" => Compiles(emitted))
  BY DEF ReadOnlyAccepted
<1>1. body \in Seq(Stmts) /\ (phase = "refused" => Refusable(body, job.params, emitted))
  BY DEF AliasInv
<1>2. PICK n \in 0 .. Len(body) : LoweredTo(emitted, body, job.params, n)
  BY DEF AliasInv
<1>3. PICK b, es, params : b = body /\ es = emitted /\ params = job.params
  OBVIOUS
<1>4. /\ b \in Seq(Stmts) /\ n \in 0 .. Len(b) /\ LoweredTo(es, b, params, n)
      /\ \A i \in DOMAIN b : b[i].op \in {"new", "alias", "ident", "grid", "elem", "print"}
  BY <1>1, <1>2, <1>3
<1>5. ~ Refusable(b, params, es) /\ ~ WrittenUnwatched(b)
  BY <1>4, ReadOnlyBody
<1>6. phase = "emitted" => Compiles(emitted)
  BY <1>3, <1>5, CompilesFromInv DEF EmittedCompiles
<1> QED BY <1>1, <1>3, <1>5, <1>6

(* rustc accepts whatever the frontend emits, on every path: no name is used *)
(* after its list was moved away, but for the stores no walk looks for        *)
(* (clone_if_reused_non_copy, alias_class_analysis,                           *)
(* reject_append_then_mutate and apply_alias_dispositions together).          *)
THEOREM EmittedBodiesCompile == Spec => []EmittedCompiles
BY BodiesLowered, CompilesFromInv, PTL

(* However a body links its lists, if it only binds and prints them, every   *)
(* pass lets it through and its Rust compiles.                                *)
THEOREM ReadOnlyNeverRefused == Spec => []ReadOnlyAccepted
BY BodiesLowered, ReadOnlyFromInv, PTL

-----------------------------------------------------------------------------
(* Runs: what a body does, statement by statement.                           *)

(* What kind of list each name of a statement holds. *)
Typed(s) ==
  /\ s.op \in {"ident", "append", "store", "elem"} => s.x \in Rows
  /\ s.op \in {"grid", "embed", "rowappend", "rowstore"} => s.x \in Grids
  /\ s.op \in {"ident", "grid", "embed"} => \A i \in DOMAIN s.ys : s.ys[i] \in Rows
  /\ s.op = "alias" => (s.x \in Rows <=> s.ys[1] \in Rows)
  /\ s.op = "elem" => \A i \in DOMAIN s.ys : s.ys[i] \in Grids

LEMMA TypedAll ==
  ASSUME NEW s \in Stmts
  PROVE  Typed(s)
<1>1. PICK j \in Jobs : s \in Sentences[j]
  BY DEF Stmts
<1>2. j.names \subseteq Names
  BY AliasAssumption
<1> DEFINE Say(op, xs, yss, fns) == {Statement(op, x, ys, fn, at) :
                                  x \in xs, ys \in yss, fn \in fns, at \in {"top"} \cup j.blocks}
           rows == j.names \cap Rows
           grids == j.names \cap Grids
           none == {"none"}
<1>3. /\ \/ s \in Say("new", j.names, {<<>>}, none)
         \/ s \in Say("alias", j.names, {<<y>> : y \in j.names}, none)
         \/ s \in Say("ident", rows, {<<y>> : y \in rows}, none)
         \/ s \in Say("append", rows, {<<>>}, none) \/ s \in Say("store", rows, {<<>>}, none)
         \/ s \in Say("print", j.names, {<<>>}, none)
         \/ s \in Say("call", rows, {<<>>}, {f \in DOMAIN Callees : Callees[f].on = "row"})
         \/ s \in Say("call", grids, {<<>>}, {f \in DOMAIN Callees : Callees[f].on = "grid"})
         \/ s \in Say("grid", grids, {<<y>> : y \in rows} \cup {<<y, z>> : y \in rows, z \in rows}, none)
         \/ s \in Say("embed", grids, {<<y>> : y \in rows}, none)
         \/ s \in Say("elem", rows, {<<y>> : y \in grids}, none)
         \/ s \in Say("rowappend", grids, {<<>>}, none) \/ s \in Say("rowstore", grids, {<<>>}, none)
      /\ s.op = "alias" => Sort(s.x) = Sort(s.ys[1])
  BY <1>1 DEF Sentences
<1>4. ASSUME NEW op, NEW xs, NEW yss, NEW fns, s \in Say(op, xs, yss, fns)
      PROVE  s.op = op /\ s.x \in xs /\ s.ys \in yss
  BY <1>4 DEF Statement
<1>5. rows \subseteq Rows /\ grids \subseteq Grids /\ j.names \subseteq Rows \cup Grids /\ Rows \cap Grids = {}
  BY <1>2, AliasAssumption DEF Names
<1> HIDE DEF Say, rows, grids
<1>6. CASE \/ s \in Say("new", j.names, {<<>>}, none)
           \/ s \in Say("print", j.names, {<<>>}, none)
           \/ s \in Say("call", rows, {<<>>}, {f \in DOMAIN Callees : Callees[f].on = "row"})
           \/ s \in Say("call", grids, {<<>>}, {f \in DOMAIN Callees : Callees[f].on = "grid"})
  <2>1. s.op \in {"new", "print", "call"}
    BY <1>4, <1>6
  <2> QED BY <2>1 DEF Typed
<1>7. CASE \/ s \in Say("append", rows, {<<>>}, none) \/ s \in Say("store", rows, {<<>>}, none)
  <2>1. s.op \in {"append", "store"} /\ s.x \in Rows
    BY <1>4, <1>5, <1>7
  <2> QED BY <2>1 DEF Typed
<1>8. CASE s \in Say("alias", j.names, {<<y>> : y \in j.names}, none)
  <2>1. s.op = "alias" /\ s.x \in j.names /\ \E y \in j.names : s.ys = <<y>>
    BY <1>4, <1>8
  <2>2. PICK y \in j.names : s.ys = <<y>>
    BY <2>1
  <2>3. Sort(s.x) = Sort(y) /\ s.ys[1] = y
    BY <1>3, <2>1, <2>2
  <2>4. s.x \in Rows <=> y \in Rows
    BY <1>5, <2>1, <2>3 DEF Sort
  <2> QED BY <2>1, <2>3, <2>4 DEF Typed
<1>9. CASE s \in Say("ident", rows, {<<y>> : y \in rows}, none)
  <2>1. s.op = "ident" /\ s.x \in Rows /\ \E y \in Rows : s.ys = <<y>>
    BY <1>4, <1>5, <1>9
  <2> QED BY <2>1 DEF Typed
<1>10. CASE s \in Say("grid", grids, {<<y>> : y \in rows} \cup {<<y, z>> : y \in rows, z \in rows}, none)
  <2>1. s.op = "grid" /\ s.x \in Grids /\ \E y, z \in Rows : s.ys \in {<<y>>, <<y, z>>}
    BY <1>4, <1>5, <1>10
  <2>2. PICK y \in Rows, z \in Rows : s.ys \in {<<y>>, <<y, z>>}
    BY <2>1
  <2>3. \A i \in DOMAIN s.ys : s.ys[i] \in Rows
    BY <2>2
  <2> QED BY <2>1, <2>3 DEF Typed
<1>11. CASE s \in Say("embed", grids, {<<y>> : y \in rows}, none)
  <2>1. s.op = "embed" /\ s.x \in Grids /\ \E y \in Rows : s.ys = <<y>>
    BY <1>4, <1>5, <1>11
  <2> QED BY <2>1 DEF Typed
<1>12. CASE s \in Say("rowappend", grids, {<<>>}, none) \/ s \in Say("rowstore", grids, {<<>>}, none)
  <2>1. s.op \in {"rowappend", "rowstore"} /\ s.x \in Grids
    BY <1>4, <1>5, <1>12
  <2> QED BY <2>1 DEF Typed
<1>13. CASE s \in Say("elem", rows, {<<y>> : y \in grids}, none)
  <2>1. s.op = "elem" /\ s.x \in Rows /\ \E y \in Grids : s.ys = <<y>>
    BY <1>4, <1>5, <1>13
  <2> QED BY <2>1 DEF Typed
<1> QED BY <1>3, <1>6, <1>7, <1>8, <1>9, <1>10, <1>11, <1>12, <1>13

(* The places a path passes, and the statements it runs there. *)
LEMMA PathRuns ==
  ASSUME NEW b, Len(b) \in Nat, DOMAIN b = 1 .. Len(b), Laid(b), NEW k \in Runs
  PROVE  /\ Traced(Path(b, k), b)
         /\ Len(Path(b, k)) \in Nat /\ DOMAIN Path(b, k) = 1 .. Len(Path(b, k))
         /\ Len(Unrolled(b, k)) = Len(Path(b, k))
         /\ \A j \in 1 .. Len(Path(b, k)) : /\ Path(b, k)[j] \in 1 .. Len(b)
                                            /\ Unrolled(b, k)[j] = b[Path(b, k)[j]]
<1>1. PICK p : p = Path(b, k)
  OBVIOUS
<1>2. Traced(p, b)
  BY <1>1, PathTraced
<1>3. p \in Seq(1 .. Len(b))
  BY <1>2 DEF Traced, PlacesOf
<1>4. Len(p) \in Nat /\ DOMAIN p = 1 .. Len(p) /\ \A j \in 1 .. Len(p) : p[j] \in 1 .. Len(b)
  BY <1>3
<1>5. Unrolled(b, k) = [j \in 1 .. Len(p) |-> b[p[j]]]
  BY <1>1, <1>4 DEF Unrolled
<1>6. Len(Unrolled(b, k)) = Len(p) /\ \A j \in 1 .. Len(p) : Unrolled(b, k)[j] = b[p[j]]
  BY <1>4, <1>5
<1> QED BY <1>1, <1>2, <1>4, <1>6

(* The states of Python on a path, and those of the emitted program. *)
PyStates(f, fns, path, n) ==
  f = [j \in 0 .. n |-> IF j = 0 THEN PyStart ELSE PyStep(fns, f[j - 1], path[j])]

RsStates(f, path, n) ==
  f = [j \in 0 .. n |-> IF j = 0 THEN RsStart ELSE RsEffect(f[j - 1], path[j])]

LEMMA PyStatesExist ==
  ASSUME NEW fns, NEW path, NEW n \in Nat
  PROVE  \E f : PyStates(f, fns, path, n)
<1> DEFINE T == {m \in Nat : ~ \E f : PyStates(f, fns, path, m)}
<1>1. SUFFICES ASSUME T # {} PROVE FALSE
  OBVIOUS
<1>2. PICK m \in T : \A l \in T : m <= l
  <2>1. T \in SUBSET Nat
    OBVIOUS
  <2> HIDE DEF T
  <2> QED BY <1>1, <2>1, Least
<1>3. m # 0
  <2>1. PyStates([j \in 0 .. 0 |-> PyStart], fns, path, 0)
    BY DEF PyStates
  <2> QED BY <2>1
<1>4. m - 1 \in Nat /\ m - 1 \notin T
  BY <1>2, <1>3
<1>5. PICK f : PyStates(f, fns, path, m - 1)
  BY <1>4
<1> DEFINE g == [j \in 0 .. m |-> IF j = m THEN PyStep(fns, f[m - 1], path[m]) ELSE f[j]]
<1>6. ASSUME NEW j \in 0 .. m
      PROVE  g[j] = IF j = 0 THEN PyStart ELSE PyStep(fns, g[j - 1], path[j])
  <2>1. \A i \in 0 .. (m - 1) : f[i] = IF i = 0 THEN PyStart ELSE PyStep(fns, f[i - 1], path[i])
    BY <1>4, <1>5 DEF PyStates
  <2>2. \A i \in 0 .. (m - 1) : g[i] = f[i]
    OBVIOUS
  <2>3. CASE j = m
    <3>1. g[j] = PyStep(fns, f[m - 1], path[m]) /\ g[m - 1] = f[m - 1]
      BY <1>3, <1>4, <2>2, <2>3
    <3> QED BY <1>3, <2>3, <3>1
  <2>4. CASE j # m
    <3>1. j \in 0 .. (m - 1) /\ (j # 0 => j - 1 \in 0 .. (m - 1))
      BY <2>4
    <3> HIDE DEF g
    <3> QED BY <2>1, <2>2, <3>1
  <2> QED BY <2>3, <2>4
<1>7. g = [j \in 0 .. m |-> g[j]]
  OBVIOUS
<1> HIDE DEF g
<1>8. PyStates(g, fns, path, m)
  BY <1>6, <1>7 DEF PyStates
<1> QED BY <1>2, <1>8

LEMMA RsStatesExist ==
  ASSUME NEW path, NEW n \in Nat
  PROVE  \E f : RsStates(f, path, n)
<1> DEFINE T == {m \in Nat : ~ \E f : RsStates(f, path, m)}
<1>1. SUFFICES ASSUME T # {} PROVE FALSE
  OBVIOUS
<1>2. PICK m \in T : \A l \in T : m <= l
  <2>1. T \in SUBSET Nat
    OBVIOUS
  <2> HIDE DEF T
  <2> QED BY <1>1, <2>1, Least
<1>3. m # 0
  <2>1. RsStates([j \in 0 .. 0 |-> RsStart], path, 0)
    BY DEF RsStates
  <2> QED BY <2>1
<1>4. m - 1 \in Nat /\ m - 1 \notin T
  BY <1>2, <1>3
<1>5. PICK f : RsStates(f, path, m - 1)
  BY <1>4
<1> DEFINE g == [j \in 0 .. m |-> IF j = m THEN RsEffect(f[m - 1], path[m]) ELSE f[j]]
<1>6. ASSUME NEW j \in 0 .. m
      PROVE  g[j] = IF j = 0 THEN RsStart ELSE RsEffect(g[j - 1], path[j])
  <2>1. \A i \in 0 .. (m - 1) : f[i] = IF i = 0 THEN RsStart ELSE RsEffect(f[i - 1], path[i])
    BY <1>4, <1>5 DEF RsStates
  <2>2. \A i \in 0 .. (m - 1) : g[i] = f[i]
    OBVIOUS
  <2>3. CASE j = m
    <3>1. g[j] = RsEffect(f[m - 1], path[m]) /\ g[m - 1] = f[m - 1]
      BY <1>3, <1>4, <2>2, <2>3
    <3> QED BY <1>3, <2>3, <3>1
  <2>4. CASE j # m
    <3>1. j \in 0 .. (m - 1) /\ (j # 0 => j - 1 \in 0 .. (m - 1))
      BY <2>4
    <3> HIDE DEF g
    <3> QED BY <2>1, <2>2, <3>1
  <2> QED BY <2>3, <2>4
<1>7. g = [j \in 0 .. m |-> g[j]]
  OBVIOUS
<1> HIDE DEF g
<1>8. RsStates(g, path, m)
  BY <1>6, <1>7 DEF RsStates
<1> QED BY <1>2, <1>8

(* PyRun goes through the states of Python, one statement at a time. *)
LEMMA PyRunIs ==
  ASSUME NEW fns, NEW b, NEW k, Len(Unrolled(b, k)) \in Nat
  PROVE  \E f : /\ PyRun(fns, b, k) = f[Len(Unrolled(b, k))] /\ f[0] = PyStart
                /\ \A j \in 1 .. Len(Unrolled(b, k)) : f[j] = PyStep(fns, f[j - 1], Unrolled(b, k)[j])
<1>0. PICK path : path = Unrolled(b, k)
  OBVIOUS
<1>1. PICK n \in Nat : path = Unrolled(b, k) /\ n = Len(path)
  BY <1>0
<1> DEFINE f == CHOOSE f : PyStates(f, fns, path, n)
<1>2. PyStates(f, fns, path, n)
  BY PyStatesExist, Zenon
<1>3. PyRun(fns, b, k) = f[n]
  BY <1>1, Zenon DEF PyRun, PyStates
<1> HIDE DEF f
<1>4. f[0] = PyStart /\ \A j \in 1 .. n : f[j] = PyStep(fns, f[j - 1], path[j])
  <2>1. 0 \in 0 .. n /\ \A j \in 1 .. n : j \in 0 .. n /\ j # 0
    OBVIOUS
  <2> QED BY <1>2, <2>1 DEF PyStates
<1> QED BY <1>1, <1>3, <1>4

LEMMA RsRunIs ==
  ASSUME NEW es, NEW k, Len(Unrolled(es, k)) \in Nat
  PROVE  \E f : /\ RsRun(es, k) = f[Len(Unrolled(es, k))] /\ f[0] = RsStart
                /\ \A j \in 1 .. Len(Unrolled(es, k)) : f[j] = RsEffect(f[j - 1], Unrolled(es, k)[j])
<1>0. PICK path : path = Unrolled(es, k)
  OBVIOUS
<1>1. PICK n \in Nat : path = Unrolled(es, k) /\ n = Len(path)
  BY <1>0
<1> DEFINE f == CHOOSE f : RsStates(f, path, n)
<1>2. RsStates(f, path, n)
  BY RsStatesExist, Zenon
<1>3. RsRun(es, k) = f[n]
  BY <1>1, Zenon DEF RsRun, RsStates
<1> HIDE DEF f
<1>4. f[0] = RsStart /\ \A j \in 1 .. n : f[j] = RsEffect(f[j - 1], path[j])
  <2>1. 0 \in 0 .. n /\ \A j \in 1 .. n : j \in 0 .. n /\ j # 0
    OBVIOUS
  <2> QED BY <1>2, <2>1 DEF RsStates
<1> QED BY <1>1, <1>3, <1>4

(* The names a path has bound after its first j statements. *)
BoundAt(b, params, path, j) ==
  params \cup {b[path[d]].x : d \in {e \in 1 .. j : b[path[e]].op \in Binding}}

(* A path has bound every name before it uses it. *)
LEMMA UsesBound ==
  ASSUME NEW b, Len(b) \in Nat, DOMAIN b = 1 .. Len(b), NEW params, Bounded(b, params), Supplied(b, params),
         NEW path, Traced(path, b), NEW j \in DOMAIN path
  PROVE  Uses(b[path[j]]) \subseteq BoundAt(b, params, path, j - 1)
<1> SUFFICES ASSUME NEW n \in Uses(b[path[j]]), n \notin params
             PROVE  n \in BoundAt(b, params, path, j - 1)
  BY DEF BoundAt
<1>1. /\ path \in Seq(1 .. Len(b)) /\ DOMAIN path = 1 .. Len(path) /\ Len(path) \in Nat
      /\ path[j] \in 1 .. Len(b) /\ path[j] \in DOMAIN b
  BY DEF Traced, PlacesOf
<1> DEFINE T == {m \in 1 .. (path[j] - 1) : b[m].op \in Binding /\ b[m].x = n}
<1>2. n \in BoundBefore(b, params, path[j])
  BY <1>1 DEF Supplied
<1>3. T \in SUBSET Nat /\ T # {}
  <2>1. PICK m \in 1 .. (path[j] - 1) : b[m].op \in Binding /\ n = b[m].x
    BY <1>2 DEF BoundBefore
  <2> QED BY <2>1
<1>4. PICK m \in T : \A l \in T : m <= l
  <2> HIDE DEF T
  <2> QED BY <1>3, Least
<1>5. m \in 1 .. Len(b) /\ m < path[j] /\ b[m].op \in Binding /\ b[m].x = n
  BY <1>1
<1>6. b[m].at = "top"
  <2> SUFFICES ASSUME b[m].at # "top" PROVE FALSE
    OBVIOUS
  <2>1. b[m].x \in BoundBefore(b, params, m)
    BY <1>5 DEF Bounded, InBlock
  <2>2. PICK l \in 1 .. (m - 1) : b[l].op \in Binding /\ b[l].x = n
    BY <1>5, <2>1 DEF BoundBefore
  <2>3. l \in 1 .. (path[j] - 1) /\ l < m
    BY <1>1, <1>5, <2>2
  <2>4. l \in T
    BY <2>2, <2>3
  <2> QED BY <1>1, <1>4, <2>2, <2>3, <2>4
<1>7. PICK d \in DOMAIN path : d < j /\ path[d] = m
  BY <1>5, <1>6 DEF Traced, TopFirst
<1>8. d \in 1 .. (j - 1)
  BY <1>1, <1>7
<1> QED BY <1>5, <1>7, <1>8 DEF BoundAt


-----------------------------------------------------------------------------
(* Circles: the names that may hold one list, as far as the analysis knows.  *)

(* Where a try shares a list, every shared name may hold any shared list.    *)
TryShares(b) == \E i \in DOMAIN b : b[i].op \in Sharing /\ b[i].at = "try"

Circle(b, n) ==
  IF TryShares(b) THEN (IF n \in Shared(b) THEN Shared(b) ELSE {n}) ELSE alias_class(b)[n]

(* The classes are given by these names and these sets. *)
ClassesOf(b, nodes, unions) ==
  /\ nodes \subseteq Shared(b)
  /\ \A n \in Names : alias_class(b)[n] =
       {n} \cup {m \in nodes : n \in nodes /\ \A S \in unions : n \in S => m \in S}
  /\ \A i \in Visited(b) : \A m \in DOMAIN b[i].ys : b[i].op \in {"alias", "ident", "grid"} =>
       /\ b[i].x \in nodes /\ b[i].ys[m] \in nodes
       /\ \A S \in unions : b[i].x \in S <=> b[i].ys[m] \in S

LEMMA ClassIs ==
  ASSUME NEW b \in Seq(Stmts)
  PROVE  \E nodes, unions : ClassesOf(b, nodes, unions)
<1> DEFINE pairs  == {<<b[e[1]].x, b[e[1]].ys[e[2]]>> : e \in alias_edges(b)}
           nodes  == {p[1] : p \in pairs} \cup {p[2] : p \in pairs}
           unions == {S \in SUBSET nodes : \A p \in pairs : p[1] \in S <=> p[2] \in S}
<1>1. nodes \subseteq Shared(b)
  <2>1. ASSUME NEW e \in alias_edges(b) PROVE {b[e[1]].x, b[e[1]].ys[e[2]]} \subseteq Shared(b)
    <3>1. e[1] \in DOMAIN b /\ b[e[1]].op \in Sharing /\ e[2] \in DOMAIN b[e[1]].ys
      BY DEF alias_edges, Visited, Sharing
    <3>2. b[e[1]].ys[e[2]] \in ToSet(b[e[1]].ys)
      BY <3>1 DEF ToSet
    <3> QED BY <3>1, <3>2 DEF Shared, Joined
  <2>2. ASSUME NEW p \in pairs PROVE p[1] \in Shared(b) /\ p[2] \in Shared(b)
    BY <2>1
  <2> HIDE DEF pairs
  <2> QED BY <2>2
<1>2. ASSUME NEW i \in Visited(b), NEW m \in DOMAIN b[i].ys, b[i].op \in {"alias", "ident", "grid"}
      PROVE  /\ b[i].x \in nodes /\ b[i].ys[m] \in nodes
             /\ \A S \in unions : b[i].x \in S <=> b[i].ys[m] \in S
  <2>1. i \in DOMAIN b /\ Said(b[i])
    BY StmtsSaid DEF Visited
  <2>2. m \in 1 .. 2
    BY <1>2, <2>1 DEF Said
  <2>3. <<i, m>> \in alias_edges(b)
    BY <1>2, <2>1, <2>2 DEF alias_edges
  <2>4. <<b[i].x, b[i].ys[m]>> \in pairs
    BY <2>3
  <2> HIDE DEF pairs
  <2>5. <<b[i].x, b[i].ys[m]>>[1] = b[i].x /\ <<b[i].x, b[i].ys[m]>>[2] = b[i].ys[m]
    OBVIOUS
  <2> QED BY <2>4, <2>5
<1>3. alias_class(b) = [y \in Names |-> {y} \cup {z \in nodes : y \in nodes /\ \A S \in unions : y \in S => z \in S}]
  BY DEF alias_class
<1> HIDE DEF nodes, unions
<1>4. \A n \in Names : alias_class(b)[n] =
        {n} \cup {m \in nodes : n \in nodes /\ \A S \in unions : n \in S => m \in S}
  BY <1>3
<1>5. ClassesOf(b, nodes, unions)
  BY <1>1, <1>2, <1>4 DEF ClassesOf
<1> QED BY <1>5

(* A name is in its circle. *)
LEMMA InCircle ==
  ASSUME NEW b \in Seq(Stmts), NEW n \in Names
  PROVE  n \in Circle(b, n)
<1>1. n \in alias_class(b)[n]
  BY ClassIs DEF ClassesOf
<1> QED BY <1>1 DEF Circle

(* A binding that shares a list keeps both names in one circle. *)
LEMMA CircleLinks ==
  ASSUME NEW b \in Seq(Stmts), NEW i \in DOMAIN b, b[i].op \in {"alias", "ident", "grid"},
         NEW m \in DOMAIN b[i].ys
  PROVE  /\ b[i].x \in Shared(b) /\ b[i].ys[m] \in Shared(b)
         /\ b[i].x \in Names /\ b[i].ys[m] \in Names /\ b[i].ys[m] # b[i].x
         /\ Circle(b, b[i].x) = Circle(b, b[i].ys[m])
<1>1. Said(b[i])
  BY StmtsSaid
<1>2. b[i].x \in Names /\ b[i].ys[m] \in Names /\ b[i].ys[m] # b[i].x
  BY <1>1 DEF Said
<1>3. b[i].x \in Shared(b) /\ b[i].ys[m] \in Shared(b)
  <2>1. b[i].ys[m] \in ToSet(b[i].ys) /\ b[i].op \in Sharing
    BY DEF ToSet, Sharing
  <2> QED BY <2>1 DEF Shared, Joined
<1>4. CASE TryShares(b)
  BY <1>2, <1>3, <1>4 DEF Circle
<1>5. CASE ~ TryShares(b)
  <2>1. i \in Visited(b)
    BY <1>5 DEF TryShares, Visited, Sharing
  <2>2. alias_class(b)[b[i].x] = alias_class(b)[b[i].ys[m]]
    <3>1. PICK nodes, unions : ClassesOf(b, nodes, unions)
      BY ClassIs
    <3>3. /\ b[i].x \in nodes /\ b[i].ys[m] \in nodes
          /\ \A S \in unions : b[i].x \in S <=> b[i].ys[m] \in S
      BY <2>1, <3>1 DEF ClassesOf
    <3>4. alias_class(b)[b[i].x] = {l \in nodes : \A S \in unions : b[i].x \in S => l \in S}
      BY <1>2, <3>1, <3>3 DEF ClassesOf
    <3>5. alias_class(b)[b[i].ys[m]] = {l \in nodes : \A S \in unions : b[i].ys[m] \in S => l \in S}
      BY <1>2, <3>1, <3>3 DEF ClassesOf
    <3> QED BY <3>3, <3>4, <3>5
  <2> QED BY <1>2, <1>3, <1>5, <2>2 DEF Circle
<1> QED BY <1>2, <1>3, <1>4, <1>5

(* Two names of one circle are shared. *)
LEMMA CircleShared ==
  ASSUME NEW b \in Seq(Stmts), NEW m \in Names, NEW n \in Names, m # n, Circle(b, m) = Circle(b, n)
  PROVE  m \in Shared(b) /\ n \in Shared(b)
<1>1. CASE TryShares(b)
  BY <1>1 DEF Circle
<1>2. CASE ~ TryShares(b)
  <2>1. alias_class(b)[m] = alias_class(b)[n]
    BY <1>2 DEF Circle
  <2> QED BY <2>1, ClassIs DEF ClassesOf
<1> QED BY <1>1, <1>2

(* The statements that change a list. *)
Changes(s) == s.op \in Mutations \/ (s.op = "call" /\ Callees[s.fn].changes)

(* In an overt body the walks see every change of a shared list. *)
LEMMA ChangeIsSeen ==
  ASSUME NEW b \in Seq(Stmts), Overt(b), NEW i \in DOMAIN b, Changes(b[i]), b[i].x \in Shared(b)
  PROVE  /\ b[i].x \in collect_obj_mutated(b)
         /\ \A n : Circle(b, n) = alias_class(b)[n]
         /\ ~ TryShares(b)
         /\ b[i].op \in {"append", "store", "embed", "rowstore"}
<1>1. Shared(b) \cap Covert(b) = {}
  BY DEF Overt
<1>2. b[i].x \notin Covert(b)
  BY <1>1
<1>3. b[i].op # "call"
  BY <1>2 DEF Covert, Changed, Changes, Mutations
<1>4. b[i].op \in {"append", "store", "embed", "rowstore"} /\ b[i].at # "try"
  BY <1>2, <1>3 DEF Covert, Changes, Mutations
<1>5. b[i].x \in collect_obj_mutated(b)
  BY <1>4 DEF collect_obj_mutated, Visited
<1>6. ~ TryShares(b)
  <2> SUFFICES ASSUME NEW j \in DOMAIN b, b[j].op \in Sharing, b[j].at = "try" PROVE FALSE
    BY DEF TryShares
  <2>1. Shared(b) \cap collect_obj_mutated(b) = {}
    BY DEF Overt
  <2> QED BY <1>5, <2>1
<1> QED BY <1>4, <1>5, <1>6 DEF Circle

-----------------------------------------------------------------------------
(* What a statement does to the names and the heap of Python.                *)

IsState(p) ==
  /\ p = [env |-> p.env, heap |-> p.heap, out |-> p.out]
  /\ p.env \in [Names -> Nat] /\ p.heap \in Seq(Seq(Nat))

(* The first n cells of q are those of p. *)
SameCells(p, q, n) == \A a \in 1 .. n : q.heap[a] = p.heap[a]

(* x is bound to v, and no other name is bound anew. *)
Rebinds(p, q, x, v) == q.env[x] = v /\ \A n \in Names : n # x => q.env[n] = p.env[n]

LEMMA FreshIs ==
  ASSUME NEW p, IsState(p), NEW x \in Names, NEW cell \in Seq(Nat)
  PROVE  LET q == Fresh(p, x, cell)  h == Len(p.heap) IN
         /\ IsState(q) /\ q.out = p.out /\ h \in Nat /\ Len(q.heap) = h + 1
         /\ Rebinds(p, q, x, h + 1) /\ SameCells(p, q, h) /\ q.heap[h + 1] = cell
<1> DEFINE q == Fresh(p, x, cell)
           h == Len(p.heap)
<1>1. p.env \in [Names -> Nat] /\ p.heap \in Seq(Seq(Nat)) /\ h \in Nat
  BY DEF IsState
<1>2. q = [env |-> [p.env EXCEPT ![x] = h + 1], heap |-> Append(p.heap, cell), out |-> p.out]
  BY DEF Fresh
<1>3. q.env = [p.env EXCEPT ![x] = h + 1] /\ q.heap = Append(p.heap, cell) /\ q.out = p.out
  BY <1>2
<1>4. /\ q.heap \in Seq(Seq(Nat)) /\ Len(q.heap) = h + 1 /\ q.heap[h + 1] = cell
      /\ \A a \in 1 .. h : q.heap[a] = p.heap[a]
  BY <1>1, <1>3
<1>5. q.env \in [Names -> Nat] /\ q.env[x] = h + 1 /\ \A n \in Names : n # x => q.env[n] = p.env[n]
  BY <1>1, <1>3
<1> QED BY <1>1, <1>2, <1>3, <1>4, <1>5 DEF IsState, Rebinds, SameCells

PyPut(p, x, v) == [p EXCEPT !.env[x] = v]

LEMMA BoundIs ==
  ASSUME NEW p, IsState(p), NEW x \in Names, NEW v \in Nat, NEW q, q = PyPut(p, x, v)
  PROVE  IsState(q) /\ q.out = p.out /\ q.heap = p.heap /\ Rebinds(p, q, x, v)
<1>1. p.env \in [Names -> Nat] /\ p.heap \in Seq(Seq(Nat))
  BY DEF IsState
<1>2. q = [env |-> [p.env EXCEPT ![x] = v], heap |-> p.heap, out |-> p.out]
  <2>1. PICK E, H, O : E = p.env /\ H = p.heap /\ O = p.out
    OBVIOUS
  <2>2. p = [env |-> E, heap |-> H, out |-> O]
    BY <2>1 DEF IsState
  <2> QED BY <2>1, <2>2 DEF PyPut
<1>3. q.env = [p.env EXCEPT ![x] = v] /\ q.heap = p.heap /\ q.out = p.out
  BY <1>2
<1>4. q.env \in [Names -> Nat] /\ q.env[x] = v /\ \A n \in Names : n # x => q.env[n] = p.env[n]
  BY <1>1, <1>3
<1> QED BY <1>1, <1>2, <1>3, <1>4 DEF IsState, Rebinds

(* Cell a of p is cell of q, and nothing else changed. *)
Rewrites(p, q, a, cell) ==
  /\ IsState(q) /\ q.out = p.out /\ q.env = p.env /\ Len(q.heap) = Len(p.heap)
  /\ q.heap[a] = cell /\ \A c \in 1 .. Len(p.heap) : c # a => q.heap[c] = p.heap[c]

(* An entry of a sequence set anew. *)
LEMMA SetEntry ==
  ASSUME NEW S, NEW d \in Seq(S), NEW v \in S, NEW i
  PROVE  [d EXCEPT ![i] = v] \in Seq(S) /\ Len([d EXCEPT ![i] = v]) = Len(d)
<1>1. PICK n \in Nat : n = Len(d) /\ DOMAIN d = 1 .. n /\ \A j \in 1 .. n : d[j] \in S
  OBVIOUS
<1>2. PICK e : e = [d EXCEPT ![i] = v]
  OBVIOUS
<1>3. DOMAIN e = 1 .. n /\ \A j \in 1 .. n : e[j] \in S
  BY <1>1, <1>2
<1>4. e = [j \in 1 .. n |-> e[j]]
  <2>1. e = [j \in DOMAIN e |-> e[j]]
    BY <1>2
  <2> QED BY <1>3, <2>1
<1>5. e \in [1 .. n -> S]
  BY <1>3, <1>4
<1>6. e \in Seq(S) /\ Len(e) = n
  BY <1>5
<1> QED BY <1>1, <1>2, <1>6

LEMMA CellIs ==
  ASSUME NEW p, IsState(p), NEW a \in 1 .. Len(p.heap), NEW c \in Seq(Nat)
  PROVE  Rewrites(p, [p EXCEPT !.heap = [p.heap EXCEPT ![a] = c]], a, c)
<1>1. PICK E, H, O : E = p.env /\ H = p.heap /\ O = p.out
  OBVIOUS
<1>2. p = [env |-> E, heap |-> H, out |-> O] /\ E \in [Names -> Nat] /\ H \in Seq(Seq(Nat))
  BY <1>1 DEF IsState
<1>3. PICK G : G = [H EXCEPT ![a] = c]
  OBVIOUS
<1>4. PICK q : q = [p EXCEPT !.heap = [p.heap EXCEPT ![a] = c]]
  OBVIOUS
<1>5. q = [env |-> E, heap |-> G, out |-> O]
  <2>1. q = [p EXCEPT !.heap = G]
    BY <1>1, <1>3, <1>4
  <2> QED BY <1>2, <2>1
<1>6. G \in Seq(Seq(Nat)) /\ Len(G) = Len(H)
  BY <1>2, <1>3, SetEntry
<1>7. G[a] = c /\ \A d \in 1 .. Len(H) : d # a => G[d] = H[d]
  BY <1>1, <1>2, <1>3
<1>8. q.env = E /\ q.heap = G /\ q.out = O
  BY <1>5
<1>9. IsState(q)
  BY <1>2, <1>5, <1>6, <1>8 DEF IsState
<1>10. Rewrites(p, q, a, c)
  BY <1>1, <1>6, <1>7, <1>8, <1>9 DEF Rewrites
<1> QED BY <1>4, <1>10

LEMMA GrowIs ==
  ASSUME NEW p, IsState(p), NEW a \in 1 .. Len(p.heap), NEW v \in Nat
  PROVE  Rewrites(p, Grow(p, a, v), a, Append(p.heap[a], v))
<1>1. PICK c : c = Append(p.heap[a], v)
  OBVIOUS
<1>2. p.heap[a] \in Seq(Nat)
  BY DEF IsState
<1>3. c \in Seq(Nat)
  BY <1>1, <1>2
<1>4. Grow(p, a, v) = [p EXCEPT !.heap = [p.heap EXCEPT ![a] = c]]
  BY <1>1 DEF Grow
<1>5. Rewrites(p, [p EXCEPT !.heap = [p.heap EXCEPT ![a] = c]], a, c)
  BY <1>3, CellIs
<1> QED BY <1>1, <1>4, <1>5

LEMMA PutIs ==
  ASSUME NEW p, IsState(p), NEW a \in 1 .. Len(p.heap), NEW v \in Nat
  PROVE  Rewrites(p, [p EXCEPT !.heap[a][1] = v], a, [p.heap[a] EXCEPT ![1] = v])
<1>1. PICK c : c = [p.heap[a] EXCEPT ![1] = v]
  OBVIOUS
<1>2. p.heap[a] \in Seq(Nat)
  BY DEF IsState
<1>3. c \in Seq(Nat)
  BY <1>1, <1>2, SetEntry
<1>4. [p EXCEPT !.heap[a][1] = v] = [p EXCEPT !.heap = [p.heap EXCEPT ![a] = c]]
  BY <1>1
<1>5. Rewrites(p, [p EXCEPT !.heap = [p.heap EXCEPT ![a] = c]], a, c)
  BY <1>3, CellIs
<1> QED BY <1>1, <1>4, <1>5


-----------------------------------------------------------------------------
(* Rows and grids stay apart: what B binds stands in cells that exist, and   *)
(* no row is the cell of a grid.  Cell 1 is a row and cell 2 a grid.          *)

Kept(p, B) ==
  /\ IsState(p) /\ 2 <= Len(p.heap) /\ B \subseteq Names
  /\ \A n \in B : RowOf(p, n) \in 1 .. Len(p.heap) /\ RowOf(p, n) # 2
  /\ \A g \in B \cap Grids :
       /\ p.env[g] \in 1 .. Len(p.heap) /\ p.env[g] # 1 /\ Len(p.heap[p.env[g]]) >= 1
       /\ \A n \in B : RowOf(p, n) # p.env[g]

(* The names of B stand for the same rows and grids in p and in q. *)
Stand(p, q, B) == \A n \in B : q.env[n] = p.env[n] /\ RowOf(q, n) = RowOf(p, n)

LEMMA KeptIs ==
  ASSUME NEW p, NEW B, Kept(p, B)
  PROVE  /\ p.env \in [Names -> Nat] /\ p.heap \in Seq(Seq(Nat)) /\ Len(p.heap) \in Nat
         /\ \A n \in B : /\ n \in Names /\ p.env[n] \in 1 .. Len(p.heap)
                         /\ n \in Rows => RowOf(p, n) = p.env[n]
                         /\ n \notin Rows => n \in Grids /\ RowOf(p, n) = p.heap[p.env[n]][1]
<1>1. p.env \in [Names -> Nat] /\ p.heap \in Seq(Seq(Nat)) /\ Len(p.heap) \in Nat
  BY DEF Kept, IsState
<1>2. ASSUME NEW n \in B
      PROVE  /\ n \in Names /\ p.env[n] \in 1 .. Len(p.heap)
             /\ n \in Rows => RowOf(p, n) = p.env[n]
             /\ n \notin Rows => n \in Grids /\ RowOf(p, n) = p.heap[p.env[n]][1]
  BY DEF Kept, RowOf, Names
<1> QED BY <1>1, <1>2

(* A name bound anew. *)
LEMMA BindKeeps ==
  ASSUME NEW p, NEW B, Kept(p, B), NEW q, IsState(q), NEW x \in Names,
         Len(q.heap) >= Len(p.heap), SameCells(p, q, Len(p.heap)), Rebinds(p, q, x, q.env[x]),
         RowOf(q, x) \in 1 .. Len(q.heap), RowOf(q, x) # 2,
         \A g \in (B \cap Grids) \ {x} : RowOf(q, x) # p.env[g],
         x \in Grids => /\ q.env[x] \in 1 .. Len(q.heap) /\ q.env[x] # 1 /\ Len(q.heap[q.env[x]]) >= 1
                        /\ RowOf(q, x) # q.env[x] /\ \A n \in B \ {x} : RowOf(p, n) # q.env[x]
  PROVE  Kept(q, B \cup {x}) /\ Stand(p, q, B \ {x})
<1>1. /\ p.env \in [Names -> Nat] /\ p.heap \in Seq(Seq(Nat)) /\ Len(p.heap) \in Nat
      /\ q.heap \in Seq(Seq(Nat)) /\ Len(q.heap) \in Nat /\ 2 <= Len(p.heap) /\ B \subseteq Names
  BY KeptIs DEF IsState, Kept
<1>2. ASSUME NEW n \in B \ {x} PROVE q.env[n] = p.env[n] /\ RowOf(q, n) = RowOf(p, n)
  <2>1. q.env[n] = p.env[n] /\ p.env[n] \in 1 .. Len(p.heap)
    BY KeptIs, <1>1 DEF Rebinds
  <2>2. q.heap[p.env[n]] = p.heap[p.env[n]]
    BY <2>1 DEF SameCells
  <2> QED BY <2>1, <2>2 DEF RowOf
<1>3. ASSUME NEW n \in B \cup {x} PROVE RowOf(q, n) \in 1 .. Len(q.heap) /\ RowOf(q, n) # 2
  <2>1. CASE n = x
    BY <2>1
  <2>2. CASE n # x
    <3>1. RowOf(q, n) = RowOf(p, n) /\ RowOf(p, n) \in 1 .. Len(p.heap) /\ RowOf(p, n) # 2
      BY <1>2, <2>2 DEF Kept
    <3> QED BY <1>1, <3>1
  <2> QED BY <2>1, <2>2
<1>4. ASSUME NEW g \in (B \cup {x}) \cap Grids
      PROVE  /\ q.env[g] \in 1 .. Len(q.heap) /\ q.env[g] # 1 /\ Len(q.heap[q.env[g]]) >= 1
             /\ \A n \in B \cup {x} : RowOf(q, n) # q.env[g]
  <2>1. CASE g = x
    <3>1. \A n \in B \ {x} : RowOf(q, n) = RowOf(p, n)
      BY <1>2
    <3> QED BY <2>1, <3>1
  <2>2. CASE g # x
    <3>1. g \in B \ {x} /\ g \in B \cap Grids /\ q.env[g] = p.env[g]
      BY <1>2, <2>2
    <3>2. p.env[g] \in 1 .. Len(p.heap) /\ p.env[g] # 1 /\ Len(p.heap[p.env[g]]) >= 1
          /\ \A n \in B : RowOf(p, n) # p.env[g]
      BY <3>1 DEF Kept
    <3>3. q.heap[p.env[g]] = p.heap[p.env[g]]
      BY <3>2 DEF SameCells
    <3>4. ASSUME NEW n \in B \cup {x} PROVE RowOf(q, n) # p.env[g]
      <4>1. CASE n = x
        BY <3>1, <4>1
      <4>2. CASE n # x
        BY <1>2, <3>2, <4>2
      <4> QED BY <4>1, <4>2
    <3>5. p.env[g] \in 1 .. Len(q.heap)
      <4>1. Len(p.heap) \in Nat /\ Len(q.heap) \in Nat /\ p.env[g] \in 1 .. Len(p.heap)
        BY <1>1, <3>2
      <4> QED BY <4>1
    <3> QED BY <3>1, <3>2, <3>3, <3>4, <3>5
  <2> QED BY <2>1, <2>2
<1>5. 2 <= Len(q.heap) /\ B \cup {x} \subseteq Names
  BY <1>1
<1> QED BY <1>2, <1>3, <1>4, <1>5 DEF Kept, Stand

(* A cell written: a grid keeps its first row. *)
LEMMA RewriteKeeps ==
  ASSUME NEW p, NEW B, Kept(p, B), NEW q, NEW a, NEW c, Rewrites(p, q, a, c),
         \A g \in B \cap Grids : p.env[g] = a => Len(c) >= 1 /\ c[1] = p.heap[a][1]
  PROVE  Kept(q, B) /\ Stand(p, q, B)
<1>1. /\ IsState(q) /\ q.env = p.env /\ Len(q.heap) = Len(p.heap) /\ q.heap[a] = c
      /\ \A d \in 1 .. Len(p.heap) : d # a => q.heap[d] = p.heap[d]
  BY DEF Rewrites
<1>2. ASSUME NEW n \in B PROVE RowOf(q, n) = RowOf(p, n)
  <2>1. CASE n \in Rows
    BY <1>1, <2>1 DEF RowOf
  <2>2. CASE n \notin Rows
    <3>1. n \in B \cap Grids /\ p.env[n] \in 1 .. Len(p.heap)
      BY <2>2, KeptIs
    <3>2. q.heap[p.env[n]][1] = p.heap[p.env[n]][1]
      BY <1>1, <3>1
    <3> QED BY <1>1, <2>2, <3>2 DEF RowOf
  <2> QED BY <2>1, <2>2
<1>3. ASSUME NEW g \in B \cap Grids PROVE Len(q.heap[q.env[g]]) >= 1
  <2>1. p.env[g] \in 1 .. Len(p.heap) /\ Len(p.heap[p.env[g]]) >= 1
    BY DEF Kept
  <2> QED BY <1>1, <2>1
<1>4. Stand(p, q, B)
  BY <1>1, <1>2 DEF Stand
<1>5. Kept(q, B)
  BY <1>1, <1>2, <1>3 DEF Kept
<1> QED BY <1>4, <1>5

-----------------------------------------------------------------------------
(* The caller's list, and the names that hold it.                            *)

(* n holds the list the caller passed, or has it as its first row. *)
Tied(p, n) == RowOf(p, n) = 1 \/ p.env[n] = 2

(* The caller's lists are what they were, and whoever holds one is in the    *)
(* circle of q.                                                              *)
Untouched(b, q, p, B) ==
  /\ Kept(p, B) /\ p.heap[1] = <<0>> /\ p.heap[2] = <<1>>
  /\ \A n \in B : Tied(p, n) => Circle(b, n) = Circle(b, q)

(* What is known of a statement: it mutates no list of the circle of q. *)
Spares(b, q, s) ==
  /\ Said(s) /\ Typed(s) /\ s.op # "elem"
  /\ s.op = "call" => ~ Callees[s.fn].changes
  /\ s.op \in {"alias", "ident", "grid"} => \A m \in DOMAIN s.ys : Circle(b, s.x) = Circle(b, s.ys[m])
  /\ s.op \in Mutations => Circle(b, s.x) # Circle(b, q)

LEMMA NewSpares ==
  ASSUME NEW b, NEW q, NEW p, NEW B, Untouched(b, q, p, B), NEW s, Spares(b, q, s), s.op = "new"
  PROVE  Untouched(b, q, PyStep(Callees, p, s), B \cup {s.x})
<1> DEFINE x == s.x
           r == PyStep(Callees, p, s)
           h == Len(p.heap)
<1>1. IsState(p) /\ h \in Nat /\ 2 <= h /\ x \in Names /\ Kept(p, B)
  <2>1. Kept(p, B) /\ Said(s)
    BY DEF Untouched, Spares
  <2>2. Len(p.heap) \in Nat
    BY <2>1, KeptIs
  <2> QED BY <2>1, <2>2 DEF Kept, Said
<1>2. \A n \in B : n \in Names /\ RowOf(p, n) \in 1 .. h /\ RowOf(p, n) # 2
                   /\ p.env[n] \in 1 .. h
  BY KeptIs, <1>1 DEF Kept
<1>3. /\ Kept(r, B \cup {x}) /\ Stand(p, r, B \ {x}) /\ SameCells(p, r, h) /\ ~ Tied(r, x)
  <2>1. CASE x \in Rows
    <3>1. r = Fresh(p, x, <<0>>)
      BY <2>1 DEF PyStep
    <3>2. /\ IsState(r) /\ Len(r.heap) = h + 1 /\ Rebinds(p, r, x, h + 1) /\ SameCells(p, r, h)
      <4>1. <<0>> \in Seq(Nat)
        OBVIOUS
      <4> HIDE DEF r
      <4> QED BY <1>1, <3>1, <4>1, FreshIs
    <3>3. r.env[x] = h + 1 /\ RowOf(r, x) = h + 1 /\ x \notin Grids
      BY <2>1, <3>2, AliasAssumption DEF Rebinds, RowOf
    <3> HIDE DEF r, h, x
    <3>4. Kept(r, B \cup {x}) /\ Stand(p, r, B \ {x})
      <4>1. \A g \in (B \cap Grids) \ {x} : RowOf(r, x) # p.env[g]
        BY <1>1, <1>2, <3>3
      <4>2. Len(r.heap) >= Len(p.heap) /\ RowOf(r, x) \in 1 .. Len(r.heap) /\ RowOf(r, x) # 2
        BY <1>1, <3>2, <3>3 DEF h
      <4>3. SameCells(p, r, Len(p.heap)) /\ Rebinds(p, r, x, r.env[x]) /\ IsState(r)
        BY <3>2, <3>3 DEF h
      <4> QED BY <1>1, <3>3, <4>1, <4>2, <4>3, BindKeeps
    <3> QED BY <1>1, <3>2, <3>3, <3>4 DEF Tied
  <2>2. CASE x \notin Rows
    <3> DEFINE o == [p EXCEPT !.heap = Append(@, <<0>>)]
    <3>1. r = Fresh(o, x, <<h + 1>>)
      BY <2>2 DEF PyStep
    <3>2. /\ IsState(o) /\ Len(o.heap) = h + 1 /\ SameCells(p, o, h) /\ o.env = p.env
      <4>1. PICK E, H, O : E = p.env /\ H = p.heap /\ O = p.out
        OBVIOUS
      <4>2. p = [env |-> E, heap |-> H, out |-> O] /\ E \in [Names -> Nat] /\ H \in Seq(Seq(Nat))
        BY <1>1, <4>1 DEF IsState
      <4>3. PICK G : G = Append(H, <<0>>)
        OBVIOUS
      <4>4. o = [env |-> E, heap |-> G, out |-> O]
        <5> HIDE DEF r, h, x
        <5>1. o = [p EXCEPT !.heap = G]
          BY <4>1, <4>3
        <5> HIDE DEF o
        <5> QED BY <4>2, <5>1
      <4>5. G \in Seq(Seq(Nat)) /\ Len(G) = Len(H) + 1 /\ \A a \in 1 .. Len(H) : G[a] = H[a]
        <5>1. <<0>> \in Seq(Nat)
          OBVIOUS
        <5> QED BY <4>2, <4>3, <5>1
      <4>6. o.env = E /\ o.heap = G /\ o.out = O
        BY <4>4
      <4> HIDE DEF o
      <4> QED BY <4>1, <4>2, <4>4, <4>5, <4>6 DEF IsState, SameCells
    <3> HIDE DEF o
    <3>3. /\ IsState(r) /\ Len(r.heap) = h + 2 /\ Rebinds(o, r, x, h + 2) /\ SameCells(o, r, h + 1)
          /\ r.heap[h + 2] = <<h + 1>>
      <4>1. <<h + 1>> \in Seq(Nat)
        BY <1>1
      <4>2. LET u == Fresh(o, x, <<h + 1>>)  k == Len(o.heap) IN
            /\ IsState(u) /\ u.out = o.out /\ k \in Nat /\ Len(u.heap) = k + 1
            /\ Rebinds(o, u, x, k + 1) /\ SameCells(o, u, k) /\ u.heap[k + 1] = <<h + 1>>
        BY <1>1, <3>2, <4>1, FreshIs
      <4>3. (h + 1) + 1 = h + 2
        BY <1>1
      <4> HIDE DEF h, r
      <4> QED BY <3>1, <3>2, <4>2, <4>3
    <3>4. Rebinds(p, r, x, h + 2) /\ SameCells(p, r, h)
      BY <1>1, <3>2, <3>3 DEF Rebinds, SameCells
    <3>5. r.env[x] = h + 2 /\ RowOf(r, x) = h + 1
      BY <2>2, <3>3 DEF Rebinds, RowOf
    <3> HIDE DEF r, h, x
    <3>6. Kept(r, B \cup {x}) /\ Stand(p, r, B \ {x})
      <4>1. \A g \in (B \cap Grids) \ {x} : RowOf(r, x) # p.env[g]
        BY <1>1, <1>2, <3>5
      <4>2. Len(r.heap[r.env[x]]) >= 1
        <5>1. PICK e : e = h + 1
          OBVIOUS
        <5>2. r.heap[r.env[x]] = <<e>>
          BY <3>3, <3>5, <5>1
        <5> QED BY <5>2
      <4>3. \A n \in B \ {x} : RowOf(p, n) # r.env[x]
        BY <1>1, <1>2, <3>5
      <4>4. Len(r.heap) >= Len(p.heap) /\ RowOf(r, x) \in 1 .. Len(r.heap) /\ RowOf(r, x) # 2
        BY <1>1, <3>3, <3>5 DEF h
      <4>5. SameCells(p, r, Len(p.heap)) /\ Rebinds(p, r, x, r.env[x]) /\ IsState(r)
        BY <3>3, <3>4, <3>5 DEF h
      <4>6. r.env[x] \in 1 .. Len(r.heap) /\ r.env[x] # 1 /\ RowOf(r, x) # r.env[x]
        BY <1>1, <3>3, <3>5
      <4> QED BY <1>1, <4>1, <4>2, <4>3, <4>4, <4>5, <4>6, BindKeeps
    <3> QED BY <1>1, <3>4, <3>5, <3>6 DEF Tied
  <2> QED BY <2>1, <2>2
<1> HIDE DEF r, h, x
<1>4. r.heap[1] = <<0>> /\ r.heap[2] = <<1>>
  BY <1>1, <1>3 DEF SameCells, Untouched
<1>5. \A n \in B \cup {x} : Tied(r, n) => Circle(b, n) = Circle(b, q)
  BY <1>3 DEF Stand, Tied, Untouched
<1> QED BY <1>3, <1>4, <1>5 DEF Untouched, r, x


LEMMA AliasSpares ==
  ASSUME NEW b, NEW q, NEW p, NEW B, Untouched(b, q, p, B), NEW s, Spares(b, q, s), s.op \in {"alias", "ident"},
         Uses(s) \subseteq B
  PROVE  Untouched(b, q, PyStep(Callees, p, s), B \cup {s.x})
<1> DEFINE x == s.x
           y == s.ys[1]
           r == PyStep(Callees, p, s)
<1>1. /\ Kept(p, B) /\ Said(s) /\ Typed(s) /\ IsState(p) /\ x \in Names
      /\ y \in Names /\ y # x /\ (x \in Rows <=> y \in Rows) /\ y \in B
  <2>1. Kept(p, B) /\ Said(s) /\ Typed(s) /\ IsState(p)
    BY DEF Untouched, Spares, Kept
  <2>2. PICK z \in Names : s.ys = <<z>>
    BY <2>1 DEF Said
  <2>3. y = z /\ DOMAIN s.ys = {1} /\ z \in ToSet(s.ys)
    BY <2>2 DEF ToSet
  <2>4. z \in B
    BY <2>3 DEF Uses
  <2> QED BY <2>1, <2>2, <2>3, <2>4 DEF Said, Typed
<1>2. Circle(b, x) = Circle(b, y)
  <2>1. 1 \in DOMAIN s.ys
    BY <1>1 DEF Said
  <2> QED BY <2>1 DEF Spares
<1>3. r = PyPut(p, x, p.env[y])
  BY DEF PyStep, PyPut
<1>4. p.env \in [Names -> Nat] /\ p.heap \in Seq(Seq(Nat)) /\ Len(p.heap) \in Nat
  BY <1>1, KeptIs
<1>5. IsState(r) /\ r.heap = p.heap /\ Rebinds(p, r, x, p.env[y])
  <2>1. p.env[y] \in Nat
    BY <1>1, <1>4
  <2> HIDE DEF r, y
  <2> QED BY <1>1, <1>3, <2>1, BoundIs
<1> HIDE DEF r, x, y
<1>6. r.env[x] = p.env[y] /\ RowOf(r, x) = RowOf(p, y)
  BY <1>1, <1>5 DEF Rebinds, RowOf
<1>7. /\ RowOf(p, y) \in 1 .. Len(p.heap) /\ RowOf(p, y) # 2
      /\ \A g \in B \cap Grids : RowOf(p, y) # p.env[g]
      /\ x \in Grids => /\ y \in Grids /\ p.env[y] \in 1 .. Len(p.heap) /\ p.env[y] # 1 /\ Len(p.heap[p.env[y]]) >= 1
                        /\ \A n \in B : RowOf(p, n) # p.env[y]
  <2>1. x \in Grids => y \in B \cap Grids
    BY <1>1, AliasAssumption DEF Names
  <2> QED BY <1>1, <2>1 DEF Kept
<1>8. Kept(r, B \cup {x}) /\ Stand(p, r, B \ {x})
  <2>1. Len(r.heap) >= Len(p.heap) /\ SameCells(p, r, Len(p.heap)) /\ Rebinds(p, r, x, r.env[x])
    BY <1>4, <1>5, <1>6 DEF SameCells
  <2>2. RowOf(r, x) \in 1 .. Len(r.heap) /\ RowOf(r, x) # 2
    BY <1>5, <1>6, <1>7
  <2>3. \A g \in (B \cap Grids) \ {x} : RowOf(r, x) # p.env[g]
    BY <1>6, <1>7
  <2>4. x \in Grids => /\ r.env[x] \in 1 .. Len(r.heap) /\ r.env[x] # 1 /\ Len(r.heap[r.env[x]]) >= 1
                       /\ RowOf(r, x) # r.env[x] /\ \A n \in B \ {x} : RowOf(p, n) # r.env[x]
    BY <1>1, <1>5, <1>6, <1>7
  <2> QED BY <1>1, <1>5, <2>1, <2>2, <2>3, <2>4, BindKeeps
<1>9. r.heap[1] = <<0>> /\ r.heap[2] = <<1>>
  BY <1>5 DEF Untouched
<1>10. ASSUME NEW n \in B \cup {x}, Tied(r, n) PROVE Circle(b, n) = Circle(b, q)
  <2>1. CASE n = x
    <3>1. Tied(p, y)
      BY <1>6, <1>10, <2>1 DEF Tied
    <3> QED BY <1>1, <1>2, <2>1, <3>1 DEF Untouched
  <2>2. CASE n # x
    <3>1. n \in B /\ Tied(p, n)
      BY <1>8, <1>10, <2>2 DEF Stand, Tied
    <3> QED BY <3>1 DEF Untouched
  <2> QED BY <2>1, <2>2
<1> QED BY <1>8, <1>9, <1>10 DEF Untouched, r, x

LEMMA GridSpares ==
  ASSUME NEW b, NEW q, NEW p, NEW B, Untouched(b, q, p, B), NEW s, Spares(b, q, s), s.op = "grid",
         Uses(s) \subseteq B
  PROVE  Untouched(b, q, PyStep(Callees, p, s), B \cup {s.x})
<1> DEFINE x == s.x
           y == s.ys[1]
           r == PyStep(Callees, p, s)
           h == Len(p.heap)
<1>1. /\ Kept(p, B) /\ Said(s) /\ Typed(s) /\ IsState(p) /\ x \in Names /\ x \in Grids /\ x \notin Rows
      /\ s.ys \in Seq(Rows \cap B) /\ Len(s.ys) >= 1 /\ 1 \in DOMAIN s.ys
  <2>1. Kept(p, B) /\ Said(s) /\ Typed(s) /\ IsState(p)
    BY DEF Untouched, Spares, Kept
  <2>2. PICK z \in Names, w \in Names : s.ys \in {<<z>>, <<z, w>>}
    BY <2>1 DEF Said
  <2>3. s.ys \in Seq(Names) /\ Len(s.ys) \in {1, 2}
    <3>1. CASE s.ys = <<z>>
      BY <3>1
    <3>2. CASE s.ys = <<z, w>>
      BY <3>2
    <3> QED BY <2>2, <3>1, <3>2
  <2>4. \A m \in DOMAIN s.ys : s.ys[m] \in Rows /\ s.ys[m] \in B
    BY <2>1 DEF Typed, Uses, ToSet
  <2>5. s.ys \in Seq(Rows \cap B)
    BY <2>3, <2>4
  <2> QED BY <2>1, <2>3, <2>5, AliasAssumption DEF Said, Typed
<1>2. /\ p.env \in [Names -> Nat] /\ h \in Nat /\ 2 <= h /\ B \subseteq Names
      /\ y \in Rows /\ y \in B /\ y \in Names /\ p.env[y] \in Nat
  <2>1. y \in Rows /\ y \in B
    BY <1>1
  <2> QED BY <1>1, <2>1, KeptIs DEF Kept
<1>3. Circle(b, x) = Circle(b, y)
  BY <1>1 DEF Spares
<1>4. PICK cell : cell = [j \in DOMAIN s.ys |-> p.env[s.ys[j]]]
  OBVIOUS
<1>5. cell \in Seq(Nat) /\ Len(cell) >= 1 /\ cell[1] = p.env[y]
  <2>1. PICK k \in Nat : k = Len(s.ys) /\ DOMAIN s.ys = 1 .. k
    BY <1>1
  <2>2. \A j \in 1 .. k : s.ys[j] \in Names /\ p.env[s.ys[j]] \in Nat
    BY <1>1, <1>2, <2>1
  <2>3. cell = [j \in 1 .. k |-> p.env[s.ys[j]]]
    BY <1>4, <2>1
  <2>4. cell \in [1 .. k -> Nat]
    BY <2>2, <2>3
  <2> QED BY <1>1, <2>1, <2>3, <2>4
<1>6. r = Fresh(p, x, cell)
  BY <1>4 DEF PyStep
<1>7. /\ IsState(r) /\ Len(r.heap) = h + 1 /\ Rebinds(p, r, x, h + 1) /\ SameCells(p, r, h) /\ r.heap[h + 1] = cell
  <2> HIDE DEF r
  <2> QED BY <1>1, <1>5, <1>6, FreshIs
<1> HIDE DEF r, h, x, y
<1>8. r.env[x] = h + 1 /\ RowOf(r, x) = p.env[y] /\ RowOf(p, y) = p.env[y]
  BY <1>1, <1>2, <1>5, <1>7 DEF Rebinds, RowOf
<1>9. /\ p.env[y] \in 1 .. h /\ p.env[y] # 2 /\ \A g \in B \cap Grids : p.env[y] # p.env[g]
      /\ \A n \in B : RowOf(p, n) \in 1 .. h /\ p.env[n] \in 1 .. h
  BY <1>1, <1>2, <1>8, KeptIs DEF Kept, h
<1>10. Kept(r, B \cup {x}) /\ Stand(p, r, B \ {x})
  <2>1. Len(r.heap) >= Len(p.heap) /\ SameCells(p, r, Len(p.heap)) /\ Rebinds(p, r, x, r.env[x])
    BY <1>2, <1>7, <1>8 DEF h
  <2>2. RowOf(r, x) \in 1 .. Len(r.heap) /\ RowOf(r, x) # 2
    BY <1>2, <1>7, <1>8, <1>9
  <2>3. \A g \in (B \cap Grids) \ {x} : RowOf(r, x) # p.env[g]
    BY <1>8, <1>9
  <2>4. r.env[x] \in 1 .. Len(r.heap) /\ r.env[x] # 1 /\ RowOf(r, x) # r.env[x]
    BY <1>2, <1>7, <1>8, <1>9
  <2>5. Len(r.heap[r.env[x]]) >= 1
    BY <1>5, <1>7, <1>8
  <2>6. \A n \in B \ {x} : RowOf(p, n) # r.env[x]
    BY <1>2, <1>8, <1>9
  <2> QED BY <1>1, <1>7, <2>1, <2>2, <2>3, <2>4, <2>5, <2>6, BindKeeps
<1>11. r.heap[1] = <<0>> /\ r.heap[2] = <<1>>
  BY <1>2, <1>7 DEF Untouched, SameCells
<1>12. ASSUME NEW n \in B \cup {x}, Tied(r, n) PROVE Circle(b, n) = Circle(b, q)
  <2>1. CASE n = x
    <3>1. p.env[y] = 1
      BY <1>2, <1>8, <1>12, <2>1 DEF Tied
    <3>2. Tied(p, y)
      BY <1>8, <3>1 DEF Tied
    <3> QED BY <1>2, <1>3, <2>1, <3>2 DEF Untouched
  <2>2. CASE n # x
    <3>1. n \in B /\ Tied(p, n)
      BY <1>10, <1>12, <2>2 DEF Stand, Tied
    <3> QED BY <3>1 DEF Untouched
  <2> QED BY <2>1, <2>2
<1> QED BY <1>10, <1>11, <1>12 DEF Untouched, r, x

(* A mutation writes the row of its name, or the cell of its grid. *)
LEMMA MutationSpares ==
  ASSUME NEW b, NEW q, NEW p, NEW B, Untouched(b, q, p, B), NEW s, Spares(b, q, s), s.op \in Mutations,
         Uses(s) \subseteq B
  PROVE  Untouched(b, q, PyStep(Callees, p, s), B)
<1> DEFINE x == s.x
           r == PyStep(Callees, p, s)
<1>1. Kept(p, B) /\ Said(s) /\ Typed(s) /\ IsState(p) /\ x \in B /\ ~ Tied(p, x) /\ x \in Names
  <2>1. Kept(p, B) /\ Said(s) /\ Typed(s) /\ IsState(p)
    BY DEF Untouched, Spares, Kept
  <2>2. x \in B
    BY DEF Uses, Mutations, Binding
  <2>3. ~ Tied(p, x)
    BY <2>2 DEF Untouched, Spares
  <2> QED BY <2>1, <2>2, <2>3 DEF Said
<1>2. /\ p.env \in [Names -> Nat] /\ p.heap \in Seq(Seq(Nat)) /\ Len(p.heap) \in Nat
      /\ \A n \in B : n \in Names /\ p.env[n] \in 1 .. Len(p.heap)
      /\ RowOf(p, x) \in 1 .. Len(p.heap) /\ RowOf(p, x) \notin {1, 2} /\ p.env[x] # 2
      /\ \A g \in B \cap Grids : p.env[g] # RowOf(p, x)
  BY <1>1, KeptIs DEF Kept, Tied
<1>3. \E a \in 1 .. Len(p.heap) : \E c :
        /\ Rewrites(p, r, a, c) /\ a \notin {1, 2}
        /\ \A g \in B \cap Grids : p.env[g] = a => Len(c) >= 1 /\ c[1] = p.heap[a][1]
  <2>1. CASE s.op \in {"append", "rowappend"}
    <3>1. r = Grow(p, RowOf(p, x), 1)
      BY <2>1 DEF PyStep
    <3> HIDE DEF r, x
    <3>2. Rewrites(p, r, RowOf(p, x), Append(p.heap[RowOf(p, x)], 1))
      BY <1>1, <1>2, <3>1, GrowIs
    <3> QED BY <1>2, <3>2
  <2>2. CASE s.op \in {"store", "rowstore"}
    <3>1. r = [p EXCEPT !.heap[RowOf(p, x)][1] = 9]
      BY <2>2 DEF PyStep
    <3> HIDE DEF r, x
    <3>2. PICK c : c = [p.heap[RowOf(p, x)] EXCEPT ![1] = 9]
      OBVIOUS
    <3>3. Rewrites(p, r, RowOf(p, x), c)
      BY <1>1, <1>2, <3>1, <3>2, PutIs
    <3> QED BY <1>2, <3>3
  <2>3. CASE s.op = "embed"
    <3>1. r = Grow(p, p.env[x], p.env[s.ys[1]])
      BY <2>3 DEF PyStep
    <3>2. p.env[s.ys[1]] \in Nat
      <4>1. s.ys[1] \in Names
        BY <1>1, <2>3 DEF Said
      <4> QED BY <1>2, <4>1
    <3>3. x \in B \cap Grids
      BY <1>1, <2>3 DEF Typed
    <3>4. p.env[x] \in 1 .. Len(p.heap) /\ p.env[x] \notin {1, 2} /\ Len(p.heap[p.env[x]]) >= 1
      BY <1>1, <1>2, <3>3 DEF Kept
    <3> HIDE DEF r, x
    <3>5. PICK a, c : a = p.env[x] /\ c = Append(p.heap[a], p.env[s.ys[1]])
      OBVIOUS
    <3>6. Rewrites(p, r, a, c)
      BY <1>1, <3>1, <3>2, <3>4, <3>5, GrowIs
    <3>7. Len(c) >= 1 /\ c[1] = p.heap[a][1]
      <4>1. PICK d, v : d = p.heap[a] /\ v = p.env[s.ys[1]]
        OBVIOUS
      <4>2. d \in Seq(Nat) /\ Len(d) >= 1 /\ v \in Nat /\ c = Append(d, v)
        BY <1>2, <3>2, <3>4, <3>5, <4>1
      <4>3. Len(c) >= 1 /\ c[1] = d[1]
        BY <4>2
      <4> QED BY <4>1, <4>3
    <3> QED BY <3>4, <3>5, <3>6, <3>7
  <2> QED BY <2>1, <2>2, <2>3 DEF Mutations
<1> HIDE DEF r, x
<1>4. PICK a \in 1 .. Len(p.heap) : \E c :
         /\ Rewrites(p, r, a, c) /\ a \notin {1, 2}
         /\ \A g \in B \cap Grids : p.env[g] = a => Len(c) >= 1 /\ c[1] = p.heap[a][1]
  BY <1>3
<1>5. Kept(r, B) /\ Stand(p, r, B)
  BY <1>1, <1>4, RewriteKeeps
<1>6. r.heap[1] = <<0>> /\ r.heap[2] = <<1>>
  <2>1. 1 \in 1 .. Len(p.heap) /\ 2 \in 1 .. Len(p.heap)
    BY <1>1, <1>2 DEF Kept
  <2>2. r.heap[1] = p.heap[1] /\ r.heap[2] = p.heap[2]
    BY <1>4, <2>1 DEF Rewrites
  <2> QED BY <2>2 DEF Untouched
<1>7. \A n \in B : Tied(r, n) => Circle(b, n) = Circle(b, q)
  BY <1>5 DEF Stand, Tied, Untouched
<1> QED BY <1>5, <1>6, <1>7 DEF Untouched, r

(* What is printed, or passed to a function that changes nothing. *)
LEMMA ReadSpares ==
  ASSUME NEW b, NEW q, NEW p, NEW B, Untouched(b, q, p, B), NEW s, Spares(b, q, s), s.op \in {"print", "call"}
  PROVE  Untouched(b, q, PyStep(Callees, p, s), B)
<1>1. CASE s.op = "call"
  <2>1. PyStep(Callees, p, s) = p
    BY <1>1 DEF PyStep, Spares
  <2> QED BY <2>1
<1>2. CASE s.op = "print"
  <2>1. PICK o : o = Append(p.out, Shown(p, s.x))
    OBVIOUS
  <2>2. PICK r : r = PyStep(Callees, p, s)
    OBVIOUS
  <2>3. r = [p EXCEPT !.out = o]
    BY <1>2, <2>1, <2>2 DEF PyStep
  <2>4. IsState(p)
    BY DEF Untouched, Kept
  <2>5. r.env = p.env /\ r.heap = p.heap /\ IsState(r)
    <3>1. PICK E, H, O : E = p.env /\ H = p.heap /\ O = p.out
      OBVIOUS
    <3>2. p = [env |-> E, heap |-> H, out |-> O]
      BY <2>4, <3>1 DEF IsState
    <3>3. r = [env |-> E, heap |-> H, out |-> o]
      BY <2>3, <3>2
    <3>4. r.env = E /\ r.heap = H /\ r.out = o
      BY <3>3
    <3> QED BY <2>4, <3>1, <3>3, <3>4 DEF IsState
  <2>6. Kept(r, B)
    BY <2>5 DEF Untouched, Kept, RowOf
  <2>7. Untouched(b, q, r, B)
    BY <2>5, <2>6 DEF Untouched, Tied, RowOf
  <2> QED BY <2>2, <2>7
<1> QED BY <1>1, <1>2


(* Every statement that mutates no list of the caller leaves it alone. *)
LEMMA StepSpares ==
  ASSUME NEW b, NEW q, NEW p, NEW B, Untouched(b, q, p, B), NEW s, Spares(b, q, s), Uses(s) \subseteq B,
         NEW C, C = B \cup (IF s.op \in Binding THEN {s.x} ELSE {})
  PROVE  Untouched(b, q, PyStep(Callees, p, s), C)
<1>1. s.op \in {"new", "append", "store", "print", "call", "rowappend", "rowstore", "alias", "ident", "elem", "embed", "grid"}
  BY DEF Spares, Said
<1>2. s.op # "elem"
  BY DEF Spares
<1>3. CASE s.op = "new"
  <2>1. C = B \cup {s.x}
    BY <1>3 DEF Binding
  <2> QED BY <1>3, <2>1, NewSpares
<1>4. CASE s.op \in {"alias", "ident"}
  <2>1. C = B \cup {s.x}
    BY <1>4 DEF Binding
  <2> QED BY <1>4, <2>1, AliasSpares
<1>5. CASE s.op = "grid"
  <2>1. C = B \cup {s.x}
    BY <1>5 DEF Binding
  <2> QED BY <1>5, <2>1, GridSpares
<1>6. CASE s.op \in Mutations
  <2>1. C = B
    BY <1>6 DEF Binding, Mutations
  <2> QED BY <1>6, <2>1, MutationSpares
<1>7. CASE s.op \in {"print", "call"}
  <2>1. C = B
    BY <1>7 DEF Binding
  <2> QED BY <1>7, <2>1, ReadSpares
<1> QED BY <1>1, <1>2, <1>3, <1>4, <1>5, <1>6, <1>7 DEF Mutations

(* Nor does it change in the whole of a path of such statements. *)
LEMMA PathSpares ==
  ASSUME NEW b \in Seq(Stmts), NEW q \in Names, Laid(b), Bounded(b, {q}), Supplied(b, {q}), NEW k \in Runs,
         \A i \in DOMAIN b : Spares(b, q, b[i])
  PROVE  SubSeq(PyRun(Callees, b, k).heap, 1, 2) = PyStart.heap
<1>1. Len(b) \in Nat /\ DOMAIN b = 1 .. Len(b)
  BY StmtsSaid
<1>2. PICK path : path = Path(b, k)
  OBVIOUS
<1>3. PICK n \in Nat : n = Len(path)
  BY <1>1, <1>2, PathRuns
<1>4. /\ Traced(path, b) /\ DOMAIN path = 1 .. n /\ Len(Unrolled(b, k)) = n
      /\ \A j \in 1 .. n : path[j] \in DOMAIN b /\ Unrolled(b, k)[j] = b[path[j]]
  BY <1>1, <1>2, <1>3, PathRuns
<1>5. PICK f : /\ PyRun(Callees, b, k) = f[n] /\ f[0] = PyStart
               /\ \A j \in 1 .. n : f[j] = PyStep(Callees, f[j - 1], b[path[j]])
  BY <1>3, <1>4, PyRunIs
<1> DEFINE B(j) == BoundAt(b, {q}, path, j)
           T == {j \in 0 .. n : ~ Untouched(b, q, f[j], B(j))}
<1>6. Untouched(b, q, f[0], B(0))
  <2>1. B(0) = {q}
    BY DEF BoundAt
  <2>2. PICK E : E = [m \in Names |-> IF m \in Rows THEN 1 ELSE 2]
    OBVIOUS
  <2>3. PICK H : H = <<<<0>>, <<1>>>>
    OBVIOUS
  <2>4. PyStart = [env |-> E, heap |-> H, out |-> <<>>]
    BY <2>2, <2>3 DEF PyStart
  <2>5. PyStart.env = E /\ PyStart.heap = H
    BY <2>4
  <2>6. E \in [Names -> Nat] /\ E[q] = IF q \in Rows THEN 1 ELSE 2
    BY <2>2
  <2>7. H \in Seq(Seq(Nat)) /\ Len(H) = 2 /\ H[1] = <<0>> /\ H[2] = <<1>>
    BY <2>3
  <2>8. IsState(PyStart)
    BY <2>4, <2>5, <2>6, <2>7 DEF IsState
  <2>9. RowOf(PyStart, q) = 1
    <3>1. H[2][1] = 1
      BY <2>7
    <3> QED BY <2>5, <2>6, <3>1 DEF RowOf
  <2>10. ASSUME q \in Grids PROVE PyStart.env[q] = 2 /\ Len(PyStart.heap[2]) >= 1
    <3>1. q \notin Rows
      BY <2>10, AliasAssumption
    <3>2. Len(<<1>>) >= 1
      OBVIOUS
    <3> QED BY <2>5, <2>6, <2>7, <3>1, <3>2
  <2>11. Kept(PyStart, {q})
    BY <2>5, <2>7, <2>8, <2>9, <2>10 DEF Kept
  <2> QED BY <1>5, <2>1, <2>5, <2>7, <2>11 DEF Untouched
<1>7. ASSUME NEW j \in 1 .. n, Untouched(b, q, f[j - 1], B(j - 1))
      PROVE  Untouched(b, q, f[j], B(j))
  <2>1. Spares(b, q, b[path[j]]) /\ f[j] = PyStep(Callees, f[j - 1], b[path[j]])
    BY <1>4, <1>5
  <2>2. Uses(b[path[j]]) \subseteq B(j - 1)
    BY <1>1, <1>4, UsesBound
  <2>3. B(j) = B(j - 1) \cup (IF b[path[j]].op \in Binding THEN {b[path[j]].x} ELSE {})
    <3>1. 1 .. j = 1 .. (j - 1) \cup {j}
      BY <1>3
    <3> QED BY <3>1 DEF BoundAt
  <2> HIDE DEF B
  <2> QED BY <1>7, <2>1, <2>2, <2>3, StepSpares
<1>8. T = {}
  <2> SUFFICES ASSUME T # {} PROVE FALSE
    OBVIOUS
  <2> HIDE DEF B
  <2>1. T \in SUBSET Nat
    OBVIOUS
  <2>2. PICK j \in T : \A l \in T : j <= l
    <3> HIDE DEF T
    <3> QED BY <2>1, Least
  <2>3. j # 0
    BY <1>6
  <2>4. j \in 1 .. n /\ j - 1 \in 0 .. n /\ ~ (j <= j - 1)
    BY <1>3, <2>3
  <2>5. Untouched(b, q, f[j - 1], B(j - 1))
    BY <2>2, <2>4
  <2> QED BY <1>7, <2>4, <2>5
<1>9. Untouched(b, q, f[n], B(n))
  <2>1. n \in 0 .. n
    BY <1>3
  <2> HIDE DEF B
  <2> QED BY <1>8, <2>1
<1> HIDE DEF B, T
<1>10. PICK H : H = PyRun(Callees, b, k).heap
  OBVIOUS
<1>11. /\ H \in Seq(Seq(Nat)) /\ 2 <= Len(H) /\ H[1] = <<0>> /\ H[2] = <<1>>
  BY <1>5, <1>9, <1>10 DEF Untouched, Kept, IsState
<1>12. SubSeq(H, 1, 2) = <<H[1], H[2]>>
  <2>1. PICK G : G = SubSeq(H, 1, 2)
    OBVIOUS
  <2>2. G = [i \in 1 .. 2 |-> H[1 + i - 1]]
    BY <1>11, <2>1
  <2>3. DOMAIN G = 1 .. 2 /\ G[1] = H[1] /\ G[2] = H[2]
    BY <2>2
  <2>4. G = <<G[1], G[2]>>
    BY <2>2
  <2> QED BY <2>1, <2>3, <2>4
<1>13. PyStart.heap = <<<<0>>, <<1>>>>
  BY DEF PyStart
<1> QED BY <1>10, <1>11, <1>12, <1>13

(* A body that changes its caller's list says so. *)
LEMMA MarksFromInv ==
  ASSUME AliasInv, \A p, q \in job.params : p = q
  PROVE  MarksParams
<1> SUFFICES ASSUME phase = "emitted", Changed(body) = {}, \A i \in DOMAIN body : body[i].op # "elem",
                    Overt(body), ChangesParam(Callees, body), NEW q \in job.params
             PROVE  q \in mutable_params(body, job.params)
  BY DEF MarksParams
<1>1. /\ job \in Jobs /\ body \in Seq(Stmts)
      /\ Laid(body) /\ Bounded(body, job.params) /\ Supplied(body, job.params)
  BY DEF AliasInv
<1>2. job.params = {q} /\ q \in Names
  BY <1>1, AliasAssumption
<1>3. PICK b : b = body
  OBVIOUS
<1>4. PICK k \in Runs : SubSeq(PyRun(Callees, b, k).heap, 1, 2) # PyStart.heap
  BY <1>3 DEF ChangesParam
<1>5. PICK i \in DOMAIN b : ~ Spares(b, q, b[i])
  <2>1. b \in Seq(Stmts) /\ Laid(b) /\ Bounded(b, {q}) /\ Supplied(b, {q})
    BY <1>1, <1>2, <1>3
  <2> QED BY <1>2, <1>4, <2>1, PathSpares
<1>6. b[i].op \in Mutations /\ Circle(b, b[i].x) = Circle(b, q)
  <2>1. b[i] \in Stmts /\ Said(b[i]) /\ b[i].op # "elem" /\ b \in Seq(Stmts)
    BY <1>1, <1>3, StmtsSaid
  <2>2. Typed(b[i])
    BY <2>1, TypedAll
  <2>3. b[i].op = "call" => ~ Callees[b[i].fn].changes
    BY <1>3 DEF Changed
  <2>4. b[i].op \in {"alias", "ident", "grid"} =>
          \A m \in DOMAIN b[i].ys : Circle(b, b[i].x) = Circle(b, b[i].ys[m])
    BY <2>1, CircleLinks
  <2> QED BY <1>5, <2>1, <2>2, <2>3, <2>4 DEF Spares
<1>7. CASE b[i].x = q
  BY <1>2, <1>3, <1>6, <1>7 DEF mutable_params
<1>8. CASE b[i].x # q
  <2>1. b \in Seq(Stmts) /\ b[i].x \in Names /\ Overt(b)
    BY <1>1, <1>3, StmtsSaid DEF Said
  <2>2. b[i].x \in Shared(b)
    BY <1>2, <1>6, <1>8, <2>1, CircleShared
  <2>3. b[i].x \in collect_obj_mutated(b) /\ \A n : Circle(b, n) = alias_class(b)[n]
    BY <1>6, <2>1, <2>2, ChangeIsSeen DEF Changes
  <2>4. b[i].x \in alias_class(b)[q]
    BY <1>6, <2>1, <2>3, InCircle
  <2>5. alias_class(b)[q] # {q} /\ class_mutated(b, alias_class(b)[q])
    BY <1>8, <2>3, <2>4 DEF class_mutated
  <2> QED BY <1>2, <1>3, <2>5 DEF mutable_params
<1> QED BY <1>7, <1>8

(* Where functions have one parameter, one that changes its caller's list, by *)
(* itself or through an alias, says so in its signature.                      *)
THEOREM ChangersAreMarked ==
  ASSUME \A j \in Jobs : \A p, q \in j.params : p = q
  PROVE  Spec => []MarksParams
<1>1. AliasInv => MarksParams
  <2> SUFFICES ASSUME AliasInv PROVE MarksParams
    OBVIOUS
  <2>1. job \in Jobs
    BY DEF AliasInv
  <2> QED BY <2>1, MarksFromInv
<1> QED BY <1>1, BodiesLowered, PTL


(* The classes of two names that share one are one. *)
LEMMA ClassSame ==
  ASSUME NEW b \in Seq(Stmts), NEW n \in Names, NEW m \in Names, m \in alias_class(b)[n]
  PROVE  alias_class(b)[m] = alias_class(b)[n]
<1> DEFINE pairs  == {<<b[e[1]].x, b[e[1]].ys[e[2]]>> : e \in alias_edges(b)}
           nodes  == {p[1] : p \in pairs} \cup {p[2] : p \in pairs}
           unions == {S \in SUBSET nodes : \A p \in pairs : p[1] \in S <=> p[2] \in S}
           class(k) == {k} \cup {l \in nodes : k \in nodes /\ \A S \in unions : k \in S => l \in S}
<1>1. alias_class(b) = [k \in Names |-> class(k)]
  BY DEF alias_class
<1>2. \A S \in unions : nodes \ S \in unions
  <2>1. \A p \in pairs : p[1] \in nodes /\ p[2] \in nodes
    OBVIOUS
  <2> HIDE DEF pairs, nodes
  <2> QED BY <2>1
<1> HIDE DEF nodes, unions
<1>3. alias_class(b)[n] = class(n) /\ alias_class(b)[m] = class(m)
  BY <1>1
<1>4. CASE m = n
  BY <1>4
<1>5. CASE m # n
  <2>1. m \in nodes /\ n \in nodes /\ \A S \in unions : n \in S => m \in S
    BY <1>3, <1>5
  <2>2. ASSUME NEW S \in unions, m \in S PROVE n \in S
    BY <1>2, <2>1, <2>2
  <2>3. \A l : l \in class(n) <=> l \in class(m)
    BY <2>1, <2>2
  <2> QED BY <1>3, <2>3
<1> QED BY <1>4, <1>5

LEMMA ClassFinite ==
  ASSUME NEW b \in Seq(Stmts), NEW n \in Names
  PROVE  IsFiniteSet(alias_class(b)[n])
<1> DEFINE E == alias_edges(b)
           pairs  == {<<b[e[1]].x, b[e[1]].ys[e[2]]>> : e \in E}
           nodes  == {p[1] : p \in pairs} \cup {p[2] : p \in pairs}
           unions == {S \in SUBSET nodes : \A p \in pairs : p[1] \in S <=> p[2] \in S}
           f == [d \in E \X (1 .. 2) |-> IF d[2] = 1 THEN b[d[1][1]].x ELSE b[d[1][1]].ys[d[1][2]]]
<1>1. IsFiniteSet(E) /\ IsFiniteSet(1 .. 2)
  <2>1. Len(b) \in Nat /\ DOMAIN b = 1 .. Len(b)
    OBVIOUS
  <2>2. IsFiniteSet(DOMAIN b) /\ IsFiniteSet(1 .. 2)
    <3>1. 1 \in Int /\ 2 \in Int /\ Len(b) \in Int
      OBVIOUS
    <3> QED BY <2>1, <3>1, FS_Interval
  <2>3. IsFiniteSet((DOMAIN b) \X (1 .. 2))
    BY <2>2, FS_Product
  <2>4. E \subseteq (DOMAIN b) \X (1 .. 2)
    BY DEF alias_edges, Visited
  <2> HIDE DEF E
  <2> QED BY <2>2, <2>3, <2>4, FS_Subset
<1>2. IsFiniteSet(E \X (1 .. 2))
  <2> HIDE DEF E
  <2> QED BY <1>1, FS_Product
<1>3. f \in Surjection(E \X (1 .. 2), nodes)
  <2> HIDE DEF E
  <2>1. ASSUME NEW d \in E \X (1 .. 2) PROVE f[d] \in nodes
    <3>1. PICK p : p = <<b[d[1][1]].x, b[d[1][1]].ys[d[1][2]]>>
      OBVIOUS
    <3>2. p \in pairs
      BY <3>1
    <3>3. f[d] = p[1] \/ f[d] = p[2]
      BY <3>1
    <3> QED BY <3>2, <3>3
  <2>2. ASSUME NEW x \in nodes PROVE \E d \in E \X (1 .. 2) : f[d] = x
    <3>1. PICK e \in E : x = b[e[1]].x \/ x = b[e[1]].ys[e[2]]
      OBVIOUS
    <3>2. <<e, 1>> \in E \X (1 .. 2) /\ <<e, 2>> \in E \X (1 .. 2)
      OBVIOUS
    <3>3. f[<<e, 1>>] = b[e[1]].x /\ f[<<e, 2>>] = b[e[1]].ys[e[2]]
      BY <3>2
    <3> QED BY <3>1, <3>2, <3>3
  <2> HIDE DEF nodes
  <2>3. f \in [E \X (1 .. 2) -> nodes]
    BY <2>1
  <2> HIDE DEF f
  <2> QED BY <2>2, <2>3 DEF Surjection
<1>4. IsFiniteSet(nodes)
  <2> HIDE DEF E, f, nodes
  <2> QED BY <1>2, <1>3, FS_Surjection
<1>5. alias_class(b)[n] = {n} \cup {l \in nodes : n \in nodes /\ \A S \in unions : n \in S => l \in S}
  <2>1. alias_class(b) = [k \in Names |-> {k} \cup {l \in nodes : k \in nodes /\ \A S \in unions : k \in S => l \in S}]
    BY DEF alias_class
  <2> HIDE DEF nodes, unions
  <2> QED BY <2>1
<1>6. IsFiniteSet({n} \cup nodes)
  <2> HIDE DEF nodes
  <2>1. IsFiniteSet({n})
    BY FS_Singleton
  <2> QED BY <1>4, <2>1, FS_Union
<1>7. alias_class(b)[n] \in SUBSET ({n} \cup nodes)
  <2> HIDE DEF nodes, unions
  <2> QED BY <1>5
<1> HIDE DEF nodes
<1> QED BY <1>6, <1>7, FS_Subset

(* A class of at most two names, and another name of it. *)
LEMMA ClassPair ==
  ASSUME NEW b \in Seq(Stmts), NEW n \in Names, ~ (Cardinality(alias_class(b)[n]) > 2),
         NEW m \in alias_class(b)[n], m # n
  PROVE  alias_class(b)[n] = {n, m}
<1>1. IsFiniteSet(alias_class(b)[n])
  BY ClassFinite
<1>2. n \in alias_class(b)[n]
  BY ClassIs DEF ClassesOf
<1>3. PICK C : C = alias_class(b)[n]
  OBVIOUS
<1>4. PICK D : D = {n, m}
  OBVIOUS
<1>5. IsFiniteSet(D) /\ Cardinality(D) = 2
  <2>1. IsFiniteSet({n}) /\ Cardinality({n}) = 1
    BY FS_Singleton
  <2>2. PICK S : S = {n}
    OBVIOUS
  <2>3. IsFiniteSet(S \cup {m}) /\ Cardinality(S \cup {m}) = IF m \in S THEN Cardinality(S) ELSE Cardinality(S) + 1
    BY <2>1, <2>2, FS_AddElement
  <2>4. S \cup {m} = D /\ m \notin S
    BY <1>4, <2>2
  <2>5. Cardinality(S) = 1
    BY <2>1, <2>2
  <2>6. Cardinality(S \cup {m}) = 2
    BY <2>3, <2>4, <2>5
  <2> QED BY <2>3, <2>4, <2>6
<1>6. D \in SUBSET C
  BY <1>2, <1>3, <1>4
<1>7. Cardinality(C) \in Nat /\ Cardinality(D) <= Cardinality(C) /\ (Cardinality(C) = Cardinality(D) => C = D)
  BY <1>1, <1>3, <1>6, FS_Subset, FS_CardinalityType
<1>8. Cardinality(C) = Cardinality(D)
  BY <1>3, <1>5, <1>7
<1> QED BY <1>3, <1>4, <1>7, <1>8


-----------------------------------------------------------------------------
(* What the passes say of a list that is shared, changed and printed.        *)

Linking == {"alias", "ident"}

(* Only rows have names. *)
Flat(b) == \A i \in DOMAIN b : {b[i].x} \cup ToSet(b[i].ys) \subseteq Rows

(* No list of the circle of n is changed. *)
Quiet(b, n) == \A i \in DOMAIN b : Changes(b[i]) => Circle(b, b[i].x) # Circle(b, n)

Printed(b, n) == \E i \in DOMAIN b : b[i].op = "print" /\ b[i].x = n

(* No other name of the class of o is observable, if o is and the class is     *)
(* mutated.                                                                  *)
Lone(b, o) ==
  class_mutated(b, alias_class(b)[o]) /\ observable(b, o) =>
    \A n \in Names : n \in alias_class(b)[o] /\ n # o => ~ observable(b, n)

(* o is printed, shares its list, and a list of its circle is changed: it is   *)
(* the one name of the circle to be observed ...                             *)
Solo(b, o) == o \in Shared(b) /\ o \in Names /\ Printed(b, o) /\ ~ Quiet(b, o) /\ Lone(b, o)

(* ... or w is that name, and there are no others in its circle but a second    *)
(* one, z: one of the two is the parameter.                                  *)
Pair(b, w, z) ==
  /\ w \in Names /\ z \in Names /\ w # z /\ Printed(b, w)
  /\ observable(b, z) /\ class_mutated(b, {w, z})
  /\ Circle(b, z) = Circle(b, w)
  /\ \A n \in Names : Circle(b, n) = Circle(b, w) => n \in {w, z}

(* What the passes have let through. *)
Passed(b) ==
  /\ b \in Seq(Stmts) /\ Overt(b)
  /\ \A o \in Names : Lone(b, o) \/ ~ (Cardinality(alias_class(b)[o]) > 2)
  /\ \A i \in DOMAIN b : ~ apply_alias_dispositions_refuses(b, b[i])

(* A name read where no binding shares it, or in a loop, is read more often   *)
(* than the classes count it.                                                *)
LEMMA MoreReads ==
  ASSUME NEW b \in Seq(Stmts), NEW n, NEW i \in DOMAIN b, NEW m \in DOMAIN Loads(b[i]), Loads(b[i])[m] = n,
         b[i].at = "loop" \/ b[i].op \notin {"alias", "ident", "grid"}
  PROVE  count_name_reads(b, n) > rhs_occ(b, n)
<1>1. Len(b) \in Nat /\ DOMAIN b = 1 .. Len(b) /\ \A j \in DOMAIN b : Said(b[j])
  BY StmtsSaid
<1>2. m \in 1 .. 2
  BY <1>1, LoadsAre
<1> DEFINE E == {e \in alias_edges(b) : b[e[1]].ys[e[2]] = n}
           R == ReadsOf(b, n)
           f == [e \in E |-> <<e[1], e[2], 1>>]
<1>3. IsFiniteSet(R) /\ count_name_reads(b, n) = Cardinality(R) /\ rhs_occ(b, n) = Cardinality(E)
  BY <1>1, ReadsFinite DEF rhs_occ
<1>4. ASSUME NEW e \in E
      PROVE  /\ e[1] \in DOMAIN b /\ e[2] \in 1 .. 2 /\ e = <<e[1], e[2]>>
             /\ b[e[1]].op \in {"alias", "ident", "grid"}
             /\ <<e[1], e[2], 1>> \in R
  <2>1. /\ e[1] \in DOMAIN b /\ e[2] \in 1 .. 2 /\ e = <<e[1], e[2]>>
        /\ b[e[1]].op \in {"alias", "ident", "grid"} /\ e[2] \in DOMAIN b[e[1]].ys
        /\ b[e[1]].ys[e[2]] = n
    BY DEF alias_edges, Visited
  <2>2. Loads(b[e[1]]) = b[e[1]].ys
    BY <2>1 DEF Loads
  <2> QED BY <2>1, <2>2 DEF ReadsOf
<1>5. \E l \in R : \A e \in E : <<e[1], e[2], 1>> # l
  <2>1. CASE b[i].at = "loop"
    <3>1. <<i, m, 2>> \in R
      BY <1>2, <2>1 DEF ReadsOf
    <3>2. \A e \in E : <<e[1], e[2], 1>> # <<i, m, 2>>
      OBVIOUS
    <3> QED BY <3>1, <3>2
  <2>2. CASE b[i].op \notin {"alias", "ident", "grid"}
    <3>1. <<i, m, 1>> \in R
      BY <1>2 DEF ReadsOf
    <3>2. \A e \in E : <<e[1], e[2], 1>> # <<i, m, 1>>
      BY <1>4, <2>2
    <3> QED BY <3>1, <3>2
  <2> QED BY <2>1, <2>2
<1> HIDE DEF E, R
<1>6. f \in Injection(E, R)
  <2>1. f \in [E -> R]
    BY <1>4
  <2>2. ASSUME NEW d \in E, NEW e \in E, f[d] = f[e] PROVE d = e
    <3>1. <<d[1], d[2], 1>> = <<e[1], e[2], 1>>
      BY <2>2
    <3>2. d[1] = e[1] /\ d[2] = e[2]
      BY <3>1
    <3> QED BY <1>4, <3>2
  <2> QED BY <2>1, <2>2 DEF Injection, IsInjective
<1>7. f \notin Surjection(E, R)
  BY <1>5 DEF Surjection
<1>8. IsFiniteSet(E) /\ Cardinality(E) <= Cardinality(R) /\ Cardinality(E) # Cardinality(R)
  <2> HIDE DEF f
  <2> QED BY <1>3, <1>6, <1>7, FS_Injection
<1>9. Cardinality(E) \in Nat /\ Cardinality(R) \in Nat
  BY <1>3, <1>8, FS_CardinalityType
<1> QED BY <1>3, <1>8, <1>9

(* A name is bound to a number of times. *)
LEMMA OccursNat ==
  ASSUME NEW b \in Seq(Stmts), NEW n
  PROVE  rhs_occ(b, n) \in Nat
<1> DEFINE E == {e \in alias_edges(b) : b[e[1]].ys[e[2]] = n}
<1>1. IsFiniteSet((DOMAIN b) \X (1 .. 2))
  <2>1. Len(b) \in Nat /\ DOMAIN b = 1 .. Len(b)
    OBVIOUS
  <2>2. IsFiniteSet(DOMAIN b) /\ IsFiniteSet(1 .. 2)
    <3>1. 1 \in Int /\ 2 \in Int /\ Len(b) \in Int
      OBVIOUS
    <3> QED BY <2>1, <3>1, FS_Interval
  <2> QED BY <2>2, FS_Product
<1>2. E \in SUBSET ((DOMAIN b) \X (1 .. 2))
  BY DEF alias_edges, Visited
<1>3. rhs_occ(b, n) = Cardinality(E)
  BY DEF rhs_occ
<1> HIDE DEF E
<1>4. Cardinality(E) \in Nat
  BY <1>1, <1>2, FS_Subset, FS_CardinalityType
<1> QED BY <1>3, <1>4

(* A name that is read is read. *)
LEMMA OneRead ==
  ASSUME NEW b \in Seq(Stmts), NEW n, NEW i \in DOMAIN b, NEW m \in DOMAIN Loads(b[i]), Loads(b[i])[m] = n
  PROVE  read(b, n)
<1>1. Len(b) \in Nat /\ DOMAIN b = 1 .. Len(b) /\ Said(b[i])
  BY StmtsSaid
<1>2. m \in 1 .. 2
  BY <1>1, LoadsAre
<1>3. IsFiniteSet(ReadsOf(b, n)) /\ count_name_reads(b, n) = Cardinality(ReadsOf(b, n))
  BY <1>1, ReadsFinite
<1>4. <<i, m, 1>> \in ReadsOf(b, n)
  BY <1>2 DEF ReadsOf
<1>5. ReadsOf(b, n) # {}
  BY <1>4
<1>6. Cardinality(ReadsOf(b, n)) # 0 /\ Cardinality(ReadsOf(b, n)) \in Nat
  BY <1>3, <1>5, FS_EmptySet, FS_CardinalityType
<1> QED BY <1>3, <1>6 DEF read

(* What is printed is read. *)
LEMMA PrintLoads ==
  ASSUME NEW s, Said(s), s.op = "print"
  PROVE  1 \in DOMAIN Loads(s) /\ Loads(s)[1] = s.x
<1>1. s.ys = <<>> /\ Loads(s) = <<s.x>> \o s.ys
  BY DEF Said, Loads
<1>2. Loads(s) = <<s.x>>
  BY <1>1
<1> QED BY <1>2

(* What a binding to the list of y loads, and takes. *)
LEMMA LinkLoads ==
  ASSUME NEW s, Said(s), s.op \in Linking
  PROVE  /\ s.ys[1] \in Names /\ s.x \in Names /\ s.x # s.ys[1]
         /\ Taken(s) = {s.ys[1]} /\ ToSet(s.ys) = {s.ys[1]}
         /\ 1 \in DOMAIN Loads(s) /\ Loads(s)[1] = s.ys[1]
<1>1. PICK y \in Names : s.ys = <<y>>
  BY DEF Said, Linking
<1>2. Loads(s) = s.ys
  BY DEF Loads, Linking
<1>3. Taken(s) = {y} /\ ToSet(s.ys) = {y}
  BY <1>1 DEF Taken, ToSet, Linking
<1>4. 1 \in DOMAIN s.ys /\ s.ys[1] = y
  BY <1>1
<1> QED BY <1>1, <1>2, <1>3, <1>4 DEF Said, Linking

(* The walks see the changes of a circle, and know the circle.                *)
LEMMA CircleSeen ==
  ASSUME NEW b, Passed(b), NEW o \in Names, o \in Shared(b),
         NEW i \in DOMAIN b, Changes(b[i]), Circle(b, b[i].x) = Circle(b, o)
  PROVE  /\ b[i].x \in collect_obj_mutated(b) /\ ~ TryShares(b)
         /\ \A n : Circle(b, n) = alias_class(b)[n]
<1>1. b \in Seq(Stmts) /\ Overt(b) /\ b[i].x \in Names
  BY StmtsSaid DEF Passed, Said
<1>2. b[i].x \in Shared(b)
  <2>1. CASE b[i].x = o
    BY <2>1
  <2>2. CASE b[i].x # o
    BY <1>1, <2>2, CircleShared
  <2> QED BY <2>1, <2>2
<1> QED BY <1>1, <1>2, ChangeIsSeen

(* Nothing but o is changed or seen in the circle of o: the walks see every    *)
(* change there, no other name of it is read but by an alias outside a loop,   *)
(* and what is bound to the list of o is not read at all.                      *)
LEMMA SoloIs ==
  ASSUME NEW b, Passed(b), NEW o, Solo(b, o)
  PROVE  /\ ~ TryShares(b) /\ o \in collect_obj_mutated(b) /\ \A n : Circle(b, n) = alias_class(b)[n]
         /\ \A i \in DOMAIN b : Changes(b[i]) /\ Circle(b, b[i].x) = Circle(b, o) => b[i].x = o
         /\ \A i \in DOMAIN b : b[i].op \in Linking /\ Circle(b, b[i].ys[1]) = Circle(b, o) /\ b[i].ys[1] # o =>
              b[i].at # "loop"
         /\ \A i, j \in DOMAIN b : b[i].op \in Linking /\ b[i].ys[1] = o /\ b[j].op \in Linking => b[j].ys[1] # b[i].x
<1>1. /\ b \in Seq(Stmts) /\ Overt(b)
      /\ \A i \in DOMAIN b : ~ apply_alias_dispositions_refuses(b, b[i])
  BY DEF Passed
<1>2. Len(b) \in Nat /\ DOMAIN b = 1 .. Len(b) /\ \A j \in DOMAIN b : Said(b[j])
  BY <1>1, StmtsSaid
<1>3. o \in Shared(b) /\ o \in Names /\ ~ Quiet(b, o) /\ Lone(b, o)
  BY DEF Solo
<1>4. PICK p \in DOMAIN b : b[p].op = "print" /\ b[p].x = o
  BY DEF Solo, Printed
<1>5. 1 \in DOMAIN Loads(b[p]) /\ Loads(b[p])[1] = o
  BY <1>2, <1>4, PrintLoads
<1>6. count_name_reads(b, o) > rhs_occ(b, o)
  BY <1>1, <1>4, <1>5, MoreReads
<1>7. ASSUME NEW i \in DOMAIN b, Changes(b[i]), Circle(b, b[i].x) = Circle(b, o)
      PROVE  /\ b[i].x \in collect_obj_mutated(b) /\ ~ TryShares(b)
             /\ \A n : Circle(b, n) = alias_class(b)[n]
  BY <1>3, <1>7, CircleSeen
<1>8. PICK i \in DOMAIN b : Changes(b[i]) /\ Circle(b, b[i].x) = Circle(b, o)
  BY <1>3 DEF Quiet
<1>9. ~ TryShares(b) /\ \A n : Circle(b, n) = alias_class(b)[n]
  BY <1>7, <1>8
<1>10. ASSUME NEW n \in Names, n # o, Circle(b, n) = Circle(b, o) PROVE ~ observable(b, n)
  <2>1. b[i].x \in alias_class(b)[o]
    <3>1. b[i].x \in Circle(b, b[i].x)
      BY <1>1, <1>2, InCircle DEF Said
    <3> QED BY <1>8, <1>9, <3>1
  <2>2. class_mutated(b, alias_class(b)[o])
    BY <1>7, <1>8, <2>1 DEF class_mutated
  <2>3. n \in alias_class(b)[o]
    BY <1>1, <1>9, <1>10, InCircle
  <2>4. observable(b, o)
    BY <1>6 DEF observable
  <2> QED BY <1>3, <1>10, <2>2, <2>3, <2>4 DEF Lone
<1>11. ASSUME NEW j \in DOMAIN b, Changes(b[j]), Circle(b, b[j].x) = Circle(b, o) PROVE b[j].x = o
  <2>1. b[j].x \in Names /\ observable(b, b[j].x)
    BY <1>2, <1>7, <1>11 DEF Said, observable
  <2> QED BY <1>10, <1>11, <2>1
<1>12. o \in collect_obj_mutated(b)
  BY <1>7, <1>8, <1>11
<1>13. ASSUME NEW j \in DOMAIN b, b[j].op \in Linking
       PROVE  /\ b[j].ys[1] \in Names /\ b[j].x \in Names /\ b[j].x # b[j].ys[1]
              /\ Taken(b[j]) = {b[j].ys[1]}
              /\ 1 \in DOMAIN Loads(b[j]) /\ Loads(b[j])[1] = b[j].ys[1]
  BY <1>2, <1>13, LinkLoads
<1>14. ASSUME NEW j \in DOMAIN b, b[j].op \in Linking, Circle(b, b[j].ys[1]) = Circle(b, o), b[j].ys[1] # o
       PROVE  b[j].at # "loop"
  <2>1. ~ observable(b, b[j].ys[1])
    BY <1>10, <1>13, <1>14
  <2>2. b[j].at = "loop" => count_name_reads(b, b[j].ys[1]) > rhs_occ(b, b[j].ys[1])
    BY <1>1, <1>13, <1>14, MoreReads
  <2> QED BY <2>1, <2>2 DEF observable
<1>15. ASSUME NEW j \in DOMAIN b, NEW k \in DOMAIN b, b[j].op \in Linking, b[j].ys[1] = o,
              b[k].op \in Linking, b[k].ys[1] = b[j].x
       PROVE  FALSE
  <2>1. read(b, b[j].x)
    BY <1>1, <1>13, <1>15, OneRead
  <2>2. reread(b, o)
    <3>1. p # j
      BY <1>4, <1>15 DEF Linking
    <3>2. <<j, 1>> # <<p, 1>> /\ 1 \in 1 .. 2
      BY <3>1
    <3> QED BY <1>2, <1>4, <1>5, <1>13, <1>15, <3>2, TwoReads
  <2>3. mutated(b, o)
    BY <1>12 DEF mutated
  <2>4. ~ alias_clones(b, b[j].x, o)
    BY <2>1, <2>3 DEF alias_clones
  <2>5. apply_alias_dispositions_refuses(b, b[j])
    BY <1>15, <2>1, <2>2, <2>3, <2>4 DEF apply_alias_dispositions_refuses, Linking
  <2> QED BY <1>1, <2>5
<1> QED BY <1>9, <1>11, <1>12, <1>14, <1>15

(* A printed name that shares its list is Solo or of a Pair, or nothing of its *)
(* circle changes.                                                           *)
LEMMA PrintedIs ==
  ASSUME NEW b, Passed(b), NEW o \in Names, o \in Shared(b), Printed(b, o), ~ Quiet(b, o), ~ Solo(b, o)
  PROVE  \E z \in Names : Pair(b, o, z)
<1>1. /\ b \in Seq(Stmts) /\ \A i \in DOMAIN b : Said(b[i])
      /\ Lone(b, o) \/ ~ (Cardinality(alias_class(b)[o]) > 2)
  BY StmtsSaid DEF Passed
<1>2. PICK i \in DOMAIN b : Changes(b[i]) /\ Circle(b, b[i].x) = Circle(b, o)
  BY DEF Quiet
<1>3. \A n : Circle(b, n) = alias_class(b)[n]
  BY <1>2, CircleSeen
<1>4. ~ Lone(b, o)
  BY DEF Solo
<1>5. PICK z \in Names : /\ class_mutated(b, alias_class(b)[o]) /\ z \in alias_class(b)[o] /\ z # o
                         /\ observable(b, z)
  BY <1>4 DEF Lone
<1>6. alias_class(b)[o] = {o, z}
  BY <1>1, <1>4, <1>5, ClassPair
<1>7. Circle(b, z) = Circle(b, o)
  BY <1>1, <1>3, <1>5, ClassSame
<1>8. ASSUME NEW n \in Names, Circle(b, n) = Circle(b, o) PROVE n \in {o, z}
  <2>1. n \in Circle(b, n)
    BY <1>1, InCircle
  <2> QED BY <1>3, <1>6, <1>8, <2>1
<1> QED BY <1>5, <1>6, <1>7, <1>8 DEF Pair

(* Of a pair, only w is bound to the list of z, by one statement outside loops, *)
(* and nothing else reads z: the list is moved.                              *)
LEMMA PairIs ==
  ASSUME NEW b, Passed(b), NEW w, NEW z, Pair(b, w, z),
         NEW i \in DOMAIN b, b[i].op \in Linking, Circle(b, b[i].x) = Circle(b, w)
  PROVE  /\ b[i].x = w /\ b[i].ys[1] = z /\ b[i].at # "loop"
         /\ \A params : z \in Moves(LowerAt(b, params, i))
         /\ \A j \in DOMAIN b : b[j].op \in Linking /\ b[j].ys[1] = z => j = i
<1>1. /\ b \in Seq(Stmts) /\ Len(b) \in Nat /\ DOMAIN b = 1 .. Len(b) /\ \A j \in DOMAIN b : Said(b[j])
      /\ ~ apply_alias_dispositions_refuses(b, b[i])
  BY StmtsSaid DEF Passed
<1>2. /\ w \in Names /\ z \in Names /\ w # z /\ observable(b, z) /\ (mutated(b, w) \/ mutated(b, z))
      /\ \A n \in Names : Circle(b, n) = Circle(b, w) => n \in {w, z}
  BY DEF Pair, class_mutated, mutated
<1>3. PICK p \in DOMAIN b : b[p].op = "print" /\ b[p].x = w
  BY DEF Pair, Printed
<1>4. 1 \in DOMAIN Loads(b[p]) /\ Loads(b[p])[1] = w
  BY <1>1, <1>3, PrintLoads
<1>5. read(b, w)
  BY <1>1, <1>4, OneRead
<1>6. read(b, z) \/ mutated(b, z)
  <2>1. count_name_reads(b, z) \in Nat
    BY <1>1, ReadsFinite, FS_CardinalityType
  <2>2. rhs_occ(b, z) \in Nat
    BY <1>1, OccursNat
  <2> QED BY <1>2, <2>1, <2>2 DEF observable, read, mutated
<1>7. /\ b[i].x \in Names /\ b[i].ys[1] \in Names /\ b[i].x # b[i].ys[1]
      /\ Taken(b[i]) = {b[i].ys[1]} /\ 1 \in DOMAIN Loads(b[i]) /\ Loads(b[i])[1] = b[i].ys[1]
  BY <1>1, LinkLoads
<1>8. Circle(b, b[i].ys[1]) = Circle(b, w)
  <2>1. 1 \in DOMAIN b[i].ys
    BY <1>1 DEF Said, Linking
  <2> QED BY <1>1, <2>1, CircleLinks DEF Linking
<1>9. b[i].x \in {w, z} /\ b[i].ys[1] \in {w, z}
  BY <1>2, <1>7, <1>8
<1>10. b[i].x = w /\ b[i].ys[1] = z
  <2> SUFFICES ASSUME b[i].x = z, b[i].ys[1] = w PROVE FALSE
    BY <1>7, <1>9
  <2>1. reread(b, w)
    <3>1. p # i
      BY <1>3 DEF Linking
    <3>2. <<i, 1>> # <<p, 1>> /\ 1 \in 1 .. 2
      BY <3>1
    <3> QED BY <1>1, <1>4, <1>7, <3>2, TwoReads
  <2>2. ~ alias_clones(b, z, w)
    BY <1>2, <1>6 DEF alias_clones
  <2> QED BY <1>1, <1>2, <1>6, <2>1, <2>2 DEF apply_alias_dispositions_refuses, Linking
<1>11. ~ alias_clones(b, w, z)
  BY <1>2, <1>5 DEF alias_clones
<1>12. ~ reread(b, z)
  BY <1>1, <1>2, <1>5, <1>10, <1>11 DEF apply_alias_dispositions_refuses, Linking
<1>13. b[i].at # "loop" /\ \A j \in DOMAIN b : j # i => \A m \in DOMAIN Loads(b[j]) : Loads(b[j])[m] # z
  BY <1>1, <1>7, <1>10, <1>12, TakenOnce
<1>14. ASSUME NEW params PROVE z \in Moves(LowerAt(b, params, i))
  <2>1. /\ LowerAt(b, params, i).clones = cloned(b, b[i], BoundBefore(b, params, i))
        /\ LowerAt(b, params, i).op = b[i].op /\ LowerAt(b, params, i).ys = b[i].ys
        /\ LowerAt(b, params, i).x = b[i].x
    BY DEF LowerAt, Lowered
  <2>2. z \notin cloned(b, b[i], BoundBefore(b, params, i))
    BY <1>10, <1>11, <1>12 DEF cloned
  <2>3. Taken(LowerAt(b, params, i)) = Taken(b[i])
    BY <2>1 DEF Taken
  <2> QED BY <1>7, <1>10, <2>1, <2>2, <2>3 DEF Moves
<1>15. ASSUME NEW j \in DOMAIN b, b[j].op \in Linking, b[j].ys[1] = z PROVE j = i
  BY <1>1, <1>13, <1>15, LinkLoads
<1> QED BY <1>10, <1>13, <1>14, <1>15


-----------------------------------------------------------------------------
(* Python and Rust side by side, on a path through a flat body.              *)

(* After j statements of the path, y is still to be aliased, and o, whose     *)
(* circle y is of, is still to be bound to some list of the circle.           *)
Awaited(b, path, j, o, y) ==
  /\ y \in Names /\ y # o /\ Circle(b, y) = Circle(b, o)
  /\ \E d \in (j + 1) .. Len(path) : b[path[d]].op \in Linking /\ b[path[d]].ys[1] = y
  /\ \E e \in (j + 1) .. Len(path) : b[path[e]].op \in Linking /\ b[path[e]].x = o

(* The list of z was bound to another name, and z to none since. *)
Given(b, path, j, z) ==
  \E d \in 1 .. j : /\ b[path[d]].op \in Linking /\ b[path[d]].ys[1] = z
                    /\ \A e \in d .. j : b[path[e]].op \in Binding => b[path[e]].x # z

(* n is of a pair, and its list has not been given away. *)
Held(b, path, j, n) ==
  \E w, z \in Names : Pair(b, w, z) /\ (n = w \/ (n = z /\ ~ Given(b, path, j, z)))

(* The names whose list in Rust is what it is in Python: those whose list     *)
(* nobody changes, or only they, those that the one name printed may still be *)
(* bound to, and a pair.                                                     *)
Trusted(b, path, j, n) ==
  \/ Quiet(b, n)
  \/ n \notin Shared(b) \cup Changed(b)
  \/ Solo(b, n)
  \/ \E o \in Names : Solo(b, o) /\ Awaited(b, path, j, o, n)
  \/ Held(b, path, j, n)

(* No name of the circle of o, but o, is aliased twice. *)
Forkless(b, o) ==
  \A k, l \in DOMAIN b :
    /\ k # l /\ b[k].op \in Linking /\ b[l].op \in Linking /\ b[k].ys[1] = b[l].ys[1]
    /\ Circle(b, b[k].ys[1]) = Circle(b, o)
    => b[k].ys[1] = o

(* Only one statement binds o to another's list. *)
Joinless(b, o) ==
  \A k, l \in DOMAIN b : b[k].op \in Linking /\ b[l].op \in Linking /\ b[k].x = o /\ b[l].x = o => k = l

RsState(r) == r = [env |-> r.env, out |-> r.out] /\ r.env = [n \in Names |-> r.env[n]]

(* Two names that hold one list are of one circle. *)
Circled(b, p, B) ==
  /\ IsState(p) /\ B \subseteq Names
  /\ \A n \in B : p.env[n] \in 1 .. Len(p.heap)
  /\ \A m, n \in B : m # n /\ p.env[m] = p.env[n] => Circle(b, m) = Circle(b, n)

Agreed(b, path, j, p, r, B) ==
  \A n \in B : Trusted(b, path, j, n) => r.env[n] = p.heap[p.env[n]]

(* What o may still be bound to is not its list now, and no two names wait    *)
(* with one list.                                                            *)
Parted(b, path, j, p, B) ==
  \A o \in Names : Solo(b, o) =>
    /\ \A y \in B : o \in B /\ Awaited(b, path, j, o, y) => p.env[y] # p.env[o]
    /\ Forkless(b, o) =>
         \A y, z \in B : y # z /\ Awaited(b, path, j, o, y) /\ Awaited(b, path, j, o, z) => p.env[y] # p.env[z]

(* A pair has two lists until one is given away. *)
Severed(b, path, j, p, B) ==
  \A w, z \in B : Pair(b, w, z) /\ ~ Given(b, path, j, z) => p.env[w] # p.env[z]

Mirrors(b, path, j, p, r, B) ==
  /\ Circled(b, p, B) /\ RsState(r) /\ r.out = p.out
  /\ Agreed(b, path, j, p, r, B) /\ Parted(b, path, j, p, B) /\ Severed(b, path, j, p, B)

(* What is known of the j-th statement of a path. *)
Running(b, path, j) ==
  /\ Passed(b) /\ Flat(b) /\ Traced(path, b)
  /\ Len(path) \in Nat /\ DOMAIN path = 1 .. Len(path) /\ j \in 1 .. Len(path)
  /\ path[j] \in DOMAIN b /\ Said(b[path[j]]) /\ Typed(b[path[j]])
  /\ \A i \in DOMAIN b : b[i].op = "print" => b[i].x \notin Changed(b)
  /\ \A w, z \in Names : Pair(b, w, z) /\ z \in Uses(b[path[j]]) => ~ Given(b, path, j - 1, z)

(* What is still awaited was awaited before. *)
LEMMA AwaitedBefore ==
  ASSUME NEW b, NEW path, NEW j \in Nat, NEW n, Len(path) \in Nat
  PROVE  \A o : Awaited(b, path, j, o, n) => Awaited(b, path, j - 1, o, n)
<1>1. (j + 1) .. Len(path) \subseteq ((j - 1) + 1) .. Len(path)
  OBVIOUS
<1> QED BY <1>1 DEF Awaited

(* Given stays given, unless bound. *)
LEMMA GivenStays ==
  ASSUME NEW b, NEW path, NEW j \in Nat, NEW z, Given(b, path, j - 1, z),
         b[path[j]].op \in Binding => b[path[j]].x # z
  PROVE  Given(b, path, j, z)
<1>1. PICK d \in 1 .. (j - 1) : /\ b[path[d]].op \in Linking /\ b[path[d]].ys[1] = z
                               /\ \A e \in d .. (j - 1) : b[path[e]].op \in Binding => b[path[e]].x # z
  BY DEF Given
<1>2. d \in 1 .. j /\ \A e \in d .. j : e \in d .. (j - 1) \/ e = j
  OBVIOUS
<1> QED BY <1>1, <1>2 DEF Given

(* What is trusted was trusted before, unless bound now. *)
LEMMA TrustedBefore ==
  ASSUME NEW b, NEW path, NEW j \in Nat, NEW n, Len(path) \in Nat, Trusted(b, path, j, n),
         b[path[j]].op \in Binding => b[path[j]].x # n
  PROVE  Trusted(b, path, j - 1, n)
<1>1. \A o : Awaited(b, path, j, o, n) => Awaited(b, path, j - 1, o, n)
  BY AwaitedBefore
<1>2. Held(b, path, j, n) => Held(b, path, j - 1, n)
  BY GivenStays DEF Held
<1> QED BY <1>1, <1>2 DEF Trusted

(* A circle with a fork in it is joined to o once. *)
LEMMA ForkOrJoin ==
  ASSUME NEW b, Passed(b), NEW o, Solo(b, o)
  PROVE  Forkless(b, o) \/ Joinless(b, o)
<1>1. b \in Seq(Stmts) /\ ~ Rejoined(b) /\ \A i \in DOMAIN b : Said(b[i])
  BY StmtsSaid DEF Passed, Overt
<1>2. SUFFICES ASSUME ~ Forkless(b, o), ~ Joinless(b, o) PROVE FALSE
  OBVIOUS
<1>3. PICK k \in DOMAIN b, l \in DOMAIN b :
        /\ k # l /\ b[k].op \in Linking /\ b[l].op \in Linking /\ b[k].ys[1] = b[l].ys[1]
        /\ Circle(b, b[k].ys[1]) = Circle(b, o) /\ b[k].ys[1] # o
  BY <1>2 DEF Forkless
<1>4. PICK i \in DOMAIN b, j \in DOMAIN b :
        b[i].op \in Linking /\ b[j].op \in Linking /\ b[i].x = o /\ b[j].x = o /\ i # j
  BY <1>2 DEF Joinless
<1>5. o \in collect_obj_mutated(b) /\ \A n : Circle(b, n) = alias_class(b)[n]
  BY SoloIs
<1>6. \E y, z \in Names : b[k].ys = <<y>> /\ b[l].ys = <<z>>
  BY <1>1, <1>3 DEF Said, Linking
<1>7. b[k].ys = b[l].ys /\ b[k].ys[1] \in Names
  BY <1>3, <1>6
<1>8. b[k].ys[1] \in alias_class(b)[o] \ {o}
  BY <1>1, <1>3, <1>5, <1>7, InCircle
<1>9. Rejoined(b)
  BY <1>3, <1>4, <1>5, <1>7, <1>8 DEF Rejoined, Linking
<1> QED BY <1>1, <1>9

(* A statement outside a loop is passed once. *)
LEMMA PassedOnce ==
  ASSUME NEW b, NEW path, Traced(path, b), NEW j \in DOMAIN path, NEW d \in DOMAIN path, j < d,
         b[path[j]].at # "loop", Len(b) \in Nat, path[j] \in 1 .. Len(b)
  PROVE  path[j] # path[d]
<1>1. path[j] < path[d]
  BY DEF Traced, Forward
<1>2. ~ (path[j] < path[j])
  OBVIOUS
<1> QED BY <1>1, <1>2

(* A list of Rust set anew. *)
RsPut(r, x, v) == [r EXCEPT !.env[x] = v]

LEMMA RsSet ==
  ASSUME NEW r, RsState(r), NEW x \in Names, NEW v, NEW t, t = RsPut(r, x, v)
  PROVE  RsState(t) /\ t.out = r.out /\ t.env[x] = v /\ \A n \in Names : n # x => t.env[n] = r.env[n]
<1>1. PICK E, O : E = r.env /\ O = r.out
  OBVIOUS
<1>2. r = [env |-> E, out |-> O] /\ E = [n \in Names |-> E[n]]
  BY <1>1 DEF RsState
<1>3. PICK F : F = [E EXCEPT ![x] = v]
  OBVIOUS
<1>4. t = [env |-> F, out |-> O]
  <2>1. t = [r EXCEPT !.env = F]
    BY <1>1, <1>3 DEF RsPut
  <2> QED BY <1>2, <2>1
<1>5. F = [n \in Names |-> F[n]] /\ F[x] = v /\ \A n \in Names : n # x => F[n] = E[n]
  BY <1>2, <1>3
<1>6. t.env = F /\ t.out = O
  BY <1>4
<1>7. RsState(t)
  BY <1>4, <1>5, <1>6 DEF RsState
<1> QED BY <1>1, <1>5, <1>6, <1>7


(* The statement of Rust does with the same names what that of Python does. *)
SameSay(e, s) == e.op = s.op /\ e.x = s.x /\ e.ys = s.ys

LEMMA NewMirrors ==
  ASSUME NEW b, NEW path, NEW j, Running(b, path, j), NEW s, s = b[path[j]], s.op = "new", NEW e, SameSay(e, s),
         NEW p, NEW r, NEW B, Mirrors(b, path, j - 1, p, r, B)
  PROVE  Mirrors(b, path, j, PyStep(Callees, p, s), RsEffect(r, e), B \cup {s.x})
<1> DEFINE x == s.x
           q == PyStep(Callees, p, s)
           t == RsEffect(r, e)
           h == Len(p.heap)
<1>1. j \in Nat /\ Len(path) \in Nat /\ x \in Names /\ x \in Rows /\ e.op = "new" /\ e.x = x
  BY DEF Running, Flat, Said, SameSay
<1>2. /\ IsState(p) /\ B \subseteq Names /\ p.env \in [Names -> Nat] /\ h \in Nat
      /\ RsState(r) /\ r.out = p.out
  BY DEF Mirrors, Circled, IsState
<1>3. q = Fresh(p, x, <<0>>)
  BY <1>1 DEF PyStep
<1>4. /\ IsState(q) /\ q.out = p.out /\ Len(q.heap) = h + 1
      /\ Rebinds(p, q, x, h + 1) /\ SameCells(p, q, h) /\ q.heap[h + 1] = <<0>>
  <2>1. <<0>> \in Seq(Nat)
    OBVIOUS
  <2> HIDE DEF q
  <2> QED BY <1>1, <1>2, <1>3, <2>1, FreshIs
<1>5. t = RsPut(r, x, <<0>>)
  <2>1. RsStart.env[x] = <<0>>
    BY <1>1 DEF RsStart
  <2> QED BY <1>1, <2>1 DEF RsEffect, RsPut
<1>6. RsState(t) /\ t.out = r.out /\ t.env[x] = <<0>> /\ \A n \in Names : n # x => t.env[n] = r.env[n]
  <2> HIDE DEF t
  <2> QED BY <1>1, <1>2, <1>5, RsSet
<1> HIDE DEF q, t, h, x
<1>7. q.env[x] = h + 1 /\ \A n \in B : n # x => q.env[n] = p.env[n] /\ p.env[n] \in 1 .. h
  BY <1>2, <1>4 DEF Rebinds, Mirrors, Circled, h
<1>8. Circled(b, q, B \cup {x})
  <2>1. \A n \in B \cup {x} : q.env[n] \in 1 .. Len(q.heap)
    BY <1>2, <1>4, <1>7
  <2>2. ASSUME NEW m \in B \cup {x}, NEW n \in B \cup {x}, m # n, q.env[m] = q.env[n]
        PROVE  Circle(b, m) = Circle(b, n)
    <3>1. m # x /\ n # x
      BY <1>2, <1>7, <2>2
    <3> QED BY <1>7, <2>2, <3>1 DEF Mirrors, Circled
  <2> QED BY <1>1, <1>2, <1>4, <2>1, <2>2 DEF Circled
<1>9. Agreed(b, path, j, q, t, B \cup {x})
  <2> SUFFICES ASSUME NEW n \in B \cup {x}, Trusted(b, path, j, n) PROVE t.env[n] = q.heap[q.env[n]]
    BY DEF Agreed
  <2>1. CASE n = x
    BY <1>4, <1>6, <1>7, <2>1
  <2>2. CASE n # x
    <3>1. n \in B /\ n \in Names /\ Trusted(b, path, j - 1, n)
      BY <1>1, <1>2, <2>2, TrustedBefore DEF x
    <3>2. r.env[n] = p.heap[p.env[n]]
      BY <3>1 DEF Mirrors, Agreed
    <3> QED BY <1>4, <1>6, <1>7, <2>2, <3>1, <3>2 DEF SameCells
  <2> QED BY <2>1, <2>2
<1>10. Parted(b, path, j, q, B \cup {x})
  <2> SUFFICES ASSUME NEW o \in Names, Solo(b, o)
               PROVE  /\ \A y \in B \cup {x} : o \in B \cup {x} /\ Awaited(b, path, j, o, y) => q.env[y] # q.env[o]
                      /\ Forkless(b, o) =>
                           \A y, z \in B \cup {x} : y # z /\ Awaited(b, path, j, o, y) /\ Awaited(b, path, j, o, z)
                             => q.env[y] # q.env[z]
    BY DEF Parted
  <2>1. \A y : Awaited(b, path, j, o, y) => Awaited(b, path, j - 1, o, y) /\ y # o
    BY <1>1, AwaitedBefore DEF Awaited
  <2>2. ASSUME NEW y \in B \cup {x}, o \in B \cup {x}, Awaited(b, path, j, o, y) PROVE q.env[y] # q.env[o]
    <3>1. CASE y = x \/ o = x
      BY <1>2, <1>7, <2>1, <2>2, <3>1
    <3>2. CASE y # x /\ o # x
      BY <1>7, <2>1, <2>2, <3>2 DEF Mirrors, Parted
    <3> QED BY <3>1, <3>2
  <2>3. ASSUME Forkless(b, o), NEW y \in B \cup {x}, NEW z \in B \cup {x}, y # z,
               Awaited(b, path, j, o, y), Awaited(b, path, j, o, z)
        PROVE  q.env[y] # q.env[z]
    <3>1. CASE y = x \/ z = x
      BY <1>2, <1>7, <2>3, <3>1
    <3>2. CASE y # x /\ z # x
      BY <1>7, <2>1, <2>3, <3>2 DEF Mirrors, Parted
    <3> QED BY <3>1, <3>2
  <2> QED BY <2>2, <2>3
<1>11. Severed(b, path, j, q, B \cup {x})
  <2> SUFFICES ASSUME NEW w \in B \cup {x}, NEW z \in B \cup {x}, Pair(b, w, z), ~ Given(b, path, j, z)
               PROVE  q.env[w] # q.env[z]
    BY DEF Severed
  <2>1. w # z
    BY DEF Pair
  <2>2. CASE w = x \/ z = x
    BY <1>2, <1>7, <2>1, <2>2
  <2>3. CASE w # x /\ z # x
    <3>1. ~ Given(b, path, j - 1, z)
      BY <1>1, <2>3, GivenStays DEF x
    <3> QED BY <1>7, <2>3, <3>1 DEF Mirrors, Severed
  <2> QED BY <2>2, <2>3
<1> QED BY <1>2, <1>4, <1>6, <1>8, <1>9, <1>10, <1>11 DEF Mirrors, q, t, x

(* A statement that binds x to the list of y. *)
LEMMA LinkIs ==
  ASSUME NEW b, NEW path, NEW j, Running(b, path, j), NEW s, s = b[path[j]], s.op \in Linking
  PROVE  /\ j \in Nat /\ j \in DOMAIN path /\ Len(path) \in Nat /\ Len(b) \in Nat /\ DOMAIN b = 1 .. Len(b)
         /\ s.x \in Names /\ s.ys[1] \in Names /\ s.x # s.ys[1]
         /\ s.x \in Shared(b) /\ s.ys[1] \in Shared(b)
         /\ Circle(b, s.x) = Circle(b, s.ys[1])
<1>1. /\ Passed(b) /\ j \in Nat /\ j \in DOMAIN path /\ Len(path) \in Nat /\ path[j] \in DOMAIN b /\ Said(s)
      /\ b \in Seq(Stmts)
  BY DEF Running, Passed
<1>2. Len(b) \in Nat /\ DOMAIN b = 1 .. Len(b)
  BY <1>1, StmtsSaid
<1>3. 1 \in DOMAIN s.ys
  BY <1>1 DEF Said, Linking
<1>4. /\ s.x \in Shared(b) /\ s.ys[1] \in Shared(b)
      /\ s.x \in Names /\ s.ys[1] \in Names /\ s.ys[1] # s.x
      /\ Circle(b, s.x) = Circle(b, s.ys[1])
  BY <1>1, <1>3, CircleLinks DEF Linking
<1> QED BY <1>1, <1>2, <1>4

LEMMA LinkUses ==
  ASSUME NEW b, NEW path, NEW j, Running(b, path, j), NEW s, s = b[path[j]], s.op \in Linking
  PROVE  s.ys[1] \in Uses(s)
<1>1. ToSet(s.ys) = {s.ys[1]}
  BY LinkLoads DEF Running
<1> QED BY <1>1 DEF Uses

(* In the circle of o, who is aliased now is not aliased again. *)
LEMMA AliasedOnce ==
  ASSUME NEW b, NEW path, NEW j, Running(b, path, j), NEW s, s = b[path[j]], s.op \in Linking,
         NEW o, Solo(b, o), Circle(b, s.ys[1]) = Circle(b, o), s.ys[1] # o, Forkless(b, o)
  PROVE  ~ Awaited(b, path, j, o, s.ys[1])
<1> SUFFICES ASSUME NEW d \in (j + 1) .. Len(path), b[path[d]].op \in Linking, b[path[d]].ys[1] = s.ys[1]
             PROVE  FALSE
  BY DEF Awaited
<1>1. /\ Passed(b) /\ Traced(path, b) /\ path[j] \in DOMAIN b /\ j \in Nat /\ Len(path) \in Nat
      /\ DOMAIN path = 1 .. Len(path) /\ j \in DOMAIN path /\ Len(b) \in Nat /\ DOMAIN b = 1 .. Len(b)
  BY LinkIs DEF Running
<1>2. d \in DOMAIN path /\ j < d
  BY <1>1
<1>3. path[d] \in DOMAIN b
  BY <1>1, <1>2 DEF Traced, PlacesOf
<1>4. b[path[j]].at # "loop"
  BY <1>1, SoloIs
<1>5. path[j] # path[d]
  BY <1>1, <1>2, <1>4, PassedOnce
<1> QED BY <1>1, <1>3, <1>5 DEF Forkless

(* If o is bound now and will be again, its circle has no fork. *)
LEMMA JoinedAgain ==
  ASSUME NEW b, NEW path, NEW j, Running(b, path, j), NEW s, s = b[path[j]], s.op \in Linking,
         Solo(b, s.x), NEW z, Awaited(b, path, j, s.x, z)
  PROVE  Forkless(b, s.x)
<1>1. /\ Passed(b) /\ Traced(path, b) /\ path[j] \in DOMAIN b /\ j \in Nat /\ Len(path) \in Nat
      /\ DOMAIN path = 1 .. Len(path) /\ j \in DOMAIN path /\ Len(b) \in Nat /\ DOMAIN b = 1 .. Len(b)
      /\ s.x # s.ys[1] /\ Circle(b, s.x) = Circle(b, s.ys[1])
  BY LinkIs DEF Running
<1>2. PICK d \in (j + 1) .. Len(path) : b[path[d]].op \in Linking /\ b[path[d]].x = s.x
  BY DEF Awaited
<1>3. d \in DOMAIN path /\ j < d
  BY <1>1
<1>4. path[d] \in DOMAIN b
  BY <1>1, <1>3 DEF Traced, PlacesOf
<1>5. b[path[j]].at # "loop"
  BY <1>1, SoloIs
<1>6. path[j] # path[d]
  BY <1>1, <1>3, <1>5, PassedOnce
<1>7. ~ Joinless(b, s.x)
  BY <1>1, <1>2, <1>4, <1>6 DEF Joinless
<1> QED BY <1>1, <1>7, ForkOrJoin

(* If x is awaited after it was bound to the list of y, y was before. *)
LEMMA AwaitedThrough ==
  ASSUME NEW b, NEW path, NEW j, Running(b, path, j), NEW s, s = b[path[j]], s.op \in Linking,
         NEW o, Solo(b, o), Awaited(b, path, j, o, s.x)
  PROVE  s.ys[1] # o /\ Awaited(b, path, j - 1, o, s.ys[1])
<1>1. /\ Passed(b) /\ Traced(path, b) /\ path[j] \in DOMAIN b /\ j \in Nat /\ Len(path) \in Nat
      /\ DOMAIN path = 1 .. Len(path) /\ j \in 1 .. Len(path)
      /\ s.ys[1] \in Names /\ Circle(b, s.x) = Circle(b, s.ys[1])
  BY LinkIs DEF Running
<1>2. PICK d \in (j + 1) .. Len(path) : b[path[d]].op \in Linking /\ b[path[d]].ys[1] = s.x
  BY DEF Awaited
<1>3. path[d] \in DOMAIN b
  <2>1. d \in DOMAIN path
    BY <1>1
  <2> QED BY <1>1, <2>1 DEF Traced, PlacesOf
<1>4. s.ys[1] # o
  BY <1>1, <1>2, <1>3, SoloIs
<1>5. j \in ((j - 1) + 1) .. Len(path) /\ (j + 1) .. Len(path) \subseteq ((j - 1) + 1) .. Len(path)
  BY <1>1
<1>6. Awaited(b, path, j - 1, o, s.ys[1])
  BY <1>1, <1>4, <1>5 DEF Awaited
<1> QED BY <1>4, <1>6

(* If x is trusted after it was bound to the list of y, y was before. *)
LEMMA TrustedThrough ==
  ASSUME NEW b, NEW path, NEW j, Running(b, path, j), NEW s, s = b[path[j]], s.op \in Linking,
         Trusted(b, path, j, s.x)
  PROVE  Trusted(b, path, j - 1, s.ys[1])
<1>1. /\ j \in Nat /\ j \in 1 .. Len(path) /\ Len(path) \in Nat /\ s.x \in Names /\ s.ys[1] \in Names /\ s.x # s.ys[1]
      /\ s.x \in Shared(b) /\ Circle(b, s.x) = Circle(b, s.ys[1])
  BY LinkIs DEF Running
<1>2. CASE Quiet(b, s.x)
  <2>1. Quiet(b, s.ys[1])
    BY <1>1, <1>2 DEF Quiet
  <2> QED BY <2>1 DEF Trusted
<1>3. CASE Solo(b, s.x)
  <2>1. j \in ((j - 1) + 1) .. Len(path)
    BY <1>1
  <2>2. Awaited(b, path, j - 1, s.x, s.ys[1])
    BY <1>1, <2>1 DEF Awaited
  <2> QED BY <1>1, <1>3, <2>2 DEF Trusted
<1>4. CASE \E o \in Names : Solo(b, o) /\ Awaited(b, path, j, o, s.x)
  <2>1. PICK o \in Names : Solo(b, o) /\ Awaited(b, path, j, o, s.x)
    BY <1>4
  <2>2. Awaited(b, path, j - 1, o, s.ys[1])
    BY <2>1, AwaitedThrough
  <2> QED BY <2>1, <2>2 DEF Trusted
<1>5. CASE Held(b, path, j, s.x)
  <2>1. PICK w, z \in Names : Pair(b, w, z) /\ s.x \in {w, z}
    BY <1>5 DEF Held
  <2>2. Circle(b, s.x) = Circle(b, w)
    BY <2>1 DEF Pair
  <2>3. Passed(b) /\ path[j] \in DOMAIN b /\ (z \in Uses(s) => ~ Given(b, path, j - 1, z))
    BY <2>1 DEF Running
  <2>4. s.ys[1] = z
    BY <2>1, <2>2, <2>3, PairIs
  <2>5. s.ys[1] \in Uses(s)
    BY LinkUses
  <2>6. Held(b, path, j - 1, s.ys[1])
    BY <2>1, <2>3, <2>4, <2>5 DEF Held
  <2> QED BY <2>6 DEF Trusted
<1> QED BY <1>1, <1>2, <1>3, <1>4, <1>5 DEF Trusted


LEMMA LinkMirrors ==
  ASSUME NEW b, NEW path, NEW j, Running(b, path, j), NEW s, s = b[path[j]], s.op \in Linking, NEW e, SameSay(e, s),
         NEW p, NEW r, NEW B, Mirrors(b, path, j - 1, p, r, B), s.ys[1] \in B
  PROVE  Mirrors(b, path, j, PyStep(Callees, p, s), RsEffect(r, e), B \cup {s.x})
<1> DEFINE x == s.x
           y == s.ys[1]
           q == PyStep(Callees, p, s)
           t == RsEffect(r, e)
<1>1. /\ j \in Nat /\ Len(path) \in Nat /\ x \in Names /\ y \in Names /\ x # y /\ x \in Shared(b)
      /\ Circle(b, x) = Circle(b, y) /\ e.op \in Linking /\ e.x = x /\ e.ys[1] = y /\ Passed(b)
  BY LinkIs DEF SameSay, Running
<1>2. /\ IsState(p) /\ B \subseteq Names /\ p.env \in [Names -> Nat]
      /\ RsState(r) /\ r.out = p.out /\ Circled(b, p, B) /\ y \in B
  BY DEF Mirrors, Circled, IsState
<1>3. IsState(q) /\ q.out = p.out /\ q.heap = p.heap /\ Rebinds(p, q, x, p.env[y])
  <2>1. q = PyPut(p, x, p.env[y])
    BY DEF PyStep, PyPut, Linking
  <2>2. p.env[y] \in Nat
    BY <1>1, <1>2
  <2>3. IsState(p) /\ x \in Names
    BY <1>1, <1>2
  <2> HIDE DEF q, x, y
  <2> QED BY <2>1, <2>2, <2>3, BoundIs
<1>4. RsState(t) /\ t.out = r.out /\ t.env[x] = r.env[y] /\ \A n \in Names : n # x => t.env[n] = r.env[n]
  <2>1. t = RsPut(r, x, r.env[y])
    BY <1>1 DEF RsEffect, RsPut, Linking
  <2> HIDE DEF t, x, y
  <2> QED BY <1>1, <1>2, <2>1, RsSet
<1> HIDE DEF q, t
<1>5. q.env[x] = p.env[y] /\ \A n \in Names : n # x => q.env[n] = p.env[n]
  BY <1>3 DEF Rebinds
<1>6. Circled(b, q, B \cup {x})
  <2>1. \A n \in B \cup {x} : q.env[n] \in 1 .. Len(q.heap)
    BY <1>2, <1>3, <1>5 DEF Circled
  <2>2. ASSUME NEW m \in B \cup {x}, NEW n \in B \cup {x}, m # n, q.env[m] = q.env[n]
        PROVE  Circle(b, m) = Circle(b, n)
    <3>1. CASE m = x
      <4>1. n \in B /\ p.env[n] = p.env[y]
        BY <1>2, <1>5, <2>2, <3>1
      <4> QED BY <1>1, <1>2, <3>1, <4>1 DEF Circled
    <3>2. CASE n = x
      <4>1. m \in B /\ p.env[m] = p.env[y]
        BY <1>2, <1>5, <2>2, <3>2
      <4> QED BY <1>1, <1>2, <3>2, <4>1 DEF Circled
    <3>3. CASE m # x /\ n # x
      BY <1>2, <1>5, <2>2, <3>3 DEF Circled
    <3> QED BY <3>1, <3>2, <3>3
  <2> HIDE DEF x
  <2> QED BY <1>1, <1>2, <1>3, <2>1, <2>2 DEF Circled
<1>7. Agreed(b, path, j, q, t, B \cup {x})
  <2> SUFFICES ASSUME NEW n \in B \cup {x}, Trusted(b, path, j, n) PROVE t.env[n] = q.heap[q.env[n]]
    BY DEF Agreed
  <2>1. CASE n = x
    <3>1. Trusted(b, path, j - 1, y)
      BY <2>1, TrustedThrough
    <3>2. r.env[y] = p.heap[p.env[y]]
      BY <1>2, <3>1 DEF Mirrors, Agreed
    <3> QED BY <1>3, <1>4, <1>5, <2>1, <3>2
  <2>2. CASE n # x
    <3>1. n \in B /\ n \in Names /\ Trusted(b, path, j - 1, n)
      BY <1>1, <1>2, <2>2, TrustedBefore
    <3>2. r.env[n] = p.heap[p.env[n]]
      BY <3>1 DEF Mirrors, Agreed
    <3> QED BY <1>3, <1>4, <1>5, <2>2, <3>1, <3>2
  <2> QED BY <2>1, <2>2
<1>8. Parted(b, path, j, q, B \cup {x})
  <2> SUFFICES ASSUME NEW o \in Names, Solo(b, o)
               PROVE  /\ \A z \in B \cup {x} : o \in B \cup {x} /\ Awaited(b, path, j, o, z) => q.env[z] # q.env[o]
                      /\ Forkless(b, o) =>
                           \A z, w \in B \cup {x} : z # w /\ Awaited(b, path, j, o, z) /\ Awaited(b, path, j, o, w)
                             => q.env[z] # q.env[w]
    BY DEF Parted
  <2>1. \A z : Awaited(b, path, j, o, z) => Awaited(b, path, j - 1, o, z) /\ z # o /\ z \in Names /\ Circle(b, z) = Circle(b, o)
    BY <1>1, AwaitedBefore DEF Awaited
  <2>2. Awaited(b, path, j, o, x) => y # o /\ Awaited(b, path, j - 1, o, y)
    BY AwaitedThrough
  <2>3. ASSUME Forkless(b, o), NEW z, Awaited(b, path, j, o, z), Awaited(b, path, j - 1, o, y) PROVE z # y
    <3>1. y # o /\ Circle(b, y) = Circle(b, o)
      BY <2>3 DEF Awaited
    <3> QED BY <2>3, <3>1, AliasedOnce
  <2>4. ASSUME NEW z \in B, NEW w \in B, z # w, Forkless(b, o), Awaited(b, path, j - 1, o, z), Awaited(b, path, j - 1, o, w)
        PROVE  p.env[z] # p.env[w]
    BY <2>4 DEF Mirrors, Parted
  <2>5. ASSUME NEW z \in B, o \in B, Awaited(b, path, j - 1, o, z) PROVE p.env[z] # p.env[o]
    BY <2>5 DEF Mirrors, Parted
  <2>6. ASSUME NEW z \in B \cup {x}, o \in B \cup {x}, Awaited(b, path, j, o, z) PROVE q.env[z] # q.env[o]
    <3>1. CASE z = x
      <4>1. o # x /\ o \in B /\ Awaited(b, path, j - 1, o, y)
        BY <2>1, <2>2, <2>6, <3>1
      <4> QED BY <1>2, <1>5, <2>5, <3>1, <4>1
    <3>2. CASE o = x
      <4>1. z # x /\ z \in B /\ Awaited(b, path, j - 1, o, z) /\ Forkless(b, o)
        BY <2>1, <2>6, <3>2, JoinedAgain
      <4>2. Awaited(b, path, j - 1, o, y)
        <5>1. \E d \in ((j - 1) + 1) .. Len(path) : b[path[d]].op \in Linking /\ b[path[d]].ys[1] = y
          <6>1. j \in ((j - 1) + 1) .. Len(path)
            BY <1>1 DEF Running
          <6> QED BY <6>1
        <5> QED BY <1>1, <3>2, <4>1, <5>1 DEF Awaited
      <4>3. z # y
        BY <2>3, <2>6, <4>1, <4>2
      <4>4. p.env[z] # p.env[y]
        BY <1>2, <2>4, <4>1, <4>2, <4>3
      <4> QED BY <1>2, <1>5, <3>2, <4>1, <4>4
    <3>3. CASE z # x /\ o # x
      <4>1. z \in B /\ o \in B /\ Awaited(b, path, j - 1, o, z)
        BY <2>1, <2>6, <3>3
      <4> QED BY <1>2, <1>5, <2>5, <3>3, <4>1
    <3> QED BY <3>1, <3>2, <3>3
  <2>7. ASSUME Forkless(b, o), NEW z \in B, z # x, Awaited(b, path, j, o, x), Awaited(b, path, j, o, z)
        PROVE  q.env[x] # q.env[z]
    <3>1. Awaited(b, path, j - 1, o, y) /\ Awaited(b, path, j - 1, o, z) /\ z # y
      BY <2>1, <2>2, <2>3, <2>7
    <3>2. p.env[y] # p.env[z]
      BY <1>2, <2>4, <2>7, <3>1
    <3> QED BY <1>2, <1>5, <2>7, <3>2
  <2>8. ASSUME Forkless(b, o), NEW z \in B \cup {x}, NEW w \in B \cup {x}, z # w,
               Awaited(b, path, j, o, z), Awaited(b, path, j, o, w)
        PROVE  q.env[z] # q.env[w]
    <3>1. CASE z = x
      BY <2>7, <2>8, <3>1
    <3>2. CASE w = x
      BY <2>7, <2>8, <3>2
    <3>3. CASE z # x /\ w # x
      <4>1. z \in B /\ w \in B /\ Awaited(b, path, j - 1, o, z) /\ Awaited(b, path, j - 1, o, w)
        BY <2>1, <2>8, <3>3
      <4> QED BY <1>2, <1>5, <2>4, <2>8, <3>3, <4>1
    <3> QED BY <3>1, <3>2, <3>3
  <2> QED BY <2>6, <2>8
<1>9. Severed(b, path, j, q, B \cup {x})
  <2> SUFFICES ASSUME NEW w \in B \cup {x}, NEW z \in B \cup {x}, Pair(b, w, z), ~ Given(b, path, j, z)
               PROVE  q.env[w] # q.env[z]
    BY DEF Severed
  <2>1. Circle(b, z) = Circle(b, w)
    BY DEF Pair
  <2>2. CASE Circle(b, x) = Circle(b, w)
    <3>1. x = w /\ y = z /\ w # z
      BY <1>1, <2>2, PairIs DEF Running, Pair
    <3>2. Given(b, path, j, z)
      <4>1. j \in 1 .. j /\ \A i \in j .. j : i = j
        BY <1>1 DEF Running
      <4> QED BY <3>1, <4>1 DEF Given
    <3> QED BY <3>2
  <2>3. CASE Circle(b, x) # Circle(b, w)
    <3>1. w # x /\ z # x
      BY <2>1, <2>3
    <3>2. ~ Given(b, path, j - 1, z)
      BY <1>1, <3>1, GivenStays
    <3> QED BY <1>2, <1>5, <3>1, <3>2 DEF Mirrors, Severed
  <2> QED BY <2>2, <2>3
<1> HIDE DEF x, y
<1> QED BY <1>2, <1>3, <1>4, <1>6, <1>7, <1>8, <1>9 DEF Mirrors, q, t, x

(* Who holds the list that is changed now is not trusted, but who changes it. *)
LEMMA ChangeParts ==
  ASSUME NEW b, NEW path, NEW j, Running(b, path, j), NEW s, s = b[path[j]], Changes(s),
         NEW p, NEW r, NEW B, Mirrors(b, path, j - 1, p, r, B), s.x \in B,
         NEW n \in B, n # s.x, Trusted(b, path, j - 1, n)
  PROVE  p.env[n] # p.env[s.x]
<1> SUFFICES ASSUME p.env[n] = p.env[s.x] PROVE FALSE
  OBVIOUS
<1>1. Passed(b) /\ path[j] \in DOMAIN b /\ b \in Seq(Stmts) /\ B \subseteq Names
  BY DEF Running, Passed, Mirrors, Circled
<1>2. Circle(b, s.x) = Circle(b, n)
  BY DEF Mirrors, Circled
<1>3. n \in Shared(b)
  BY <1>1, <1>2, CircleShared
<1>4. ~ Quiet(b, n)
  BY <1>1, <1>2 DEF Quiet
<1>5. ~ Solo(b, n)
  BY <1>1, <1>2, SoloIs
<1>9. ~ Held(b, path, j - 1, n)
  <2> SUFFICES ASSUME NEW w \in Names, NEW z \in Names, Pair(b, w, z),
                      n = w \/ (n = z /\ ~ Given(b, path, j - 1, z))
               PROVE  FALSE
    BY DEF Held
  <2>1. s.x \in {w, z} /\ w # z
    BY <1>1, <1>2 DEF Pair
  <2>2. s.x \in Uses(s)
    BY DEF Changes, Mutations, Uses, Binding
  <2>3. ~ Given(b, path, j - 1, z)
    BY <2>1, <2>2 DEF Running
  <2>4. {n, s.x} = {w, z}
    BY <2>1
  <2> QED BY <2>1, <2>3, <2>4 DEF Mirrors, Severed
<1>6. PICK o \in Names : Solo(b, o) /\ Awaited(b, path, j - 1, o, n)
  BY <1>3, <1>4, <1>5, <1>9 DEF Trusted
<1>7. Circle(b, s.x) = Circle(b, o)
  BY <1>2, <1>6 DEF Awaited
<1>8. s.x = o
  BY <1>1, <1>6, <1>7, SoloIs
<1> QED BY <1>6, <1>8 DEF Mirrors, Parted

(* The list of x written in both, or in Python alone where Rust is not        *)
(* trusted.                                                                  *)
Writes(b, path, j, x, p, q, r, t) ==
  \E c : /\ Rewrites(p, q, p.env[x], c)
         /\ Trusted(b, path, j, x) => t.env[x] = c
         /\ RsState(t) /\ t.out = r.out /\ \A n \in Names : n # x => t.env[n] = r.env[n]

LEMMA RewriteMirrors ==
  ASSUME NEW b, NEW path, NEW j, Running(b, path, j), NEW s, s = b[path[j]], Changes(s),
         NEW p, NEW r, NEW B, Mirrors(b, path, j - 1, p, r, B), s.x \in B,
         NEW q, NEW t, Writes(b, path, j, s.x, p, q, r, t)
  PROVE  Mirrors(b, path, j, q, t, B)
<1>0. PICK c : /\ Rewrites(p, q, p.env[s.x], c)
               /\ Trusted(b, path, j, s.x) => t.env[s.x] = c
               /\ RsState(t) /\ t.out = r.out /\ \A n \in Names : n # s.x => t.env[n] = r.env[n]
  BY DEF Writes
<1>1. /\ j \in Nat /\ Len(path) \in Nat /\ B \subseteq Names /\ Circled(b, p, B) /\ r.out = p.out
      /\ b[path[j]].op \notin Binding
  BY DEF Running, Mirrors, Circled, Changes, Mutations, Binding
<1>2. /\ IsState(q) /\ q.out = p.out /\ q.env = p.env /\ Len(q.heap) = Len(p.heap) /\ q.heap[p.env[s.x]] = c
      /\ \A d \in 1 .. Len(p.heap) : d # p.env[s.x] => q.heap[d] = p.heap[d]
  BY <1>0 DEF Rewrites
<1>3. Circled(b, q, B)
  BY <1>1, <1>2 DEF Circled
<1>4. Agreed(b, path, j, q, t, B)
  <2> SUFFICES ASSUME NEW n \in B, Trusted(b, path, j, n) PROVE t.env[n] = q.heap[q.env[n]]
    BY DEF Agreed
  <2>1. CASE n = s.x
    BY <1>0, <1>2, <2>1
  <2>2. CASE n # s.x
    <3>1. n \in Names /\ Trusted(b, path, j - 1, n) /\ p.env[n] \in 1 .. Len(p.heap)
      BY <1>1, TrustedBefore DEF Circled
    <3>2. p.env[n] # p.env[s.x]
      BY <2>2, <3>1, ChangeParts
    <3>3. r.env[n] = p.heap[p.env[n]]
      BY <3>1 DEF Mirrors, Agreed
    <3> QED BY <1>0, <1>2, <2>2, <3>1, <3>2, <3>3
  <2> QED BY <2>1, <2>2
<1>5. Parted(b, path, j, q, B)
  <2>1. \A o, z : Awaited(b, path, j, o, z) => Awaited(b, path, j - 1, o, z)
    BY <1>1, AwaitedBefore
  <2> QED BY <1>2, <2>1 DEF Parted, Mirrors
<1>6. Severed(b, path, j, q, B)
  <2>1. \A z : ~ Given(b, path, j, z) => ~ Given(b, path, j - 1, z)
    BY <1>1, GivenStays
  <2>2. Severed(b, path, j - 1, p, B)
    BY DEF Mirrors
  <2> QED BY <1>2, <2>1, <2>2 DEF Severed
<1> QED BY <1>0, <1>1, <1>2, <1>3, <1>4, <1>5, <1>6 DEF Mirrors

(* x.append(1) and x[0] = 9. *)
LEMMA WriteMirrors ==
  ASSUME NEW b, NEW path, NEW j, Running(b, path, j), NEW s, s = b[path[j]], s.op \in {"append", "store"},
         NEW e, SameSay(e, s),
         NEW p, NEW r, NEW B, Mirrors(b, path, j - 1, p, r, B), s.x \in B
  PROVE  Mirrors(b, path, j, PyStep(Callees, p, s), RsEffect(r, e), B)
<1> DEFINE x == s.x
           q == PyStep(Callees, p, s)
           t == RsEffect(r, e)
<1>1. /\ j \in Nat /\ Len(path) \in Nat /\ x \in Names /\ x \in Rows /\ e.op = s.op /\ e.x = x
      /\ IsState(p) /\ RsState(r) /\ p.env[x] \in 1 .. Len(p.heap) /\ Changes(s)
  BY DEF Running, Flat, Said, SameSay, Mirrors, Circled, Changes, Mutations
<1>2. Trusted(b, path, j, x) => r.env[x] = p.heap[p.env[x]]
  <2>1. s.op \notin Binding
    BY DEF Binding
  <2> QED BY <1>1, <2>1, TrustedBefore DEF Mirrors, Agreed
<1>3. RowOf(p, x) = p.env[x]
  BY <1>1 DEF RowOf
<1>4. \E c : /\ Rewrites(p, q, p.env[x], c)
             /\ RsState(t) /\ t.out = r.out /\ \A n \in Names : n # x => t.env[n] = r.env[n]
             /\ r.env[x] = p.heap[p.env[x]] => t.env[x] = c
  <2>1. CASE s.op = "append"
    <3>1. q = Grow(p, p.env[x], 1) /\ t = RsPut(r, x, Append(r.env[x], 1))
      BY <1>1, <1>3, <2>1 DEF PyStep, RsEffect, RsPut
    <3>2. PICK c, v : c = Append(p.heap[p.env[x]], 1) /\ v = Append(r.env[x], 1)
      OBVIOUS
    <3>3. Rewrites(p, q, p.env[x], c)
      <4> HIDE DEF q, t
      <4> QED BY <1>1, <3>1, <3>2, GrowIs
    <3>4. RsState(t) /\ t.out = r.out /\ t.env[x] = v /\ \A n \in Names : n # x => t.env[n] = r.env[n]
      <4>1. t = RsPut(r, x, v)
        BY <3>1, <3>2
      <4> HIDE DEF q, t
      <4> QED BY <1>1, <4>1, RsSet
    <3> HIDE DEF q, t
    <3> QED BY <3>2, <3>3, <3>4
  <2>2. CASE s.op = "store"
    <3>1. q = [p EXCEPT !.heap[p.env[x]][1] = 9] /\ t = RsPut(r, x, [r.env[x] EXCEPT ![1] = 9])
      BY <1>1, <1>3, <2>2 DEF PyStep, RsEffect, RsPut
    <3>2. PICK c, v : c = [p.heap[p.env[x]] EXCEPT ![1] = 9] /\ v = [r.env[x] EXCEPT ![1] = 9]
      OBVIOUS
    <3>3. Rewrites(p, q, p.env[x], c)
      <4> HIDE DEF q, t
      <4>1. 9 \in Nat
        OBVIOUS
      <4> QED BY <1>1, <3>1, <3>2, <4>1, PutIs
    <3>4. RsState(t) /\ t.out = r.out /\ t.env[x] = v /\ \A n \in Names : n # x => t.env[n] = r.env[n]
      <4>1. t = RsPut(r, x, v)
        BY <3>1, <3>2
      <4> HIDE DEF q, t
      <4> QED BY <1>1, <4>1, RsSet
    <3> HIDE DEF q, t
    <3> QED BY <3>2, <3>3, <3>4
  <2> QED BY <2>1, <2>2
<1> HIDE DEF q, t
<1>5. Writes(b, path, j, x, p, q, r, t)
  BY <1>2, <1>4 DEF Writes
<1>6. PICK u, w : u = q /\ w = t
  OBVIOUS
<1>7. Mirrors(b, path, j, u, w, B)
  BY <1>1, <1>5, <1>6, RewriteMirrors
<1> QED BY <1>6, <1>7 DEF q, t


(* A call to a function that changes its list, which Rust keeps to itself: no *)
(* name that holds the list is trusted.                                      *)
LEMMA CallMirrors ==
  ASSUME NEW b, NEW path, NEW j, Running(b, path, j), NEW s, s = b[path[j]], s.op = "call", Callees[s.fn].changes,
         NEW e, SameSay(e, s),
         NEW p, NEW r, NEW B, Mirrors(b, path, j - 1, p, r, B), s.x \in B
  PROVE  Mirrors(b, path, j, PyStep(Callees, p, s), RsEffect(r, e), B)
<1> DEFINE x == s.x
           q == PyStep(Callees, p, s)
           t == RsEffect(r, e)
<1>1. /\ j \in Nat /\ Len(path) \in Nat /\ x \in Names /\ x \in Rows /\ e.op = "call" /\ Passed(b) /\ path[j] \in DOMAIN b
      /\ IsState(p) /\ RsState(r) /\ p.env[x] \in 1 .. Len(p.heap) /\ Changes(s) /\ b \in Seq(Stmts) /\ Overt(b)
  BY DEF Running, Flat, Said, SameSay, Mirrors, Circled, Changes, Passed
<1>2. x \in Changed(b) /\ x \notin Shared(b)
  <2>1. x \in Changed(b)
    BY <1>1 DEF Changed
  <2>2. Shared(b) \cap Covert(b) = {}
    BY <1>1 DEF Overt
  <2> QED BY <2>1, <2>2 DEF Covert
<1>3. ~ Trusted(b, path, j, x)
  <2>1. ~ Quiet(b, x) /\ ~ Solo(b, x)
    BY <1>1, <1>2 DEF Quiet, Solo
  <2>2. ASSUME NEW o \in Names, Awaited(b, path, j, o, x) PROVE FALSE
    <3>1. x # o /\ Circle(b, x) = Circle(b, o)
      BY <2>2 DEF Awaited
    <3> QED BY <1>1, <1>2, <3>1, CircleShared
  <2>3. ~ Held(b, path, j, x)
    <3> SUFFICES ASSUME NEW w \in Names, NEW z \in Names, Pair(b, w, z), x \in {w, z} PROVE FALSE
      BY DEF Held
    <3>1. w # z /\ Circle(b, w) = Circle(b, z)
      BY DEF Pair
    <3> QED BY <1>1, <1>2, <3>1, CircleShared
  <2> QED BY <1>2, <2>1, <2>2, <2>3 DEF Trusted
<1>4. q = Grow(p, p.env[x], 5) /\ t = r
  BY <1>1 DEF PyStep, RsEffect, RowOf
<1>5. PICK c : c = Append(p.heap[p.env[x]], 5)
  OBVIOUS
<1>6. Rewrites(p, q, p.env[x], c)
  <2> HIDE DEF q, t
  <2> QED BY <1>1, <1>4, <1>5, GrowIs
<1> HIDE DEF q, t
<1>7. Writes(b, path, j, x, p, q, r, t)
  BY <1>1, <1>3, <1>4, <1>6 DEF Writes
<1>8. PICK u, w : u = q /\ w = t
  OBVIOUS
<1>9. Mirrors(b, path, j, u, w, B)
  BY <1>1, <1>7, <1>8, RewriteMirrors
<1> QED BY <1>8, <1>9 DEF q, t

(* Nothing is bound or changed: what holds before a statement holds after it. *)
LEMMA StillMirrors ==
  ASSUME NEW b, NEW path, NEW j, Running(b, path, j), NEW p, NEW r, NEW B, Mirrors(b, path, j - 1, p, r, B),
         NEW q, IsState(q), q.env = p.env, q.heap = p.heap,
         NEW t, RsState(t), t.env = r.env, t.out = q.out, b[path[j]].op \notin Binding
  PROVE  Mirrors(b, path, j, q, t, B)
<1>1. j \in Nat /\ Len(path) \in Nat
  BY DEF Running
<1>2. \A n : Trusted(b, path, j, n) => Trusted(b, path, j - 1, n)
  BY <1>1, TrustedBefore
<1>3. \A o, z : Awaited(b, path, j, o, z) => Awaited(b, path, j - 1, o, z)
  BY <1>1, AwaitedBefore
<1>4. Agreed(b, path, j, q, t, B)
  BY <1>2 DEF Mirrors, Agreed
<1>5. Parted(b, path, j, q, B)
  BY <1>3 DEF Mirrors, Parted
<1>6. Circled(b, q, B)
  BY DEF Mirrors, Circled
<1>7. Severed(b, path, j, q, B)
  BY <1>1, GivenStays DEF Severed, Mirrors
<1> QED BY <1>4, <1>5, <1>6, <1>7 DEF Mirrors

(* What is printed is trusted. *)
LEMMA PrintMirrors ==
  ASSUME NEW b, NEW path, NEW j, Running(b, path, j), NEW s, s = b[path[j]], s.op = "print",
         NEW e, SameSay(e, s),
         NEW p, NEW r, NEW B, Mirrors(b, path, j - 1, p, r, B), s.x \in B
  PROVE  Mirrors(b, path, j, PyStep(Callees, p, s), RsEffect(r, e), B)
<1> DEFINE x == s.x
           q == PyStep(Callees, p, s)
           t == RsEffect(r, e)
<1>1. /\ x \in Names /\ x \in Rows /\ e.op = "print" /\ e.x = x /\ Passed(b) /\ path[j] \in DOMAIN b
      /\ IsState(p) /\ RsState(r) /\ x \notin Changed(b) /\ p.out = r.out
  BY DEF Running, Flat, Said, SameSay, Mirrors, Circled
<1>2. Trusted(b, path, j - 1, x)
  <2>1. Printed(b, x)
    BY <1>1 DEF Printed
  <2>2. CASE \E z \in Names : Pair(b, x, z)
    BY <1>1, <2>2 DEF Trusted, Held
  <2>3. CASE ~ \E z \in Names : Pair(b, x, z)
    BY <1>1, <2>1, <2>3, PrintedIs DEF Trusted
  <2> QED BY <2>2, <2>3
<1>3. r.env[x] = p.heap[p.env[x]]
  BY <1>2 DEF Mirrors, Agreed
<1>4. PICK o : o = Append(p.out, p.heap[p.env[x]])
  OBVIOUS
<1>5. q = [p EXCEPT !.out = o] /\ t = [r EXCEPT !.out = o]
  <2>1. Shown(p, x) = p.heap[p.env[x]]
    BY <1>1 DEF Shown
  <2>2. q = [p EXCEPT !.out = Append(p.out, Shown(p, x))]
    BY DEF PyStep
  <2>3. t = [r EXCEPT !.out = Append(r.out, r.env[x])]
    BY <1>1 DEF RsEffect
  <2> HIDE DEF q, t
  <2> QED BY <1>1, <1>3, <1>4, <2>1, <2>2, <2>3
<1> HIDE DEF q, t
<1>6. IsState(q) /\ q.env = p.env /\ q.heap = p.heap /\ q.out = o
  <2>1. PICK E, H, O : E = p.env /\ H = p.heap /\ O = p.out
    OBVIOUS
  <2>2. p = [env |-> E, heap |-> H, out |-> O]
    BY <1>1, <2>1 DEF IsState
  <2>3. q = [env |-> E, heap |-> H, out |-> o]
    BY <1>5, <2>2
  <2>4. q.env = E /\ q.heap = H /\ q.out = o
    BY <2>3
  <2> QED BY <1>1, <2>1, <2>3, <2>4 DEF IsState
<1>7. RsState(t) /\ t.env = r.env /\ t.out = o
  <2>1. PICK E, O : E = r.env /\ O = r.out
    OBVIOUS
  <2>2. r = [env |-> E, out |-> O]
    BY <1>1, <2>1 DEF RsState
  <2>3. t = [env |-> E, out |-> o]
    BY <1>5, <2>2
  <2>4. t.env = E /\ t.out = o
    BY <2>3
  <2> QED BY <1>1, <2>1, <2>3, <2>4 DEF RsState
<1>8. PICK u, w : u = q /\ w = t
  OBVIOUS
<1>9. Mirrors(b, path, j, u, w, B)
  <2>1. b[path[j]].op \notin Binding
    BY DEF Binding
  <2> QED BY <1>6, <1>7, <1>8, <2>1, StillMirrors
<1> QED BY <1>8, <1>9 DEF q, t

(* Every statement of a flat body. *)
LEMMA StepMirrors ==
  ASSUME NEW b, NEW path, NEW j, Running(b, path, j), NEW s, s = b[path[j]], NEW e, SameSay(e, s),
         NEW p, NEW r, NEW B, Mirrors(b, path, j - 1, p, r, B), Uses(s) \subseteq B,
         NEW C, C = B \cup (IF s.op \in Binding THEN {s.x} ELSE {})
  PROVE  Mirrors(b, path, j, PyStep(Callees, p, s), RsEffect(r, e), C)
<1>1. Said(s) /\ Typed(s) /\ {s.x} \cup ToSet(s.ys) \subseteq Rows /\ Rows \cap Grids = {} /\ B \subseteq Names
      /\ path[j] \in DOMAIN b
  BY AliasAssumption DEF Running, Flat, Mirrors, Circled
<1>2. CASE s.op = "new"
  <2>1. C = B \cup {s.x}
    BY <1>2 DEF Binding
  <2> QED BY <1>2, <2>1, NewMirrors
<1>3. CASE s.op \in Linking
  <2>1. C = B \cup {s.x}
    BY <1>3 DEF Binding, Linking
  <2>2. s.ys[1] \in B
    <3>1. PICK y \in Names : s.ys = <<y>>
      BY <1>1, <1>3 DEF Said, Linking
    <3>2. y \in ToSet(s.ys)
      BY <3>1 DEF ToSet
    <3> QED BY <3>1, <3>2 DEF Uses
  <2> QED BY <1>3, <2>1, <2>2, LinkMirrors
<1>4. CASE s.op \in {"append", "store"}
  <2>1. C = B /\ s.x \in B
    BY <1>4 DEF Binding, Uses
  <2> QED BY <1>4, <2>1, WriteMirrors
<1>5. CASE s.op = "call" /\ Callees[s.fn].changes
  <2>1. C = B /\ s.x \in B
    BY <1>5 DEF Binding, Uses
  <2> QED BY <1>5, <2>1, CallMirrors
<1>6. CASE s.op = "call" /\ ~ Callees[s.fn].changes
  <2>1. C = B
    BY <1>6 DEF Binding
  <2>2. PyStep(Callees, p, s) = p /\ RsEffect(r, e) = r
    BY <1>6 DEF PyStep, RsEffect, SameSay
  <2>3. IsState(p) /\ RsState(r) /\ r.out = p.out
    BY DEF Mirrors, Circled
  <2>5. s.op \notin Binding
    BY <1>6 DEF Binding
  <2>4. Mirrors(b, path, j, p, r, B)
    BY <2>3, <2>5, StillMirrors
  <2> QED BY <2>1, <2>2, <2>4
<1>7. CASE s.op = "print"
  <2>1. C = B /\ s.x \in B
    BY <1>7 DEF Binding, Uses
  <2> QED BY <1>7, <2>1, PrintMirrors
<1>8. s.op \notin {"grid", "embed", "rowappend", "rowstore"}
  BY <1>1 DEF Typed
<1>9. CASE s.op = "elem"
  <2>1. PICK y \in Names : s.ys = <<y>>
    BY <1>1, <1>9 DEF Said
  <2>2. y \in Rows /\ y \in Grids
    BY <1>1, <1>9, <2>1 DEF Typed, ToSet
  <2> QED BY <1>1, <2>2
<1> QED BY <1>1, <1>2, <1>3, <1>4, <1>5, <1>6, <1>7, <1>8, <1>9 DEF Said, Linking


(* A statement and what it is lowered to say the same. *)
LEMMA LoweredSame ==
  ASSUME NEW b, NEW params, NEW i
  PROVE  SameSay(LowerAt(b, params, i), b[i])
BY DEF LowerAt, Lowered, SameSay

(* Bodies whose blocks stand alike are run alike. *)
LEMMA PathSame ==
  ASSUME NEW b, Len(b) \in Nat, DOMAIN b = 1 .. Len(b),
         NEW es, Len(es) = Len(b), DOMAIN es = 1 .. Len(b), \A i \in 1 .. Len(b) : es[i].at = b[i].at, NEW k
  PROVE  Path(es, k) = Path(b, k)
<1>1. PICK N \in Nat : N = Len(b) /\ N = Len(es)
  OBVIOUS
<1>2. InBlock(es) = InBlock(b) /\ InBlock(b) \in SUBSET (1 .. N) /\ InBlock(b) \in SUBSET Nat
  BY <1>1 DEF InBlock
<1>3. CASE InBlock(b) = {}
  BY <1>1, <1>2, <1>3 DEF Path
<1>4. CASE InBlock(b) # {}
  <2> DEFINE first == CHOOSE i \in InBlock(b) : \A j \in InBlock(b) : i <= j
             last  == CHOOSE i \in InBlock(b) : \A j \in InBlock(b) : j <= i
             fork(c) == CHOOSE i \in first .. last : /\ c[i].at = c[first].at
                                                     /\ \A j \in (i + 1) .. last : c[j].at = "else"
             block(c) == CASE c[first].at = "if" /\ k = 0   -> Places(fork(c) + 1, last)
                           [] c[first].at = "loop" /\ k = 0 -> <<>>
                           [] c[first].at = "loop" /\ k = 2 -> Places(first, last) \o Places(first, last)
                           [] OTHER -> Places(first, fork(c))
  <2>1. /\ Path(b, k) = Places(1, first - 1) \o block(b) \o Places(last + 1, Len(b))
        /\ Path(es, k) = Places(1, first - 1) \o block(es) \o Places(last + 1, Len(es))
    BY <1>2, <1>4 DEF Path
  <2>2. first \in InBlock(b) /\ last \in InBlock(b)
    <3>1. \E i \in InBlock(b) : \A j \in InBlock(b) : i <= j
      BY <1>2, <1>4, Least
    <3>2. \E i \in InBlock(b) : \A j \in InBlock(b) : j <= i
      BY <1>2, <1>4, Greatest
    <3> QED BY <3>1, <3>2
  <2> HIDE DEF first, last
  <2>3. first \in 1 .. N /\ last \in 1 .. N
    BY <1>2, <2>2
  <2>4. es[first].at = b[first].at /\ \A i \in first .. last : /\ es[i].at = b[i].at
                                   /\ \A j \in (i + 1) .. last : es[j].at = b[j].at
    BY <1>1, <2>3
  <2>5. fork(es) = fork(b)
    BY <2>4
  <2> HIDE DEF fork
  <2>6. block(es) = block(b)
    BY <2>4, <2>5
  <2> HIDE DEF block
  <2> QED BY <1>1, <2>1, <2>6
<1> QED BY <1>3, <1>4

(* A name that is printed is passed to no function that changes its list: it  *)
(* is read again, so the call would be passed a clone.                        *)
LEMMA PrintedKept ==
  ASSUME NEW b \in Seq(Stmts), Overt(b), NEW params, NEW es, LoweredTo(es, b, params, Len(b)),
         ~ alias_then_mutate(es), NEW i \in DOMAIN b, b[i].op = "print"
  PROVE  b[i].x \notin Changed(b)
<1>1. Len(b) \in Nat /\ DOMAIN b = 1 .. Len(b) /\ Said(b[i])
  BY StmtsSaid
<1> SUFFICES ASSUME NEW j \in DOMAIN b, b[j].op = "call", Callees[b[j].fn].changes, b[j].x = b[i].x
             PROVE  FALSE
  BY DEF Changed
<1>2. Callees[b[j].fn].marked
  BY DEF Overt
<1>3. Len(es) = Len(b) /\ DOMAIN es = 1 .. Len(b) /\ es[j] = LowerAt(b, params, j)
  BY <1>1, LoweredSays
<1>4. /\ es[j].op = "call" /\ es[j].fn = b[j].fn /\ es[j].x = b[j].x
      /\ es[j].clones = cloned(b, b[j], BoundBefore(b, params, j))
  BY <1>3 DEF LowerAt, Lowered
<1>5. b[j].x \notin cloned(b, b[j], BoundBefore(b, params, j))
  BY <1>1, <1>2, <1>3, <1>4 DEF alias_then_mutate
<1>6. b[j].x \in Taken(b[j]) /\ ~ reread(b, b[j].x)
  BY <1>5 DEF cloned, Taken
<1>7. 1 \in DOMAIN Loads(b[i]) /\ Loads(b[i])[1] = b[i].x
  <2>1. b[i].ys = <<>> /\ Loads(b[i]) = <<b[i].x>> \o b[i].ys
    BY <1>1 DEF Said, Loads
  <2>2. Loads(b[i]) = <<b[i].x>>
    BY <2>1
  <2> QED BY <2>2
<1>8. i # j
  OBVIOUS
<1> QED BY <1>6, <1>7, <1>8, TakenOnce

(* A path uses what its statements have not given away. *)
LEMMA NotGiven ==
  ASSUME NEW b, Passed(b), NEW params, NEW es, LoweredTo(es, b, params, Len(b)), NEW k, Compiles(es), k \in Runs,
         NEW path, path = Path(es, k), DOMAIN path = 1 .. Len(path), Len(path) \in Nat,
         \A d \in DOMAIN path : path[d] \in DOMAIN b,
         NEW j \in DOMAIN path, NEW w \in Names, NEW z \in Names, Pair(b, w, z), z \in Uses(b[path[j]])
  PROVE  ~ Given(b, path, j - 1, z)
<1>1. b \in Seq(Stmts) /\ Len(b) \in Nat /\ DOMAIN b = 1 .. Len(b) /\ \A i \in DOMAIN b : Said(b[i])
  BY StmtsSaid DEF Passed
<1>2. /\ Len(es) = Len(b) /\ DOMAIN es = 1 .. Len(b)
      /\ \A i \in 1 .. Len(b) : /\ es[i] = LowerAt(b, params, i)
                                /\ es[i].op = b[i].op /\ es[i].x = b[i].x /\ Uses(es[i]) = Uses(b[i])
  BY <1>1, LoweredSays
<1>3. PICK run : run = Unrolled(es, k)
  OBVIOUS
<1>4. DOMAIN run = DOMAIN path /\ \A d \in DOMAIN path : run[d] = es[path[d]]
  BY <1>3 DEF Unrolled
<1>5. Uses(run[j]) \cap MovedAway(run, j) = {}
  BY <1>3, <1>4 DEF Compiles
<1>6. z \notin MovedAway(run, j)
  BY <1>1, <1>2, <1>4, <1>5
<1> SUFFICES ASSUME NEW d \in 1 .. (j - 1), b[path[d]].op \in Linking, b[path[d]].ys[1] = z,
                    \A e \in d .. (j - 1) : b[path[e]].op \in Binding => b[path[e]].x # z
             PROVE  FALSE
  BY DEF Given
<1>7. d \in DOMAIN path /\ j \in Nat /\ \A e \in d .. (j - 1) : e \in DOMAIN path
  OBVIOUS
<1>8. Circle(b, b[path[d]].x) = Circle(b, w)
  <2>1. 1 \in DOMAIN b[path[d]].ys
    BY <1>1, <1>7 DEF Said, Linking
  <2>2. Circle(b, b[path[d]].x) = Circle(b, z)
    BY <1>1, <1>7, <2>1, CircleLinks DEF Linking
  <2> QED BY <2>2 DEF Pair
<1>9. z \in Moves(LowerAt(b, params, path[d]))
  BY <1>7, <1>8, PairIs
<1>10. z \in Moves(run[d])
  BY <1>1, <1>2, <1>4, <1>7, <1>9
<1>11. \A e \in d .. (j - 1) : run[e].op \in Binding => run[e].x # z
  BY <1>1, <1>2, <1>4, <1>7
<1> QED BY <1>6, <1>10, <1>11 DEF MovedAway

(* Along a path of a flat body, the Rust emitted for it prints what Python     *)
(* prints.                                                                   *)
LEMMA PathMirrors ==
  ASSUME NEW b, Passed(b), Flat(b), Laid(b), NEW params \in SUBSET Rows, \A q, v \in params : q = v,
         Bounded(b, params), Supplied(b, params), NEW k \in Runs,
         NEW es, LoweredTo(es, b, params, Len(b)), Compiles(es),
         \A i \in DOMAIN b : b[i].op = "print" => b[i].x \notin Changed(b)
  PROVE  PyRun(Callees, b, k).out = RsRun(es, k).out
<1>1. Len(b) \in Nat /\ DOMAIN b = 1 .. Len(b) /\ b \in Seq(Stmts)
      /\ \A i \in DOMAIN b : Said(b[i]) /\ b[i] \in Stmts
  BY StmtsSaid DEF Passed
<1>2. /\ Len(es) = Len(b) /\ DOMAIN es = 1 .. Len(b)
      /\ \A i \in 1 .. Len(b) : es[i] = LowerAt(b, params, i) /\ es[i].at = b[i].at
  BY <1>1, LoweredSays
<1>3. PICK path : path = Path(b, k)
  OBVIOUS
<1>4. PICK n \in Nat : n = Len(path)
  BY <1>1, <1>3, PathRuns
<1>5. /\ Traced(path, b) /\ DOMAIN path = 1 .. n /\ Len(Unrolled(b, k)) = n
      /\ \A j \in 1 .. n : path[j] \in DOMAIN b /\ Unrolled(b, k)[j] = b[path[j]]
  BY <1>1, <1>3, <1>4, PathRuns
<1>6. Unrolled(es, k) = [j \in 1 .. n |-> es[path[j]]]
  <2>1. path = Path(es, k)
    BY <1>1, <1>2, <1>3, PathSame
  <2> QED BY <1>5, <2>1 DEF Unrolled
<1>7. Len(Unrolled(es, k)) = n /\ \A j \in 1 .. n : Unrolled(es, k)[j] = es[path[j]]
  BY <1>4, <1>6
<1>8. PICK f : /\ PyRun(Callees, b, k) = f[n] /\ f[0] = PyStart
               /\ \A j \in 1 .. n : f[j] = PyStep(Callees, f[j - 1], b[path[j]])
  BY <1>4, <1>5, PyRunIs
<1>9. PICK g : /\ RsRun(es, k) = g[n] /\ g[0] = RsStart
               /\ \A j \in 1 .. n : g[j] = RsEffect(g[j - 1], es[path[j]])
  BY <1>4, <1>7, RsRunIs
<1> DEFINE B(j) == BoundAt(b, params, path, j)
           T == {j \in 0 .. n : ~ Mirrors(b, path, j, f[j], g[j], B(j))}
<1>10. Mirrors(b, path, 0, f[0], g[0], B(0))
  <2>1. B(0) = params
    BY DEF BoundAt
  <2>2. PICK E, H : E = [m \in Names |-> IF m \in Rows THEN 1 ELSE 2] /\ H = <<<<0>>, <<1>>>>
    OBVIOUS
  <2>3. PyStart = [env |-> E, heap |-> H, out |-> <<>>]
    BY <2>2 DEF PyStart
  <2>4. PyStart.env = E /\ PyStart.heap = H /\ PyStart.out = <<>>
    BY <2>3
  <2>5. E \in [Names -> Nat] /\ H \in Seq(Seq(Nat))
    BY <2>2
  <2>6. IsState(PyStart)
    BY <2>3, <2>4, <2>5 DEF IsState
  <2>7. PICK F : F = [m \in Names |-> IF m \in Rows THEN <<0>> ELSE <<<<0>>>>]
    OBVIOUS
  <2>8. RsStart = [env |-> F, out |-> <<>>]
    BY <2>7 DEF RsStart
  <2>9. RsStart.env = F /\ RsStart.out = <<>> /\ F = [m \in Names |-> F[m]]
    BY <2>7, <2>8
  <2>10. RsState(RsStart)
    BY <2>8, <2>9 DEF RsState
  <2>11. params \subseteq Names
    BY DEF Names
  <2>12. \A q \in params : E[q] = 1 /\ F[q] = <<0>> /\ H[1] = <<0>> /\ Len(H) = 2
    BY <2>2, <2>7, <2>11
  <2> HIDE DEF B
  <2>13. Circled(b, f[0], B(0))
    BY <1>8, <2>1, <2>4, <2>6, <2>11, <2>12 DEF Circled
  <2>14. Agreed(b, path, 0, f[0], g[0], B(0))
    BY <1>8, <1>9, <2>1, <2>4, <2>9, <2>12 DEF Agreed
  <2>15. Parted(b, path, 0, f[0], B(0))
    BY <2>1 DEF Parted, Awaited
  <2>16. Severed(b, path, 0, f[0], B(0))
    BY <2>1 DEF Severed, Pair
  <2> QED BY <1>8, <1>9, <2>4, <2>9, <2>10, <2>13, <2>14, <2>15, <2>16 DEF Mirrors
<1>11. ASSUME NEW j \in 1 .. n, Mirrors(b, path, j - 1, f[j - 1], g[j - 1], B(j - 1))
       PROVE  Mirrors(b, path, j, f[j], g[j], B(j))
  <2>1. path[j] \in DOMAIN b /\ f[j] = PyStep(Callees, f[j - 1], b[path[j]])
        /\ g[j] = RsEffect(g[j - 1], es[path[j]])
    BY <1>5, <1>8, <1>9
  <2>2. Uses(b[path[j]]) \subseteq B(j - 1)
    BY <1>1, <1>5, UsesBound
  <2>3. B(j) = B(j - 1) \cup (IF b[path[j]].op \in Binding THEN {b[path[j]].x} ELSE {})
    <3>1. 1 .. j = 1 .. (j - 1) \cup {j}
      BY <1>4
    <3> QED BY <3>1 DEF BoundAt
  <2>4. SameSay(es[path[j]], b[path[j]])
    BY <1>1, <1>2, <2>1, LoweredSame
  <2>5. Typed(b[path[j]])
    BY <1>1, <2>1, TypedAll
  <2>6. Running(b, path, j)
    <3>1. path = Path(es, k)
      BY <1>1, <1>2, <1>3, PathSame
    <3>2. j \in DOMAIN path /\ DOMAIN path = 1 .. Len(path) /\ Len(path) \in Nat
          /\ \A d \in DOMAIN path : path[d] \in DOMAIN b
      BY <1>4, <1>5
    <3>3. \A w, z \in Names : Pair(b, w, z) /\ z \in Uses(b[path[j]]) => ~ Given(b, path, j - 1, z)
      BY <3>1, <3>2, NotGiven
    <3> QED BY <1>1, <1>4, <1>5, <2>1, <2>5, <3>3 DEF Running
  <2> HIDE DEF B
  <2>7. PICK s, e, p, r, C, D : /\ s = b[path[j]] /\ e = es[path[j]] /\ p = f[j - 1] /\ r = g[j - 1]
                                /\ C = B(j - 1) /\ D = B(j)
    OBVIOUS
  <2>8. Mirrors(b, path, j, PyStep(Callees, p, s), RsEffect(r, e), D)
    BY <1>11, <2>2, <2>3, <2>4, <2>6, <2>7, StepMirrors
  <2> QED BY <2>1, <2>7, <2>8
<1>12. T = {}
  <2> SUFFICES ASSUME T # {} PROVE FALSE
    OBVIOUS
  <2> HIDE DEF B
  <2>1. T \in SUBSET Nat
    OBVIOUS
  <2>2. PICK j \in T : \A l \in T : j <= l
    <3> HIDE DEF T
    <3> QED BY <2>1, Least
  <2>3. j # 0
    BY <1>10
  <2>4. j \in 1 .. n /\ j - 1 \in 0 .. n /\ ~ (j <= j - 1)
    BY <1>4, <2>3
  <2>5. Mirrors(b, path, j - 1, f[j - 1], g[j - 1], B(j - 1))
    BY <2>2, <2>4
  <2> QED BY <1>11, <2>4, <2>5
<1>13. Mirrors(b, path, n, f[n], g[n], B(n))
  <2>1. n \in 0 .. n
    BY <1>4
  <2> HIDE DEF B
  <2> QED BY <1>12, <2>1
<1> QED BY <1>8, <1>9, <1>13 DEF Mirrors

(* What the passes have let through is what the relation asks for. *)
LEMMA PassedFromInv ==
  ASSUME NEW b \in Seq(Stmts), Overt(b), NEW params, params = job.params, params \subseteq Names,
         ~ class_violation(b, params), \A i \in DOMAIN b : ~ apply_alias_dispositions_refuses(b, b[i])
  PROVE  Passed(b)
<1> SUFFICES ASSUME NEW o \in Names, ~ Lone(b, o) PROVE ~ (Cardinality(alias_class(b)[o]) > 2)
  BY DEF Passed
<1>1. PICK n \in Names : /\ class_mutated(b, alias_class(b)[o]) /\ observable(b, o)
                        /\ n \in alias_class(b)[o] /\ n # o /\ observable(b, n)
  BY DEF Lone
<1>2. o \in params \/ n \in params
  BY <1>1 DEF class_violation
<1>3. class_violation(b, {})
  BY <1>1 DEF class_violation
<1>4. \A q \in params : ~ (Cardinality(alias_class(b)[q]) > 2)
  BY <1>3 DEF Overt, SharedAfar
<1>5. alias_class(b)[n] = alias_class(b)[o]
  BY <1>1, ClassSame
<1> QED BY <1>2, <1>4, <1>5

(* The invariant says enough of what an accepted flat body prints. *)
LEMMA SharingFromInv ==
  ASSUME AliasInv, \A p, q \in job.params : p = q, Flat(body), job.params \subseteq Rows
  PROVE  SharingKept
<1> SUFFICES ASSUME phase = "emitted", Overt(body), Compiles(emitted), NEW k \in Runs
             PROVE  PyRun(Callees, body, k).out = RsRun(emitted, k).out
  BY DEF SharingKept
<1>1. /\ body \in Seq(Stmts) /\ Laid(body) /\ Bounded(body, job.params) /\ Supplied(body, job.params)
      /\ LoweredTo(emitted, body, job.params, Len(body))
      /\ ~ class_violation(body, job.params) /\ ~ alias_then_mutate(emitted)
  BY DEF AliasInv
<1>2. \A i \in DOMAIN body : ~ apply_alias_dispositions_refuses(body, body[i])
  BY <1>1, StmtsSaid DEF LoweredTo
<1>3. PICK b, es, params : b = body /\ es = emitted /\ params = job.params
  OBVIOUS
<1>4. Passed(b)
  <2>1. params \subseteq Names
    BY <1>3 DEF Names
  <2> QED BY <1>1, <1>2, <1>3, <2>1, PassedFromInv
<1>5. \A i \in DOMAIN b : b[i].op = "print" => b[i].x \notin Changed(b)
  BY <1>1, <1>3, PrintedKept
<1>6. PyRun(Callees, b, k).out = RsRun(es, k).out
  BY <1>1, <1>3, <1>4, <1>5, PathMirrors
<1> QED BY <1>3, <1>6

(* Where the frontend clones a list of integers that Python shares, or moves *)
(* it, no program that it emits can tell: on every path it prints what Python *)
(* prints (alias_class_analysis, apply_alias_dispositions,                   *)
(* clone_if_reused_non_copy and reject_alias_then_mutate together), for       *)
(* functions of no parameter or one.                                         *)
THEOREM FlatSharingKept ==
  ASSUME \A j \in Jobs : \A p, q \in j.params : p = q
  PROVE  Spec => [](Flat(body) /\ job.params \subseteq Rows => SharingKept)
<1>1. AliasInv => (Flat(body) /\ job.params \subseteq Rows => SharingKept)
  <2> SUFFICES ASSUME AliasInv, Flat(body), job.params \subseteq Rows PROVE SharingKept
    OBVIOUS
  <2>1. \A p, q \in job.params : p = q
    BY DEF AliasInv
  <2> QED BY <2>1, SharingFromInv
<1> QED BY <1>1, BodiesLowered, PTL
=============================================================================
