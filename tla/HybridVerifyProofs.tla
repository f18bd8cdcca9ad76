------------------------- MODULE HybridVerifyProofs -------------------------
(***************************************************************************)
(* Proofs about the repair loop and about the command that contains it.    *)
(* First RepairLoop: for every program, rule list and budget, a run hands  *)
(* back only what a probe found matching, its counts agree, and it repairs *)
(* what its rules can repair.  Then HybridVerify: whatever the job, the    *)
(* lowered body, the rules and the failures, exit code 0 is earned or      *)
(* disclosed.                                                              *)
(***************************************************************************)
EXTENDS HybridVerify, FiniteSetTheorems, WellFoundedInduction, TLAPS

USE RepairAssumption

-----------------------------------------------------------------------------
(* The inductive invariant: TypeOK, and what each point of run() knows.      *)

(* Where a run stands tells whether it has an outcome. *)
Stands ==
  /\ outcome = "none" <=> pc \in {"idle", "first", "loop", "probe"}
  /\ pc = "commit" => outcome \in {"already", "repaired"}

(* At the loop head the last probe is the iter-th and one rule fired in each *)
(* earlier iteration; before a probe, the rule of this iteration fired too.  *)
Counted ==
  /\ pc \in {"idle", "first"} => built = 0 /\ iter = 0 /\ Len(chain) = 0
  /\ pc = "loop"  => built = iter /\ iter >= 1 /\ Len(chain) = iter - 1 /\ iter <= prog.budget + 1
  /\ pc = "probe" => built = iter /\ iter >= 1 /\ Len(chain) = iter /\ iter <= prog.budget

RInv == TypeOK /\ Stands /\ FailClosed /\ Counted /\ CountsAgree

-----------------------------------------------------------------------------
(* Facts about the steps.                                                    *)

(* Every verdict on a candidate is a symptom or a match. *)
LEMMA VerdictRange ==
  ASSUME NEW p \in Program, NEW c \in Candidates(p), NEW v \in Verdicts(p, c)
  PROVE  v = "match" \/ v \in Symptoms
  BY DEF Verdicts, Verdict, Symptoms, Program

(* Rewriting one site of a candidate gives a candidate, in range or not. *)
LEMMA RewriteCandidate ==
  ASSUME NEW p \in Program, NEW c \in Candidates(p), NEW i, NEW form \in Forms
  PROVE  [c EXCEPT ![i] = form] \in Candidates(p)
  BY DEF Candidates

(* The start of a run. *)
LEMMA InitInv == Init => RInv
<1>1. SUFFICES ASSUME Init PROVE RInv
  OBVIOUS
<1>2. prog \in Program /\ chain = <<>> /\ pc = "idle" /\ passed = {} /\ written = {}
  BY <1>1 DEF Init, IdleLoop
<1>3. chain \in Seq(DOMAIN prog.rules)
  BY <1>2
<1>4. TypeOK
  BY <1>1, <1>2, <1>3 DEF Init, IdleLoop, TypeOK
<1>5. Stands /\ FailClosed /\ Counted /\ CountsAgree
  BY <1>1 DEF Init, IdleLoop, Stands, FailClosed, Counted, CountsAgree
<1>6. QED
  BY <1>4, <1>5 DEF RInv

(* A probe, first or later: n is the count it reports when it matches. *)
LEMMA ProbeInv ==
  ASSUME RInv, NEW n \in Nat, NEW what \in {"already", "repaired"},
         \/ pc = "first" /\ n = 0
         \/ pc = "probe" /\ n = iter,
         Probe(what, n)
  PROVE  RInv'
<1>1. PICK v \in Verdicts(prog, cand) : Probe(what, n)!(v)
  BY DEF Probe
<1>2. /\ prog \in Program /\ prog.budget \in Nat /\ cand \in Candidates(prog)
      /\ iter \in Nat /\ built \in Nat
  BY DEF RInv, TypeOK, Program
<1>3. built = n /\ iter = n /\ Len(chain) = n /\ n <= prog.budget
  BY <1>2 DEF RInv, Counted
<1>4. outcome = "none" /\ written = {}
  BY DEF RInv, Stands, FailClosed
<1>5. CASE v = "match"
  <2>1. /\ passed' = passed \cup {cand} /\ outcome' = what /\ reported' = n
        /\ pc' \in {"commit", "end"} /\ built' = built + 1
        /\ UNCHANGED <<last, iter, prog, cand, late, chain, written>>
    BY <1>1, <1>5 DEF Stop
  <2>2. TypeOK'
    BY <1>2, <2>1 DEF RInv, TypeOK
  <2>3. Stands' /\ FailClosed' /\ Counted'
    BY <1>4, <2>1 DEF Stands, FailClosed, Counted
  <2>4. CountsAgree'
    BY <1>3, <2>1 DEF CountsAgree
  <2>5. QED
    BY <2>2, <2>3, <2>4 DEF RInv
<1>6. CASE v # "match"
  <2>1. /\ last' = v /\ iter' = iter + 1 /\ pc' = "loop" /\ built' = built + 1
        /\ UNCHANGED <<passed, outcome, reported, prog, cand, late, chain, written>>
    BY <1>1, <1>6
  <2>2. v \in Symptoms
    BY <1>2, <1>6, VerdictRange
  <2>3. TypeOK'
    BY <1>2, <2>1, <2>2 DEF RInv, TypeOK
  <2>4. Stands' /\ FailClosed' /\ CountsAgree'
    BY <1>4, <2>1 DEF Stands, FailClosed, CountsAgree
  <2>5. Counted'
    BY <1>2, <1>3, <2>1 DEF Counted
  <2>6. QED
    BY <2>3, <2>4, <2>5 DEF RInv
<1>7. QED
  BY <1>5, <1>6

(* Every step of the loop. *)
LEMMA NextInv == RInv /\ [Next]_vars => RInv'
<1> SUFFICES ASSUME RInv, [Next]_vars PROVE RInv'
  OBVIOUS
<1> USE DEF RInv
<1>1. CASE Begin
  <2>1. Text(prog) \in Candidates(prog)
    BY DEF Text, Candidates
  <2>2. TypeOK'
    BY <1>1, <2>1 DEF Begin, TypeOK
  <2>3. QED
    BY <1>1, <2>2 DEF Begin, Stands, FailClosed, Counted, CountsAgree
<1>2. CASE ClockRunsOut
  BY <1>2 DEF ClockRunsOut, TypeOK, Stands, FailClosed, Counted, CountsAgree
<1>3. CASE FirstProbe
  BY <1>3, ProbeInv DEF FirstProbe
<1>4. CASE NextProbe
  <2>1. iter \in Nat
    BY DEF TypeOK
  <2>2. QED
    BY <1>4, <2>1, ProbeInv DEF NextProbe
<1>5. CASE Exhaust
  <2>1. iter \in Nat /\ iter >= 1 /\ built = iter /\ Len(chain) = iter - 1
        /\ iter - 1 <= prog.budget /\ prog.budget \in Nat
    BY <1>5 DEF Exhaust, Counted, TypeOK, Program
  <2>2. /\ outcome' = "exhausted" /\ reported' = iter - 1 /\ pc' = "end"
        /\ UNCHANGED <<prog, cand, last, iter, late, chain, built, passed, written>>
    BY <1>5 DEF Exhaust, Stop
  <2>3. outcome = "none" /\ written = {}
    BY <1>5 DEF Exhaust, Stands, FailClosed
  <2>4. TypeOK'
    BY <1>5, <2>1, <2>2 DEF TypeOK, Exhaust
  <2>5. QED
    BY <2>1, <2>2, <2>3, <2>4 DEF Stands, FailClosed, Counted, CountsAgree
<1>6. CASE Apply
  <2>1. prog \in Program /\ cand \in Candidates(prog) /\ iter \in Nat /\ iter >= 1
        /\ built = iter /\ Len(chain) = iter - 1 /\ chain \in Seq(DOMAIN prog.rules)
    BY <1>6 DEF Apply, TypeOK, Counted
  <2>2. PICK j \in Firing(prog, cand, last) :
          /\ cand' = [cand EXCEPT ![Applies(prog, cand, prog.rules[j], last)] = prog.rules[j].form]
          /\ chain' = Append(chain, j)
    BY <1>6 DEF Apply
  <2>3. j \in DOMAIN prog.rules /\ prog.rules[j].form \in Forms
    <3>1. prog.rules \in Seq(Rule)
      BY <2>1 DEF Program
    <3>2. j \in DOMAIN prog.rules
      BY <2>2 DEF Firing
    <3>3. prog.rules[j] \in Rule
      BY <3>1, <3>2
    <3>4. QED
      BY <3>2, <3>3 DEF Rule
  <2>4. cand' \in Candidates(prog)
    BY <2>1, <2>2, <2>3, RewriteCandidate
  <2>5. chain' \in Seq(DOMAIN prog.rules) /\ Len(chain') = iter
    BY <2>1, <2>2, <2>3
  <2>6. /\ pc = "loop" /\ iter <= prog.budget /\ pc' = "probe" /\ outcome = "none" /\ written = {}
        /\ UNCHANGED <<prog, last, iter, late, outcome, reported, built, passed, written>>
    BY <1>6 DEF Apply, Stands, FailClosed
  <2>7. TypeOK'
    BY <2>1, <2>4, <2>5, <2>6 DEF TypeOK
  <2>8. QED
    BY <2>1, <2>5, <2>6, <2>7 DEF Stands, FailClosed, Counted, CountsAgree
<1>7. CASE Commit
  <2>1. /\ pc = "commit" /\ pc' = "end" /\ outcome \in {"already", "repaired"}
        /\ written' \in {written, {cand}}
        /\ UNCHANGED <<prog, cand, last, iter, late, outcome, reported, chain, built, passed>>
    BY <1>7 DEF Commit, Stands
  <2>2. cand \in passed
    BY <2>1 DEF FailClosed
  <2>3. TypeOK'
    BY <2>1, <2>2 DEF TypeOK
  <2>4. QED
    BY <2>1, <2>2, <2>3 DEF Stands, FailClosed, Counted, CountsAgree
<1>8. CASE UNCHANGED vars
  BY <1>8 DEF vars, TypeOK, Stands, FailClosed, Counted, CountsAgree
<1>9. QED
  BY <1>1, <1>2, <1>3, <1>4, <1>5, <1>6, <1>7, <1>8 DEF Next, Work

-----------------------------------------------------------------------------
(* The theorems.                                                             *)

(* The invariant holds of every run of the loop. *)
THEOREM RepairInvariant == Spec => []RInv
  BY InitInv, NextInv, PTL DEF Spec

(* Every variable of the loop has its type, whatever the programs. *)
THEOREM RepairTypes == Spec => []TypeOK
<1>1. RInv => TypeOK
  BY DEF RInv
<1>2. QED
  BY <1>1, RepairInvariant, PTL

(* Fail-closed (RepairOutcome's doc): whatever the rules do to the text,     *)
(* whatever the probe answers and whenever the clock runs out, a source that *)
(* run() returns or run_and_commit() writes is one a probe found matching.   *)
THEOREM RepairFailClosed == Spec => []FailClosed
<1>1. RInv => FailClosed
  BY DEF RInv
<1>2. QED
  BY <1>1, RepairInvariant, PTL

(* The iteration count of an outcome, the recorded rule chain and the number *)
(* of workspaces built agree for every budget, and stay within it.           *)
THEOREM RepairCounts == Spec => []CountsAgree
<1>1. RInv => CountsAgree
  BY DEF RInv
<1>2. QED
  BY <1>1, RepairInvariant, PTL

-----------------------------------------------------------------------------
(* Least elements and induction over the naturals, for the scans.            *)

LEMMA Least ==
  ASSUME NEW T \in SUBSET Nat, T # {}
  PROVE  \E n \in T : \A m \in T : n <= m
<1>1. PICK n \in T : \A m \in T : <<m, n>> \notin OpToRel(<, Nat)
  BY WFMin, NatLessThanWellFounded, Zenon
<1>2. ASSUME NEW m \in T, m < n PROVE FALSE
  <2>1. <<m, n>> \in Nat \X Nat /\ <<m, n>>[1] < <<m, n>>[2]
    BY <1>2
  <2>2. <<m, n>> \in OpToRel(<, Nat)
    BY <2>1, Zenon DEF OpToRel
  <2> QED BY <1>1, <2>2
<1> QED BY <1>2

LEMMA Induction ==
  ASSUME NEW S, 0 \in S, \A n \in Nat : n \in S => n + 1 \in S
  PROVE  Nat \subseteq S
<1> SUFFICES ASSUME ~ (Nat \subseteq S) PROVE FALSE
  OBVIOUS
<1>1. PICK n \in Nat \ S : \A m \in Nat \ S : n <= m
  BY Least
<1>2. n - 1 \in Nat /\ n - 1 \in S
  BY <1>1
<1> QED BY <1>1, <1>2

-----------------------------------------------------------------------------
(* What the rules find in a plain program.                                   *)

(* A site the rule r can still rewrite. *)
Hit(p, c, r, i) ==
  /\ p.sites[i].kind = "call" /\ r.symbol \in p.sites[i].found
  /\ c[i] # r.form

(* insert_arg_cast's scan ends at a call it can cast, if there is one.       *)
LEMMA ArgSiteFinds ==
  ASSUME NEW p \in Program, Plain(p), NEW c, NEW r
  PROVE  /\ ArgSite(p, c, r) # 0 =>
              ArgSite(p, c, r) \in Sites(p) /\ Hit(p, c, r, ArgSite(p, c, r))
         /\ (\E i \in Sites(p) : Hit(p, c, r, i)) => ArgSite(p, c, r) # 0
<1> DEFINE n == Len(p.sites)
           hit(i) == Hit(p, c, r, i)
           Step(f, at) == IF at = n + 1 THEN 0
                          ELSE LET s == p.sites[at] IN
                               IF r.symbol \notin s.found \/ s.kind = "decl" THEN f[at + 1]
                               ELSE IF ~ s.args THEN 0
                               ELSE IF c[at] = r.form THEN f[s.end + 1]
                               ELSE at
           scan == CHOOSE f : f = [at \in 1 .. n + 1 |-> Step(f, at)]
           least(at) == IF \E i \in at .. n : hit(i)
                        THEN CHOOSE i \in at .. n : hit(i) /\ \A j \in at .. n : hit(j) => i <= j
                        ELSE 0
           g == [at \in 1 .. n + 1 |-> least(at)]
<1>1. ArgSite(p, c, r) = scan[1]
  BY DEF ArgSite
<1>2. n \in Nat /\ \A i \in 1 .. n :
        \/ hit(i)
        \/ r.symbol \notin p.sites[i].found \/ p.sites[i].kind = "decl"
        \/ p.sites[i].args /\ c[i] = r.form /\ p.sites[i].end = i
  BY DEF Program, Plain, Sites, Hit
<1>3. \A i \in 1 .. n : hit(i) =>
        r.symbol \in p.sites[i].found /\ p.sites[i].kind # "decl" /\ p.sites[i].args /\ c[i] # r.form
  BY DEF Plain, Sites, Hit
<1> HIDE DEF hit
<1>4. ASSUME NEW at \in 1 .. n, NEW f
      PROVE  Step(f, at) = IF hit(at) THEN at ELSE f[at + 1]
  <2>1. at # n + 1
    BY <1>2
  <2> QED BY <1>2, <1>3, <2>1
<1>5. \A f : Step(f, n + 1) = 0
  OBVIOUS
<1> HIDE DEF Step
<1>6. ASSUME NEW at \in 1 .. n PROVE least(at) = IF hit(at) THEN at ELSE least(at + 1)
  <2>1. CASE hit(at)
    <3> DEFINE i == CHOOSE i \in at .. n : hit(i) /\ \A j \in at .. n : hit(j) => i <= j
    <3>1. \E k \in at .. n : hit(k) /\ \A j \in at .. n : hit(j) => k <= j
      BY <1>2, <2>1
    <3>2. i \in at .. n /\ hit(i) /\ \A j \in at .. n : hit(j) => i <= j
      BY <3>1
    <3>3. least(at) = i
      BY <3>1
    <3>4. i <= at /\ at <= i
      BY <1>2, <2>1, <3>2
    <3> QED BY <1>2, <2>1, <3>2, <3>3, <3>4
  <2>2. CASE ~ hit(at)
    <3>1. \A i : i \in at .. n /\ hit(i) <=> i \in (at + 1) .. n /\ hit(i)
      BY <1>2, <2>2
    <3>2. (CHOOSE i \in at .. n : hit(i) /\ \A j \in at .. n : hit(j) => i <= j)
            = CHOOSE i \in (at + 1) .. n : hit(i) /\ \A j \in (at + 1) .. n : hit(j) => i <= j
      <4>1. \A i : (i \in at .. n /\ hit(i) /\ \A j \in at .. n : hit(j) => i <= j)
               <=> (i \in (at + 1) .. n /\ hit(i) /\ \A j \in (at + 1) .. n : hit(j) => i <= j)
        BY <3>1
      <4> QED BY <4>1, Zenon
    <3>3. CASE \E i \in at .. n : hit(i)
      <4>1. \E i \in (at + 1) .. n : hit(i)
        BY <3>1, <3>3
      <4>2. least(at) = CHOOSE i \in at .. n : hit(i) /\ \A j \in at .. n : hit(j) => i <= j
        BY <3>3, Zenon
      <4>3. least(at + 1)
              = CHOOSE i \in (at + 1) .. n : hit(i) /\ \A j \in (at + 1) .. n : hit(j) => i <= j
        BY <4>1, Zenon
      <4>4. least(at) = least(at + 1)
        <5> HIDE DEF least
        <5> QED BY <3>2, <4>2, <4>3, Zenon
      <4> QED BY <2>2, <4>4
    <3>4. CASE ~ \E i \in at .. n : hit(i)
      <4>1. ~ \E i \in (at + 1) .. n : hit(i)
        BY <3>1, <3>4
      <4>2. least(at) = 0 /\ least(at + 1) = 0
        BY <3>4, <4>1, Zenon
      <4> QED BY <2>2, <4>2
    <3> QED BY <3>3, <3>4
  <2> QED BY <2>1, <2>2
<1>7. least(n + 1) = 0
  BY <1>2
<1> HIDE DEF least
<1>8. g = [at \in 1 .. n + 1 |-> Step(g, at)]
  <2>1. ASSUME NEW at \in 1 .. n + 1 PROVE least(at) = Step(g, at)
    <3>1. CASE at = n + 1
      BY <1>5, <1>7, <3>1
    <3>2. CASE at # n + 1
      <4>1. at \in 1 .. n /\ at + 1 \in 1 .. n + 1
        BY <1>2, <3>2
      <4>2. g[at + 1] = least(at + 1)
        BY <4>1
      <4> QED BY <1>4, <1>6, <4>1, <4>2
    <3> QED BY <3>1, <3>2
  <2> HIDE DEF g
  <2>2. g = [at \in 1 .. n + 1 |-> least(at)]
    BY DEF g
  <2> QED BY <2>1, <2>2
<1>9. scan = [at \in 1 .. n + 1 |-> Step(scan, at)]
  BY <1>8
<1> HIDE DEF scan, g
<1>10. /\ scan[n + 1] = 0
       /\ \A at \in 1 .. n : scan[at] = IF hit(at) THEN at ELSE scan[at + 1]
  <2>1. scan[n + 1] = Step(scan, n + 1)
    BY <1>2, <1>9
  <2>2. ASSUME NEW at \in 1 .. n PROVE scan[at] = Step(scan, at)
    <3>1. at \in 1 .. n + 1
      BY <1>2
    <3> QED BY <1>9, <3>1
  <2> QED BY <1>4, <1>5, <2>1, <2>2
<1> DEFINE Found(at) == /\ scan[at] # 0 => scan[at] \in at .. n /\ hit(scan[at])
                        /\ (\E i \in at .. n : hit(i)) => scan[at] # 0
           S == {k \in Nat : k <= n => Found(n + 1 - k)}
<1>11. 0 \in S
  <2>1. Found(n + 1)
    BY <1>2, <1>10
  <2> QED BY <1>2, <2>1
<1>12. ASSUME NEW k \in Nat, k \in S PROVE k + 1 \in S
  <2> HIDE DEF n, Found
  <2>1. n \in Nat
    BY <1>2
  <2>2. ASSUME k + 1 <= n PROVE Found(n + 1 - (k + 1))
    <3>1. PICK at \in 1 .. n : at = n + 1 - (k + 1) /\ n + 1 - k = at + 1
      BY <2>1, <2>2
    <3>2. Found(n + 1 - k)
      BY <1>12, <2>1, <2>2
    <3>3. Found(at + 1)
      BY <3>1, <3>2
    <3>4. Found(at)
      BY <1>10, <2>1, <3>3 DEF Found
    <3> QED BY <3>1, <3>4
  <2>3. k + 1 \in Nat
    OBVIOUS
  <2> QED BY <2>2, <2>3
<1> HIDE DEF S
<1>13. n \in S
  BY <1>2, <1>11, <1>12, Induction
<1>14. Found(1)
  BY <1>2, <1>13 DEF S
<1> QED BY <1>1, <1>14 DEF Sites, hit

(* The first bare tail or print, if there is one. *)
LEMMA FirstBareFinds ==
  ASSUME NEW p \in Program, NEW c, NEW kind
  PROVE  /\ FirstBare(p, c, kind) # 0 =>
              /\ FirstBare(p, c, kind) \in Sites(p)
              /\ p.sites[FirstBare(p, c, kind)].kind = kind /\ c[FirstBare(p, c, kind)] = Bare
         /\ (\E i \in Sites(p) : p.sites[i].kind = kind /\ c[i] = Bare) => FirstBare(p, c, kind) # 0
<1> DEFINE hits == {i \in Sites(p) : p.sites[i].kind = kind /\ c[i] = Bare}
<1>1. CASE hits = {}
  BY <1>1 DEF FirstBare
<1>2. CASE hits # {}
  <2>1. hits \subseteq Nat /\ 0 \notin hits
    BY DEF Sites, Program
  <2>2. \E i \in hits : \A j \in hits : i <= j
    BY <1>2, <2>1, Least
  <2>3. FirstBare(p, c, kind) \in hits
    BY <1>2, <2>2 DEF FirstBare
  <2> QED BY <2>1, <2>3
<1> QED BY <1>1, <1>2

-----------------------------------------------------------------------------
(* Why a run repairs what it can: each rewrite turns a bare site in reach of *)
(* a rule into one that fits, so the rules that fired count the sites that   *)
(* are not bare, and a wrong site is a bare one a rule finds.                *)

(* A site that is not bare is in reach of a rule and has that rule's form. *)
ByRule(p, c) == \A i \in Sites(p) :
  c[i] = Bare \/ \E j \in DOMAIN p.rules : i \in Reach(p, p.rules[j]) /\ c[i] = p.rules[j].form

Rewritten(p, c) == {i \in Sites(p) : c[i] # Bare}

Progress ==
  ~ Flaky /\ Reparable(prog) /\ pc # "idle" =>
    /\ ByRule(prog, cand)
    /\ Cardinality(Rewritten(prog, cand)) = Len(chain)
    /\ pc = "loop" => last = Verdict(prog, cand) /\ last # "match"
    /\ outcome = "exhausted" => late \/ Len(prog.sites) > prog.budget

(* A rule is one of the three kinds, and its form is a form. *)
LEMMA RuleShape ==
  ASSUME NEW p \in Program, NEW j \in DOMAIN p.rules
  PROVE  /\ p.rules[j].form \in Forms
         /\ \/ p.rules[j].kind = "arg" /\ KindOf(p.rules[j]) = "call"
            \/ p.rules[j].kind = "return" /\ KindOf(p.rules[j]) = "tail"
            \/ p.rules[j].kind = "float" /\ KindOf(p.rules[j]) = "print"
<1>1. p.rules[j] \in Rule
  BY DEF Program
<1> QED BY <1>1 DEF Rule, KindOf

(* A rule that fires rewrites a bare site in its reach: a call that is cast  *)
(* already has the cast of its only boundary.                                *)
LEMMA FiresOnBare ==
  ASSUME NEW p \in Program, Reparable(p), NEW c, ByRule(p, c),
         NEW sym, NEW j \in Firing(p, c, sym)
  PROVE  LET i == Applies(p, c, p.rules[j], sym)
         IN  i \in Sites(p) /\ c[i] = Bare /\ i \in Reach(p, p.rules[j])
<1> DEFINE r == p.rules[j]
           i == Applies(p, c, r, sym)
<1>1. j \in DOMAIN p.rules /\ i # 0
  BY DEF Firing
<1>2. Plain(p) /\ OneCast(p)
  BY DEF Reparable
<1>3. CASE r.kind = "arg"
  <2>1. i = ArgSite(p, c, r)
    BY <1>1, <1>3 DEF Applies
  <2> HIDE DEF i
  <2>2. i \in Sites(p) /\ Hit(p, c, r, i)
    BY <1>1, <1>2, <2>1, ArgSiteFinds
  <2>3. i \in Reach(p, r)
    BY <1>1, <1>3, <2>2, RuleShape DEF Reach, Hit
  <2>4. ASSUME c[i] # Bare PROVE FALSE
    <3>1. PICK k \in DOMAIN p.rules : i \in Reach(p, p.rules[k]) /\ c[i] = p.rules[k].form
      BY <2>2, <2>4 DEF ByRule
    <3>2. p.rules[k].kind = "arg" /\ p.rules[k].symbol \in p.sites[i].found
      BY <2>2, <3>1, RuleShape DEF Reach, Hit
    <3>3. p.rules[k].symbol = r.symbol
      BY <1>2, <2>2, <3>2 DEF Plain, Hit
    <3>4. p.rules[k].form = r.form
      BY <1>1, <1>2, <1>3, <3>2, <3>3 DEF OneCast
    <3> QED BY <2>2, <3>1, <3>4 DEF Hit
  <2> QED BY <2>2, <2>3, <2>4 DEF i
<1>4. CASE r.kind = "return"
  <2>1. i = FirstBare(p, c, "tail")
    BY <1>1, <1>4 DEF Applies
  <2> HIDE DEF i
  <2>2. i \in Sites(p) /\ p.sites[i].kind = "tail" /\ c[i] = Bare
    BY <1>1, <2>1, FirstBareFinds
  <2>3. i \in Reach(p, r)
    BY <1>1, <1>4, <2>2, RuleShape DEF Reach
  <2> QED BY <2>2, <2>3 DEF i
<1>5. CASE r.kind = "float"
  <2>1. i = FirstBare(p, c, "print")
    BY <1>1, <1>5 DEF Applies
  <2> HIDE DEF i
  <2>2. i \in Sites(p) /\ p.sites[i].kind = "print" /\ c[i] = Bare
    BY <1>1, <2>1, FirstBareFinds
  <2>3. i \in Reach(p, r)
    BY <1>1, <1>5, <2>2, RuleShape DEF Reach
  <2> QED BY <2>2, <2>3 DEF i
<1> QED BY <1>1, <1>3, <1>4, <1>5, RuleShape

(* As long as a probe does not match, a site is bare and a rule fires. *)
LEMMA SomeRuleFires ==
  ASSUME NEW p \in Program, Reparable(p), NEW c \in Candidates(p), ByRule(p, c),
         Verdict(p, c) # "match"
  PROVE  Firing(p, c, Verdict(p, c)) # {} /\ Rewritten(p, c) # Sites(p)
<1> DEFINE v == Verdict(p, c)
           kinds == {"call", "decl", "def", "tail", "print"}
<1>1. ASSUME NEW i \in Sites(p), c[i] \notin p.sites[i].fits, p.sites[i].kind \in kinds
      PROVE  c[i] = Bare /\ \E j \in DOMAIN p.rules : i \in Reach(p, p.rules[j])
  <2>1. c[i] = Bare
    BY <1>1 DEF ByRule, Reparable, Harmless
  <2>2. i \in Wrong(p, Text(p), kinds)
    BY <1>1, <2>1 DEF Wrong, Text
  <2> QED BY <2>1, <2>2 DEF Reparable
<1>2. PICK i \in Sites(p) :
        /\ c[i] \notin p.sites[i].fits
        /\ \/ p.sites[i].kind \in {"decl", "def"}
           \/ v = "mismatch" /\ p.sites[i].kind \in {"call", "tail"}
           \/ v = "float" /\ p.sites[i].kind = "print"
  <2>1. p.runs = "match"
    BY DEF Reparable
  <2> QED BY <2>1 DEF Verdict, Wrong
<1>3. c[i] = Bare
  BY <1>1, <1>2
<1>4. PICK j \in DOMAIN p.rules : i \in Reach(p, p.rules[j])
  BY <1>1, <1>2
<1>5. Applies(p, c, p.rules[j], v) # 0
  <2> DEFINE r == p.rules[j]
  <2>1. p.sites[i].kind = KindOf(r) /\ (r.kind = "arg" => r.symbol \in p.sites[i].found)
    BY <1>4 DEF Reach
  <2> HIDE DEF v
  <2>2. CASE r.kind = "arg"
    <3>1. p.sites[i].kind = "call" /\ r.form \in Forms
      BY <2>1, <2>2, RuleShape
    <3>2. v = "mismatch" /\ Hit(p, c, r, i)
      BY <1>2, <1>3, <2>1, <2>2, <3>1 DEF Hit
    <3>3. ArgSite(p, c, r) # 0
      BY <3>2, ArgSiteFinds DEF Reparable
    <3> QED BY <2>2, <3>2, <3>3 DEF Applies
  <2>3. CASE r.kind = "return"
    <3>1. p.sites[i].kind = "tail" /\ v = "mismatch"
      BY <1>2, <2>1, <2>3, RuleShape
    <3>2. FirstBare(p, c, "tail") # 0
      BY <1>3, <3>1, FirstBareFinds
    <3> QED BY <2>3, <3>1, <3>2 DEF Applies
  <2>4. CASE r.kind = "float"
    <3>1. p.sites[i].kind = "print" /\ v = "float"
      BY <1>2, <2>1, <2>4, RuleShape
    <3>2. FirstBare(p, c, "print") # 0
      BY <1>3, <3>1, FirstBareFinds
    <3> QED BY <2>4, <3>1, <3>2 DEF Applies
  <2> QED BY <2>2, <2>3, <2>4, RuleShape
<1>6. i \notin Rewritten(p, c)
  BY <1>3 DEF Rewritten
<1> QED BY <1>5, <1>6 DEF Firing

(* The sites that are not bare, counted. *)
LEMMA RewrittenCount ==
  ASSUME NEW p \in Program, NEW c
  PROVE  /\ IsFiniteSet(Rewritten(p, c)) /\ Cardinality(Rewritten(p, c)) \in Nat
         /\ Cardinality(Rewritten(p, c)) >= Len(p.sites) => Rewritten(p, c) = Sites(p)
<1>1. Len(p.sites) \in Nat
  BY DEF Program
<1>2. IsFiniteSet(Sites(p)) /\ Cardinality(Sites(p)) = Len(p.sites)
  BY <1>1, FS_Interval DEF Sites
<1>3. Rewritten(p, c) \subseteq Sites(p)
  BY DEF Rewritten
<1>4. /\ IsFiniteSet(Rewritten(p, c)) /\ Cardinality(Rewritten(p, c)) <= Cardinality(Sites(p))
      /\ Cardinality(Rewritten(p, c)) = Cardinality(Sites(p)) => Rewritten(p, c) = Sites(p)
  BY <1>2, <1>3, FS_Subset
<1>5. Cardinality(Rewritten(p, c)) \in Nat
  BY <1>4, FS_CardinalityType
<1> QED BY <1>1, <1>2, <1>4, <1>5

(* A probe that does not fail for reasons of its own keeps Progress. *)
LEMMA ProbeProgress ==
  ASSUME RInv, Progress, NEW n, NEW what \in {"already", "repaired"},
         pc \in {"first", "probe"}, Probe(what, n)
  PROVE  Progress'
<1> SUFFICES ASSUME ~ Flaky, Reparable(prog)', pc' # "idle"
             PROVE  /\ ByRule(prog, cand)'
                    /\ (Cardinality(Rewritten(prog, cand)) = Len(chain))'
                    /\ pc' = "loop" => (last = Verdict(prog, cand) /\ last # "match")'
                    /\ outcome' # "exhausted"
  BY DEF Progress
<1>1. PICK v \in Verdicts(prog, cand) : Probe(what, n)!(v)
  BY DEF Probe
<1>2. UNCHANGED <<prog, cand, chain>> /\ v = Verdict(prog, cand)
  BY <1>1 DEF Verdicts
<1>3. ByRule(prog, cand) /\ Cardinality(Rewritten(prog, cand)) = Len(chain)
  BY <1>2 DEF Progress
<1>4. outcome' # "exhausted"
  BY <1>1 DEF RInv, Stands, Stop
<1>5. pc' = "loop" => last' = v /\ v # "match"
  BY <1>1 DEF Stop
<1> QED BY <1>2, <1>3, <1>4, <1>5

(* Every step keeps Progress. *)
LEMMA NextProgress == RInv /\ Progress /\ [Next]_vars => Progress'
<1> SUFFICES ASSUME RInv, Progress, [Next]_vars PROVE Progress'
  OBVIOUS
<1>1. CASE Begin
  <2>1. Len(chain) = 0 /\ outcome = "none"
    BY <1>1 DEF Begin, RInv, Counted, Stands
  <2>2. prog' = prog /\ cand' = Text(prog) /\ chain' = chain /\ outcome' = outcome /\ pc' = "first"
    BY <1>1 DEF Begin
  <2>3. ByRule(prog, Text(prog)) /\ Rewritten(prog, Text(prog)) = {}
    BY DEF ByRule, Rewritten, Text
  <2> QED BY <2>1, <2>2, <2>3, FS_EmptySet DEF Progress
<1>2. CASE ClockRunsOut
  BY <1>2 DEF ClockRunsOut, Progress
<1>3. CASE FirstProbe
  BY <1>3, ProbeProgress DEF FirstProbe
<1>4. CASE NextProbe
  BY <1>4, ProbeProgress DEF NextProbe
<1>5. CASE Exhaust
  <2> SUFFICES ASSUME ~ Flaky, Reparable(prog), ~ late, Len(prog.sites) <= prog.budget PROVE FALSE
    <3>1. UNCHANGED <<prog, cand, late, chain>> /\ pc' = "end" /\ pc = "loop"
      BY <1>5 DEF Exhaust, Stop
    <3>2. Len(prog.sites) \in Nat /\ prog.budget \in Nat
      BY DEF RInv, TypeOK, Program
    <3> QED BY <3>1, <3>2 DEF Progress
  <2>1. /\ ByRule(prog, cand) /\ last = Verdict(prog, cand) /\ last # "match"
        /\ Cardinality(Rewritten(prog, cand)) = Len(chain)
    BY <1>5 DEF Exhaust, Progress
  <2>2. prog \in Program /\ cand \in Candidates(prog)
    BY <1>5 DEF Exhaust, RInv, TypeOK
  <2>3. Firing(prog, cand, last) # {} /\ Rewritten(prog, cand) # Sites(prog)
    BY <2>1, <2>2, SomeRuleFires
  <2>4. Len(chain) < Len(prog.sites)
    BY <2>1, <2>2, <2>3, RewrittenCount DEF Program
  <2>5. iter \in Nat /\ Len(chain) = iter - 1 /\ iter > prog.budget
    BY <1>5, <2>3 DEF Exhaust, RInv, TypeOK, Counted
  <2> QED BY <2>2, <2>4, <2>5 DEF Program
<1>6. CASE Apply
  <2> SUFFICES ASSUME ~ Flaky, Reparable(prog)
               PROVE  ByRule(prog, cand') /\ Cardinality(Rewritten(prog, cand')) = Len(chain')
    <3>1. prog' = prog /\ pc' = "probe" /\ outcome' = outcome /\ outcome = "none"
      BY <1>6 DEF Apply, RInv, Stands
    <3> QED BY <3>1 DEF Progress
  <2>1. PICK j \in Firing(prog, cand, last) :
          /\ cand' = [cand EXCEPT ![Applies(prog, cand, prog.rules[j], last)] = prog.rules[j].form]
          /\ chain' = Append(chain, j)
    BY <1>6 DEF Apply
  <2>2. prog \in Program /\ cand \in Candidates(prog) /\ chain \in Seq(DOMAIN prog.rules)
    BY <1>6 DEF Apply, RInv, TypeOK
  <2>3. ByRule(prog, cand) /\ Cardinality(Rewritten(prog, cand)) = Len(chain)
    BY <1>6 DEF Apply, Progress
  <2> DEFINE i == Applies(prog, cand, prog.rules[j], last)
  <2>4. i \in Sites(prog) /\ cand[i] = Bare /\ i \in Reach(prog, prog.rules[j])
    BY <2>2, <2>3, FiresOnBare
  <2>5. j \in DOMAIN prog.rules
    BY DEF Firing
  <2>6. prog.rules[j].form # Bare
    BY <2>2, <2>5, RuleShape
  <2> HIDE DEF i
  <2>7. \A k \in Sites(prog) : cand'[k] = IF k = i THEN prog.rules[j].form ELSE cand[k]
    BY <2>1, <2>2 DEF Candidates, i
  <2>8. ByRule(prog, cand')
    BY <2>3, <2>4, <2>5, <2>7 DEF ByRule
  <2>9. Rewritten(prog, cand') = Rewritten(prog, cand) \cup {i} /\ i \notin Rewritten(prog, cand)
    BY <2>4, <2>6, <2>7 DEF Rewritten
  <2>10. Cardinality(Rewritten(prog, cand')) = Cardinality(Rewritten(prog, cand)) + 1
    BY <2>2, <2>9, RewrittenCount, FS_AddElement
  <2>11. Len(chain') = Len(chain) + 1
    BY <2>1, <2>2, <2>5
  <2> QED BY <2>3, <2>8, <2>10, <2>11
<1>7. CASE Commit
  BY <1>7 DEF Commit, Progress
<1>8. CASE UNCHANGED vars
  BY <1>8 DEF vars, Progress
<1> QED BY <1>1, <1>2, <1>3, <1>4, <1>5, <1>6, <1>7, <1>8 DEF Next, Work

(* A run that gave up with the clock not run out and a step for every site   *)
(* met a program its rules cannot repair (RepairLoop::run's Exhausted): for  *)
(* every program and rule list, when no call is nested in another, no name   *)
(* ends in a boundary's, each boundary has one cast and no rule spoils a     *)
(* site, a wrong site that a rule reaches is never left behind.              *)
THEOREM RepairCompletes == Spec => []RepairsWhatItCan
<1>1. Init => Progress
  BY DEF Init, IdleLoop, Progress
<1>2. RInv /\ Progress => RepairsWhatItCan
  <2> SUFFICES ASSUME RInv, Progress, outcome = "exhausted", ~ late, ~ Flaky,
                      Len(prog.sites) <= prog.budget, Reparable(prog)
               PROVE  FALSE
    BY DEF RepairsWhatItCan
  <2>1. pc # "idle"
    BY DEF RInv, Stands
  <2>2. Len(prog.sites) \in Nat /\ prog.budget \in Nat
    BY DEF RInv, TypeOK, Program
  <2> QED BY <2>1, <2>2 DEF Progress
<1>3. Spec => []Progress
  BY <1>1, NextProgress, RepairInvariant, PTL DEF Spec
<1> QED BY <1>2, <1>3, RepairInvariant, PTL

-----------------------------------------------------------------------------
(* From here on: HybridVerify.                                               *)
USE HybridAssumption

-----------------------------------------------------------------------------
(* The command drives the loop by the loop's own steps.                      *)

(* hybrid refines the repair loop it contains: so the theorems about the     *)
(* loop hold of the loop inside the command.                                 *)
THEOREM CommandRunsTheLoop == HSpec => Spec
<1>1. HInit => Init
  BY DEF HInit, Init
<1>2. [HNext]_hvars => [Next]_vars
  <2>1. LoopStep => Next
    BY DEF LoopStep
  <2>2. Reconcile \/ EmitShims \/ EmitWorkspace \/ Verify => UNCHANGED vars
    BY DEF Reconcile, EmitShims, EmitWorkspace, Verify, Frame
  <2>3. Gate \/ Reference \/ Emit \/ Build \/ Run \/ Judge => UNCHANGED vars
    BY DEF Gate, Reference, Emit, Build, Run, Judge, Frame
  <2>4. Repair \/ Report \/ Fail => UNCHANGED vars
    BY DEF Repair, Report, Fail, Frame
  <2>5. UNCHANGED hvars => UNCHANGED vars
    BY DEF hvars
  <2>6. QED
    BY <2>1, <2>2, <2>3, <2>4, <2>5 DEF HNext, HWork
<1>3. QED
  BY <1>1, <1>2, PTL DEF HSpec, Spec

(* What RepairLoop proves of itself, inside the command. *)
LEMMA LoopInvariant == HSpec => []RInv
  BY CommandRunsTheLoop, RepairInvariant, PTL

-----------------------------------------------------------------------------
(* The inductive invariant.                                                  *)

EarlyPhases == {"reconcile", "emit_shims", "emit_workspace", "verify"}
LanePhases  == {"gate", "reference", "emit", "build", "run", "verdict", "repair", "loop"}

(* The types of what the command itself keeps. *)
HTypes ==
  /\ job \in Job /\ (job.repair => job.verify)
  /\ lane \in Lanes \cup {"none"}
  /\ phase \in EarlyPhases \cup LanePhases \cup {"done"}
  /\ said \subseteq Lanes \cup {"other", "nothing to emit"}
  /\ agreed \subseteq Lanes /\ made \subseteq {"shims", "workspace", "part"}
  /\ temp \subseteq Lanes \cup {"repair"}
  /\ exit \in {"none", "ok", "failed", "broke"}

(* Where the command stands. *)
Where ==
  /\ exit = "none" <=> phase # "done"
  /\ phase \in LanePhases => lane \in Lanes \cap job.has
  /\ phase \in {"repair", "loop"} => lane = "c"
  /\ phase \notin {"loop", "done"} => pc = "idle"

(* What has been disclosed or shown on the way to a lane. *)
Shown ==
  /\ phase \in EarlyPhases => agreed = {}
  /\ phase \in LanePhases =>
       /\ job.has \cap {"other"} \subseteq said
       /\ lane = "c" => job.has \cap {"sh"} \subseteq agreed \cup said
  /\ "sh" \in agreed => job.sh = "same"
  /\ "c" \in agreed => /\ phase = "done"
                       /\ \/ Verdict(prog, Text(prog)) = "match" /\ ~ prog.silent
                          \/ outcome = "repaired"

(* The directories that stand while a lane is on its way. *)
Standing ==
  /\ phase \in {"build", "run"} => temp = {lane}
  /\ phase = "loop" => temp = {"repair"}
  /\ phase \notin {"build", "run", "loop", "done"} => temp = {}

(* What an exit code stands for. *)
Earned ==
  /\ exit = "ok" /\ job.verify /\ "nothing to emit" \notin said => job.has \subseteq agreed \cup said
  /\ exit = "ok" => outcome \in {"none", "repaired"}

HInv == HTypes /\ Where /\ Shown /\ Standing /\ Earned /\ NothingLeft

(* The start of a command. *)
LEMMA HInitInv == HInit => HInv
  BY DEF HInit, IdleLoop, HInv, HTypes, Where, Shown, Standing, Earned, NothingLeft,
         EarlyPhases, LanePhases, Lanes, Job

(* Before the loop is entered it has no outcome. *)
LEMMA IdleHasNoOutcome == RInv /\ pc = "idle" => outcome = "none"
  BY DEF RInv, Stands

(* A C lane whose artifact agrees with its reference matches it as lowered. *)
LEMMA AgreeingBody ==
  ASSUME RInv, NEW v \in Verdicts(prog, Text(prog)), v \notin Unbuilt, v \in Agreeing
  PROVE  Verdict(prog, Text(prog)) = "match"
<1>1. prog \in Program
  BY DEF RInv, TypeOK
<1>2. Text(prog) \in Candidates(prog)
  BY DEF Text, Candidates
<1>3. v = "match"
  BY <1>1, <1>2, VerdictRange DEF Symptoms, Agreeing
<1>4. QED
  BY <1>3 DEF Verdicts

(* The steps before the lanes. *)
LEMMA EarlyStep ==
  ASSUME HInv, RInv, Reconcile \/ EmitShims \/ EmitWorkspace \/ Verify
  PROVE  HInv'
<1> USE DEF HInv, Go, Exit, Frame, vars
<1>1. phase \in EarlyPhases /\ pc = "idle" /\ outcome = "none" /\ exit = "none"
  BY IdleHasNoOutcome DEF Reconcile, EmitShims, EmitWorkspace, Verify, EarlyPhases, Where
<1>2. agreed = {} /\ temp = {}
  BY <1>1 DEF Shown, Standing, EarlyPhases
<1>3. CASE Reconcile
  BY <1>1, <1>2, <1>3
     DEF Reconcile, HTypes, Where, Shown, Standing, Earned, NothingLeft, EarlyPhases, LanePhases
<1>4. CASE EmitShims
  BY <1>1, <1>2, <1>4
     DEF EmitShims, HTypes, Where, Shown, Standing, Earned, NothingLeft, EarlyPhases, LanePhases
<1>5. CASE EmitWorkspace
  BY <1>1, <1>2, <1>5
     DEF EmitWorkspace, HTypes, Where, Shown, Standing, Earned, NothingLeft, EarlyPhases, LanePhases
<1>6. CASE Verify
  <2>1. /\ said' = said \cup (job.has \cap {"other"})
        /\ UNCHANGED <<agreed, made, temp, job, vars>>
        /\ \/ "sh" \in job.has /\ phase' = "gate" /\ lane' = "sh" /\ exit' = exit
           \/ "sh" \notin job.has /\ "c" \in job.has /\ phase' = "gate" /\ lane' = "c" /\ exit' = exit
           \/ "sh" \notin job.has /\ "c" \notin job.has /\ phase' = "done" /\ exit' = "ok"
              /\ lane' = "none"
    BY <1>6 DEF Verify, Enter, AfterShell, LastLane
  <2>2. job.has \subseteq {"sh", "c", "other"}
    BY DEF HTypes, Job
  <2>3. HTypes'
    BY <2>1, <2>2 DEF HTypes, EarlyPhases, LanePhases, Lanes
  <2>4. Where' /\ Shown' /\ Standing' /\ NothingLeft'
    BY <1>1, <1>2, <2>1 DEF Where, Shown, Standing, NothingLeft, EarlyPhases, LanePhases, Lanes
  <2>5. Earned'
    BY <1>1, <1>2, <2>1, <2>2 DEF Earned
  <2>6. QED
    BY <2>3, <2>4, <2>5
<1>7. QED
  BY <1>3, <1>4, <1>5, <1>6

(* Leaving a lane that agreed, or was disclosed as skipped. *)
LEMMA LeaveLane ==
  ASSUME HInv, RInv, phase \in LanePhases, lane \in Lanes,
         AfterLane, UNCHANGED <<job, made, prog>>,
         outcome' \in {"none", "repaired"}, pc' = "idle" \/ lane = "c",
         lane \in agreed' \cup said', agreed \subseteq agreed', said \subseteq said',
         agreed' \subseteq agreed \cup {lane}, said' \subseteq said \cup {lane},
         lane = "sh" /\ "sh" \in agreed' => job.sh = "same",
         "c" \in agreed' => \/ Verdict(prog, Text(prog)) = "match" /\ ~ prog.silent
                            \/ outcome' = "repaired",
         temp' = {}
  PROVE  HInv'
<1> USE DEF HInv
<1>1. /\ job.has \subseteq {"sh", "c", "other"} /\ lane \in job.has
      /\ job.has \cap {"other"} \subseteq said
      /\ lane = "c" => job.has \cap {"sh"} \subseteq agreed \cup said
      /\ "sh" \in agreed => job.sh = "same"
      /\ "c" \notin agreed /\ exit = "none"
  BY DEF HTypes, Job, Where, Shown, LanePhases
<1>2. \/ lane = "sh" /\ "c" \in job.has /\ phase' = "gate" /\ lane' = "c" /\ exit' = exit
      \/ (lane = "c" \/ "c" \notin job.has) /\ phase' = "done" /\ exit' = "ok" /\ lane' = "none"
  BY DEF AfterLane, AfterShell, LastLane, Enter, Go, Exit, Lanes
<1>3. HTypes'
  BY <1>1, <1>2 DEF HTypes, EarlyPhases, LanePhases, Lanes
<1>4. Where' /\ Standing' /\ NothingLeft'
  BY <1>1, <1>2 DEF Where, Standing, NothingLeft, EarlyPhases, LanePhases, Lanes
<1>5. Shown'
  BY <1>1, <1>2 DEF Shown, EarlyPhases, LanePhases, Lanes
<1>6. Earned'
  BY <1>1, <1>2 DEF Earned, Lanes
<1>7. QED
  BY <1>3, <1>4, <1>5, <1>6

(* The steps of a lane up to its verdict. *)
LEMMA LaneStep ==
  ASSUME HInv, RInv, Gate \/ Reference \/ Emit \/ Build \/ Run \/ Judge
  PROVE  HInv'
<1> USE DEF Frame, vars
<1>1. /\ phase \in {"gate", "reference", "emit", "build", "run", "verdict"} /\ phase \in LanePhases
      /\ lane \in Lanes /\ pc = "idle" /\ outcome = "none" /\ exit = "none"
  BY IdleHasNoOutcome
     DEF HInv, Gate, Reference, Emit, Build, Run, Judge, LanePhases, Where
<1>2. "c" \notin agreed
  BY <1>1 DEF HInv, Shown
<1>3. CASE Gate
  <2>1. CASE lane \in job.tools \cap job.ready
    BY <1>1, <1>3, <2>1 DEF Gate, Go, HInv, HTypes, Where, Shown, Standing, Earned, NothingLeft,
                            EarlyPhases, LanePhases
  <2>2. CASE lane \notin job.tools \cap job.ready
    <3>1. AfterLane /\ said' = said \cup {lane} /\ UNCHANGED <<agreed, made, temp, job, vars>>
      BY <1>3, <2>2 DEF Gate
    <3>2. temp = {} /\ ("sh" \in agreed => job.sh = "same")
      BY <1>3 DEF HInv, Standing, Shown, Gate
    <3>3. QED
      BY <1>1, <1>2, <3>1, <3>2, LeaveLane
  <2>3. QED
    BY <2>1, <2>2
<1>4. CASE Reference
  BY <1>1, <1>4 DEF Reference, Go, HInv, HTypes, Where, Shown, Standing, Earned, NothingLeft,
                    EarlyPhases, LanePhases
<1>5. CASE Emit
  BY <1>1, <1>5 DEF Emit, Go, Exit, HInv, HTypes, Where, Shown, Standing, Earned, NothingLeft,
                    EarlyPhases, LanePhases
<1>6. CASE Build
  <2>1. temp = {lane}
    BY <1>6 DEF HInv, Standing, Build
  <2>2. /\ UNCHANGED <<lane, said, agreed, made, job, vars>>
        /\ \/ phase' = "run" /\ exit' = exit /\ temp' = temp
           \/ temp' = temp \ {lane} /\ \/ lane = "c" /\ phase' = "repair" /\ exit' = exit
                                       \/ phase' = "done" /\ exit' = "failed"
    BY <1>6 DEF Build, Go, Exit
  <2>3. temp \ {lane} = {}
    BY <2>1
  <2>4. QED
    BY <1>1, <2>1, <2>2, <2>3 DEF HInv, HTypes, Where, Shown, Standing, Earned, NothingLeft,
                                  EarlyPhases, LanePhases
<1>7. CASE Run
  <2>1. temp' = {}
    BY <1>7 DEF HInv, Standing, Run
  <2>2. /\ UNCHANGED <<lane, said, agreed, made, job, vars>>
        /\ \/ phase' = "verdict" /\ exit' = exit
           \/ phase' = "done" /\ exit' = "failed"
    BY <1>7 DEF Run, Go, Exit
  <2>3. QED
    BY <1>1, <2>1, <2>2 DEF HInv, HTypes, Where, Shown, Standing, Earned, NothingLeft,
                            EarlyPhases, LanePhases
<1>8. CASE Judge
  <2>1. PICK v \in Shows \ Unbuilt :
          \/ /\ v \in Agreeing /\ ~ Silent
             /\ agreed' = agreed \cup {lane} /\ AfterLane
          \/ /\ v \notin Agreeing /\ lane = "c" /\ job.repair /\ ~ Silent
             /\ Go("repair") /\ UNCHANGED <<agreed, lane>>
          \/ /\ Silent \/ (v \notin Agreeing /\ ~ (lane = "c" /\ job.repair))
             /\ Exit("failed") /\ UNCHANGED <<agreed, lane>>
    BY <1>8 DEF Judge
  <2>2. temp = {} /\ UNCHANGED <<said, made, temp, job, vars>>
    BY <1>8 DEF HInv, Standing, Judge
  <2>3. CASE v \in Agreeing /\ ~ Silent /\ agreed' = agreed \cup {lane} /\ AfterLane
    <3>1. lane = "sh" => job.sh = "same"
      BY <2>1, <2>3 DEF Shows, Silent, Agreeing, HInv, HTypes, Job
    <3>2. lane = "c" => Verdict(prog, Text(prog)) = "match" /\ ~ prog.silent
      BY <2>1, <2>3, AgreeingBody DEF Shows, Silent
    <3>3. QED
      BY <1>1, <1>2, <2>2, <2>3, <3>1, <3>2, LeaveLane DEF Lanes
  <2>4. CASE v \notin Agreeing /\ lane = "c" /\ Go("repair") /\ UNCHANGED <<agreed, lane>>
    BY <1>1, <2>2, <2>4 DEF Go, HInv, HTypes, Where, Shown, Standing, Earned, NothingLeft,
                            EarlyPhases, LanePhases
  <2>5. CASE Exit("failed") /\ UNCHANGED <<agreed, lane>>
    BY <1>1, <2>2, <2>5 DEF Exit, HInv, HTypes, Where, Shown, Standing, Earned, NothingLeft,
                            EarlyPhases, LanePhases
  <2>6. QED
    BY <2>1, <2>3, <2>4, <2>5
<1>9. QED
  BY <1>3, <1>4, <1>5, <1>6, <1>7, <1>8

(* The steps of a repair, and a failure anywhere. *)
LEMMA RepairStep ==
  ASSUME HInv, RInv, RInv', Repair \/ LoopStep \/ Report \/ Fail
  PROVE  HInv'
<1>1. CASE Repair
  <2>1. /\ phase = "repair" /\ UNCHANGED <<lane, said, agreed, made, job, vars>>
        /\ \/ phase' = "done" /\ exit' = "failed" /\ temp' = temp
           \/ phase' = "loop" /\ exit' = exit /\ temp' = temp \cup {"repair"}
    BY <1>1 DEF Repair, Go, Exit, Frame
  <2>2. temp = {}
    BY <2>1 DEF HInv, Standing
  <2>3. QED
    BY <2>1, <2>2 DEF HInv, HTypes, Where, Shown, Standing, Earned, NothingLeft, EarlyPhases,
                      LanePhases, vars
<1>2. CASE LoopStep
  <2>1. phase = "loop" /\ UNCHANGED own
    BY <1>2 DEF LoopStep
  <2>2. exit = "none" /\ "c" \notin agreed
    BY <2>1 DEF HInv, Where, Shown, LanePhases
  <2>3. QED
    BY <2>1, <2>2 DEF own, HInv, HTypes, Where, Shown, Standing, Earned, NothingLeft, EarlyPhases,
                      LanePhases
<1>3. CASE Report
  <2>1. phase = "loop" /\ lane = "c" /\ exit = "none" /\ temp = {"repair"} /\ "c" \notin agreed
    BY <1>3 DEF Report, HInv, Where, Shown, Standing
  <2>2. temp' = {} /\ UNCHANGED <<said, made, job, vars>>
    BY <1>3, <2>1 DEF Report, Frame
  <2>3. CASE outcome = "repaired"
    <3>1. agreed' = agreed \cup {lane} /\ AfterLane
      BY <1>3, <2>1, <2>3 DEF Report, AfterLane
    <3>2. QED
      BY <2>1, <2>2, <2>3, <3>1, LeaveLane DEF Lanes, LanePhases, vars
  <2>4. CASE outcome # "repaired"
    <3>1. phase' = "done" /\ exit' = "failed" /\ UNCHANGED <<agreed, lane>>
      BY <1>3, <2>4 DEF Report, Exit
    <3>2. QED
      BY <2>1, <2>2, <3>1 DEF HInv, HTypes, Where, Shown, Standing, Earned, NothingLeft, EarlyPhases,
                              LanePhases, vars
  <2>5. QED
    BY <2>3, <2>4
<1>4. CASE Fail
  <2>1. /\ phase # "done" /\ phase # "loop" /\ phase' = "done" /\ exit' = "broke"
        /\ made' \subseteq made \cup {"part"}
        /\ temp' \in {temp, temp \cup {lane}} /\ (temp' # temp => phase = "emit")
        /\ UNCHANGED <<lane, said, agreed, job, vars>>
    BY <1>4 DEF Fail, Exit, Frame
  <2>2. "c" \notin agreed /\ (phase = "emit" => lane \in Lanes)
    BY <2>1 DEF HInv, Shown, Where, LanePhases
  <2>3. HTypes'
    BY <2>1, <2>2 DEF HInv, HTypes, Lanes
  <2>4. QED
    BY <2>1, <2>2, <2>3 DEF HInv, Where, Shown, Standing, Earned, NothingLeft, EarlyPhases,
                            LanePhases, vars
<1>5. QED
  BY <1>1, <1>2, <1>3, <1>4

(* Every step. *)
LEMMA HNextInv == HInv /\ RInv /\ RInv' /\ [HNext]_hvars => HInv'
<1> SUFFICES ASSUME HInv, RInv, RInv', [HNext]_hvars PROVE HInv'
  OBVIOUS
<1>1. CASE HNext
  BY <1>1, EarlyStep, LaneStep, RepairStep DEF HNext, HWork
<1>2. CASE UNCHANGED hvars
  <2>1. UNCHANGED own /\ prog' = prog /\ pc' = pc /\ outcome' = outcome
    BY <1>2 DEF hvars, vars
  <2>2. HTypes' /\ Where' /\ Standing' /\ Earned' /\ NothingLeft'
    BY <2>1 DEF own, HInv, HTypes, Where, Standing, Earned, NothingLeft
  <2>3. Shown'
    BY <2>1 DEF own, HInv, Shown
  <2>4. QED
    BY <2>2, <2>3 DEF HInv
<1>3. QED
  BY <1>1, <1>2

-----------------------------------------------------------------------------
(* The theorems.                                                             *)

(* The invariants hold of every command. *)
LEMMA CommandInvariant == HSpec => [](HInv /\ RInv)
  BY HInitInv, HNextInv, LoopInvariant, PTL DEF HSpec

(* Every variable of the command and of the loop in it has its type. *)
THEOREM CommandTypes == HSpec => []HTypeOK
<1>1. HInv /\ RInv => HTypeOK
  BY DEF HInv, HTypes, RInv, HTypeOK, EarlyPhases, LanePhases
<1>2. QED
  BY <1>1, CommandInvariant, PTL

(* Exit code 0 of `--verify`, with or without `--repair`, stands for a match *)
(* or a disclosure in every lane, whatever fails on the way.                 *)
THEOREM CommandIsHonest == HSpec => []HonestExit
<1>1. HInv /\ RInv => HonestExit
  BY DEF HInv, Shown, Earned, RInv, FailClosed, HonestExit
<1>2. QED
  BY <1>1, CommandInvariant, PTL

(* A loop that finds nothing to repair is an inconsistency, never a pass. *)
THEOREM NoSilentPass == HSpec => []NoSilentAgreement
<1>1. HInv => NoSilentAgreement
  BY DEF HInv, Earned, NoSilentAgreement
<1>2. QED
  BY <1>1, CommandInvariant, PTL

(* No directory is left under the temporary one, unless an operation failed. *)
THEOREM CommandCleansUp == HSpec => []NothingLeft
<1>1. HInv => NothingLeft
  BY DEF HInv
<1>2. QED
  BY <1>1, CommandInvariant, PTL
=============================================================================
