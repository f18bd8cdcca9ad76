----------------------------- MODULE RepairLoop -----------------------------
(***************************************************************************)
(* The bounded repair loop of xpile-agent: probe a candidate program,      *)
(* apply the first rule that changes it, probe again.                      *)
(*                                                                         *)
(* A candidate is the program's text reduced to the sites a rule can find, *)
(* in text order: calls `name(args)`, tail lines `__r`, plain prints.  It  *)
(* maps each site to the form it has by now: Bare, or what a rule made of  *)
(* it (the type its arguments are cast to, or "repr" for a print).         *)
(***************************************************************************)
EXTENDS Integers, Sequences, FiniteSets

CONSTANTS
  Programs,   \* the programs a run starts from, see Program below
  Symbols,    \* names of C functions: the boundaries
  Forms,      \* the forms a rule can give a site
  Bare,       \* the form a site starts with
  Flaky       \* may a probe fail for reasons of its own (no disk, no cargo)?

VARIABLES
  prog,     \* the program under repair; never changes
  cand,     \* the candidate: site |-> form
  last,     \* the last symptom
  iter,     \* the iteration the loop is in
  late,     \* has max_wall_clock passed?
  outcome,  \* "none" | "already" | "repaired" | "exhausted"
  reported, \* the iteration count of the outcome
  chain,    \* the rules that fired, in order
  built,    \* the number of probes so far (HybridWorkspaceProbe.seq)
  passed,   \* the candidates a probe found matching
  written,  \* the candidate written to the destination, if any
  pc        \* "idle" | "first" | "loop" | "probe" | "commit" | "end"

vars == <<prog, cand, last, iter, late, outcome, reported, chain, built, passed, written, pc>>

(* A site: what it is (a call, a foreign declaration `fn symbol(..)`, the     *)
(* definition of another function, a tail line, a plain print); the          *)
(* boundaries whose text `symbol(` is found in it; the boundary it really    *)
(* calls, if any; has it arguments; the last site inside its parentheses;    *)
(* the forms that compile and print right.  `runs` is what the artifact does *)
(* once it builds, `silent` whether it prints nothing, `commit` whether the  *)
(* caller writes the result.                                                 *)
Site == [kind : {"call", "decl", "def", "tail", "print"}, found : SUBSET Symbols,
         calls : SUBSET Symbols, args : BOOLEAN, end : Nat, fits : SUBSET (Forms \cup {Bare})]
Rule == [kind : {"arg", "return", "float"}, symbol : Symbols, form : Forms]
Program == [sites : Seq(Site), rules : Seq(Rule), budget : Nat, runs : {"match", "diverge"},
            silent : BOOLEAN, commit : BOOLEAN]

ASSUME RepairAssumption ==
  /\ Programs \subseteq Program
  /\ Bare \notin Forms
  /\ Flaky \in BOOLEAN

-----------------------------------------------------------------------------
(* What cargo, the artifact and the differential say of a candidate.         *)

Sites(p)   == 1 .. Len(p.sites)
Candidates(p) == [Sites(p) -> Forms \cup {Bare}]
Text(p)    == [i \in Sites(p) |-> Bare]      \* the program before any repair
Wrong(p, c, kinds) == {i \in Sites(p) : p.sites[i].kind \in kinds /\ c[i] \notin p.sites[i].fits}

Symptoms == {"mismatch", "build", "float", "diverge"}

(* A cast in a definition is a syntax error, and hides the rest; arguments   *)
(* or a tail of the wrong type are E0308; else the artifact runs.            *)
Verdict(p, c) ==
  IF Wrong(p, c, {"decl", "def"}) # {} THEN "build"
  ELSE IF Wrong(p, c, {"call", "tail"}) # {} THEN "mismatch"
  ELSE IF Wrong(p, c, {"print"}) # {} THEN "float"
  ELSE p.runs

Verdicts(p, c) == {Verdict(p, c)} \cup (IF Flaky THEN {"build"} ELSE {})

-----------------------------------------------------------------------------
(* The rules.  Each yields the site it rewrites, or 0.                       *)

(* insert_arg_cast: scan for `symbol(`; skip a declaration; give up at a     *)
(* call without arguments; skip a call that is cast, parentheses and all.    *)
ArgSite(p, c, r) ==
  LET n == Len(p.sites)
      scan[at \in 1 .. n + 1] ==
        IF at = n + 1 THEN 0
        ELSE LET s == p.sites[at] IN
             IF r.symbol \notin s.found \/ s.kind = "decl" THEN scan[at + 1]
             ELSE IF ~ s.args THEN 0
             ELSE IF c[at] = r.form THEN scan[s.end + 1]
             ELSE at
  IN  scan[1]

FirstBare(p, c, kind) ==
  LET hits == {i \in Sites(p) : p.sites[i].kind = kind /\ c[i] = Bare}
  IN  IF hits = {} THEN 0 ELSE CHOOSE i \in hits : \A j \in hits : i <= j

(* RepairRule::apply: the symptom first, then the text. *)
Applies(p, c, r, sym) ==
  CASE r.kind = "arg"    -> IF sym = "mismatch" THEN ArgSite(p, c, r) ELSE 0
    [] r.kind = "return" -> IF sym = "mismatch" THEN FirstBare(p, c, "tail") ELSE 0
    [] r.kind = "float"  -> IF sym = "float" THEN FirstBare(p, c, "print") ELSE 0

Firing(p, c, sym) == {j \in DOMAIN p.rules : Applies(p, c, p.rules[j], sym) # 0}

-----------------------------------------------------------------------------
(* RepairLoop::run, a step per probe and per rule.                           *)

IdleLoop ==
  /\ cand = <<>> /\ last = "none" /\ iter = 0 /\ late = FALSE
  /\ outcome = "none" /\ reported = 0 /\ chain = <<>> /\ built = 0
  /\ passed = {} /\ written = {} /\ pc = "idle"

Init == prog \in Programs /\ IdleLoop

Begin ==
  /\ pc = "idle"
  /\ cand' = Text(prog) /\ pc' = "first"
  /\ UNCHANGED <<prog, last, iter, late, outcome, reported, chain, built, passed, written>>

(* budget.max_wall_clock elapses. *)
ClockRunsOut ==
  /\ pc \in {"first", "loop", "probe"} /\ ~ late
  /\ late' = TRUE
  /\ UNCHANGED <<prog, cand, last, iter, outcome, reported, chain, built, passed, written, pc>>

(* Slip: run_and_commit writes whatever the loop ended with. *)
StopAndWrite(what, n) ==
  /\ outcome' = what /\ reported' = n
  /\ pc' = IF prog.commit THEN "commit" ELSE "end"

Stop(what, n) ==
  /\ outcome' = what /\ reported' = n
  /\ pc' = IF what \in {"already", "repaired"} /\ prog.commit THEN "commit" ELSE "end"

Probe(whenMatching, n) ==
  \E v \in Verdicts(prog, cand) :
    /\ built' = built + 1
    /\ \/ /\ v = "match"
          /\ passed' = passed \cup {cand}
          /\ Stop(whenMatching, n)
          /\ UNCHANGED <<last, iter>>
       \/ /\ v # "match"
          /\ last' = v /\ iter' = iter + 1 /\ pc' = "loop"
          /\ UNCHANGED <<passed, outcome, reported>>
    /\ UNCHANGED <<prog, cand, late, chain, written>>

FirstProbe == pc = "first" /\ Probe("already", 0)

(* Slips: the last iteration of the budget is not used; a run that no rule   *)
(* can help goes around again.                                               *)
ExhaustEarly ==
  /\ pc = "loop"
  /\ iter >= prog.budget \/ late \/ Firing(prog, cand, last) = {}
  /\ Stop("exhausted", iter - 1)
  /\ UNCHANGED <<prog, cand, last, iter, late, chain, built, passed, written>>

ExhaustWhenSpent ==
  /\ pc = "loop"
  /\ iter > prog.budget \/ late
  /\ Stop("exhausted", iter - 1)
  /\ UNCHANGED <<prog, cand, last, iter, late, chain, built, passed, written>>

(* The `for` head, the wall clock, and find_map over the rules. *)
Exhaust ==
  /\ pc = "loop"
  /\ iter > prog.budget \/ late \/ Firing(prog, cand, last) = {}
  /\ Stop("exhausted", iter - 1)
  /\ UNCHANGED <<prog, cand, last, iter, late, chain, built, passed, written>>

Apply ==
  /\ pc = "loop" /\ iter <= prog.budget /\ ~ late
  /\ \E j \in Firing(prog, cand, last) :
       /\ \A k \in Firing(prog, cand, last) : j <= k
       /\ cand' = [cand EXCEPT ![Applies(prog, cand, prog.rules[j], last)] = prog.rules[j].form]
       /\ chain' = Append(chain, j)
  /\ pc' = "probe"
  /\ UNCHANGED <<prog, last, iter, late, outcome, reported, built, passed, written>>

(* Slip: a count from 0. *)
NextProbeFromZero == pc = "probe" /\ Probe("repaired", iter - 1)

NextProbe == pc = "probe" /\ Probe("repaired", iter)

(* run_and_commit: std::fs::write, which may fail. *)
Commit ==
  /\ pc = "commit"
  /\ written' = written \/ written' = {cand}
  /\ pc' = "end"
  /\ UNCHANGED <<prog, cand, last, iter, late, outcome, reported, chain, built, passed>>

Work == FirstProbe \/ Exhaust \/ Apply \/ NextProbe \/ Commit
Next == Begin \/ ClockRunsOut \/ Work

Spec == Init /\ [][Next]_vars

(* One thread runs the loop and every probe returns. *)
FairSpec == Spec /\ WF_vars(Begin) /\ WF_vars(Work)

-----------------------------------------------------------------------------
(* What must hold of a run.                                                  *)

TypeOK ==
  /\ prog \in Program
  /\ pc # "idle" => cand \in Candidates(prog)
  /\ passed \cup written \subseteq Candidates(prog)
  /\ last \in Symptoms \cup {"none"}
  /\ iter \in Nat /\ reported \in Nat /\ built \in Nat
  /\ late \in BOOLEAN
  /\ outcome \in {"none", "already", "repaired", "exhausted"}
  /\ chain \in Seq(DOMAIN prog.rules)
  /\ pc \in {"idle", "first", "loop", "probe", "commit", "end"}

(* Fail-closed: what a run hands back, and what it writes, is a candidate    *)
(* that a probe found matching; an exhausted run writes nothing.             *)
FailClosed ==
  /\ outcome \in {"already", "repaired"} => cand \in passed
  /\ written # {} => written \subseteq passed /\ outcome \in {"already", "repaired"}

(* The counts a user reads agree: a probe for the original and one for each  *)
(* iteration, an iteration for each rule that fired, never above the budget. *)
CountsAgree ==
  outcome # "none" => /\ built = reported + 1
                      /\ Len(chain) = reported
                      /\ reported <= prog.budget

(* In a program without nested calls or confusable names, every run that     *)
(* has time for a step per site repairs what its rules can repair: when each *)
(* wrong site is in reach of a rule, no rule makes a site wrong and each     *)
(* boundary has one cast.                                                    *)
KindOf(r)   == [arg |-> "call", return |-> "tail", float |-> "print"][r.kind]
Reach(p, r) == {i \in Sites(p) : /\ p.sites[i].kind = KindOf(r)
                                 /\ r.kind = "arg" => r.symbol \in p.sites[i].found}
Plain(p) == \A i \in Sites(p) :
  LET s == p.sites[i]
  IN  /\ s.kind = "call" => s.end = i /\ s.args /\ s.found = s.calls /\ \A a, b \in s.calls : a = b
      /\ s.kind \notin {"call", "decl"} => s.found = {}
OneCast(p) == \A j, k \in DOMAIN p.rules :
  /\ p.rules[j].kind = "arg" /\ p.rules[k].kind = "arg" /\ p.rules[j].symbol = p.rules[k].symbol
  => p.rules[j].form = p.rules[k].form
Harmless(p) == \A j \in DOMAIN p.rules : \A i \in Reach(p, p.rules[j]) :
  p.rules[j].form \in p.sites[i].fits
Reparable(p) ==
  /\ Plain(p) /\ OneCast(p) /\ Harmless(p) /\ p.runs = "match"
  /\ \A i \in Wrong(p, Text(p), {"call", "decl", "def", "tail", "print"}) :
       \E j \in DOMAIN p.rules : i \in Reach(p, p.rules[j])

RepairsWhatItCan ==
  outcome = "exhausted" /\ ~ late /\ ~ Flaky /\ Len(prog.sites) <= prog.budget => ~ Reparable(prog)

(* Every run ends, also when two rules undo each other.                      *)
Ends == <>(pc = "end")
=============================================================================
