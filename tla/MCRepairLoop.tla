---------------------------- MODULE MCRepairLoop ----------------------------
(* Small instances of RepairLoop for TLC. *)
EXTENDS RepairLoop

(* Two boundaries: f, and one whose name ends in f.  f takes a c_ulong, the  *)
(* other a c_uint.                                                           *)
CONSTANTS f, g, u64, u32, repr

Site1(kind, found, calls, args, end, fits) ==
  [kind |-> kind, found |-> found, calls |-> calls, args |-> args, end |-> end, fits |-> fits]

(* Sites of a program where no call is nested and no name ends in another.   *)
CleanSites(i) ==
  { Site1("call", {f}, {f}, TRUE, i, {u64}),            \* f(3i64)
    Site1("call", {f}, {f}, TRUE, i, {Bare, u64}),      \* f(x) with x: u64
    Site1("call", {g}, {g}, TRUE, i, {u32}),            \* g(3i64)
    Site1("call", {}, {}, TRUE, i, {Bare}),             \* a call of a function of its own
    Site1("decl", {f}, {}, TRUE, i, {Bare}),            \* fn f(x: c_ulong)
    Site1("tail", {}, {}, TRUE, i, {u64}),              \* __r
    Site1("print", {}, {}, TRUE, i, {repr}) }           \* println!("{}", f(..))

ArgRule(s, t) == [kind |-> "arg", symbol |-> s, form |-> t]
ReturnRule    == [kind |-> "return", symbol |-> f, form |-> u64]
FloatRule     == [kind |-> "float", symbol |-> f, form |-> repr]
RuleLists     == { <<ArgRule(f, u64), ArgRule(g, u32)>>, <<ArgRule(f, u64), ReturnRule>>,
                   <<FloatRule>>, <<FloatRule, ArgRule(f, u64)>> }

Made(sites, rules, budget, runs, commit) ==
  [sites |-> sites, rules |-> rules, budget |-> budget, runs |-> runs, silent |-> FALSE,
   commit |-> commit]

CleanPrograms ==
  { Made(<<s1, s2, s3>>, rs, b, r, c) :
      s1 \in CleanSites(1), s2 \in CleanSites(2), s3 \in CleanSites(3),
      rs \in RuleLists, b \in {0, 2, 3}, r \in {"match", "diverge"}, c \in BOOLEAN }

(* Calls the two rules both find, and undo each other on; a definition whose *)
(* name ends in f, before or behind the call.                                *)
Contested(i)  == Site1("call", {f, g}, {g}, TRUE, i, {u32})
CallOfF(i)    == Site1("call", {f}, {f}, TRUE, i, {u64})
Definition(i) == Site1("def", {f}, {}, TRUE, i, {Bare})
ContestedPrograms ==
  { Made(<<s1, s2>>, <<ArgRule(f, u64), ArgRule(g, u32)>>, b, "match", TRUE) :
      s1 \in {Contested(1), CallOfF(1), Definition(1)},
      s2 \in {Contested(2), CallOfF(2), Definition(2)},
      b \in 0 .. 3 }

AllPrograms == CleanPrograms \cup ContestedPrograms
=============================================================================
