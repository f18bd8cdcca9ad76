--------------------------- MODULE MCHybridVerify ---------------------------
(* Small instances of HybridVerify for TLC. *)
EXTENDS HybridVerify

CONSTANTS f, g, u64, u32

ACall(s, t) == [kind |-> "call", found |-> {s}, calls |-> {s}, args |-> TRUE, end |-> 1,
                fits |-> {t}]
ARule(s, t) == [kind |-> "arg", symbol |-> s, form |-> t]
Body(sites, rules, runs, silent) ==
  [sites |-> sites, rules |-> rules, budget |-> Len(rules) + 1, runs |-> runs,
   silent |-> silent, commit |-> FALSE]

(* Lowered bodies: one that is right, one that misses a cast, one that misses *)
(* two, without and with a rule for them.                                     *)
Right   == <<ACall(f, Bare)>>
Uncast  == <<ACall(f, u64)>>
Uncast2 == <<ACall(f, u64), [ACall(g, u32) EXCEPT !.end = 2]>>
Bodies ==
  { Body(s, rs, r, q) :
      s \in {Right, Uncast, Uncast2},
      rs \in {<<>>, <<ARule(f, u64)>>, <<ARule(f, u64), ARule(g, u32)>>},
      r \in {"match", "diverge"}, q \in BOOLEAN }

AJob(flags, has, shimmable, tools, ready, sh) ==
  [shims |-> "shims" \in flags, workspace |-> "workspace" \in flags,
   verify |-> "verify" \in flags, repair |-> "repair" \in flags,
   has |-> has, resolves |-> TRUE, shimmable |-> shimmable,
   tools |-> tools, ready |-> ready, sh |-> sh]

(* Every combination of flags and boundaries where both lanes can run. *)
FlagJobs ==
  { AJob(flags, has, shimmable, Lanes, Lanes, "same") :
      flags \in {fs \in SUBSET {"shims", "workspace", "verify", "repair"} :
                   "repair" \in fs => "verify" \in fs},
      has \in SUBSET {"sh", "c", "other"}, shimmable \in BOOLEAN }

(* Verifications on machines and directories of every kind. *)
LaneJobs ==
  { AJob(flags, has, TRUE, tools, ready, sh) :
      flags \in {{"verify"}, {"verify", "repair"}},
      has \in {{"c"}, {"sh"}, {"c", "sh"}, {"c", "sh", "other"}},
      tools \in SUBSET Lanes, ready \in SUBSET Lanes,
      sh \in {"same", "silent", "differs", "broken"} }

AllJobs == FlagJobs \cup LaneJobs \cup {[j EXCEPT !.resolves = FALSE] : j \in FlagJobs}
RepairJobs == { AJob({"verify", "repair"}, has, TRUE, Lanes, Lanes, "same") :
                  has \in {{"c"}, {"c", "sh"}} }
=============================================================================
