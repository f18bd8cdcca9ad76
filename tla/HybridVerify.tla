---------------------------- MODULE HybridVerify ----------------------------
(***************************************************************************)
(* `xpile hybrid`: emit the shims and the workspace of a mixed-language    *)
(* directory, run the differential of each lane, and hand a failure of the *)
(* C lane to the repair loop.                                              *)
(*                                                                         *)
(* The directory has been dispatched.  A job says what was asked and what  *)
(* the directory and the machine are like; RepairLoop's prog says what the *)
(* lowered Rust body of the C lane does when built and run.                *)
(***************************************************************************)
EXTENDS RepairLoop

CONSTANT
  Jobs    \* the jobs a run starts from, see Job below

VARIABLES
  job,    \* the command line and the directory; never changes
  phase,  \* the function the command is in
  lane,   \* the lane being verified
  said,   \* what it has disclosed on the way: a set of notices
  agreed, \* the lanes it has reported as agreeing with their reference
  made,   \* what it has written for the user: "shims", "workspace"
  temp,   \* its directories under the temporary directory
  exit    \* "none" while it runs, then "ok", "failed" or, after a `?`, "broke"

own   == <<job, phase, lane, said, agreed, made, temp, exit>>
hvars == <<own, vars>>

Lanes == {"sh", "c"}

(* The flags; which boundaries the manifest holds; whether it resolves and   *)
(* every boundary has a shim; per lane, whether the tools are there and the  *)
(* lane can be set up at all (scripts paired with modules; a Python main and *)
(* types that ctypes knows); what the shell lane shows.                      *)
Job == [shims : BOOLEAN, workspace : BOOLEAN, verify : BOOLEAN, repair : BOOLEAN,
        has : SUBSET {"sh", "c", "other"}, resolves : BOOLEAN, shimmable : BOOLEAN,
        tools : SUBSET Lanes, ready : SUBSET Lanes,
        sh : {"same", "silent", "differs", "broken"}]

ASSUME HybridAssumption ==
  /\ Jobs \subseteq {j \in Job : j.repair => j.verify}
  /\ \A p \in Programs : p.budget = Len(p.rules) + 1 /\ ~ p.commit

-----------------------------------------------------------------------------
(* Steps of the command up to the lanes.                                     *)

HInit ==
  /\ job \in Jobs /\ phase = "reconcile" /\ lane = "none"
  /\ said = {} /\ agreed = {} /\ made = {} /\ temp = {} /\ exit = "none"
  /\ prog \in Programs /\ IdleLoop

Go(to)    == phase' = to /\ UNCHANGED exit
Exit(how) == phase' = "done" /\ exit' = how
Frame     == UNCHANGED <<job, vars>>

(* dispatch_hybrid_sources, resolve_boundary_to_langs, FfiManifest::reconcile. *)
Reconcile ==
  /\ phase = "reconcile"
  /\ IF job.resolves THEN Go("emit_shims") ELSE Exit("failed")
  /\ UNCHANGED <<lane, said, agreed, made, temp>> /\ Frame

EmitShims ==
  /\ phase = "emit_shims"
  /\ \/ ~ job.shims /\ Go("emit_workspace") /\ UNCHANGED <<said, made>>
     \/ /\ job.shims /\ job.has = {}
        /\ said' = said \cup {"nothing to emit"} /\ Exit("ok") /\ UNCHANGED made
     \/ /\ job.shims /\ job.has # {} /\ job.shimmable
        /\ made' = made \cup {"shims"} /\ Go("emit_workspace") /\ UNCHANGED said
     \/ /\ job.shims /\ job.has # {} /\ ~ job.shimmable
        /\ Exit("failed") /\ UNCHANGED <<said, made>>
  /\ UNCHANGED <<lane, agreed, temp>> /\ Frame

EmitWorkspace ==
  /\ phase = "emit_workspace"
  /\ \/ ~ job.workspace /\ UNCHANGED made
     \/ job.workspace /\ job.shimmable /\ made' = made \cup {"workspace"}
     \/ job.workspace /\ ~ job.shimmable /\ UNCHANGED made
  /\ IF job.workspace /\ ~ job.shimmable THEN Exit("failed")
     ELSE IF job.verify THEN Go("verify") ELSE Exit("ok")
  /\ UNCHANGED <<lane, said, agreed, temp>> /\ Frame

Enter(l)    == Go("gate") /\ lane' = l
LastLane    == Exit("ok") /\ lane' = "none"
AfterShell  == IF "c" \in job.has THEN Enter("c") ELSE LastLane
AfterLane   == IF lane = "sh" THEN AfterShell ELSE LastLane

(* Slip (PMAT-1387): the disclosure only where no lane runs. *)
VerifyDisclosingLast ==
  /\ phase = "verify"
  /\ said' = IF job.has \cap Lanes = {} THEN said \cup (job.has \cap {"other"}) ELSE said
  /\ IF "sh" \in job.has THEN Enter("sh") ELSE AfterShell
  /\ UNCHANGED <<agreed, made, temp>> /\ Frame

(* verify_hybrid: disclose the boundaries nothing can execute; then the      *)
(* shell lane, then the C lane.                                              *)
Verify ==
  /\ phase = "verify"
  /\ said' = said \cup (job.has \cap {"other"})
  /\ IF "sh" \in job.has THEN Enter("sh") ELSE AfterShell
  /\ UNCHANGED <<agreed, made, temp>> /\ Frame

-----------------------------------------------------------------------------
(* A lane: verify_shell_boundary, verify_c_boundary.                         *)

(* Slip: the skip stays in the lane. *)
GateAgain ==
  /\ phase = "gate"
  /\ IF lane \in job.tools \cap job.ready
     THEN Go("reference") /\ UNCHANGED <<lane, said>>
     ELSE Enter(lane) /\ said' = said \cup {lane}
  /\ UNCHANGED <<agreed, made, temp>> /\ Frame

(* Without the tools or a usable set-up the lane is skipped, and says so. *)
Gate ==
  /\ phase = "gate"
  /\ IF lane \in job.tools \cap job.ready
     THEN Go("reference") /\ UNCHANGED <<lane, said>>
     ELSE AfterLane /\ said' = said \cup {lane}
  /\ UNCHANGED <<agreed, made, temp>> /\ Frame

(* run_sh_script, capture_cpython_hybrid_ref. *)
Reference ==
  /\ phase = "reference"
  /\ Go("emit")
  /\ UNCHANGED <<lane, said, agreed, made, temp>> /\ Frame

(* emit_hybrid_workspace: every shim is made before a file is touched. *)
Emit ==
  /\ phase = "emit"
  /\ IF job.shimmable THEN temp' = temp \cup {lane} /\ Go("build")
     ELSE Exit("failed") /\ UNCHANGED temp
  /\ UNCHANGED <<lane, said, agreed, made>> /\ Frame

(* What cargo build, the artifact and diff_stdout will show. *)
Shows    == IF lane = "sh" THEN {job.sh} ELSE Verdicts(prog, Text(prog))
Silent   == IF lane = "sh" THEN job.sh = "silent" ELSE prog.silent
Unbuilt  == {"broken", "build", "mismatch"}
Agreeing == {"same", "silent", "match"}

(* Slip: the workspace of a failed build goes with the command's failure only. *)
BuildKeeping ==
  /\ phase = "build"
  /\ \E v \in Shows :
       IF v \notin Unbuilt THEN Go("run") /\ UNCHANGED temp
       ELSE IF lane = "c" /\ job.repair THEN Go("repair") /\ UNCHANGED temp
       ELSE Exit("failed") /\ temp' = temp \ {lane}
  /\ UNCHANGED <<lane, said, agreed, made>> /\ Frame

Build ==
  /\ phase = "build"
  /\ \E v \in Shows :
       IF v \notin Unbuilt THEN Go("run") /\ UNCHANGED temp
       ELSE /\ temp' = temp \ {lane}
            /\ IF lane = "c" /\ job.repair THEN Go("repair") ELSE Exit("failed")
  /\ UNCHANGED <<lane, said, agreed, made>> /\ Frame

Run ==
  /\ phase = "run"
  /\ temp' = temp \ {lane}
  /\ \/ Go("verdict")
     \/ Exit("failed")    \* the artifact exits non-zero
  /\ UNCHANGED <<lane, said, agreed, made>> /\ Frame

(* differential_verdict: an empty reference is no evidence. *)
Judge ==
  /\ phase = "verdict"
  /\ \E v \in Shows \ Unbuilt :
       \/ /\ v \in Agreeing /\ ~ Silent
          /\ agreed' = agreed \cup {lane} /\ AfterLane
       \/ /\ v \notin Agreeing /\ lane = "c" /\ job.repair /\ ~ Silent
          /\ Go("repair") /\ UNCHANGED <<agreed, lane>>
       \/ /\ Silent \/ (v \notin Agreeing /\ ~ (lane = "c" /\ job.repair))
          /\ Exit("failed") /\ UNCHANGED <<agreed, lane>>
  /\ UNCHANGED <<said, made, temp>> /\ Frame

-----------------------------------------------------------------------------
(* repair_hybrid.                                                            *)

Repair ==
  /\ phase = "repair"
  /\ IF prog.rules = <<>> THEN Exit("failed") /\ UNCHANGED temp
     ELSE Go("loop") /\ temp' = temp \cup {"repair"}
  /\ UNCHANGED <<lane, said, agreed, made>> /\ Frame

LoopStep == phase = "loop" /\ pc # "end" /\ Next /\ UNCHANGED own

(* Slip: a first probe that matches counts as a repair. *)
ReportAlreadyMatching ==
  /\ phase = "loop" /\ pc = "end"
  /\ temp' = temp \ {"repair"}
  /\ IF outcome # "exhausted" THEN agreed' = agreed \cup {lane} /\ LastLane
     ELSE Exit("failed") /\ UNCHANGED <<agreed, lane>>
  /\ UNCHANGED <<said, made>> /\ Frame

Report ==
  /\ phase = "loop" /\ pc = "end"
  /\ temp' = temp \ {"repair"}
  /\ IF outcome = "repaired" THEN agreed' = agreed \cup {lane} /\ LastLane
     ELSE Exit("failed") /\ UNCHANGED <<agreed, lane>>
  /\ UNCHANGED <<said, made>> /\ Frame

(* A `?` on a file, a spawn or a parse: the command stops where it is. *)
Fail ==
  /\ phase \in {"reconcile", "emit_shims", "emit_workspace", "gate", "reference", "emit",
                "build", "run", "repair"}
  /\ \/ UNCHANGED <<made, temp>>
     \/ phase = "emit_workspace" /\ job.workspace /\ made' = made \cup {"part"} /\ UNCHANGED temp
     \/ phase = "emit" /\ temp' = temp \cup {lane} /\ UNCHANGED made
  /\ Exit("broke")
  /\ UNCHANGED <<lane, said, agreed>> /\ Frame

HWork ==
  \/ Reconcile \/ EmitShims \/ EmitWorkspace \/ Verify
  \/ Gate \/ Reference \/ Emit \/ Build \/ Run \/ Judge
  \/ Repair \/ LoopStep \/ Report

HNext == HWork \/ Fail
HSpec == HInit /\ [][HNext]_hvars

(* One thread does it all, and every process it waits for returns. *)
FairHSpec == HSpec /\ WF_hvars(HWork)

-----------------------------------------------------------------------------
(* What must hold of the command.                                            *)

HTypeOK ==
  /\ TypeOK
  /\ job \in Job /\ lane \in Lanes \cup {"none"}
  /\ phase \in {"reconcile", "emit_shims", "emit_workspace", "verify", "gate", "reference", "emit",
                "build", "run", "verdict", "repair", "loop", "done"}
  /\ said \subseteq Lanes \cup {"other", "nothing to emit"}
  /\ agreed \subseteq Lanes /\ made \subseteq {"shims", "workspace", "part"}
  /\ temp \subseteq Lanes \cup {"repair"}
  /\ exit \in {"none", "ok", "failed", "broke"}

(* Exit code 0 of a verification means that every lane agreed with its       *)
(* reference or was disclosed as skipped, and that what no lane can execute  *)
(* was disclosed (verify_hybrid's doc); a C lane agrees only by a matching   *)
(* run of the body as lowered, or of a candidate that the loop's own probe   *)
(* found matching.                                                           *)
HonestExit ==
  exit = "ok" /\ job.verify /\ "nothing to emit" \notin said =>
    /\ job.has \subseteq agreed \cup said
    /\ "sh" \in agreed => job.sh = "same"
    /\ "c" \in agreed => \/ Verdict(prog, Text(prog)) = "match" /\ ~ prog.silent
                         \/ outcome = "repaired" /\ cand \in passed

(* `--verify` and the loop judge one candidate; when they disagree about the *)
(* unrepaired one, the command fails: an already matching loop is no pass.   *)
NoSilentAgreement == exit = "ok" => outcome \in {"none", "repaired"}

(* Whatever the verdicts, the command leaves no workspace behind under the   *)
(* temporary directory; only one that broke off at an operation (`?`) may.   *)
NothingLeft == exit \in {"ok", "failed"} => temp = {}

(* Every command ends. *)
HEnds == <>(phase = "done")

-----------------------------------------------------------------------------
(* A claim of the repository's comments that the code does not keep.          *)

(* "An empty reference is a FIXTURE defect ... a loop probing against an     *)
(* empty reference would converge on any candidate that also prints nothing":*)
(* no lane passes against an empty reference.                                *)
NoVacuousPass == exit = "ok" /\ "c" \in agreed => ~ prog.silent
=============================================================================
