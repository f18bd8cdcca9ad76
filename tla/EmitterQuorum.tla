---------------------------- MODULE EmitterQuorum ----------------------------
(***************************************************************************)
(* Differential execution under the multi-emitter backend.                 *)
(*                                                                         *)
(* A lowering asks a general and a specialist emitter for one text each.   *)
(* Under the DiffExec policy an engine compiles both, runs them, compares  *)
(* what they print, and the artifact says who voted and with what result.  *)
(* Lowerings run in parallel in one process (its test threads), each with  *)
(* a backend of its own.  They share what the engines share: a scratch     *)
(* directory, a probe that is made once, and the Vulkan loader.            *)
(***************************************************************************)
EXTENDS Integers, Sequences, FiniteSets

CONSTANTS
  Lowerings,     \* the threads
  Texts,         \* what emitters may emit
  Prints,        \* what a text prints when it is run: a sequence of numbers
  Expected,      \* the reference the GPU engines compare with as well
  RustcKernel,   \* the text of the third PTX toolchain
  NoText,        \* not a text
  NaN,           \* not a number
  Tolerance,
  Jobs           \* the backend of each lowering: see JobsAssumption

Kinds == {"wasm", "cuda", "ptx", "ptx3", "gpu"}

Backends ==
  [kind : Kinds, policy : {"prefer", "strict", "diffexec"},
   general : Texts \cup {"refuses"},
   specialist : Texts \cup {"absent", "declines", "refuses"},
   required : BOOLEAN]     \* XPILE_REQUIRE_WASM_RUNTIME

(* The harness of a kernel prints one number for each input; only what a     *)
(* WASM module prints depends on the module.                                 *)
ASSUME QuorumAssumption ==
  /\ Lowerings \cap Kinds = {}
  /\ Texts \cap {"refuses", "absent", "declines", NoText} = {}
  /\ NoText \notin {"refuses", "absent", "declines"}
  /\ Prints \in [Texts -> Seq(Int \cup {NaN})]
  /\ NaN \notin Int /\ Tolerance \in Nat
  /\ RustcKernel \in Texts
  /\ Expected \in Seq(Int)

ASSUME JobsAssumption ==
  /\ Jobs \subseteq [Lowerings -> Backends]
  /\ \A j \in Jobs, t \in Lowerings :
       j[t].kind # "wasm" =>
         /\ ~ j[t].required
         /\ \A x \in {j[t].general, j[t].specialist, RustcKernel} \cap Texts :
              Len(Prints[x]) = Len(Expected)

VARIABLES
  job,       \* the backends
  pc,        \* where each lowering is
  engine,    \* the engine its constructor installed: "none" | "two" | "three"
  arm,       \* the program its engine is at
  printed,   \* what the programs run so far printed
  result,    \* what the lowering gave
  probe,     \* the OnceLock of rustc_nvptx: "unset" | "ok" | "failed"
  loader,    \* who is inside the Vulkan loader
  disk       \* the scratch directories: the source and the binary of each arm

vars == <<job, pc, engine, arm, printed, result, probe, loader, disk>>

-----------------------------------------------------------------------------
(* Slip: the directory is the process's. *)
work_dir_of_process(t) == IF job[t].kind = "ptx3" THEN "ptx" ELSE job[t].kind

(* One per process for the wasm and the CUDA engine, one per instance for PTX. *)
work_dir(t) == IF job[t].kind \in {"wasm", "cuda"} THEN job[t].kind ELSE t

Files == ({"wasm", "cuda", "ptx"} \cup Lowerings) \X (1 .. 3)

File(t) == <<work_dir(t), arm[t]>>

ArmText(t, i) ==
  CASE i = 1 -> job[t].general [] i = 2 -> job[t].specialist [] i = 3 -> RustcKernel

(* Slip: the toolchain is tried again at every question. *)
rustc_nvptx_probed_again == {"ok", "failed"}

(* Outcomes of rustc_nvptx_available: it compiles the kernel once per process. *)
rustc_nvptx_probes == IF probe = "unset" THEN {"ok", "failed"} ELSE {probe}

Goto(t, label) == pc' = [pc EXCEPT ![t] = label]

Conclude(t, r) == result' = [result EXCEPT ![t] = r] /\ Goto(t, "done")

Artifact(verdict, primary, sidecar, emitters) ==
  [verdict |-> verdict, primary |-> primary, sidecar |-> sidecar, emitters |-> emitters]

Failed == Artifact("error", NoText, NoText, {})
Panic  == Artifact("panic", NoText, NoText, {})

(* Whoever fired, and the engine's own toolchain if it says that it ran. *)
Multi(t, verdict) ==
  Artifact(verdict, job[t].general, job[t].specialist,
           {"general", "specialist"} \cup
             (IF verdict # "notrun" /\ engine[t] = "three" THEN {"rustc-nvptx"} ELSE {}))

-----------------------------------------------------------------------------
Init ==
  /\ job \in Jobs
  /\ pc = [t \in Lowerings |-> IF job[t].policy = "diffexec" THEN "construct" ELSE "emit"]
  /\ engine = [t \in Lowerings |-> "none"]
  /\ arm = [t \in Lowerings |-> 1]
  /\ printed = [t \in Lowerings |-> <<>>]
  /\ result = [t \in Lowerings |-> Artifact("none", NoText, NoText, {})]
  /\ probe = "unset"
  /\ loader = {}
  \* A process of the same number may have left its files behind.
  /\ \E left \in Texts \cup {NoText} : disk = [f \in Files |-> [src |-> left, bin |-> left]]

(* The constructors: cuda_toolchain_available, wasm_runtime_available. *)
ProbeTools(t) ==
  /\ pc[t] = "construct" /\ job[t].kind # "gpu"
  /\ \/ /\ engine' = [engine EXCEPT ![t] = "two"]
        /\ Goto(t, IF job[t].kind = "ptx3" THEN "nvptx" ELSE "emit")
        /\ UNCHANGED result
     \/ /\ job[t].required
        /\ Conclude(t, Panic)
        /\ UNCHANGED engine
     \/ /\ ~ job[t].required
        /\ Goto(t, "emit")
        /\ UNCHANGED <<engine, result>>
  /\ UNCHANGED <<job, arm, printed, probe, loader, disk>>

ProbeNvptx(t) ==
  /\ pc[t] = "nvptx"
  /\ probe' \in rustc_nvptx_probes
  /\ engine' = [engine EXCEPT ![t] = IF probe' = "ok" THEN "three" ELSE "two"]
  /\ Goto(t, "emit")
  /\ UNCHANGED <<job, arm, printed, result, loader, disk>>

(* gpu_probe_env_usable: a headless session is not probed, the loader would  *)
(* crash.                                                                    *)
ProbeSession(t) ==
  /\ pc[t] = "construct" /\ job[t].kind = "gpu"
  /\ Goto(t, "emit") \/ Goto(t, "adapter")
  /\ UNCHANGED <<job, engine, arm, printed, result, probe, loader, disk>>

(* vulkan_loader_guard, at the probe and when the device is acquired: a       *)
(* guard dropped by a panic poisons the lock, and the next one enters anyway. *)
EnterLoader(t) ==
  /\ job[t].kind = "gpu" /\ pc[t] \in {"adapter", "acquire"}
  /\ loader = {}
  /\ loader' = {t}
  /\ UNCHANGED <<job, pc, engine, arm, printed, result, probe, disk>>

ProbeAdapter(t) ==
  /\ pc[t] = "adapter" /\ t \in loader
  /\ \/ /\ \E up \in {"none", "two"} : engine' = [engine EXCEPT ![t] = up]
        /\ Goto(t, "emit")
        /\ UNCHANGED result
     \/ Conclude(t, Panic) /\ UNCHANGED engine
  /\ loader' = {}
  /\ UNCHANGED <<job, arm, printed, probe, disk>>

-----------------------------------------------------------------------------
(* MultiEmitterBackend::lower *)
Vote(t) == job[t].general \in Texts /\ job[t].specialist \in Texts /\ job[t].policy = "diffexec"

Fired(t) == job[t].specialist \notin {"absent", "declines"}

Emission(t) ==
  LET g == job[t].general  s == job[t].specialist IN
  CASE g = "refuses" -> Failed
    [] g # "refuses" /\ ~ Fired(t) -> Artifact("single", g, NoText, {"general"})
    [] g # "refuses" /\ Fired(t) /\ s = "refuses" -> Failed
    [] g # "refuses" /\ Fired(t) /\ s # "refuses" ->
         CASE job[t].policy = "prefer" -> Artifact("single", s, NoText, {"specialist"})
           [] job[t].policy = "strict" -> Multi(t, IF g = s THEN "match" ELSE "divergent")
           [] job[t].policy = "diffexec" -> Multi(t, "notrun")

lower(t) ==
  /\ pc[t] = "emit" /\ ~ (Vote(t) /\ engine[t] # "none")
  /\ Conclude(t, Emission(t))
  /\ UNCHANGED <<job, engine, arm, printed, probe, loader, disk>>

execute_and_compare(t) ==
  /\ pc[t] = "emit" /\ Vote(t) /\ engine[t] # "none"
  /\ \/ Goto(t, IF job[t].kind = "gpu" THEN "acquire" ELSE "write") /\ UNCHANGED result
     \/ Conclude(t, Failed)    \* a wrong profile, a summary without its shader
  /\ UNCHANGED <<job, engine, arm, printed, probe, loader, disk>>

(* Slip: an early return keeps the guard. *)
acquire_device_leaks(t) ==
  /\ pc[t] = "acquire" /\ t \in loader
  /\ \/ Goto(t, "run") /\ loader' = {} /\ UNCHANGED result
     \/ Conclude(t, Failed) /\ UNCHANGED loader
  /\ UNCHANGED <<job, engine, arm, printed, probe, disk>>

acquire_device(t) ==
  /\ pc[t] = "acquire" /\ t \in loader
  /\ \/ Goto(t, "run") /\ UNCHANGED result
     \/ Conclude(t, Failed)
     \/ Conclude(t, Panic)
  /\ loader' = {}
  /\ UNCHANGED <<job, engine, arm, printed, probe, disk>>

WriteSource(t) ==
  /\ pc[t] = "write"
  /\ disk' = [disk EXCEPT ![File(t)].src = ArmText(t, arm[t])]
  /\ Goto(t, "compile")
  /\ UNCHANGED <<job, engine, arm, printed, result, probe, loader>>

Compile(t) ==
  /\ pc[t] = "compile"
  /\ disk' = [disk EXCEPT ![File(t)].bin = disk[File(t)].src]
  /\ Goto(t, "run")
  /\ UNCHANGED <<job, engine, arm, printed, result, probe, loader>>

(* Run what lies in the directory, or the shader itself; the first arm is    *)
(* followed by the second one.                                               *)
Running(t) == IF job[t].kind = "gpu" THEN ArmText(t, arm[t]) ELSE disk[File(t)].bin

Run(t) ==
  /\ pc[t] = "run"
  /\ Running(t) \in Texts /\ Prints[Running(t)] # <<>>
  /\ printed' = [printed EXCEPT ![t] = Append(@, Prints[Running(t)])]
  /\ IF arm[t] = 1
     THEN /\ arm' = [arm EXCEPT ![t] = 2]
          /\ Goto(t, IF job[t].kind = "gpu" THEN "run" ELSE "write")
     ELSE Goto(t, "compare") /\ UNCHANGED arm
  /\ UNCHANGED <<job, engine, result, probe, loader, disk>>

(* A full disk, a compiler error, a driver fault, a module that prints        *)
(* nothing: never "not run".                                                  *)
StepFails(t) ==
  /\ pc[t] \in {"write", "compile", "run"}
  /\ Conclude(t, Failed)
  /\ UNCHANGED <<job, engine, arm, printed, probe, loader, disk>>

-----------------------------------------------------------------------------
Distance(a, b) == IF NaN \in {a, b} THEN NaN ELSE IF a < b THEN b - a ELSE a - b

(* The greatest distance is within the tolerance: f64::max drops a NaN. *)
Within(xs, ys) ==
  \A i \in DOMAIN xs \cap DOMAIN ys :
    Distance(xs[i], ys[i]) # NaN => Distance(xs[i], ys[i]) <= Tolerance

Verdict(holds) == IF holds THEN "match" ELSE "divergent"

(* Two outputs, and the reference on a GPU.  A third program runs if the     *)
(* engine is three-way and its toolchain is (still) there.                   *)
Compare(t) ==
  /\ pc[t] = "compare" /\ arm[t] = 2
  /\ LET g == printed[t][1]  s == printed[t][2]
         settled == Len(g) # Len(s) \/ (job[t].kind = "gpu" /\ ~ Within(g, Expected))
     IN
     IF settled
     THEN Conclude(t, Multi(t, "divergent")) /\ UNCHANGED <<arm, probe>>
     ELSE IF engine[t] # "three"
     THEN Conclude(t, Multi(t, Verdict(Within(g, s)))) /\ UNCHANGED <<arm, probe>>
     ELSE /\ probe' \in rustc_nvptx_probes
          /\ IF probe' = "ok"
             THEN arm' = [arm EXCEPT ![t] = 3] /\ Goto(t, "write") /\ UNCHANGED result
             ELSE Conclude(t, Multi(t, Verdict(Within(g, s)))) /\ UNCHANGED arm
  /\ UNCHANGED <<job, engine, printed, loader, disk>>

CompareThird(t) ==
  /\ pc[t] = "compare" /\ arm[t] = 3
  /\ LET g == printed[t][1]  s == printed[t][2]  r == printed[t][3] IN
     Conclude(t, Multi(t, Verdict(Len(g) = Len(r) /\ Within(g, s) /\ Within(g, r))))
  /\ UNCHANGED <<job, engine, arm, printed, probe, loader, disk>>

Step(t) ==
  \/ ProbeTools(t) \/ ProbeNvptx(t) \/ ProbeSession(t) \/ EnterLoader(t) \/ ProbeAdapter(t)
  \/ lower(t) \/ execute_and_compare(t)
  \/ acquire_device(t) \/ WriteSource(t) \/ Compile(t) \/ Run(t) \/ StepFails(t)
  \/ Compare(t) \/ CompareThird(t)

Next == \E t \in Lowerings : Step(t)

Spec == Init /\ [][Next]_vars

(* Threads are scheduled, and every tool an engine starts returns. *)
FairSpec == Spec /\ \A t \in Lowerings : WF_vars(Step(t))

-----------------------------------------------------------------------------
Labels == {"construct", "nvptx", "adapter", "emit", "acquire", "write", "compile", "run", "compare", "done"}

TypeOK ==
  /\ job \in Jobs
  /\ pc \in [Lowerings -> Labels]
  /\ engine \in [Lowerings -> {"none", "two", "three"}]
  /\ arm \in [Lowerings -> 1 .. 3]
  /\ printed \in [Lowerings -> Seq(Seq(Int \cup {NaN}))]
  /\ result \in [Lowerings ->
       [verdict : {"none", "error", "panic", "single", "match", "divergent", "notrun"},
        primary : Texts \cup {NoText}, sidecar : Texts \cup {NoText},
        emitters : SUBSET {"general", "specialist", "rustc-nvptx"}]]
  /\ probe \in {"unset", "ok", "failed"}
  /\ loader \in SUBSET Lowerings
  /\ disk \in [Files -> [src : Texts \cup {NoText}, bin : Texts \cup {NoText}]]

Voted(t) == job[t].policy = "diffexec" /\ result[t].verdict \in {"match", "divergent"}

Arms == <<"general", "specialist", "rustc-nvptx">>

VotersRanBy(t) ==
  /\ Voted(t) => result[t].emitters = {Arms[i] : i \in 1 .. Len(printed[t])}
  /\ result[t].verdict = "notrun" => printed[t] = <<>> /\ ~ job[t].required

(* The artifact names as voters exactly the programs that this lowering ran, *)
(* also when the third toolchain was found by another one; a skip ran none,  *)
(* and a run-time declared present is never skipped (lower, "never a false   *)
(* third voter").                                                            *)
VotersRan == \A t \in Lowerings : VotersRanBy(t)

Numeric(xs) == \A i \in DOMAIN xs : xs[i] # NaN

(* Two outputs are the same, up to the tolerance. *)
Agree(xs, ys) ==
  /\ Len(xs) = Len(ys)
  /\ \A i \in DOMAIN xs : Distance(xs[i], ys[i]) <= Tolerance

(* The wasm and the CUDA engines may not share their directory. *)
OwnScratch(t) ==
  job[t].kind \in {"wasm", "cuda"} =>
    \A u \in Lowerings \ {t} : job[u].kind # job[t].kind

VerdictIsOwnOf(t) ==
  LET g == result[t].primary  s == result[t].sidecar IN
  Voted(t) /\ OwnScratch(t) /\ (\A x \in {g, s, RustcKernel} : Numeric(Prints[x])) =>
    (result[t].verdict = "match" <=>
       /\ Agree(Prints[g], Prints[s])
       /\ "rustc-nvptx" \in result[t].emitters => Agree(Prints[g], Prints[RustcKernel])
       /\ job[t].kind = "gpu" => Agree(Prints[g], Expected))

(* A verdict is about the texts in the artifact, whatever other lowerings    *)
(* and earlier processes left in the scratch directories: they match just    *)
(* when they print the same, and the same as the third toolchain's kernel or *)
(* the reference where these vote (execute_and_compare of every engine).     *)
VerdictIsOwn == \A t \in Lowerings : VerdictIsOwnOf(t)

(* Every lowering ends, whoever failed inside the loader's lock. *)
Ends == <>(\A t \in Lowerings : pc[t] = "done")
=============================================================================
