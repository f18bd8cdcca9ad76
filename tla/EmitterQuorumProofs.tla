------------------------- MODULE EmitterQuorumProofs -------------------------
(* Proofs about EmitterQuorum: for any number of parallel lowerings, any     *)
(* emitters and any tolerance, an artifact names as voters the programs that *)
(* ran, and its verdict is about the texts it carries.                       *)
EXTENDS EmitterQuorum, TLAPS

-----------------------------------------------------------------------------
(* The inductive invariant: TypeOK, and for each lowering what its place in  *)
(* lower() and execute_and_compare says of the rest of its state.            *)

(* Only a vote reaches an engine, and only the PTX one waits for rustc. *)
Standing(t) ==
  /\ pc[t] \in {"construct", "nvptx", "adapter"} => job[t].policy = "diffexec"
  /\ pc[t] = "nvptx" => job[t].kind = "ptx3"
  /\ pc[t] \in {"acquire", "write", "compile", "run", "compare"} => Vote(t)
  /\ pc[t] \in {"adapter", "acquire"} => job[t].kind = "gpu"
  /\ pc[t] \in {"write", "compile"} => job[t].kind # "gpu"
  /\ pc[t] = "emit" /\ job[t].policy = "diffexec" /\ job[t].required => engine[t] # "none"
  /\ engine[t] = "three" => job[t].kind = "ptx3" /\ probe = "ok"
  /\ t \in loader => job[t].kind = "gpu"
  /\ pc[t] # "done" => result[t].verdict = "none"

(* An output for each program before the one the engine is at. *)
Progress(t) ==
  /\ pc[t] \in {"construct", "nvptx", "adapter", "emit", "acquire"} => arm[t] = 1 /\ printed[t] = <<>>
  /\ pc[t] \in {"write", "compile", "run"} => Len(printed[t]) = arm[t] - 1
  /\ pc[t] = "compare" => Len(printed[t]) = arm[t] /\ arm[t] \in {2, 3}
  /\ arm[t] = 3 => engine[t] = "three"

(* In a directory of one's own lies what one wrote there. *)
Scratch(t) ==
  OwnScratch(t) =>
    /\ pc[t] = "compile" => disk[File(t)].src = ArmText(t, arm[t])
    /\ pc[t] = "run" => Running(t) = ArmText(t, arm[t])
    /\ \A i \in 1 .. Len(printed[t]) : printed[t][i] = Prints[ArmText(t, i)]

Local(t) ==
  Standing(t) /\ Progress(t) /\ Scratch(t) /\ VotersRanBy(t) /\ VerdictIsOwnOf(t)

QInv == TypeOK /\ \A t \in Lowerings : Local(t)

-----------------------------------------------------------------------------
(* Types of what the actions assign.                                         *)

Outputs == Seq(Int \cup {NaN})

Results ==
  [verdict : {"none", "error", "panic", "single", "match", "divergent", "notrun"},
   primary : Texts \cup {NoText}, sidecar : Texts \cup {NoText},
   emitters : SUBSET {"general", "specialist", "rustc-nvptx"}]

LEMMA JobType ==
  ASSUME TypeOK, NEW t \in Lowerings
  PROVE  /\ job[t] \in Backends
         /\ job[t].kind # "wasm" =>
              /\ ~ job[t].required
              /\ \A x \in {job[t].general, job[t].specialist, RustcKernel} \cap Texts :
                   Len(Prints[x]) = Len(Expected)
<1>1. job \in Jobs
  BY DEF TypeOK
<1> QED
  BY <1>1, JobsAssumption

LEMMA FileType ==
  ASSUME TypeOK, NEW t \in Lowerings
  PROVE  File(t) \in Files
  BY DEF TypeOK, File, Files, work_dir

LEMMA ArmTextType ==
  ASSUME NEW t \in Lowerings, Vote(t), NEW i \in 1 .. 3
  PROVE  ArmText(t, i) \in Texts
<1>1. i = 1 \/ i = 2 \/ i = 3
  OBVIOUS
<1> QED
  BY <1>1, QuorumAssumption DEF ArmText, Vote

LEMMA MultiType ==
  ASSUME NEW t, job[t].general \in Texts, job[t].specialist \in Texts,
         NEW v \in {"match", "divergent", "notrun"}
  PROVE  Multi(t, v) \in Results /\ Multi(t, v).verdict = v
  BY DEF Multi, Artifact, Results

LEMMA FailedType == Failed \in Results /\ Panic \in Results
  BY DEF Failed, Panic, Artifact, Results

(* What lower gives without an engine: a result, and no vote is counted. *)
LEMMA EmissionType ==
  ASSUME TypeOK, NEW t \in Lowerings
  PROVE  /\ Emission(t) \in Results
         /\ job[t].policy = "diffexec" =>
              Emission(t).verdict \in {"error", "single", "notrun"}
         /\ Emission(t).verdict = "notrun" => Vote(t)
<1> DEFINE g == job[t].general
           s == job[t].specialist
<1>1. g \in Texts \cup {"refuses"} /\ s \in Texts \cup {"absent", "declines", "refuses"}
      /\ job[t].policy \in {"prefer", "strict", "diffexec"}
  BY JobType DEF Backends
<1>2. CASE g = "refuses"
  BY <1>2, FailedType DEF Emission, Failed, Artifact
<1>3. CASE g # "refuses" /\ ~ Fired(t)
  <2>1. Emission(t) = Artifact("single", g, NoText, {"general"})
    BY <1>3 DEF Emission
  <2> QED
    BY <1>1, <1>3, <2>1 DEF Artifact, Results
<1>4. CASE g # "refuses" /\ Fired(t) /\ s = "refuses"
  BY <1>4, FailedType DEF Emission, Failed, Artifact
<1>5. CASE g # "refuses" /\ Fired(t) /\ s # "refuses"
  <2>1. g \in Texts /\ s \in Texts
    BY <1>1, <1>5 DEF Fired
  <2>2. CASE job[t].policy = "prefer"
    <3>1. Emission(t) = Artifact("single", s, NoText, {"specialist"})
      BY <1>5, <2>2 DEF Emission
    <3> QED
      BY <2>1, <2>2, <3>1 DEF Artifact, Results
  <2>3. CASE job[t].policy = "strict"
    <3>1. Emission(t) = Multi(t, IF g = s THEN "match" ELSE "divergent")
      BY <1>5, <2>3 DEF Emission
    <3> QED
      BY <2>1, <2>3, <3>1, MultiType
  <2>4. CASE job[t].policy = "diffexec"
    <3>1. Emission(t) = Multi(t, "notrun")
      BY <1>5, <2>4 DEF Emission
    <3> QED
      BY <2>1, <2>4, <3>1, MultiType DEF Vote
  <2> QED
    BY <1>1, <2>2, <2>3, <2>4
<1> QED
  BY <1>2, <1>3, <1>4, <1>5

(* A concluded lowering keeps its place and its result in range. *)
LEMMA ConcludeType ==
  ASSUME TypeOK, NEW t \in Lowerings, NEW r \in Results, Conclude(t, r)
  PROVE  /\ result' = [result EXCEPT ![t] = r]
         /\ pc' = [pc EXCEPT ![t] = "done"]
         /\ result' \in [Lowerings -> Results]
         /\ pc' \in [Lowerings -> Labels]
         /\ pc'[t] = "done" /\ result'[t] = r
  BY DEF TypeOK, Conclude, Goto, Labels, Results

LEMMA GotoType ==
  ASSUME TypeOK, NEW t \in Lowerings, NEW l \in Labels, Goto(t, l)
  PROVE  /\ pc' = [pc EXCEPT ![t] = l]
         /\ pc' \in [Lowerings -> Labels]
         /\ pc'[t] = l
  BY DEF TypeOK, Goto

LEMMA ProbesType ==
  ASSUME TypeOK
  PROVE  /\ rustc_nvptx_probes \subseteq {"ok", "failed"}
         /\ probe = "ok" => rustc_nvptx_probes = {"ok"}
  BY DEF TypeOK, rustc_nvptx_probes

LEMMA RunType ==
  ASSUME TypeOK, NEW t \in Lowerings, Run(t)
  PROVE  /\ Prints[Running(t)] \in Outputs
         /\ printed'[t] = Append(printed[t], Prints[Running(t)])
         /\ printed' \in [Lowerings -> Seq(Outputs)]
         /\ Len(printed'[t]) = Len(printed[t]) + 1
<1>1. Prints[Running(t)] \in Outputs
  BY QuorumAssumption DEF Run, Outputs
<1>2. printed \in [Lowerings -> Seq(Outputs)] /\ printed' = [printed EXCEPT ![t] = Append(@, Prints[Running(t)])]
  BY DEF TypeOK, Run, Outputs
<1>3. printed'[t] = Append(printed[t], Prints[Running(t)]) /\ printed[t] \in Seq(Outputs)
  BY <1>2
<1>4. Append(printed[t], Prints[Running(t)]) \in Seq(Outputs)
  BY <1>1, <1>3
<1> QED
  BY <1>1, <1>2, <1>3, <1>4

LEMMA InitInv == Init => QInv
<1>1. SUFFICES ASSUME Init PROVE QInv
  OBVIOUS
<1>2. Artifact("none", NoText, NoText, {}) \in Results /\ Artifact("none", NoText, NoText, {}).verdict = "none"
  BY DEF Artifact, Results
<1>3. TypeOK
  BY <1>1, <1>2 DEF Init, TypeOK, Labels, Results
<1>4. ASSUME NEW t \in Lowerings PROVE Local(t)
  <2>1. /\ pc[t] = IF job[t].policy = "diffexec" THEN "construct" ELSE "emit"
        /\ engine[t] = "none" /\ arm[t] = 1 /\ printed[t] = <<>> /\ result[t].verdict = "none"
        /\ loader = {}
    BY <1>1, <1>2 DEF Init
  <2>2. Len(printed[t]) = 0
    BY <2>1
  <2>3. Standing(t) /\ Progress(t) /\ Scratch(t)
    BY <2>1, <2>2 DEF Standing, Progress, Scratch
  <2>4. VotersRanBy(t) /\ VerdictIsOwnOf(t)
    BY <2>1 DEF VotersRanBy, VerdictIsOwnOf, Voted
  <2> QED
    BY <2>3, <2>4 DEF Local
<1> QED
  BY <1>3, <1>4 DEF QInv

(* Every step of a lowering keeps the types. *)
LEMMA StepType ==
  ASSUME TypeOK, NEW t \in Lowerings, Standing(t), Progress(t), Step(t)
  PROVE  TypeOK'
<1> USE DEF TypeOK
<1>1. CASE ProbeTools(t)
  <2>1. engine' \in [Lowerings -> {"none", "two", "three"}]
    BY <1>1 DEF ProbeTools
  <2>2. result' \in [Lowerings -> Results] /\ pc' \in [Lowerings -> Labels]
    BY <1>1, ConcludeType, FailedType, GotoType DEF ProbeTools, Labels, Results
  <2> QED
    BY <1>1, <2>1, <2>2 DEF ProbeTools, Results
<1>2. CASE ProbeNvptx(t)
  BY <1>2, ProbesType DEF ProbeNvptx, Goto, Labels
<1>3. CASE ProbeSession(t)
  BY <1>3 DEF ProbeSession, Goto, Labels
<1>4. CASE EnterLoader(t)
  BY <1>4 DEF EnterLoader
<1>5. CASE ProbeAdapter(t)
  <2>1. engine' \in [Lowerings -> {"none", "two", "three"}]
    BY <1>5 DEF ProbeAdapter
  <2>2. result' \in [Lowerings -> Results] /\ pc' \in [Lowerings -> Labels]
    BY <1>5, ConcludeType, FailedType, GotoType DEF ProbeAdapter, Labels, Results
  <2> QED
    BY <1>5, <2>1, <2>2 DEF ProbeAdapter, Results
<1>6. CASE lower(t)
  BY <1>6, ConcludeType, EmissionType DEF lower, Results
<1>7. CASE execute_and_compare(t)
  <2>1. result' \in [Lowerings -> Results] /\ pc' \in [Lowerings -> Labels]
    BY <1>7, ConcludeType, FailedType, GotoType DEF execute_and_compare, Labels, Results
  <2> QED
    BY <1>7, <2>1 DEF execute_and_compare, Results
<1>8. CASE acquire_device(t)
  <2>1. result' \in [Lowerings -> Results] /\ pc' \in [Lowerings -> Labels]
    BY <1>8, ConcludeType, FailedType, GotoType DEF acquire_device, Labels, Results
  <2> QED
    BY <1>8, <2>1 DEF acquire_device, Results
<1>9. CASE WriteSource(t)
  <2>1. ArmText(t, arm[t]) \in Texts
    BY <1>9, ArmTextType DEF WriteSource, Standing
  <2> QED
    BY <1>9, <2>1 DEF WriteSource, Goto, Labels
<1>10. CASE Compile(t)
  <2>1. disk[File(t)] \in [src : Texts \cup {NoText}, bin : Texts \cup {NoText}]
    BY FileType
  <2> QED
    BY <1>10, <2>1 DEF Compile, Goto, Labels
<1>11. CASE Run(t)
  <2>1. printed' \in [Lowerings -> Seq(Outputs)]
    BY <1>11, RunType
  <2>2. CASE arm[t] = 1
    <3>1. arm' = [arm EXCEPT ![t] = 2] /\ Goto(t, IF job[t].kind = "gpu" THEN "run" ELSE "write")
      BY <1>11, <2>2 DEF Run
    <3> QED
      BY <1>11, <2>1, <3>1 DEF Run, Goto, Labels, Outputs
  <2>3. CASE arm[t] # 1
    <3>1. arm' = arm /\ Goto(t, "compare")
      BY <1>11, <2>3 DEF Run
    <3> QED
      BY <1>11, <2>1, <3>1 DEF Run, Goto, Labels, Outputs
  <2> QED
    BY <2>2, <2>3
<1>12. CASE StepFails(t)
  BY <1>12, ConcludeType, FailedType DEF StepFails, Results
<1>13. CASE Compare(t)
  <2> DEFINE v1 == Multi(t, "divergent")
  <2>1. job[t].general \in Texts /\ job[t].specialist \in Texts
    BY <1>13 DEF Compare, Standing, Vote
  <2>2. \A holds \in BOOLEAN : Multi(t, Verdict(holds)) \in Results
    BY <2>1, MultiType DEF Verdict
  <2>3. Multi(t, "divergent") \in Results
    BY <2>1, MultiType
  <2>4. Within(printed[t][1], printed[t][2]) \in BOOLEAN
    BY DEF Within
  <2>5. /\ probe' = probe \/ probe' \in rustc_nvptx_probes
        /\ \/ Conclude(t, Multi(t, "divergent")) /\ arm' = arm
           \/ Conclude(t, Multi(t, Verdict(Within(printed[t][1], printed[t][2])))) /\ arm' = arm
           \/ Goto(t, "write") /\ result' = result /\ arm' = [arm EXCEPT ![t] = 3]
        /\ UNCHANGED <<job, engine, printed, loader, disk>>
    BY <1>13 DEF Compare
  <2>6. result' \in [Lowerings -> Results] /\ pc' \in [Lowerings -> Labels] /\ arm' \in [Lowerings -> 1 .. 3]
    <3>1. CASE Conclude(t, Multi(t, "divergent")) /\ arm' = arm
      BY <3>1, <2>3, ConcludeType
    <3>2. CASE Conclude(t, Multi(t, Verdict(Within(printed[t][1], printed[t][2])))) /\ arm' = arm
      BY <3>2, <2>2, <2>4, ConcludeType
    <3>3. CASE Goto(t, "write") /\ result' = result /\ arm' = [arm EXCEPT ![t] = 3]
      BY <3>3, GotoType DEF Labels, Results
    <3> QED
      BY <2>5, <3>1, <3>2, <3>3
  <2> QED
    BY <2>5, <2>6, ProbesType DEF Results
<1>14. CASE CompareThird(t)
  <2> DEFINE holds == Len(printed[t][1]) = Len(printed[t][3]) /\ Within(printed[t][1], printed[t][2])
                        /\ Within(printed[t][1], printed[t][3])
  <2>1. job[t].general \in Texts /\ job[t].specialist \in Texts
    BY <1>14 DEF CompareThird, Standing, Vote
  <2>2. Multi(t, Verdict(holds)) \in Results
    BY <2>1, MultiType DEF Verdict
  <2>3. Conclude(t, Multi(t, Verdict(holds)))
    BY <1>14 DEF CompareThird
  <2> QED
    BY <1>14, <2>2, <2>3, ConcludeType DEF CompareThird, Results
<1> QED
  BY <1>1, <1>2, <1>3, <1>4, <1>5, <1>6, <1>7, <1>8, <1>9, <1>10, <1>11, <1>12, <1>13, <1>14 DEF Step

(* What a step of one lowering leaves of another: its own state, a probe     *)
(* that succeeded, and a directory it does not share.                        *)
LEMMA OtherDirectory ==
  ASSUME TypeOK, NEW t \in Lowerings, NEW u \in Lowerings, t # u, OwnScratch(u)
  PROVE  File(t) # File(u)
<1>1. job[t] \in Backends /\ job[u] \in Backends
  BY JobType
<1>2. work_dir(t) # work_dir(u)
  BY <1>1, QuorumAssumption DEF work_dir, OwnScratch, Backends, Kinds
<1> QED
  BY <1>2 DEF File

LEMMA OtherFrame ==
  ASSUME TypeOK, NEW t \in Lowerings, NEW u \in Lowerings, t # u, Step(t)
  PROVE  /\ job' = job
         /\ pc'[u] = pc[u] /\ engine'[u] = engine[u] /\ arm'[u] = arm[u]
         /\ printed'[u] = printed[u] /\ result'[u] = result[u]
         /\ probe = "ok" => probe' = "ok"
         /\ u \in loader' => u \in loader
         /\ OwnScratch(u) => disk'[File(u)] = disk[File(u)]
<1>1. job' = job
  BY DEF Step, ProbeTools, ProbeNvptx, ProbeSession, EnterLoader, ProbeAdapter, lower,
         execute_and_compare, acquire_device, WriteSource, Compile, Run, StepFails, Compare, CompareThird
<1>2. pc'[u] = pc[u] /\ result'[u] = result[u]
  BY DEF Step, ProbeTools, ProbeNvptx, ProbeSession, EnterLoader, ProbeAdapter, lower, Goto, Conclude, TypeOK,
         execute_and_compare, acquire_device, WriteSource, Compile, Run, StepFails, Compare, CompareThird
<1>3. engine'[u] = engine[u] /\ arm'[u] = arm[u] /\ printed'[u] = printed[u]
  BY DEF Step, ProbeTools, ProbeNvptx, ProbeSession, EnterLoader, ProbeAdapter, lower, TypeOK,
         execute_and_compare, acquire_device, WriteSource, Compile, Run, StepFails, Compare, CompareThird
<1>4. probe = "ok" => probe' = "ok"
  BY ProbesType DEF Step, ProbeTools, ProbeNvptx, ProbeSession, EnterLoader, ProbeAdapter, lower,
         execute_and_compare, acquire_device, WriteSource, Compile, Run, StepFails, Compare, CompareThird
<1>5. ASSUME OwnScratch(u) PROVE disk'[File(u)] = disk[File(u)]
  <2>1. File(t) # File(u) /\ File(u) \in Files
    BY <1>5, OtherDirectory, FileType
  <2>2. disk' = disk \/ \E x, y : disk' = [disk EXCEPT ![File(t)].src = x] \/ disk' = [disk EXCEPT ![File(t)].bin = y]
    BY DEF Step, ProbeTools, ProbeNvptx, ProbeSession, EnterLoader, ProbeAdapter, lower,
           execute_and_compare, acquire_device, WriteSource, Compile, Run, StepFails, Compare, CompareThird
  <2> QED
    BY <2>1, <2>2 DEF TypeOK
<1>6. u \in loader' => u \in loader
  BY DEF Step, ProbeTools, ProbeNvptx, ProbeSession, EnterLoader, ProbeAdapter, lower,
         execute_and_compare, acquire_device, WriteSource, Compile, Run, StepFails, Compare, CompareThird
<1> QED
  BY <1>1, <1>2, <1>3, <1>4, <1>5, <1>6

(* So whatever another lowering does, this one's part of the invariant holds. *)
LEMMA OtherLocal ==
  ASSUME TypeOK, NEW t \in Lowerings, NEW u \in Lowerings, t # u, Step(t), Local(u)
  PROVE  Local(u)'
<1>1. /\ job' = job
      /\ pc'[u] = pc[u] /\ engine'[u] = engine[u] /\ arm'[u] = arm[u]
      /\ printed'[u] = printed[u] /\ result'[u] = result[u]
      /\ probe = "ok" => probe' = "ok"
      /\ u \in loader' => u \in loader
      /\ OwnScratch(u) => disk'[File(u)] = disk[File(u)]
  BY OtherFrame
<1>2. /\ (OwnScratch(u) <=> OwnScratch(u)') /\ File(u)' = File(u)
      /\ (Vote(u) <=> Vote(u)') /\ (Voted(u) <=> Voted(u)')
  BY <1>1 DEF OwnScratch, File, work_dir, Vote, Voted
<1>3. \A i : ArmText(u, i)' = ArmText(u, i)
  BY <1>1 DEF ArmText
<1>4. Standing(u)'
  BY <1>1, <1>2 DEF Local, Standing
<1>5. Progress(u)'
  BY <1>1 DEF Local, Progress
<1>6. Scratch(u)'
  <2>1. OwnScratch(u) => Running(u)' = Running(u)
    BY <1>1, <1>2, <1>3 DEF Running
  <2>2. Scratch(u)
    BY DEF Local
  <2> QED
    BY <1>1, <1>2, <1>3, <2>1, <2>2 DEF Scratch
<1>7. VotersRanBy(u)' /\ VerdictIsOwnOf(u)'
  BY <1>1, <1>2 DEF Local, VotersRanBy, VerdictIsOwnOf
<1> QED
  BY <1>4, <1>5, <1>6, <1>7 DEF Local

-----------------------------------------------------------------------------
(* A lowering's own steps.                                                   *)

(* In a directory of one's own, the outputs are those of one's own texts.    *)
LEMMA OwnOutputs ==
  ASSUME TypeOK, NEW t \in Lowerings, OwnScratch(t), Scratch(t), Vote(t),
         NEW i \in 1 .. 3, i <= Len(printed[t])
  PROVE  /\ printed[t][i] = Prints[ArmText(t, i)]
         /\ printed[t][i] \in Outputs
         /\ job[t].kind # "wasm" => Len(printed[t][i]) = Len(Expected)
<1>1. printed[t][i] = Prints[ArmText(t, i)]
  <2>1. printed[t] \in Seq(Outputs)
    BY DEF TypeOK, Outputs
  <2>2. Len(printed[t]) \in Nat /\ i \in 1 .. Len(printed[t])
    BY <2>1
  <2> QED
    BY <2>2 DEF Scratch
<1>2. ArmText(t, i) \in Texts
  BY ArmTextType
<1>3. ArmText(t, i) \in {job[t].general, job[t].specialist, RustcKernel}
  <2>1. i = 1 \/ i = 2 \/ i = 3
    OBVIOUS
  <2> QED
    BY <2>1 DEF ArmText
<1>4. job[t].kind # "wasm" => Len(Prints[ArmText(t, i)]) = Len(Expected)
  BY <1>2, <1>3, JobType
<1> QED
  BY <1>1, <1>2, <1>4, QuorumAssumption DEF Outputs

(* The kernels of the PTX engines and the reference are compared in full. *)
LEMMA ThreeAreSettledLate ==
  ASSUME TypeOK, NEW t \in Lowerings, Local(t), engine[t] = "three",
         pc[t] = "compare"
  PROVE  Len(printed[t][1]) = Len(printed[t][2]) /\ probe = "ok" /\ job[t].kind = "ptx3"
<1>1. job[t].kind = "ptx3" /\ probe = "ok" /\ Vote(t) /\ Len(printed[t]) \in {2, 3} /\ Scratch(t)
  BY DEF Local, Standing, Progress
<1>2. OwnScratch(t)
  BY <1>1 DEF OwnScratch
<1> QED
  BY <1>1, <1>2, OwnOutputs

(* What Compare does, case by case. *)
LEMMA CompareCases ==
  ASSUME TypeOK, NEW t \in Lowerings, Local(t), Compare(t)
  PROVE  LET g == printed[t][1]  s == printed[t][2] IN
         /\ pc[t] = "compare" /\ arm[t] = 2
         /\ UNCHANGED <<job, engine, printed, loader, disk>>
         /\ probe = "ok" => probe' = "ok"
         /\ \/ /\ Len(g) # Len(s) \/ (job[t].kind = "gpu" /\ ~ Within(g, Expected))
               /\ engine[t] # "three"
               /\ Conclude(t, Multi(t, "divergent")) /\ arm' = arm
            \/ /\ Len(g) = Len(s)
               /\ job[t].kind = "gpu" => Within(g, Expected)
               /\ engine[t] # "three"
               /\ Conclude(t, Multi(t, Verdict(Within(g, s)))) /\ arm' = arm
            \/ /\ engine[t] = "three"
               /\ arm' = [arm EXCEPT ![t] = 3] /\ Goto(t, "write") /\ result' = result
<1> DEFINE g == printed[t][1]
           s == printed[t][2]
           settled == Len(g) # Len(s) \/ (job[t].kind = "gpu" /\ ~ Within(g, Expected))
<1>1. pc[t] = "compare" /\ arm[t] = 2 /\ UNCHANGED <<job, engine, printed, loader, disk>>
  BY DEF Compare
<1>2. CASE settled
  <2>1. engine[t] # "three"
    BY <1>1, <1>2, ThreeAreSettledLate
  <2> QED
    BY <1>1, <1>2, <2>1 DEF Compare
<1>3. CASE ~ settled /\ engine[t] # "three"
  BY <1>1, <1>3 DEF Compare
<1>4. CASE ~ settled /\ engine[t] = "three"
  <2>1. probe = "ok"
    BY <1>1, <1>4, ThreeAreSettledLate
  <2>2. probe' \in rustc_nvptx_probes
    BY <1>4 DEF Compare
  <2>3. probe' = "ok"
    BY <2>1, <2>2, ProbesType
  <2> QED
    BY <1>1, <1>4, <2>3 DEF Compare
<1> QED
  BY <1>2, <1>3, <1>4

LEMMA OwnStanding ==
  ASSUME TypeOK, NEW t \in Lowerings, Local(t), Step(t), TypeOK'
  PROVE  Standing(t)'
<1> USE DEF Local, Standing, Vote
<1>0. job[t].kind # "wasm" => ~ job[t].required
  BY JobType
<1>1. CASE ProbeTools(t)
  BY <1>0, <1>1 DEF ProbeTools, Goto, Conclude, TypeOK
<1>2. CASE ProbeNvptx(t)
  BY <1>0, <1>2, ProbesType DEF ProbeNvptx, Goto, TypeOK
<1>3. CASE ProbeSession(t)
  BY <1>0, <1>3 DEF ProbeSession, Goto, TypeOK
<1>4. CASE EnterLoader(t)
  BY <1>4 DEF EnterLoader
<1>5. CASE ProbeAdapter(t)
  <2>1. job' = job /\ probe' = probe /\ loader' = {} /\ job[t].kind = "gpu" /\ pc[t] = "adapter"
    BY <1>0, <1>5 DEF ProbeAdapter
  <2>2. \/ engine'[t] \in {"none", "two"} /\ pc'[t] = "emit" /\ result' = result
        \/ engine' = engine /\ pc'[t] = "done"
    BY <1>5 DEF ProbeAdapter, Goto, Conclude, TypeOK
  <2> QED
    BY <1>0, <2>1, <2>2
<1>6. CASE lower(t)
  BY <1>6 DEF lower, Conclude, Goto, TypeOK
<1>7. CASE execute_and_compare(t)
  BY <1>7 DEF execute_and_compare, Conclude, Goto, TypeOK
<1>8. CASE acquire_device(t)
  BY <1>8 DEF acquire_device, Conclude, Goto, TypeOK
<1>9. CASE WriteSource(t)
  BY <1>9 DEF WriteSource, Goto, TypeOK
<1>10. CASE Compile(t)
  BY <1>10 DEF Compile, Goto, TypeOK
<1>11. CASE Run(t)
  BY <1>11 DEF Run, Goto, TypeOK
<1>12. CASE StepFails(t)
  BY <1>12 DEF StepFails, Conclude, Goto, TypeOK
<1>13. CASE Compare(t)
  BY <1>13, CompareCases DEF Conclude, Goto, TypeOK
<1>14. CASE CompareThird(t)
  BY <1>14 DEF CompareThird, Conclude, Goto, TypeOK
<1> QED
  BY <1>1, <1>2, <1>3, <1>4, <1>5, <1>6, <1>7, <1>8, <1>9, <1>10, <1>11, <1>12, <1>13, <1>14 DEF Step

LEMMA OwnProgress ==
  ASSUME TypeOK, NEW t \in Lowerings, Local(t), Step(t), TypeOK'
  PROVE  Progress(t)'
<1>0. Progress(t) /\ arm[t] \in 1 .. 3 /\ printed[t] \in Seq(Outputs) /\ pc[t] \in Labels
  BY DEF Local, TypeOK, Outputs
<1> USE <1>0 DEF Progress, TypeOK
<1>1. CASE ProbeTools(t) \/ ProbeNvptx(t) \/ ProbeSession(t) \/ ProbeAdapter(t)
  BY <1>1 DEF ProbeTools, ProbeNvptx, ProbeSession, ProbeAdapter, Goto, Conclude
<1>4. CASE EnterLoader(t)
  BY <1>4 DEF EnterLoader
<1>6. CASE lower(t) \/ StepFails(t) \/ CompareThird(t)
  BY <1>6 DEF lower, StepFails, CompareThird, Conclude, Goto
<1>7. CASE execute_and_compare(t) \/ acquire_device(t)
  BY <1>7 DEF execute_and_compare, acquire_device, Goto, Conclude
<1>9. CASE WriteSource(t) \/ Compile(t)
  BY <1>9 DEF WriteSource, Compile, Goto
<1>11. CASE Run(t)
  <2>1. Len(printed'[t]) = Len(printed[t]) + 1 /\ Len(printed[t]) = arm[t] - 1
    BY <1>11, RunType DEF Run
  <2>2. engine' = engine
    BY <1>11 DEF Run
  <2>3. CASE arm[t] = 1
    BY <1>11, <2>1, <2>2, <2>3 DEF Run, Goto
  <2>4. CASE arm[t] # 1
    BY <1>11, <2>1, <2>2, <2>4 DEF Run, Goto
  <2> QED
    BY <2>3, <2>4
<1>13. CASE Compare(t)
  <2>1. printed' = printed /\ engine' = engine /\ pc[t] = "compare" /\ arm[t] = 2
    BY <1>13, CompareCases
  <2>2. \/ (\E r : Conclude(t, r)) /\ arm' = arm
        \/ engine[t] = "three" /\ arm' = [arm EXCEPT ![t] = 3] /\ Goto(t, "write")
    BY <1>13, CompareCases
  <2>3. \/ pc'[t] = "done" /\ arm' = arm
        \/ pc'[t] = "write" /\ arm'[t] = 3 /\ engine[t] = "three"
    BY <2>2 DEF Conclude, Goto
  <2>4. Len(printed[t]) = 2
    BY <2>1
  <2> QED
    BY <2>1, <2>3, <2>4
<1> QED
  BY <1>1, <1>4, <1>6, <1>7, <1>9, <1>11, <1>13 DEF Step

LEMMA OwnScratchStep ==
  ASSUME TypeOK, NEW t \in Lowerings, Local(t), Step(t), TypeOK'
  PROVE  Scratch(t)'
<1>0. /\ Scratch(t) /\ Progress(t) /\ Standing(t)
      /\ arm[t] \in 1 .. 3 /\ printed[t] \in Seq(Outputs) /\ pc[t] \in Labels
      /\ File(t) \in Files
  BY FileType DEF Local, TypeOK, Outputs
<1>1. SUFFICES ASSUME OwnScratch(t)'
               PROVE  /\ pc'[t] = "compile" => disk'[File(t)'].src = ArmText(t, arm[t])'
                      /\ pc'[t] = "run" => Running(t)' = ArmText(t, arm[t])'
                      /\ \A i \in 1 .. Len(printed'[t]) : printed'[t][i] = Prints[ArmText(t, i)']
  BY DEF Scratch
<1>2. job' = job
  BY DEF Step, ProbeTools, ProbeNvptx, ProbeSession, EnterLoader, ProbeAdapter, lower,
         execute_and_compare, acquire_device, WriteSource, Compile, Run, StepFails, Compare, CompareThird
<1>3. /\ OwnScratch(t) /\ work_dir(t)' = work_dir(t)
      /\ \A i : ArmText(t, i)' = ArmText(t, i)
      /\ arm' = arm => File(t)' = File(t)
  BY <1>1, <1>2 DEF OwnScratch, work_dir, ArmText, File
<1>4. /\ pc[t] = "compile" => disk[File(t)].src = ArmText(t, arm[t])
      /\ pc[t] = "run" => Running(t) = ArmText(t, arm[t])
      /\ \A i \in 1 .. Len(printed[t]) : printed[t][i] = Prints[ArmText(t, i)]
  BY <1>0, <1>3 DEF Scratch
<1>5. CASE ProbeTools(t) \/ ProbeNvptx(t) \/ ProbeSession(t) \/ ProbeAdapter(t) \/ EnterLoader(t)
             \/ execute_and_compare(t)
  <2>1. printed' = printed /\ pc'[t] \notin {"compile", "run"}
    BY <1>5 DEF ProbeTools, ProbeNvptx, ProbeSession, ProbeAdapter, EnterLoader, execute_and_compare,
                Goto, Conclude, TypeOK
  <2> QED
    BY <1>3, <1>4, <2>1
<1>6. CASE lower(t) \/ StepFails(t) \/ CompareThird(t)
  <2>1. printed' = printed /\ pc'[t] = "done"
    BY <1>6 DEF lower, StepFails, CompareThird, Conclude, Goto, TypeOK
  <2> QED
    BY <1>3, <1>4, <2>1
<1>7. CASE acquire_device(t)
  <2>1. printed' = printed /\ pc'[t] \in {"run", "done"} /\ job[t].kind = "gpu" /\ arm' = arm
    BY <1>0, <1>7 DEF acquire_device, Conclude, Goto, TypeOK, Standing
  <2>2. Running(t)' = ArmText(t, arm[t])'
    BY <1>2, <2>1 DEF Running
  <2> QED
    BY <1>3, <1>4, <2>1, <2>2
<1>8. CASE WriteSource(t)
  <2>1. printed' = printed /\ pc'[t] = "compile" /\ arm' = arm
        /\ disk' = [disk EXCEPT ![File(t)].src = ArmText(t, arm[t])]
    BY <1>8 DEF WriteSource, Goto, TypeOK
  <2>2. disk'[File(t)].src = ArmText(t, arm[t])
    BY <1>0, <2>1 DEF TypeOK
  <2> QED
    BY <1>3, <1>4, <2>1, <2>2
<1>9. CASE Compile(t)
  <2>1. /\ printed' = printed /\ pc'[t] = "run" /\ arm' = arm /\ pc[t] = "compile"
        /\ disk' = [disk EXCEPT ![File(t)].bin = disk[File(t)].src]
    BY <1>9 DEF Compile, Goto, TypeOK
  <2>2. disk'[File(t)].bin = ArmText(t, arm[t])
    BY <1>0, <1>4, <2>1 DEF TypeOK
  <2>3. Running(t)' = ArmText(t, arm[t])'
    BY <1>0, <1>2, <1>3, <2>1, <2>2 DEF Running, Standing
  <2> QED
    BY <1>3, <1>4, <2>1, <2>3
<1>10. CASE Run(t)
  <2>a. /\ printed'[t] = Append(printed[t], Prints[Running(t)])
        /\ Len(printed'[t]) = Len(printed[t]) + 1
    BY <1>10, RunType
  <2>b. Len(printed[t]) = arm[t] - 1
    BY <1>0, <1>10 DEF Run, Progress
  <2>1. /\ printed'[t] = Append(printed[t], Prints[Running(t)])
        /\ Len(printed[t]) = arm[t] - 1 /\ Len(printed'[t]) = arm[t]
    BY <1>0, <2>a, <2>b
  <2>2. \A i \in 1 .. Len(printed'[t]) : printed'[t][i] = Prints[ArmText(t, i)']
    <3>1. SUFFICES ASSUME NEW i \in 1 .. Len(printed'[t]) PROVE printed'[t][i] = Prints[ArmText(t, i)]
      BY <1>3
    <3>2. CASE i = arm[t]
      <4>1. printed'[t][i] = Prints[Running(t)]
        BY <1>0, <2>1, <3>2
      <4> QED
        BY <1>4, <1>10, <3>2, <4>1 DEF Run
    <3>3. CASE i # arm[t]
      <4>1. i \in 1 .. Len(printed[t]) /\ printed'[t][i] = printed[t][i]
        BY <1>0, <2>1, <3>1, <3>3
      <4> QED
        BY <1>4, <4>1
    <3> QED
      BY <3>2, <3>3
  <2>3. CASE arm[t] = 1
    <3>1. pc'[t] = (IF job[t].kind = "gpu" THEN "run" ELSE "write")
      BY <1>10, <2>3 DEF Run, Goto, TypeOK
    <3>2. pc'[t] = "run" => Running(t)' = ArmText(t, arm[t])'
      BY <1>2, <3>1 DEF Running
    <3> QED
      BY <2>2, <3>1, <3>2
  <2>4. CASE arm[t] # 1
    <3>1. pc'[t] = "compare"
      BY <1>10, <2>4 DEF Run, Goto, TypeOK
    <3> QED
      BY <2>2, <3>1
  <2> QED
    BY <2>3, <2>4
<1>11. CASE Compare(t)
  <2>1. printed' = printed /\ pc'[t] \in {"done", "write"}
    BY <1>11, CompareCases DEF Conclude, Goto, TypeOK
  <2> QED
    BY <1>3, <1>4, <2>1
<1> QED
  BY <1>5, <1>6, <1>7, <1>8, <1>9, <1>10, <1>11 DEF Step

(* Who is named ran: Multi names the third toolchain of a three-way engine   *)
(* only, and such an engine has run all three when it concludes.             *)
LEMMA OwnVoters ==
  ASSUME TypeOK, NEW t \in Lowerings, Local(t), Step(t), TypeOK'
  PROVE  VotersRanBy(t)'
<1>0. /\ VotersRanBy(t) /\ Standing(t) /\ Progress(t)
      /\ pc[t] # "done" => result[t].verdict = "none"
      /\ job[t] \in Backends
      /\ job[t].kind # "wasm" => ~ job[t].required
  BY JobType DEF Local, Standing
<1>2. ASSUME result'[t].verdict \notin {"match", "divergent", "notrun"}
      PROVE  VotersRanBy(t)'
  BY <1>2 DEF VotersRanBy, Voted
<1>3. CASE ProbeNvptx(t) \/ ProbeSession(t) \/ EnterLoader(t) \/ WriteSource(t)
             \/ Compile(t) \/ Run(t)
  <2>1. result' = result /\ pc[t] # "done"
    BY <1>3 DEF ProbeNvptx, ProbeSession, EnterLoader, WriteSource, Compile, Run
  <2> QED
    BY <1>0, <1>2, <2>1
<1>4. CASE ProbeTools(t) \/ ProbeAdapter(t) \/ execute_and_compare(t) \/ acquire_device(t) \/ StepFails(t)
  <2>1. pc[t] # "done" /\ (result' = result \/ result'[t] = Panic \/ result'[t] = Failed)
    BY <1>4 DEF ProbeTools, ProbeAdapter, execute_and_compare, acquire_device, StepFails, Conclude, TypeOK
  <2>2. Panic.verdict = "panic" /\ Failed.verdict = "error"
    BY DEF Panic, Failed, Artifact
  <2> QED
    BY <1>0, <1>2, <2>1, <2>2
<1>5. CASE lower(t)
  <2>1. result'[t] = Emission(t) /\ job' = job /\ printed' = printed /\ pc[t] = "emit"
        /\ ~ (Vote(t) /\ engine[t] # "none")
    BY <1>5 DEF lower, Conclude, TypeOK
  <2>2. CASE job[t].policy = "diffexec"
    <3>1. Emission(t).verdict \in {"error", "single", "notrun"}
      BY <2>2, EmissionType
    <3>2. Emission(t).verdict = "notrun" => engine[t] = "none"
      BY <2>1, EmissionType
    <3> QED
      BY <1>0, <2>1, <2>2, <3>1, <3>2 DEF VotersRanBy, Voted, Standing, Progress
  <2>3. CASE job[t].policy # "diffexec"
    <3>1. Emission(t).verdict # "notrun"
      BY <2>3, EmissionType DEF Vote
    <3> QED
      BY <2>1, <2>3, <3>1 DEF VotersRanBy, Voted
  <2> QED
    BY <2>2, <2>3
<1>6. CASE Compare(t)
  <2>1. /\ pc[t] = "compare" /\ printed' = printed /\ arm[t] = 2
        /\ \/ engine[t] # "three" /\ \E v \in {"match", "divergent"} : Conclude(t, Multi(t, v))
           \/ result' = result
    BY <1>6, CompareCases DEF Verdict
  <2>2. CASE engine[t] # "three" /\ \E v \in {"match", "divergent"} : Conclude(t, Multi(t, v))
    <3>1. PICK v \in {"match", "divergent"} : Conclude(t, Multi(t, v))
      BY <2>2
    <3>2. result'[t].emitters = {"general", "specialist"} /\ result'[t].verdict = v
      BY <2>2, <3>1 DEF Conclude, Multi, Artifact, TypeOK
    <3>3. Len(printed'[t]) = 2
      BY <1>0, <2>1 DEF Progress
    <3>4. {Arms[i] : i \in 1 .. 2} = {"general", "specialist"}
      BY DEF Arms
    <3> QED
      BY <3>2, <3>3, <3>4 DEF VotersRanBy
  <2>3. CASE result' = result
    BY <1>0, <1>2, <2>1, <2>3
  <2> QED
    BY <2>1, <2>2, <2>3
<1>7. CASE CompareThird(t)
  <2>1. /\ pc[t] = "compare" /\ printed' = printed /\ arm[t] = 3
        /\ \E v \in {"match", "divergent"} : Conclude(t, Multi(t, v))
    BY <1>7 DEF CompareThird, Verdict
  <2>2. engine[t] = "three" /\ Len(printed'[t]) = 3
    BY <1>0, <2>1 DEF Progress
  <2>3. PICK v \in {"match", "divergent"} : Conclude(t, Multi(t, v))
    BY <2>1
  <2>4. result'[t].emitters = {"general", "specialist", "rustc-nvptx"} /\ result'[t].verdict = v
    BY <2>2, <2>3 DEF Conclude, Multi, Artifact, TypeOK
  <2>5. {Arms[i] : i \in 1 .. 3} = {"general", "specialist", "rustc-nvptx"}
    BY DEF Arms
  <2> QED
    BY <2>2, <2>4, <2>5 DEF VotersRanBy
<1> QED
  BY <1>3, <1>4, <1>5, <1>6, <1>7 DEF Step

(* Without NaN, to be within the tolerance is to agree. *)
LEMMA DistanceInt ==
  ASSUME NEW a \in Int, NEW b \in Int
  PROVE  Distance(a, b) \in Int
<1>1. NaN \notin {a, b}
  BY QuorumAssumption
<1> QED
  BY <1>1 DEF Distance

LEMMA WithinIsAgree ==
  ASSUME NEW xs \in Outputs, NEW ys \in Outputs, Len(xs) = Len(ys), Numeric(xs), Numeric(ys)
  PROVE  Within(xs, ys) <=> Agree(xs, ys)
<1>a. DOMAIN xs = 1 .. Len(xs) /\ DOMAIN ys = 1 .. Len(ys)
  BY DEF Outputs
<1>1. DOMAIN ys = DOMAIN xs /\ DOMAIN xs \cap DOMAIN ys = DOMAIN xs
  BY <1>a
<1>2. ASSUME NEW i \in DOMAIN xs PROVE Distance(xs[i], ys[i]) # NaN
  <2>1. xs[i] \in Int /\ ys[i] \in Int
    BY <1>1, <1>2 DEF Numeric, Outputs
  <2> QED
    BY <2>1, DistanceInt, QuorumAssumption
<1> QED
  BY <1>1, <1>2 DEF Within, Agree

LEMMA ExpectedNumeric == Expected \in Outputs /\ Numeric(Expected)
  BY QuorumAssumption DEF Outputs, Numeric

(* What the verdict of a lowering ought to say. *)
Agreed(t) ==
  /\ Agree(Prints[job[t].general], Prints[job[t].specialist])
  /\ engine[t] = "three" => Agree(Prints[job[t].general], Prints[RustcKernel])
  /\ job[t].kind = "gpu" => Agree(Prints[job[t].general], Expected)

Comparable(t) ==
  /\ OwnScratch(t)
  /\ Numeric(Prints[job[t].general]) /\ Numeric(Prints[job[t].specialist])
  /\ Numeric(Prints[RustcKernel])

LEMMA VoteVerdict ==
  ASSUME TypeOK, NEW t \in Lowerings, NEW v \in {"match", "divergent"},
         Conclude(t, Multi(t, v)), job' = job,
         Comparable(t) => (v = "match" <=> Agreed(t))
  PROVE  VerdictIsOwnOf(t)'
<1>1. result'[t] = Multi(t, v)
  BY DEF TypeOK, Conclude
<1>2. /\ result'[t].verdict = v
      /\ result'[t].primary = job[t].general
      /\ result'[t].sidecar = job[t].specialist
      /\ "rustc-nvptx" \in result'[t].emitters <=> engine[t] = "three"
  BY <1>1 DEF Multi, Artifact
<1>3. OwnScratch(t)' <=> OwnScratch(t)
  BY DEF OwnScratch
<1>4. CASE ~ Comparable(t)
  BY <1>2, <1>3, <1>4 DEF VerdictIsOwnOf, Comparable
<1>5. CASE Comparable(t)
  <2>1. v = "match" <=> Agreed(t)
    BY <1>5
  <2> QED
    BY <1>2, <2>1 DEF VerdictIsOwnOf, Agreed
<1> QED
  BY <1>4, <1>5

(* A vote's verdict is about its own texts: Compare and CompareThird look at *)
(* outputs which, in a directory of one's own, are those of one's own texts. *)
LEMMA OwnVerdict ==
  ASSUME TypeOK, NEW t \in Lowerings, Local(t), Step(t), TypeOK'
  PROVE  VerdictIsOwnOf(t)'
<1>0. /\ VerdictIsOwnOf(t) /\ Standing(t) /\ Progress(t) /\ Scratch(t)
      /\ pc[t] # "done" => result[t].verdict = "none"
      /\ job' = job
  BY DEF Local, Standing, Step, ProbeTools, ProbeNvptx, ProbeSession, EnterLoader, ProbeAdapter, lower,
         execute_and_compare, acquire_device, WriteSource, Compile, Run, StepFails, Compare, CompareThird
<1>2. ASSUME ~ Voted(t)'
      PROVE  VerdictIsOwnOf(t)'
  BY <1>2 DEF VerdictIsOwnOf
<1>3. CASE pc[t] # "done" /\ result'[t] \in {result[t], Panic, Failed}
  <2>1. Panic.verdict = "panic" /\ Failed.verdict = "error"
    BY DEF Panic, Failed, Artifact
  <2> QED
    BY <1>0, <1>2, <1>3, <2>1 DEF Voted
<1>4. CASE ProbeNvptx(t) \/ ProbeSession(t) \/ EnterLoader(t) \/ WriteSource(t)
             \/ Compile(t) \/ Run(t)
  BY <1>3, <1>4 DEF ProbeNvptx, ProbeSession, EnterLoader, WriteSource, Compile, Run
<1>5. CASE ProbeTools(t) \/ ProbeAdapter(t) \/ execute_and_compare(t) \/ acquire_device(t) \/ StepFails(t)
  BY <1>3, <1>5 DEF ProbeTools, ProbeAdapter, execute_and_compare, acquire_device, StepFails, Conclude, TypeOK
<1>6. CASE lower(t)
  <2>1. result'[t] = Emission(t)
    BY <1>6 DEF lower, Conclude, TypeOK
  <2> QED
    BY <1>0, <1>2, <2>1, EmissionType DEF Voted
<1>7. CASE Compare(t)
  <2> DEFINE g == printed[t][1]
             s == printed[t][2]
  <2>1. /\ pc[t] = "compare" /\ arm[t] = 2
        /\ \/ /\ Len(g) # Len(s) \/ (job[t].kind = "gpu" /\ ~ Within(g, Expected))
              /\ engine[t] # "three"
              /\ Conclude(t, Multi(t, "divergent"))
           \/ /\ Len(g) = Len(s)
              /\ job[t].kind = "gpu" => Within(g, Expected)
              /\ engine[t] # "three"
              /\ Conclude(t, Multi(t, Verdict(Within(g, s))))
           \/ result' = result
    BY <1>7, CompareCases
  <2>2. Vote(t) /\ Len(printed[t]) = 2
    BY <1>0, <2>1 DEF Standing, Progress
  <2>3. ASSUME Comparable(t)
        PROVE  /\ g = Prints[job[t].general] /\ s = Prints[job[t].specialist]
               /\ g \in Outputs /\ s \in Outputs /\ Numeric(g) /\ Numeric(s)
               /\ job[t].kind = "gpu" => Len(g) = Len(Expected)
    <3>1. ArmText(t, 1) = job[t].general /\ ArmText(t, 2) = job[t].specialist
      BY DEF ArmText
    <3> QED
      BY <1>0, <2>2, <2>3, <3>1, OwnOutputs DEF Comparable
  <2>4. CASE /\ Len(g) # Len(s) \/ (job[t].kind = "gpu" /\ ~ Within(g, Expected))
             /\ Conclude(t, Multi(t, "divergent"))
    <3>1. Comparable(t) => ~ Agreed(t)
      BY <2>3, <2>4, WithinIsAgree, ExpectedNumeric DEF Agreed, Agree
    <3> QED
      BY <1>0, <2>4, <3>1, VoteVerdict
  <2>5. CASE /\ Len(g) = Len(s)
             /\ job[t].kind = "gpu" => Within(g, Expected)
             /\ engine[t] # "three"
             /\ Conclude(t, Multi(t, Verdict(Within(g, s))))
    <3>1. Comparable(t) => (Within(g, s) <=> Agreed(t))
      BY <2>3, <2>5, WithinIsAgree, ExpectedNumeric DEF Agreed
    <3>2. Verdict(Within(g, s)) \in {"match", "divergent"} /\ (Verdict(Within(g, s)) = "match" <=> Within(g, s))
      BY DEF Verdict
    <3> QED
      BY <1>0, <2>5, <3>1, <3>2, VoteVerdict
  <2>6. CASE result' = result
    BY <1>3, <2>1, <2>6
  <2> QED
    BY <2>1, <2>4, <2>5, <2>6
<1>8. CASE CompareThird(t)
  <2> DEFINE g == printed[t][1]
             s == printed[t][2]
             r == printed[t][3]
             holds == Len(g) = Len(r) /\ Within(g, s) /\ Within(g, r)
  <2>1. pc[t] = "compare" /\ arm[t] = 3 /\ Conclude(t, Multi(t, Verdict(holds)))
    BY <1>8 DEF CompareThird
  <2>2. Vote(t) /\ Len(printed[t]) = 3 /\ engine[t] = "three" /\ job[t].kind = "ptx3"
    BY <1>0, <2>1 DEF Standing, Progress
  <2>3. ASSUME Comparable(t)
        PROVE  /\ g = Prints[job[t].general] /\ s = Prints[job[t].specialist] /\ r = Prints[RustcKernel]
               /\ g \in Outputs /\ s \in Outputs /\ r \in Outputs
               /\ Numeric(g) /\ Numeric(s) /\ Numeric(r)
               /\ Len(g) = Len(s) /\ Len(g) = Len(r)
    <3>1. ArmText(t, 1) = job[t].general /\ ArmText(t, 2) = job[t].specialist /\ ArmText(t, 3) = RustcKernel
      BY DEF ArmText
    <3> QED
      BY <1>0, <2>2, <2>3, <3>1, OwnOutputs DEF Comparable
  <2>4. Comparable(t) => (holds <=> Agreed(t))
    BY <2>2, <2>3, WithinIsAgree DEF Agreed
  <2>5. Verdict(holds) \in {"match", "divergent"} /\ (Verdict(holds) = "match" <=> holds)
    BY DEF Verdict
  <2> QED
    BY <1>0, <2>1, <2>4, <2>5, VoteVerdict
<1> QED
  BY <1>4, <1>5, <1>6, <1>7, <1>8 DEF Step

-----------------------------------------------------------------------------
(* QInv is inductive. *)
LEMMA NextInv == QInv /\ [Next]_vars => QInv'
<1>1. SUFFICES ASSUME QInv, [Next]_vars PROVE QInv'
  OBVIOUS
<1>2. TypeOK /\ \A u \in Lowerings : Local(u)
  BY <1>1 DEF QInv
<1>3. CASE Next
  <2>1. PICK t \in Lowerings : Step(t)
    BY <1>3 DEF Next
  <2>2. TypeOK'
    BY <1>2, <2>1, StepType DEF Local
  <2>3. Local(t)'
    BY <1>2, <2>1, <2>2, OwnStanding, OwnProgress, OwnScratchStep, OwnVoters, OwnVerdict DEF Local
  <2>4. ASSUME NEW u \in Lowerings, u # t PROVE Local(u)'
    BY <1>2, <2>1, <2>4, OtherLocal
  <2>5. \A u \in Lowerings : Local(u)'
    BY <2>3, <2>4
  <2> QED
    BY <2>2, <2>5 DEF QInv
<1>4. CASE UNCHANGED vars
  <2>1. TypeOK'
    BY <1>2, <1>4 DEF vars, TypeOK
  <2>2. ASSUME NEW u \in Lowerings PROVE Local(u)'
    <3>1. Standing(u)' /\ Progress(u)'
      BY <1>2, <1>4 DEF vars, Local, Standing, Progress, Vote
    <3>2. (OwnScratch(u) <=> OwnScratch(u)') /\ File(u)' = File(u) /\ (Voted(u) <=> Voted(u)')
          /\ Running(u)' = Running(u)
      BY <1>4 DEF vars, OwnScratch, File, work_dir, Voted, Running, ArmText
    <3>3. \A i : ArmText(u, i)' = ArmText(u, i)
      BY <1>4 DEF vars, ArmText
    <3>4. Scratch(u)' /\ VotersRanBy(u)' /\ VerdictIsOwnOf(u)'
      BY <1>2, <1>4, <3>2, <3>3 DEF vars, Local, Scratch, VotersRanBy, VerdictIsOwnOf
    <3> QED
      BY <3>1, <3>4 DEF Local
  <2> QED
    BY <2>1, <2>2 DEF QInv
<1> QED
  BY <1>1, <1>3, <1>4

LEMMA SpecInv == Spec => []QInv
<1> QED
  BY InitInv, NextInv, PTL DEF Spec

(* Every state of a run is of the types above, in every parallel order of    *)
(* any number of lowerings (execute_and_compare, lower, the constructors).   *)
THEOREM TypeCorrect == Spec => []TypeOK
<1>1. QInv => TypeOK
  BY DEF QInv
<1> QED
  BY <1>1, SpecInv, PTL

(* The emitters of an artifact are the programs that were run for it: never  *)
(* a voter that did not run, and none that ran left out (lower,              *)
(* new_ptx_3way_diffexec_witness).                                           *)
THEOREM NoFalseVoter == Spec => []VotersRan
<1>1. QInv => VotersRan
  BY DEF QInv, Local, VotersRan
<1> QED
  BY <1>1, SpecInv, PTL

(* Without NaN and with a directory of one's own, a match is what its texts  *)
(* agreed on, whatever ran beside it or before it (execute_and_compare).     *)
THEOREM OwnVerdicts == Spec => []VerdictIsOwn
<1>1. QInv => VerdictIsOwn
  BY DEF QInv, Local, VerdictIsOwn
<1> QED
  BY <1>1, SpecInv, PTL

=============================================================================
