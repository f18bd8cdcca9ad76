# A TLA+ model of xpile

xpile translates Python, C, Shell and WebAssembly through one intermediate
representation (meta-HIR) to nine targets. Its promise is that *"transpile-success
means the output compiles and matches the source's semantics"*, and that it refuses
a construct it cannot translate faithfully (`src/README.md`). These modules state
that promise where it is hardest to keep, as properties of the programs xpile emits
and of the loops xpile itself runs, and check them with TLC and TLAPS.

Contents: [the system](#the-system), [the plan](#the-plan),
[the modules](#the-modules), [the runs](#the-runs), [the proofs](#the-proofs),
[what the checks found](#what-the-checks-found), [not modelled](#not-modelled).

Paths below are relative to `src/crates/`; *wasm* is `xpile-wasm-codegen/src/lib.rs`,
*depyler* is `depyler-frontend/src/lib.rs`, *lift* is `xpile-wasm-frontend/src/lib.rs`.

## The system

Every frontend turns a source file into a meta-HIR `Module`; every backend turns a
`Module` into an `Artifact`; a `TranspileSession` holds the registries of both and
picks by path and by target. Nearly all of this is a pure function from tree to
tree. State, and with it the behaviour worth a state machine, lives in five places:
the *emitted programs* (above all the WASM ones, for which xpile emits a run-time
of its own), the frontends' *walks and scopes* (what a function has mutated, shared
and bound so far decides what is emitted next), the *quorum* of emitters, the *repair
loop*, and the CLI's pipeline for *hybrid workspaces*.

| component | state it keeps | operations | interacts with | what is hard | what makes it correct |
|---|---|---|---|---|---|
| WASM dict/set run-time (*wasm* 6260-7160, 23942-26110) | one page of linear memory, a bump pointer, one base pointer per local | literal, merge, set algebra, store, setdefault, update, pop, del, clear, call, return | shares the heap with strings, lists, structs; calls pass base pointers | growth moves a record while other pointers to it may exist; swap-into-hole reorders; a loop walks what it writes | each statement means what Python says; records stay apart and inside the page; one owner per record |
| WASM list run-time (*wasm* 6100-6230, 19380-21500, 25125-25440) | the same heap: `[count, capacity, elements]`, a fixed number of slack slots | append, insert, pop, del, reverse, sort, store, slices, concatenation, comprehension results | the same heap and call convention; a caller's lists arrive by base pointer | a list never moves, so an append traps when its slack is used up; the address of a slot is computed before the element is; sort and insert shift in place | Python's list through every name of it, until the slack or the page runs out; no write outside the record |
| WASM strings | the same heap, immutable `[length, bytes]` | concat, slice, find, split, join, formatting | keys of dicts, elements of lists | offsets and lengths at the ends; empty needles | Python's `str` on the supported subset |
| WASM integer arithmetic (*wasm* 7294-7560) | none | checked add, sub, mul, neg, abs, floor division, modulo, shifts | traps | rounding of negative operands, overflow tests at the edges of i64, masked shift counts | the exact result or a trap |
| WASM control (foreach, comprehension, structs, methods; 10895-11460) | locals, labels | the gate for loops over hash storage, desugaring with break/continue | heap run-time | storage order where Python has insertion order, or none | a loop that is accepted cannot observe the order |
| Session (`xpile-core`) | registries of frontends, backends, contract frontends and backends | register, dispatch by path, transpile | all frontends and backends | two frontends that claim a path; order of registration | exactly one frontend per path, unknown paths refused |
| Multi-emitter backend and its engines (`xpile-backend` 548-668, `*_diffexec.rs`) | the emitters, the policy, an engine; of the process: a cached probe, the Vulkan loader's lock, scratch directories on disk | `lower` under PreferSpecialist, Strict, DiffExec; write, compile, run, compare | emitters, execution engines, attestations; parallel lowerings share the probe, the lock and the directories | one emitter or one step fails or panics; two lowerings write into one directory, which an earlier process may have filled | an artifact names exactly who voted, on its own texts; every lowering ends |
| Oracle (`xpile-oracle`) | none | compare two outputs | hybrid command, quorum | two runs that both print nothing | a match only where something was observed |
| Repair loop (`xpile-agent/src/repair.rs`) | the candidate, the last symptom, the iteration, the clock | probe, apply the first rule that changes something, probe again, commit | a probe that compiles and runs the candidate; the hybrid command | rules that undo each other; rules that miss or mistake their target in the text; a budget that ends too early; the clock between a rule and its probe | hands back only what a probe found matching; counts agree; it ends; it repairs what its rules can |
| CLI hybrid command (`xpile/src/main.rs` 329-1550) | a workspace under the temporary directory, what was agreed, what was disclosed | dispatch, reconcile, emit, verify each lane, repair | session, manifest, repair loop, oracle, external tools | early returns, skips, lanes one after the other, builds that fail now and then | exit 0 is earned or disclosed; nothing is left behind |
| CLI audit and attestations (2107-3600) | attestation files | audit, record, count quorum | files written by other runs | stale or forged attestations counted as votes | a vote belongs to the artifact it names |
| FFI manifest (`xpile-ffi-manifest`) | modules in order, entries, the emitted workspace | resolve, reconcile, emit shims and a workspace | frontends, hybrid command | files in whatever order the directory lists them; emission into a directory that was written before | complete, independent of the order, a workspace that builds |
| Python frontend: shared lists (*depyler* 579-4176, 13425-13775) | read counts, mutated names, alias classes, per function | walks over the body; clone, move or refuse at each binding, call and embedding | the Rust backend, where each name owns its list | a walk that does not see a mutation; a clone where Python shares | no clone is ever visible, or the function is refused |
| Python frontend: names and loops (*depyler* 398-460, 6265-7060, 9092-10395, 10594-13195) | the names bound so far, those of loops, those of branches that are over, pending guards, fresh-name counter | assign, augmented assign, if/elif, while, range loops, loop else; guards for unbound targets | both backends: WebAssembly's locals belong to the function, Rust's to the block | names that leak out of blocks; a bound or a target that its own body changes; a trap that must stand exactly where CPython raises | the function computes what CPython computes, or is refused |
| WASM lift frontend (*lift* 738-1669) | a recursion of blocks, each with operands that wait and statements built | one case per word of text; refusals | the text of the WASM backend, or of anyone | operands are trees, evaluated later than the machine evaluated them | the lifted function means what the text means, or is refused; emitted text comes back |
| C, Shell, Ruchy frontends | per-file tables | parse to meta-HIR; Ruchy only refuses | session | none of note | refuse what they cannot represent |
| Rust, Ruchy, PTX, WGSL, SPIR-V, Lean, Shell, forjar backends | none | render | session, quorum | reductions across GPU threads | the rendered text means the module |
| Proof lane (LaTeX frontend, Lean and LaTeX contract backends) | contract registry | parse and render contracts | session | none of note | round trip of contract text |
| bigint, contracts, LLM and MCP crates | none, or one map | thin wrappers and stubs | backends | none of note | as their libraries |

Behaviours that are hard: growth and relocation under aliasing, evaluation order
between an address and a value that moves it, loops over a container that is being
written, a heap shared by five kinds of values, the end of the page, the edges of a
word (in emitted code); what a walk over the source overlooks, and a scope that is not
Python's (in the frontends); partial failure, panics and shared directories of parallel
lowerings; budgets and retries of the repair loop; partial failure of a multi-file
pipeline. The emitted programs and the commands have one thread; lowerings run in
parallel wherever a process (its tests, a host) starts them so. Nothing is persisted
but output files, attestations and scratch directories. `PROJECT.json` lists each hazard
at its line with the properties aimed at it.

## The plan

In order of weight. Done: 1 to 8.

1. **Dicts and sets on the bump heap**: `LinearHeap` (memory, allocator, helpers),
   `WasmMaps` (the statements as a state machine), `PyMaps` (what Python means by
   them), `WasmMapsRefine` (refinement), `WasmMapsProofs` (theorems).
2. **Repair loop**: `RepairLoop`.
3. **Hybrid command**: `HybridVerify`, which runs `RepairLoop` as a part of itself;
   `HybridVerifyProofs`, about both.
4. **Manifest and workspace**: `FfiManifest`, with the order of the directory listing
   and repeated emission.
5. **Lists on the heap of 1**: `LinearLists` over `LinearHeap`, `WasmLists`, `PyLists`,
   `WasmListsRefine`; then the loops over hash storage, `HashLoops`.
6. **Arithmetic**: `WasmArith`, used by every module with integers; `WasmArithProofs`
   for every width.
7. **Emitters and verdicts**: `EmitterQuorum`, `EmitterQuorumProofs`.
8. **The two frontends with state worth a model**: shared lists (`ListAliases`,
   `AliasOutcomes`, `AliasProofs`); names and loops, emission and lift, composed: `PyScalars`,
   `PyNames`, `ScalarCode`, `WasmLift`, `ScalarPipeline`.
9. Next, of the code: collection loops and comprehensions in `PyNames` (*depyler*
   9303-9860), try and its dead names, structs' refusals; float and bool twins of the
   list statements; then duplicate registrations and claims on one path (session), and
   strings.
10. Next, of the proofs: of 8, `SharingKept` for lists of lists, which needs what a display
    or an embedding shares in the relation of cells and classes.

## The modules

| module | what it models | state, actions |
|---|---|---|
| `LinearHeap` | linear memory in 8-byte words, each two 32-bit halves; `$__alloc`; the helpers `dict_helpers_for` emits | operators only: memory in, memory out |
| `WasmMaps` | two emitted functions, a caller and a callee, and every dict/set statement of theirs | `mem`, `hp`, one local per name (`loc`), the loop in progress (`run`), the last result (`out`), `trap`; one action per emitter of a statement |
| `MapOps`, `PyMaps` | the same statements in Python: names, objects, contents, exceptions | the abstract specification |
| `WasmMapsRefine` | the refinement mapping and the properties that need contents | |
| `WasmMapsProofs`, `WasmMapsRefineProofs` | theorems and their lemmas: the heap; the contents, and the refinement of `PyMaps` | |
| `RepairLoop` | `RepairLoop::run`, `run_and_commit` and the three rules | the candidate, last symptom, iteration, clock, what was probed and written; a step per probe and per rule |
| `HybridVerify` | `xpile hybrid` from reconciliation to its exit code, both lanes, the repair included | `RepairLoop`'s variables and the command's: phase, lane, what it disclosed, agreed, made, left behind |
| `HybridVerifyProofs` | theorems about the loop and about the command; that it runs the loop by the loop's own steps | |
| `FfiManifest` | dispatch of a directory in any order, resolution and reconciliation of boundaries, emission of a workspace, again and again | the directory, modules in order, manifest, `csrc/` and the shims on disk |
| `FfiManifestProofs` | theorems about it | |
| `LinearLists` | the list helpers over linear memory | operators only |
| `WasmLists` | an emitted function's list statements, over lists a caller passed and lists it built | as `WasmMaps`; one action per emitter of a statement |
| `WasmListsProofs` | theorems about `WasmLists`; that it implements `PyLists` | |
| `PyLists`, `WasmListsRefine` | the same statements in Python; the refinement mapping | the abstract specification |
| `WasmArith` | the integer helpers, at any width | operators: operands to a set of results, `{}` a trap |
| `WasmArithProofs` | theorems about them | |
| `HashLoops` | the gate for loops over a set or a dict's keys, and the loop it lets through | the body, the storage order, the index, the locals; accept, refuse, iterate, leave |
| `ListAliases` | a Python function over lists, written a statement at a time, then the frontend's walks and dispositions in the order of the code | the body, the phase, what was emitted |
| `AliasOutcomes` | what that body prints under Python and as the emitted Rust, on every path through its block | the properties |
| `AliasProofs` | theorems about both | |
| `EmitterQuorum` | parallel lowerings with their engines, the shared probe, lock and scratch directories | per lowering a program counter, what was printed, the result; one action per step of an engine |
| `EmitterQuorumProofs` | theorems about it | |
| `ScalarCode` | meta-HIR trees and WebAssembly text of scalar functions: what each means, and the emission | operators |
| `WasmLift` | the lift of a text, a word at a time, whether the text was emitted or written by hand | the recursion of blocks, the assigned locals, the verdict; one action per kind of word |
| `PyScalars` | scalar Python: syntax and meaning | operators |
| `PyNames` | the lowering of such a function, a leading statement at a time | the lowering context, the statements so far, the guards to come |
| `ScalarPipeline` | `PyNames`, then the emission, then `WasmLift`, on one function | the variables of both |
| `MC...` (one per run's module) | the values of TLC's instances | |

**Correspondence: heap.** A base pointer is a word address; `HeapBase` is above zero, so 0
stands for an unbound local. `[p]` holds the count in its low and the capacity in
its high half, key and value of entry *i* are the words `p+1+2i` and `p+2+2i`: the
layout of the comment at *wasm* 309-327, in words. Allocation sizes stay in bytes and
are rounded up as `$__alloc` does. The page is finite and never grows; a store or a
copy outside it is a trap (`"oob"`), an `unreachable` is the other trap.

A step is one statement, but a statement that loops over `__wasm_dict_set`
(literal, merge, set algebra, update) takes one step per iteration, because what it
walks may be what it writes. `run` is that loop: its accumulator, the walk's `i` and
`n` locals (`n` read once), and what is still to insert. A binding writes its local
only when the loop ends, as the emitted `local.set` does. Parameters may be receivers
of removals, never of insertions (`refuse_heap_param_growth`), and may not be
returned (`emit_heap_ret`): both refusals are guards here. `ForeignAlloc` is any
string, list or struct built between two statements; it fills its words with a marker
that no map statement may touch.

`dict_set` is one operator: update in place, or append, growing first. A trap inside
it ends the instance, so the memory a trap leaves is not modelled. The str-valued
twin of `dict_eq` and `popitem`-like statements the backend refuses have no action.

**Abstracted: heap.** Keys and values are words from small sets; a string key is a base
pointer and `Content` is the text it holds. Expressions are their values, with one
exception: `DictSetOfSetDefault` keeps the order in which `emit_dict_set` evaluates,
because there the order is observable. Reads that change nothing (`len`, `in`, `==`,
`<=`, `isdisjoint`) have no action; `ReadsExact` compares their helpers with Python
in every reachable heap.

**Correspondence: repair loop.** A candidate is the text reduced to what a rule can
find in it: the *sites*, in text order, each a call, a foreign declaration, another
function's definition, a tail line `__r` or a plain print. A site says which symbols'
needles `symbol(` occur in it (`found`) and which function it really calls (`calls`),
because the rules only see the former; where its parentheses end, because the scan
jumps there; and the forms that compile. `ArgSite` is the scan of `insert_arg_cast`:
skip a declaration, give up at a call without arguments, go on behind a call that is
cast. All arguments of a call get one form, as the rule casts them all. What cargo and
the artifact say of a candidate (`Verdict`) follows from the forms: a cast in a
definition does not parse, a missing one is E0308, a plain print of a whole float is
the float divergence, and otherwise the artifact runs as the program says it does.
With `Flaky` a probe may also fail for reasons of its own. `ClockRunsOut` may happen
between any two steps; the loop looks at it only at its head.

**Correspondence: command.** `phase` is the function the command is in. Early returns
leave by `Exit`. A job fixes what is asked and what the machine and the directory are
like (flags, boundaries, tools, whether a lane can be set up); `prog` fixes what the
lowered body of the C lane does. The shell lane's differential shows one of four
results, a field of the job: its gate, build, run and verdict are the same steps.
Every `?` of the code may fail; the command then ends with `"broke"`. Removing a directory
succeeds.

**Correspondence: manifest.** A directory is a set of files; `Dispatch` takes them in
any order, since `read_dir` promises none. A real walk lists a subdirectory's files
together; the instances have at most one file in each subdirectory, so every order is
one a walk can take. Frontends are their results: what a file defines, whether its
types have a C form, what it imports. `csrc` holds files, not names, so that a stale
copy is visible. Only the parts of the workspace that a property tells apart are kept:
`csrc/` and the shims' symbols.

**Correspondence: lists.** As for dicts, with `[p]` = count and capacity and one word per
element. A capacity of zero means "no slack": what a caller passed or a helper built.
`Growable` are the names `collect_growable_lists` lets append and insert; both trap when
the slack is used up (`"capacity"`), since nothing ever moves a list. An element
expression is an *operand*: a constant, or the pop of a list, with or without an index, so that
the order of operands, addresses and counts is observable. `Given` and `Spare` are the
lists a caller passes, aliased or not. Statements that write a list the operand pops
are excluded by `SelfPops = FALSE` (first finding without a run, below).

**Correspondence: arithmetic and loops.** A helper gives a set: `{v}`, or `{}` for a trap.
`Half` and `Bits` stand for 2^63 and 64; every test in the helpers is on signs and on
the wrapped result, so 4 bits exercise each branch, and the theorems hold for any width.
`HashLoops` keeps a loop's body as a tree; the gate (`set_iteration_body_order_safe` and
what it calls) is a recursion over it, and `Exec` runs a body in one of three modes:
as emitted, with Python's integers, and with Python's integers as far as they fit.

**Correspondence: shared lists.** A statement is a record (what it does, to which name, with
which names, in which block). A job gives names, parameters, kinds of statements and
callees; `Write` adds a statement, `Close` ends the body, and then the phases follow
`lower_function_def`: the embed check, the alias classes, the disposition of one binding
after the other, the last check, emission or refusal. In `AliasOutcomes` Python has a heap
of cells and names that hold addresses; Rust has a list per name, and a name that was moved
away may not be used (`MovedAway`, on the places of a `Path`). `Overt` lists, one conjunct
each, what the walks do not see, a mutation or a second holder; `SharingKept` and
`MarksParams` are about the other bodies. `EmittedCompiles` is about every body but those
with a store no walk relates to the move before it (`WrittenUnwatched`). Each exception
stands for programs that are lowered wrongly ([below](#what-the-checks-found)).

**Correspondence: emitters.** `pc` is where a lowering is: constructing its backend (three
probes), emitting, acquiring a device, writing, compiling, running, comparing. `disk` has
a source and a binary for each engine's arm, per process for the engines whose directory is
named after the process (wasm, CUDA) and per lowering for the others. A probe's answer may
change between two calls unless it is cached. The loader's lock is the one lock; a panic
inside it poisons it, and the code takes it all the same. Only the steps that call
the outside (write, compile, run) fail. Initially the directories hold anything: they
are never removed, and process ids come again.

**Correspondence: names and loops.** `LowerStatement` is one round of the loop over the
leading statements in `lower_function_def`: guards that are due, the plan for a guard,
names declared early, the statement, the flag's declaration. The `lower_*` operators take a
context and give a context and statements, as the functions take `&mut ctx`. `Emit`
refuses what the backend refuses (a name nothing declares). A flat run (`TreeGives`) has
WebAssembly's locals, a scoped one (`ScopedGives`) Rust's: a block's own names end with it
and uncover what they hid. Rust's outcome counts if its compiler would find every name
(`InScope`); where it does not, the function is refused loudly. Three hypotheses exclude
programs that are lowered wrongly, and each is needed: without it TLC finds a violation
(the programs are listed [below](#what-the-checks-found)).

- `TargetsApart`: a target that is declared again, because its loop comes again or
  another loop has the same target, is read inside those loops only;
- `ArmsApart`: an `if` that becomes one conditional per name reads nothing it assigned;
- `Homes`: a name a branch binds first is not bound first again by a later loop.

**Correspondence: lift.** `calls` is the recursion of `lift_block_inner`, `lift_if`,
`lift_while` and `lift_loop_cond`; each activation has the operands that wait and the
statements so far. Words that occur only in groups are one word (`loop` with its block,
`guard` = `i32.eqz br_if`, `again` = `br` with two ends). What a text means is the machine
of the WebAssembly standard, written down in `ScalarCode`; a loop runs at most `fuel`
times, then both sides count as endless. `Settled` is the hypothesis of `LiftMeans`: no
word overtakes an operand (writes a local it has read, or leaves past its trap). With
`Pending = TRUE` it is dropped, and TLC finds the wrong lifts listed below.

**Operators marked "slip"** are plausible wrong versions of the definition that
follows them (a short `memory.copy`, a missing refusal). No specification uses them;
`PROJECT.json` substitutes each to show that its property would notice.

## The runs

### Dicts, sets and lists

The first three and the last use `MCWasmMaps`, `ListStatements` uses `MCWasmLists`.
`Removals`, `EmptyAlgebra` and `NestedSetDefault` say what the program may contain; the
last two are FALSE wherever a known defect (below) would hide everything else.

| run | question | instance |
|---|---|---|
| `DictStatements` | do dict statements mean what Python says, also across calls that pass one record to two parameters and return another? do reads and traps? | a caller's dict, a callee's, two parameters, two keys, two values, all statements, 11 words |
| `SetStatements` | sets of strings with two pointers to equal text, algebra, removals; does every loop end? | two sets, three pointers, 14 words, fairness |
| `MergeStatements` | displays that mix pairs and splats, also of the dict they replace; do records stay off each other and off foreign data up to a full page; and what `module_dict_order_offender` assumes: without removals storage order is insertion order | one dict, two keys, two entries, foreign sizes of 4 and 12 bytes, 13 words |
| `ListStatements` | do list statements mean what Python says, through every name of a list, and stay inside their records? | a growable local and a growable parameter, one other name, two passed lists, indices -1 to 1, 12 words |
| `EmptySetGrowth` | a claim that does not hold, see [below](#what-the-checks-found) | two sets with algebra on empty ones |

**Bounds.** `Slack` is 1 where the code has 16, and a literal has at most one or two
entries: a literal is then full after one or two insertions, so growth, the growth of
a grown record and a trap in the middle of a growth all happen in a page of 10 to 16
words. Nothing in the code depends on the value of the slack but when growth starts.
`ListSlack` is 1 for the same reason: an append, and then one too many.
Two keys that agree in their low half tell a 64-bit from a 32-bit comparison; three
pointers to two texts tell content from pointer.

**View.** These runs identify states by `ReadableView` (lists: `ListView`): it leaves out
words no statement can read (abandoned regions, slots past a count) and `stmt`, which no
guard reads. Such words are read by nothing before they are written, so two states with
one view have the same steps up to the view. The invariants and the refinement mapping
read only words of the view; `stmt` occurs in the refinement only as primed, the label
of the step being checked, and TLC evaluates that on every step it generates.

**Fairness.** In `SetStatements` only, and only `RunStep`, weakly: an instance is one thread of control, so a loop it
has entered keeps running. Nothing forces a program to make another statement, a call or
a return.

### Repair loop, command and manifest

| run | question | instance |
|---|---|---|
| `RepairRuns` | is a run fail-closed, are its counts right, does it repair what it can, does it end? | all programs of three sites from seven kinds, four rule lists, budgets 0, 2 and 3; and calls whose names end in one another, with rules that undo each other, budgets 0 to 3 |
| `VerifyRuns` | is exit code 0 honest, is nothing left behind, does every command end? | every combination of flags and boundaries, every machine and directory for the lanes, 36 bodies, operations that fail, flaky builds |
| `ManifestRuns` | is a manifest complete, and independent of the listing where no two languages define a symbol? does a re-emission hold the present C sources? | directories of at most four files: an application, a Python sibling, two C files, a script or a WASM module, listed in any order; two runs on any two of them |

**Bounds.** A rule looks at one site at a time and a scan at the sites that follow; with
three sites one can be before, at and behind the one rewritten. A budget of 0 ends a
run before its first rule, 2 in the middle, 3 lets every site be rewritten. Two rules are
enough to undo each other. Four files are an importer, the file it means, one that
competes with it and one that has nothing to do with it. A run writes only `csrc/` and the
shims, so the second of two runs meets whatever an emission, complete or broken off, can
leave.

**Deadlock** is not checked here: a run, a command and a bounded number of emissions end.

**Fairness.** `FairSpec` of the loop and `FairHSpec` of the command: one thread does all
the work, each step of which returns (a probe waits for cargo and the artifact, which are
assumed to end; the code sets no timeout on them). The clock is not fair: it need not
run out.

### Loops, lists, emitters and scalar code

| run | question | instance |
|---|---|---|
| `LoopRuns` | does a loop over hash storage leave what Python leaves, whatever the order, and trap when it should? | bodies of one or two statements of a pool of some sixty folds, guards, stores, temporaries and nested loops; every order of at most three of {-8, -3, 2, 5}; 4-bit words |
| `AliasRuns` | is a clone ever visible, is a changed parameter marked, does accepted code compile, is read-only code accepted? | fourteen jobs: every body of at most four, five or six statements over two or three names, with rows, grids, calls, one loop, if or try, with and without parameters; blocks run 0 to 2 times |
| `QuorumRuns` | does an artifact name exactly who voted, is a verdict about its own texts, does every lowering end? | two lowerings: one of every engine, policy and emitted texts (right, wrong, and for wasm also NaN and too short; or a refusal) beside one of every engine; directories filled in any way |
| `ScalarRuns` | does what is lowered from Python compute what CPython computes, in both scopes? do guards fire where CPython finds a target unbound? does a lift mean what its text means, and does emitted text come back? | some 4,400 Python functions of an int and a bool (conditionals with elif; one loop over a range; two loops; nested loops; with jumps and else clauses); some 12,000 lowered functions emitted and lifted; every text of at most 6, 7, 10 and 7 words over four vocabularies |

**Bounds.** Three elements are the least that have orders which agree on a prefix. Two
statements are needed for one to change what another reads; a third to observe it. Two
lowerings are the least that can meet in a directory, a probe or a lock; a third would
meet one of them the same way (and the theorems are for any number). Five statements hold
two bindings, a link, a mutation and a print; what needs a sixth was looked for in jobs too
large to keep (six statements over rows and grids, blocks of every kind): some of the
exceptions of `Overt` come from there. In `ScalarRuns`,
`Half = 8` lets a sum overflow, `n` in {-1, 0, 2} gives an empty range, one of two
rounds and a descending one, and `Fuel = 3` lets an inner loop end and come again. A
vocabulary is the words of one hazard: operands overtaken by writes, arms of an if,
loops, results.

**Deadlock** is not checked: a loop, a lowering and a function's way through the tool end.

**Fairness.** In `QuorumRuns`, weak fairness of each lowering's steps: threads are
scheduled, and the tools an engine starts are assumed to return.

## The proofs

### Dicts and sets

`WasmMapsProofs` proves, for every page size, set of names, keys, values, slack and
foreign sizes that satisfy `HeapAssumption` and `MapsAssumption`, and under the
hypothesis `~ EmptyAlgebra`:

| theorem | says |
|---|---|
| `TypeCorrect` | `Spec => []TypeOK` |
| `RecordsStayInside` | every reachable record has a slot, no more entries than slots, and lies in the allocated part of the page |
| `RecordsStayApart` | reachable records overlap neither each other nor a string, list or struct |
| `ForeignStaysIntact` | no dict or set statement changes a word of a string, list or struct |
| `OneOwnerAlways` | a record has one owner, so growth leaves no stale pointer |

`WasmMapsRefineProofs` adds, under the same hypothesis, what is in the records:

| theorem | says |
|---|---|
| `KeysStayDistinct` | no record holds a key twice, nor two pointers to equal text, so the slot a scan stops at is the only one |
| `MemoryTrapMeansFull` | a memory trap means that the page is used up; it never stands for a `KeyError` |
| `ReadsAreExact` | `set_eq`, `set_subset`, `set_disjoint` and `dict_eq` answer what Python answers on the contents, whatever the storage order |
| `OrderIsKept` | in a program without removals (`~ Removals`) the keys of every map keep their places, through growth and in a loop's accumulator: what `module_dict_order_offender` rests on |
| `MapsImplementPython` | under `~ NestedSetDefault` too, `Spec => ImplementsPython`: the emitted program is a behaviour of `PyMaps`, statement for statement |

The hypotheses are needed: with an empty-capacity set operation `RecordsInside` is
false (the first finding); `d[k] = d.setdefault(j, v)` loses `j` when the inner store moves
the record; a removal moves the last entry into the hole.

**Argument.** The inductive invariant is `IInv == TypeOK /\ Good(mem, hp, Records,
foreign) /\ OneOwner /\ RunOK`. `Good` states well-formedness and separation of an
arbitrary *set of records*, not of the locals, so each helper gets one lemma that
speaks of memory only (`GoodSet` for `dict_set`, over `GoodAppend` and `GoodGrow`;
`GoodPop`, `GoodClear`, `GoodNew`, `GoodForeign`), and the statements only say which
record enters or leaves the set. `RunOK` is what a loop in progress needs: no local
holds its accumulator unless it is the receiver of an update, the walks' sources are
bound, and the bound read at a walk's start is still within the source's count, because
a loop only ever inserts. Without `OneOwner` the invariant is not inductive: an
insertion that relocates would leave a parameter pointing at the abandoned region.
Each action has a lemma `...Safe`, `IInvNext` puts them together.

For the contents, `IInv /\ KeysDistinct` is inductive. Three predicates say what a helper
does to a record and name no statement: `Stored` (`dict_set`), `Removed` (`dict_pop`) and
`Copied` (the entries are those of another record, or of the same one before). Each helper
has one lemma that gives them for the record it writes and `Copied` for all others
(`SetStored`, `PopRemoved`), each statement one that says which record that is (`...Effect`),
and the theorems speak of the three predicates. `ReadsAreExact` counts: two records with
distinct keys, one within the other, hold the same keys when their counts agree.

**The refinement.** `PyMaps` has a name's object where the heap has a record, and one step
where the emitted code has a loop. The mapping gives a name the map its record spells
(`Spelled`), a parameter the object of the caller's local that holds the same record
(`PyRef`), and the name a loop is building the map the loop *will* have built: the record
as it is, with what each entry of the loop has still to give laid over it
(`Overlay(Pieces)`). So a display, a set operation or an update is Python's step when its
loop begins, and every step of the loop must leave the overlay as it is. What
that needs of a state, beyond `IInv` and `KeysDistinct`, is in `RInv`:

* `Sharing`: two parameters hold one record only because a caller's local holds it too.
  Otherwise `PyRef` would give one record two objects, and a store through one parameter
  would be missed by the other.
* `LoopKept`: a walk still has the bound its source had when it began, its gate is not the
  map being built, and its source is that map in `d.update(d)` alone, which nothing follows.
  Otherwise an insertion would change what a later entry has to give.

`RInvHolds` proves it. The lemmas then go up in four steps. *Records as maps*: the
predicates of the part above as equations (`CopiedEntries`, `StoredSpelled`,
`RemovedSpelled`). *Overlays*: a piece may join the one under it
(`OverlayJoins`), part of a piece may go to the bottom first (`OverlayMoves`). *Loops*: one
lemma per loop action, each an instance of these (`PutStutters`, `InsertStutters`,
`EndStutters`, ...); an entry that is overwritten by a later one and a key that the walked
map and the built one share are the cases that need the order of the overlay.
*Statements*: one lemma per action against its action of `PyMaps` (`DisplayStep`,
`AlgebraStep`, `StoreStep`, `PopStep`, `CallStep`, `ReturnMapStep`, ...), where a memory
trap is `PyMaps`' `OutOfMemory` and a trap on an absent key its `KeyError`. `StepsAsPython`
puts them together.

### Lists

For every page, slack, fixed table, index range and set of names that satisfies
`HeapAssumption` and `ListsAssumption` (the fixed table has distinct keys, as a dict has),
and, but for the last theorem, with no further hypothesis:

| theorem | says |
|---|---|
| `ListHeapTidy` | types, and the heap between statements: lists apart, below the bump pointer, the words above it untouched |
| `ListsStayInside` | every list has at most as many elements as it has words; no statement writes past them |
| `ListsStayApart` | lists share no word with each other or with the module's table |
| `SortIsStable` | `insertion_sort` gives the elements it was given, each as often, in the order asked for, equal keys as they stood, in both directions |
| `SortsInPlace` | a sort statement does that to the one record its name holds, whoever else names it, and changes no other list |
| `ListsImplementPython` | under `~ SelfPops`, `Spec => ImplementsPython`: every statement has the effect, the result and the exception of its statement in `PyLists`, through every name of a list, until the slack or the page runs out |

**Argument.** `LInv` is `ListsTypeOK` and `Tidy`. What makes the proof go through is that a
*statement* is not atomic in memory: its operand may pop the very list whose element
address is computed, and that list is then written past its new count, though not past
the words it had. `Heap(m, h, d, R, e)` therefore carries for each record `p` the words
`e[p]` it had when the statement began; an operand lemma keeps it (`InPlace`), and `Tidy` is
`Heap` with `e[p]` the words of now. The helpers that loop (`list_sum`, minimum and maximum,
the fill of a comprehension) are recursive functions: that they exist and meet their
equations is itself proved (`Recursion`, from `Along` and `Exists`), by least
counterexample over the well-founded order of the naturals. `Init` lets a caller pass any
lists that fit in the page; a list that did not would have trapped in the caller.

*Sorting.* One pass moves the hole down to the last element that need not shift: everything
above it moves up one word and the element lands behind it (`SinksTo`, proved of the pass
by `SinksThere`). `Arranges(p, t, s, desc, i)` says that `t` is `s` up to `i`
rearranged by the permutation `p`, ordered, with `p` increasing on equal keys;
`SinkArranges` carries it over a pass. Stability needs `desc`
to be read in the comparison (`should_shift`), as the code does: sorting upwards and
reversing would order equal keys backwards. `SortsInPlace` then reads the
record before and after the statement through `InPlaceHeap`.

*The refinement.* A base pointer is an object's identity and `PyObj` gives it the words
behind it, so the mapping itself is simple and sharing is kept by construction; what has to be
proved is what a statement does to *every* other object. The invariant needs nothing beyond
`LInv`: `ListsApart` makes a write to one record invisible in the others. The lemmas go up in
three steps.

* *Words as sequences*, one lemma per helper: shifting up, down or around a hole gives
  `With`, `Without`, `Backwards`; a slice, a copy or a concatenation gives the sequence of its
  parts (`SliceSeen`, `DictSeen`); scans give the first place, the number or the sum of the
  words scanned (`FirstSeen`, `CountSeen`, `SumSeen`). `PyLists` states sorting by what it gives, the one
  permutation that is ordered and stable (`Ranking`), so `SortIsStable` has to be shown to
  give that one and no other, and minimum and maximum its first element.
* *Memory as objects*: what a step of the heap is in `PyLists`, whatever the statement. A
  write inside one record is `Update` (`UpdateSeen`), a fresh record `Bind` (`BindSeen`,
  `NewSeen`), a read leaves the objects (`LookSeen`), a trap raises (`RaiseSeen`,
  `OutSeen`). `OperandSeen` and `LiteralSeen` do the same for operands that pop: the memory
  they leave, read as objects, is what `Eval` and `EvalAll` leave.
* *Statements*: one lemma per action against its action of `PyLists` (`AppendAsPython`,
  `SetItemAsPython`, `HelperAsPython`, ...); `StepsAsPython` puts them together.

`~ SelfPops` is used in three places, and each is a difference from Python that the next
section lists: `append` and `x[i] = e`, whose target is computed before the operand pops, and
the default of `d.get`. `insert` evaluates its operand first and needs no hypothesis.

### Repair loop and command

For every set of programs, rules, forms, budgets and jobs that satisfies
`RepairAssumption` and `HybridAssumption`, and whether builds are flaky or not:

| theorem | says |
|---|---|
| `RepairCompletes` | a run that had a step per site and was neither late nor flaky repairs a program its rules can repair |
| `RepairTypes`, `RepairFailClosed`, `RepairCounts` | the loop's types; it returns and writes only what a probe found matching; probes, rules and iterations agree within the budget |
| `CommandRunsTheLoop` | `HSpec => Spec`: the command's behaviours are behaviours of the loop |
| `CommandTypes`, `CommandIsHonest` | its types; exit code 0 of a verification is a match or a disclosure in every lane |
| `NoSilentPass` | it never passes on a loop that found nothing to repair |
| `CommandCleansUp` | a command leaves nothing behind unless an operation failed |

**Argument.** For the loop, `RInv` adds to the properties what each point of `run` knows:
`Stands` (an outcome exists exactly at the end) and `Counted` (at the head the last probe
was the `iter`-th and one rule fired per earlier iteration; before a probe, one more).
`CountsAgree` alone is not inductive, since it speaks only of ended runs. `RepairCompletes`
adds `Progress`: in such a program every site that is not bare has the form of a rule
that reaches it (`ByRule`), and as many sites have been rewritten as rules have fired; so
each rule that fires takes a bare site, and with a step per site none is left. The attempt
showed that the property was false as it stood: two rules with different casts for one
boundary undo each other, and a rule may spoil a site that compiled. `OneCast` and
`Harmless` are now part of `Reparable`, and the run has an instance of each. For the command,
`CommandRunsTheLoop` comes first, so that `RInv` holds inside it for free; `HInv` then
says where each temporary directory lives (`Standing`), what was shown before a lane was
left (`Shown`), and what an agreement rests on (`Earned`).

### Manifest

For every set of trees, with files in any number of languages, any order of the listing
and any number of emissions (`ManifestAssumption`):

| theorem | says |
|---|---|
| `ManifestComplete` | when the command accepts a directory, every import of a foreign symbol has an entry, and every entry names a symbol that a file of the target's language exports |
| `ListingOrderDecidesNothing` | in a `Clear` directory the verdict and the set of entries are functions of the directory, not of the order it was listed in |
| `WorkspaceIsFresh` | an emitted workspace holds this directory's C sources, not older ones of the same name; after a first emission nothing else |

**Argument.** `MInv`: what is dispatched and what is still to come make up the tree, and an
accepted manifest is, as a set, the foreign boundaries of the modules dispatched
(`Resolved`). `Kept` (the filter of the code) and `FlattenSeq` are then read as sets; the
order only decides which of several definitions comes first, and a `Clear` directory has
one. For `csrc/`, a copy of sources with names of their own leaves each of them there
(`CopiedFresh`), whatever was there before.

### Arithmetic

For every width (`WidthAssumption`; shifts are only checked):

| theorem | says |
|---|---|
| `AddExact`, `SubExact` | the sign tests find every overflow and nothing else |
| `MulExact` | so does the division test of the product, MIN * -1 included |
| `FloorDivExact`, `FloorModExact` | floor division and modulo from the truncating ones are Python's, and trap on zero and on MIN // -1 only; MIN % -1 traps too, with the quotient |

**Argument.** `wrap` keeps a number up to a multiple of the word (`WrapCongruent`), and a
word is determined by that; so a wrapped sum differs from the exact one by nothing or by
one word, and the sign test tells which. For the product, an exact division of the wrapped
product by a factor leaves no room for a second word.

### Emitters

For any number of parallel lowerings, texts, outputs, tolerance and leftover files
(`QuorumAssumption`, `JobsAssumption`):

| theorem | says |
|---|---|
| `TypeCorrect` | types |
| `NoFalseVoter` | an artifact names exactly the programs that this lowering ran |
| `OwnVerdicts` | a verdict is about the texts in its artifact, if the lowering shares its directory with no other and prints numbers |

**Argument.** `QInv` is `TypeOK` and, for each lowering, where it stands (`Standing`), what
it has run (`Progress`), what lies in its directory (`Scratch`) and the two properties.
`OtherFrame` shows that a step of one lowering leaves the invariant of another alone: this
is where directories of their own are needed. Each action then has a lemma about the
lowering that takes it.

### Shared lists

For every set of names, callees and jobs (`AliasAssumption`: a name is a row or a grid, not
both), for bodies of any length:

| theorem | says |
|---|---|
| `BodiesLowered` | what is emitted is the body, statement by statement, with the clones the counts call for; a body is refused only for a reason |
| `EmittedBodiesCompile` | on no path through an emitted body is a name used after its list was moved away, but for a `WrittenUnwatched` store |
| `ReadOnlyNeverRefused` | a body that binds, shares and prints is accepted, and compiles |
| `ChangersAreMarked` | `MarksParams`: a function of at most one parameter that changes its caller's list says so |
| `FlatSharingKept` | `SharingKept` of a body of at most one parameter whose names are all rows (`Flat`): on every path its Rust prints what Python prints |

**Argument.** `AliasInv` says what each pass has found out by the time the next begins, that
what is lowered is a prefix of the body (`LoweredTo`), and that a block stands together in
the text (`Laid`). A name is moved only if the whole body reads it once, loops counted
twice (`MovedNotReread`, `TakenOnce`); so what uses it later on a path is a store, which
reads nothing, and stands later in the text, since only loops go back (`Forward`). If an
alias or a display took the list, both names are in one class, the store changes it and
both are observable: the class analysis has refused the body (`StoreSeen`). If it was
embedded, the embed check lets the store pass only where the name is bound again in
between, and the path passes that binding too (`Passes`: between two places a path passes
every place outside the block and every place of the arm it takes, which is proved
for the four forms of `Path`). The attempt showed what
`WrittenUnwatched` now says: the property had left out bodies with parameters, and was
false of the others as soon as a job had a sixth statement.

The last two theorems follow a path step by step (`PyRunIs`, `RsRunIs`). Names are in one
`Circle` if the analysis links them; two names that hold one cell are of one circle, since only
bindings share cells (`CircleLinks`). For `ChangersAreMarked`, a statement that changes a list
of the parameter's circle marks the parameter, so an unmarked function keeps the caller's two
cells as they were (`Kept`, `PathSpares`). For `FlatSharingKept`, the relation `Mirrors` says
whose list in Rust is its list in Python (`Trusted`): every name of a circle that nothing
changes, or that nothing shares; of another circle the one name the class analysis lets be
printed, `o` (`Solo`), and the names of the circle from which `o` may still be bound
(`Awaited`). That only `o` is changed there, and that what was bound to its list is not read,
is what the class analysis and the dispositions have seen to (`SoloIs`); that what is awaited
holds other cells than `o` (`Parted`) is what keeps the changes of `o` from it. The analysis
leaves parameters out of the observable names, so a circle with the parameter in it may have
two, if it has no name besides (`Pair`; `SharedAfar` leaves the larger ones out): one binding
joins them, and it moves the list (`PairIs`), so until the name that gave its list away is
bound again, `Compiles` keeps it unused (`Given`, `NotGiven`), and before that the two hold
different cells (`Severed`). The attempt found `Rejoined`: with two names bound from one
awaited list, and `o` bound from both, the relation cannot hold, and the property is false
([below](#what-the-checks-found)).

### Only model-checked

`LoopAgrees`, `TrapsWhenDue`, `CompilesAlike`, `GuardsFire`, `LiftMeans` and `RoundTrips` speak
of trees through recursive operators, for which the proof system has no SMT backend.
`SharingKept` is proved of lists of integers only: for a list that is an element of another,
the relation `Mirrors` would have to follow what displays and embeddings hold. `LoopsEnd`,
`Ends` and `HEnds` stay with TLC, since liveness under fairness is out of reach.

## What the checks found

One run ends in a violation; `PROJECT.json` quotes the lines it contradicts.

* `EmptySetGrowth`: a set operation sizes its result by its operands. With empty
  operands the capacity is 0, growth doubles it to 0, and the next insertion writes its
  entry past an 8-byte region, into whatever is allocated next.

Everything else found is a hypothesis of a property or a flag of an instance: dropping it
makes TLC print a behaviour of the kind described.

**Dicts, sets and lists.**

* `d[k] = d.setdefault(j, v)` pushes `d`'s pointer before the value moves the record, so
  the store and the pointer written back are those of the old one, and `j` is lost
  (`NestedSetDefault`).
* `xs.append(xs.pop())` computes the element's address from the count before the pop
  (*wasm* 25408) and reads the count again for the store of the new one (25346): the list
  keeps a stale element (`SelfPops`). `xs[-1] = xs.pop()` and stores whose index is
  evaluated before the value differ from Python likewise; the default of `d.get` is
  evaluated only when needed.
* The comments at *wasm* 335-337 and 6268 that an insertion past a literal's capacity traps
  are older than growth; the model follows the code.

**Arithmetic and loops.**

* `abs(MIN)` and `sum()` wrap, although +, - and unary minus trap (the comments at *wasm*
  7553-7555, 9007-9013 and 27252-27256 say otherwise); MIN % -1 traps where Python
  gives 0.
* The gate judges each statement alone (*wasm* 11328): `acc = acc * x; acc = acc + 1` is
  accepted and depends on the order (`MixedFolds`). Calls in a fold are not looked into.

**Shared lists** (hypothesis `Overt`; `a`, `b` are lists, `g`, `h` lists of lists).

* `while ..: a.append(1); g.append(a)`: the append before the embedding is the next
  round's mutation after it (*depyler* 3864, against 3856-3858); with `a = [0]` between the
  two as well.
* `b = a; bump(b); print(a)`; `def relay(a): bump(a)`, which is not marked; a mutation
  inside `try`; `h = g; h[0].append(v)`; `a = g[0]; g[0].append(v)`;
  `g = [a]; g[0].append(1); print(a)`; `def f(g): a = g[0]; a.append(1)`, not marked
  although 1433-1435 says so; `def f(a): g = [a]; a.append(1); print(g)`;
  `a = [0]; g = [a]; g[0][0] = 9; g = [a]; print(g)`;
  `b = [0]; g = [b]; a = g[0]; a.append(1); print(b)`: each clones where Python shares.
* Two names of a row in one display, or one row in two, are cloned when the walk sees the
  change of one only: `b = a; g = [b, a]; g[0][0] = 9`; `g = [a, a]; h = g; h[0][0] = 9`;
  `b = a; g = [b]; g[0][0] = 9; g = [a]`; `a = g[0]; h = [a]; h[0][0] = 9; print(g)`.
* An element is linked with nothing but its binding: `b = g[0]; a = b; a.append(1); print(g)`;
  `h = g; a = h[0]; a.append(1); print(g)`.
* A binding in a branch clears the embedding on every path (*depyler* 3840-3848):
  `g.append(a)`, `if c: a = [0]`, `a.append(1); print(g)`.
* `def f(a): b = a; c = b; c.append(1); print(a)`, `b = a; c = b; a = c; a[0] = 9; print(b)`:
  parameters are not counted among the observable names of a class. `a = [0]; b = a; c = a;
  d = b; d.append(1); d = c; print(d)`: `d` is the one observable name of its class, and `c`
  was cloned before the append that Python shows through it (`Rejoined`; seven statements,
  met in the proof). `b = a` in a `try`, `b` changed behind it: `a` is not marked.
* Accepted, and refused by rustc (E0382; `WrittenUnwatched`): `look(a); a[0] = 9`;
  `def f(a): b = a; a[0] = 7; return b[0]`; `b = a; c = b; a[0] = 9`, where `b` is read
  only to bind the dead `c`; `g = [a]; a[0] = 9` with `g` never read; the same with the
  store in a `try`; the branch above with a store for the append.

**Emitters.**

* The directory of the wasm and CUDA engines is one per process ("Unique per-process dir
  so parallel test runs don't collide"); two lowerings of one process meet in it (hypothesis
  `OwnScratch`).
* NaN is dropped by the fold of `f64::max`: a program that prints NaN agrees with everything
  (hypothesis `Numeric`).
* With three toolchains each is compared with the general program only, so the two others
  may differ by twice the tolerance. The early result for outputs of different lengths
  would name the third toolchain before it ran; with one harness lengths never differ.

**Names and loops** (*depyler*; hypotheses `TargetsApart`, `ArmsApart`, `Homes`, or stated in
the property; `n` is an int parameter, `b` and `c` are bool ones).

* A second loop over a target that only a loop has bound declares it again (10070-10078):
  `for i in range(0, 2): ..`, `for i in range(0, n): ..`, `return i` shows the start of an
  empty second range. The declaration also stands before the stop is read, so
  `range(0, i)` reads it (10079-10108). The same with `for i: for i:`, with a loop under
  an `if`, and with an inner loop's target that is read outside of it: WebAssembly shows
  the start, Rust refuses or shows the outer one.
* An `if` whose arms only assign evaluates its condition once per name, although a name it
  reads may have been assigned by then (10594-10598); a name assigned twice in an arm keeps
  the first value; the test for read-after-write in an arm is made only when all names are
  bound already.
* `if b: x = 1`, later a loop that begins with `x = ..`, then `return x`: the name comes
  back with 0 where CPython still has 1 or raises.
* `if c: i = 5`, then `for i in range(n): ..`, then `return i`: the guard stops the program
  where CPython returns 5 (against the comment at 6692).
* A counter is computed past the last value: `range(MAX - 1, MAX, 2)` and
  `reversed(range(MIN, ..))` overflow where CPython has no larger number to compute. The
  model's Python overflows only where its own values do; the instances have no such bound.
* A read before any binding gives 0 in WebAssembly where CPython raises, unless the guard
  above covers it; `GuardsFire` is about the covered ones. `count_reads_stmt` skips a
  loop's else and the target of `n += e` (615-700), so that a name read only there is not
  declared early: refused by rustc.

**Lift** (hypothesis `Settled`).

* `get a, get x, set a, set x` is lifted to `a = x; x = a`, although 1535 says "refused
  rather than mis-reconstructed" and 126-130 "never a wrong lift". A `return` over operands
  that wait loses their traps. A call of a function without result leaves an operand
  (1014-1136).
* Refused beyond the twelve constructs of 136-180: conditionals in a loop's condition
  (`while a and b`), `drop`, and statements that call functions without result, though the
  backend emits all three. `Uninverted` excludes them from `RoundTrips`.
* Two Lets of one name in sibling blocks come back as a Let and an assignment, which Rust
  refuses; a local that is read before it is set has no Let.

**Repair loop, command and manifest.**

* When the body of a silent `main()` does not build, the loop is entered with an empty
  reference and "repairs" it (`main.rs` 799; the oracle's comment promises the opposite).
* A symbol resolves to the first file listed that names it, not to the module it is imported
  from, so a C file can take the place of a Python sibling (`PythonStaysPython`).
* `RepairsWhatItCan` assumes a budget of one iteration per site, `Plain` programs, one cast
  per boundary (`OneCast`) and rules that make no site wrong (`Harmless`). Two manifest entries
  that give one symbol different casts undo each other until the budget is spent, and nothing
  in the loop keeps a rule from a site that compiles. A
  rule casts one site per iteration and `main.rs` gives as many iterations as there are
  rules plus one (1164-1167), so a boundary called three times is given up half-way; the
  scan jumps over a call that is cast, with the calls in its arguments (`repair.rs` 416);
  and the text `f(` also ends `not_f(` (`repair.rs` 364).
* `HonestExit` speaks of commands that reach the verification: `--emit-shims` without a
  boundary returns before `--emit-workspace` or `--verify` is looked at (`main.rs` 382-386).
* `OrderDecidesNothing` assumes `Clear` directories: no symbol, and no `main` a script's
  module always has, is defined in two languages.
* `FreshWorkspace` assumes C files with different base names, since `csrc/` is flat, and
  speaks of *other* files there only for a first run: the directory is not cleared, and
  `build.rs` compiles all it finds.
* Nothing is claimed of two modules that import one symbol: each import has an entry, and
  a shim of the same name (`xpile-ffi-manifest/src/lib.rs` 234).

## Not modelled

*WASM backend*: strings; the float and bool twins of the list statements; bitwise
operators and power; `items()`, calls and floats in loops over hash storage; structs and
methods (fixed offsets, no growth).
*Python frontend*: expressions and types; collection loops, comprehensions, try, walrus and
tuple targets; classes; sharing through sets, dicts, tuples, ternaries and constructors;
the lane where the target itself shares (`AliasSemantics::Reference`).
*Lift*: the tokenizer, exports, floats, types, mutability flags.
*CLI*: `transpile`, `audit`, `attestations` and `quorum` read files and print reports. Of
the manifest, the text of the shims, and targets that no registered frontend produces
(C++, CUDA). The *session* is a lookup in a list.
The other frontends and the text emitters are pure functions on large syntax
trees with no state to interleave; a small-instance check of them would restate their
code. GPU execution, `cargo`, `rustc` and other tools xpile starts are outside the
repository. Floats are not modelled: TLC has no arithmetic for them.
