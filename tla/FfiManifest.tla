----------------------------- MODULE FfiManifest -----------------------------
(***************************************************************************)
(* From a directory of sources in several languages to the manifest of its *)
(* foreign calls and the Cargo workspace that carries them out.            *)
(*                                                                         *)
(* Files are read in the order the directory is listed in, which the       *)
(* system does not define.  A workspace is written into a directory that   *)
(* an earlier run may have written before.                                 *)
(***************************************************************************)
EXTENDS Naturals, SequencesExt

CONSTANTS
  Trees,     \* directories: sets of files, see File below
  Symbols,   \* names of functions, constants and scripts
  Stems,     \* names of files without extension
  MaxRuns    \* how often the command is run

Langs == {"Python", "C", "Shell", "Wasm"}

(* A file: its path and base name, its stem (the module's name), the         *)
(* functions and constants it defines, those whose types have no C form and, *)
(* in order, what it imports by `from .module import symbol`.  A shell       *)
(* script that is not empty defines a synthetic main; only Python imports.   *)
File == [path : Nat, base : Nat, stem : Stems, lang : Langs, defs : SUBSET Symbols,
         opaque : SUBSET Symbols, imports : Seq([module : Stems, symbol : Symbols])]

ASSUME ManifestAssumption ==
  /\ MaxRuns \in Nat
  /\ \A t \in Trees :
       /\ t # {} /\ t \subseteq File
       /\ \A f1, f2 \in t : f1.path = f2.path => f1 = f2
       /\ \A f \in t : f.imports # <<>> => f.lang = "Python"

VARIABLES
  tree,     \* the directory
  todo,     \* the files not dispatched yet
  mods,     \* the modules, in the order they were dispatched
  manifest, \* the reconciled entries, in order
  failures, \* the unresolved boundaries
  shims,    \* the symbols of src/ffi_shims.rs, in order
  csrc,     \* csrc/ of the workspace: base name |-> the source copied there
  verdict,  \* of this run: "none" | "failed" | "unresolved" | "emitted"
  pc,       \* "idle" | "dispatch" | "reconcile" | "emit" | "done"
  runs      \* the number of runs so far

vars == <<tree, todo, mods, manifest, failures, shims, csrc, verdict, pc, runs>>

-----------------------------------------------------------------------------
(* Who defines what.                                                         *)

(* resolve_boundary_to_langs: every item of a module, and a script's name. *)
Named(m) == m.defs \cup (IF m.lang = "Shell" THEN {m.stem} ELSE {})

(* module_exports_symbol: a script only by its name. *)
Exports(m) == IF m.lang = "Shell" THEN {m.stem} ELSE m.defs

(* The language of the first module that names s; C, the frontend's guess,   *)
(* when none does.                                                           *)
ToLang(ms, s) ==
  LET at == {i \in DOMAIN ms : s \in Named(ms[i])}
  IN  IF at = {} THEN "C" ELSE ms[CHOOSE i \in at : \A j \in at : i <= j].lang

(* A slip: resolved as each module is dispatched, not knowing the later ones. *)
BoundariesOnTheWay(ms) ==
  FlattenSeq([i \in DOMAIN ms |->
    [k \in DOMAIN ms[i].imports |->
       [from |-> ms[i].lang, to |-> ToLang(SubSeq(ms, 1, i), ms[i].imports[k].symbol),
        symbol |-> ms[i].imports[k].symbol]]])

(* detect_ffi_boundaries: an import keeps its symbol, not its module. *)
Boundaries(ms) ==
  FlattenSeq([i \in DOMAIN ms |->
    [k \in DOMAIN ms[i].imports |->
       [from |-> ms[i].lang, to |-> ToLang(ms, ms[i].imports[k].symbol),
        symbol |-> ms[i].imports[k].symbol]]])

(* The elements of s that are in S, in order: a loop that skips the others. *)
Kept(s, S) == FlattenSeq([i \in DOMAIN s |-> IF s[i] \in S THEN <<s[i]>> ELSE <<>>])

(* A slip: a module of the language is enough. *)
DefinedByLanguage(ms, b) == \E i \in DOMAIN ms : ms[i].lang = b.to

Defined(ms, b) == \E i \in DOMAIN ms : ms[i].lang = b.to /\ b.symbol \in Exports(ms[i])
Foreign(ms)    == Kept(Boundaries(ms), {b \in ToSet(Boundaries(ms)) : b.from # b.to})

(* The first module of e's language that defines e's symbol. *)
defining_function(ms, e) ==
  ms[CHOOSE i \in DOMAIN ms :
       /\ ms[i].lang = e.to /\ e.symbol \in ms[i].defs
       /\ \A j \in 1 .. i - 1 : ~ (ms[j].lang = e.to /\ e.symbol \in ms[j].defs)]

(* shim_part_for: a script always, a C function if its types have a C form,  *)
(* a WASM function never.                                                    *)
Shimmable(ms, e) ==
  \/ e.to = "Shell"
  \/ e.to = "C" /\ e.symbol \notin defining_function(ms, e).opaque

(* A slip: a file that is there already stays. *)
CopiedKeeping(dir, cs) ==
  [b \in DOMAIN dir \cup {cs[i].base : i \in DOMAIN cs} |->
     IF b \in DOMAIN dir THEN dir[b] ELSE cs[CHOOSE i \in DOMAIN cs : cs[i].base = b]]

(* The C sources cs, copied in order into csrc/ as dir. *)
Copied(dir, cs) ==
  [b \in DOMAIN dir \cup {cs[i].base : i \in DOMAIN cs} |->
     LET at == {i \in DOMAIN cs : cs[i].base = b}
     IN  IF at = {} THEN dir[b] ELSE cs[CHOOSE i \in at : \A j \in at : j <= i]]

CSources(ms) == Kept(ms, {m \in ToSet(ms) : m.lang = "C"})

-----------------------------------------------------------------------------
(* `xpile hybrid --emit-workspace`.                                          *)

Init ==
  /\ tree \in Trees /\ todo = {} /\ mods = <<>> /\ manifest = <<>> /\ failures = {}
  /\ shims = <<>> /\ csrc = <<>> /\ verdict = "none" /\ pc = "idle" /\ runs = 0

(* The user may have changed the directory since the last run. *)
Run ==
  /\ pc \in {"idle", "done"} /\ runs < MaxRuns
  /\ runs' = runs + 1
  /\ tree' \in (IF pc = "idle" THEN {tree} ELSE Trees)
  /\ todo' = tree' /\ mods' = <<>> /\ manifest' = <<>> /\ failures' = {}
  /\ verdict' = "none" /\ pc' = "dispatch"
  /\ UNCHANGED <<shims, csrc>>

Finish(how) == pc' = "done" /\ verdict' = how

(* dispatch_hybrid_sources, a file at a time; a file may be unreadable, or   *)
(* refused by its frontend.                                                  *)
Dispatch(f) ==
  /\ pc = "dispatch" /\ f \in todo
  /\ \/ mods' = Append(mods, f) /\ todo' = todo \ {f} /\ UNCHANGED <<pc, verdict>>
     \/ Finish("failed") /\ UNCHANGED <<mods, todo>>
  /\ UNCHANGED <<tree, manifest, failures, shims, csrc, runs>>

(* resolve_boundary_to_langs, then FfiManifest::reconcile. *)
Reconcile ==
  /\ pc = "dispatch" /\ todo = {} /\ mods # <<>>
  /\ manifest' = Kept(Foreign(mods), {b \in ToSet(Foreign(mods)) : Defined(mods, b)})
  /\ failures' = {b \in ToSet(Foreign(mods)) : ~ Defined(mods, b)}
  /\ IF failures' = {} THEN pc' = "emit" /\ UNCHANGED verdict ELSE Finish("unresolved")
  /\ UNCHANGED <<tree, todo, mods, shims, csrc, runs>>

(* emit_hybrid_workspace: no file is touched unless every entry has a shim.  *)
Refuse ==
  /\ pc = "emit" /\ \E e \in ToSet(manifest) : ~ Shimmable(mods, e)
  /\ Finish("failed")
  /\ UNCHANGED <<tree, todo, mods, manifest, failures, shims, csrc, runs>>

(* The files one after the other, the C sources before the shims; lowering   *)
(* the Rust side, or writing any of them, may fail and leaves the rest.      *)
Emit ==
  /\ pc = "emit" /\ \A e \in ToSet(manifest) : Shimmable(mods, e)
  /\ \/ /\ csrc' = Copied(csrc, CSources(mods))
        /\ shims' = [i \in DOMAIN manifest |-> manifest[i].symbol]
        /\ Finish("emitted") \/ Finish("failed")
     \/ /\ \E n \in 0 .. Len(CSources(mods)) :
             csrc' = Copied(csrc, SubSeq(CSources(mods), 1, n))
        /\ Finish("failed") /\ UNCHANGED shims
  /\ UNCHANGED <<tree, todo, mods, manifest, failures, runs>>

Next == Run \/ (\E f \in todo : Dispatch(f)) \/ Reconcile \/ Refuse \/ Emit
Spec == Init /\ [][Next]_vars

-----------------------------------------------------------------------------
(* What must hold.                                                           *)

Reconciled == pc = "emit" \/ verdict = "emitted"

(* Every import of the directory, with the module that makes it. *)
Imports(t) == UNION {{[by |-> f, no |-> k, symbol |-> f.imports[k].symbol] : k \in DOMAIN f.imports}
                     : f \in t}
Naming(t, s) == {f.lang : f \in {g \in t : s \in Named(g)}}

(* manifest_completeness, for every directory and every order of its files:  *)
(* a reconciled manifest holds a boundary for each import whose symbol only  *)
(* other languages define, and each of its entries leads to a module that    *)
(* defines the symbol.                                                       *)
Complete ==
  Reconciled =>
    /\ \A i \in Imports(tree) :
         i.by.lang \notin Naming(tree, i.symbol) =>
           \E e \in ToSet(manifest) : e.from = i.by.lang /\ e.symbol = i.symbol
    /\ \A e \in ToSet(manifest) : \E f \in tree : f.lang = e.to /\ e.symbol \in Exports(f)

(* Where no two languages define one symbol, the order in which the          *)
(* directory is listed decides nothing: which commands fail, and the entries *)
(* of the others, follow from the files alone.                               *)
Clear(t) == \A i \in Imports(t) : \A f \in t : \A g \in t :
              i.symbol \in Named(f) /\ i.symbol \in Named(g) => f.lang = g.lang
Resolves(t, i) == \E f \in t : i.symbol \in Exports(f)
EntriesOf(t) == {[from |-> i.by.lang, to |-> l, symbol |-> i.symbol] :
                   i \in Imports(t), l \in Langs}
OrderDecidesNothing ==
  Clear(tree) =>
    /\ verdict = "unresolved" => \E i \in Imports(tree) : ~ Resolves(tree, i)
    /\ Reconciled =>
         /\ \A i \in Imports(tree) : Resolves(tree, i)
         /\ ToSet(manifest) = {e \in EntriesOf(tree) : e.from # e.to /\ e.to \in Naming(tree, e.symbol)}

(* Where C files have names of their own, a run copies every C source as it  *)
(* is now, whatever an earlier run left there; a first run nothing else.     *)
COnly(t)      == {f \in t : f.lang = "C"}
OwnNames(t)   == \A f, g \in COnly(t) : f.base = g.base => f = g
SourcesIn(t)  == \A f \in COnly(t) : f.base \in DOMAIN csrc /\ csrc[f.base] = f
SourcesAre(t) == SourcesIn(t) /\ DOMAIN csrc = {f.base : f \in COnly(t)}
FreshWorkspace == verdict = "emitted" /\ OwnNames(tree) =>
                    SourcesIn(tree) /\ (runs = 1 => SourcesAre(tree))

-----------------------------------------------------------------------------
(* A claim of the repository's comments that the code does not keep.          *)

(* "a relative import of a *Python* sibling becomes Python -> Python, which  *)
(* reconcile drops": an import from a Python sibling that defines the symbol *)
(* is never a foreign call.                                                  *)
FromSibling(t, i) == \E f \in t : /\ f.lang = "Python" /\ f.stem = i.by.imports[i.no].module
                                  /\ i.symbol \in f.defs
OnlySiblings(t, s) == \A i \in Imports(t) : i.symbol = s => FromSibling(t, i)
PythonStaysPython ==
  \A e \in ToSet(manifest) \cup failures : ~ OnlySiblings(tree, e.symbol)
=============================================================================
