--------------------------- MODULE ScalarPipeline ---------------------------
(***************************************************************************)
(* A scalar function's way through the tool: from Python to meta-HIR, from  *)
(* meta-HIR to WebAssembly text (and to Rust), and from the text back to     *)
(* meta-HIR.                                                                 *)
(***************************************************************************)
EXTENDS PyNames, WasmLift

CONSTANT Fuel   \* the rounds of loops a Python function is followed for

allvars == <<pyvars, vars>>

-----------------------------------------------------------------------------
(* The functions followed.                                                   *)

RECURSIVE ForLoops(_), IfsOf(_), ReadBeyond(_, _)
ForLoops(b) ==
  FlattenSeq([i \in DOMAIN b |->
    LET s == b[i] IN
    CASE s.kind = "if"    -> ForLoops(s.then) \o ForLoops(s.else)
      [] s.kind = "while" -> ForLoops(s.body) \o ForLoops(s.else)
      [] s.kind = "for"   -> <<s>> \o ForLoops(s.body) \o ForLoops(s.else)
      [] OTHER            -> <<>>])

IfsOf(b) ==
  UNION {LET s == b[i] IN
         CASE s.kind = "if"              -> {s} \cup IfsOf(s.then) \cup IfsOf(s.else)
           [] s.kind \in {"while", "for"} -> IfsOf(s.body) \cup IfsOf(s.else)
           [] OTHER                      -> {} : i \in DOMAIN b}

(* Is n read elsewhere than in the bodies of loops over it? *)
ReadBeyond(b, n) ==
  \E i \in DOMAIN b : LET s == b[i] IN
    \/ n \in Prelude(s)
    \/ s.kind = "if"    /\ (ReadBeyond(s.then, n) \/ ReadBeyond(s.else, n))
    \/ s.kind = "while" /\ (ReadBeyond(s.body, n) \/ ReadBeyond(s.else, n))
    \/ s.kind = "for"   /\ ((s.name # n /\ ReadBeyond(s.body, n)) \/ ReadBeyond(s.else, n))

Targets(b)    == {l.name : l \in Range(ForLoops(b))}
Whole(f)      == Append(f.leading, Return(f.value))

RECURSIVE Repeated(_)
(* The targets of loops inside a loop. *)
Repeated(b) ==
  UNION {LET s == b[i] IN
         CASE s.kind = "if"               -> Repeated(s.then) \cup Repeated(s.else)
           [] s.kind \in {"while", "for"} -> Targets(s.body) \cup Repeated(s.else)
           [] OTHER                       -> {} : i \in DOMAIN b}

(* What the branches of an if that stays one bind. *)
Branched(b) == UNION {walk_counts(<<s>>) : s \in {q \in IfsOf(b) : ~ is_if_as_let_shape(q)}}

(* A target that is declared again when its loop comes again, or when        *)
(* another loop over it does, is read inside those loops only: elsewhere it  *)
(* would show the second declaration.                                        *)
TargetsApart(f) ==
  \A n \in Targets(f.leading) \ f.params :
    LET over == SelectSeq(ForLoops(f.leading), LAMBDA l : l.name = n) IN
    Len(over) > 1 \/ n \in Repeated(f.leading) \/ n \in Branched(f.leading) =>
      /\ ~ ReadBeyond(Whole(f), n)
      /\ \A l \in Range(over) : n \notin Targets(l.body)

(* Parameters, and what the assignments a function begins with bind. *)
Opening(f) ==
  f.params \cup {f.leading[i].name : i \in {k \in DOMAIN f.leading : \A j \in 1 .. k : f.leading[j].kind = "assign"}}

(* Where an if becomes one conditional per name, no conditional can see the  *)
(* name another one has assigned.                                            *)
ArmsApart(f) ==
  \A s \in {q \in IfsOf(f.leading) : is_if_as_let_shape(q)} :
    LET arms  == Range(Arms(s))
        conds == UNION {Names(q.cond) : q \in {s} \cup IfsOf(s.else)}
    IN  /\ \A b \in arms : \A i, j \in DOMAIN b : b[i].name = b[j].name => i = j
        /\ conds \cap walk_counts(s.then) \subseteq {s.then[Len(s.then)].name}
        /\ any_arm_seq_hazard(s) => UNION {walk_counts(b) : b \in arms} \subseteq Opening(f)

(* What a branch binds first is not declared anew before a later loop. *)
Homes(f) ==
  \A i, j \in DOMAIN f.leading :
    i < j /\ f.leading[j].kind \in {"for", "while"} =>
      Branched(<<f.leading[i]>>) \cap {s.name : s \in {q \in Range(f.leading[j].body) : q.kind = "assign"}} \subseteq f.params

-----------------------------------------------------------------------------
(* The pipeline: a Python function is lowered, emitted and lifted; text may  *)
(* also come from elsewhere (WasmLift).                                      *)

NoProgram == [params |-> {}, leading |-> <<>>, value |-> Unit, start |-> {}]
NoJob     == [source |-> NoTree, text |-> <<>>, vocabulary |-> {}, most |-> 0, ret |-> 1,
              locals |-> {}, start |-> {}, fuel |-> Fuel]

LetNames(f)  == {p.name : p \in {q \in Parts(f) : q.kind = "let"}}
UsedNames(f) == {p.name : p \in {q \in Parts(f) : q.kind \in {"ident", "assign"}}}

(* The locals of a function that is called with `args`. *)
Locals(f, args) == [n \in LetNames(f) \cup DOMAIN args |-> IF n \in DOMAIN args THEN args[n] ELSE 0]

PInit ==
  \/ /\ Init
     /\ program = NoProgram /\ at = 0 /\ ctx = NoCtx /\ hir = <<>> /\ guards = <<>> /\ lowering = "absent"
  \/ /\ PyInit
     /\ TargetsApart(program) /\ ArmsApart(program) /\ Homes(program)
     /\ job = NoJob /\ text = <<>> /\ calls = <<Activation("body", Unit)>> /\ assigned = {} /\ tree = NoTree
     /\ verdict = "waiting"

Lower == PyNext /\ UNCHANGED vars

(* The backend refuses a name no Let and no parameter has declared. *)
Emit ==
  /\ lowering = "lowered" /\ verdict = "waiting"
  /\ LET f == lowered_function
         resolved == UsedNames(f) \subseteq LetNames(f) \cup program.params
     IN
     /\ verdict' = IF resolved THEN "lifting" ELSE "refused"
     /\ job' = IF resolved
               THEN [NoJob EXCEPT !.source = f, !.text = emit_function(f), !.locals = LetNames(f),
                                  !.start = {Locals(f, args) : args \in program.start}]
               ELSE job
  /\ UNCHANGED <<pyvars, text, calls, assigned, tree>>

Lift == Next /\ UNCHANGED pyvars

PNext == Lower \/ Emit \/ Lift

PSpec == PInit /\ [][PNext]_allvars

-----------------------------------------------------------------------------
Compiled == lowering = "lowered" /\ verdict = "lifting" /\ text = <<>>

RECURSIVE InScope(_, _)
(* Rust finds every name: the backend's Rust is accepted by its compiler. *)
InScope(b, scope) ==
  b = <<>> \/ LET s == Head(b) IN
    /\ s.kind \in {"let", "assign", "return"} => Names(s.value) \subseteq scope
    /\ s.kind = "assign" => s.name \in scope
    /\ s.kind = "if"     => Names(s.cond) \subseteq scope /\ InScope(s.then, scope) /\ InScope(s.else, scope)
    /\ s.kind = "while"  => Names(s.cond) \subseteq scope /\ InScope(s.body, scope)
    /\ InScope(Tail(b), IF s.kind = "let" THEN scope \cup {s.name} ELSE scope)

(* What the two compiled forms give; the Rust one if its compiler takes it. *)
Outcomes(code, args) ==
  LET f == job.source IN
  {TextGives(code, 1, Locals(f, args), Fuel)}
    \cup (IF InScope(Append(f.stmts, Return(f.value)), program.params)
          THEN {ScopedGives(f, 1, Locals(f, args), Fuel)} ELSE {})

(* What the frontend lowers does what CPython does, in WebAssembly, whose    *)
(* locals are the function's, and in Rust, whose locals are the blocks':     *)
(* wherever CPython completes, or stays in a loop, both give the same.       *)
CompilesAlike ==
  Compiled => LET code == Structured(job.text) IN
    \A args \in program.start :
      LET py == PyGives(program, args, Fuel) IN
      Result("unbound", 0) \notin py => Outcomes(code, args) \subseteq {py}

(* The targets of loops over a range whose guard is due: the first statement *)
(* after the loop that involves the target reads it in any case.             *)
Awaited(f) ==
  LET whole == Whole(f)
      involves(s, n) == n \in walk_counts(<<s>>) \/ ReadBeyond(<<s>>, n)
  IN {n \in Targets(f.leading) \ f.params :
        \E i \in DOMAIN f.leading :
          /\ f.leading[i].kind = "for" /\ f.leading[i].name = n /\ f.leading[i].else = <<>>
          /\ \A j \in 1 .. i - 1 : ~ involves(whole[j], n)
          /\ n \notin Prelude(whole[i])
          /\ \E k \in i + 1 .. Len(whole) :
               /\ n \in Prelude(whole[k])
               /\ \A j \in i + 1 .. k - 1 : ~ involves(whole[j], n) /\ whole[j].kind # "return"}

(* Where CPython stops with UnboundLocalError at such a target, both forms   *)
(* stop too, and never go on with a default.                                 *)
GuardsFire ==
  Compiled /\ Awaited(program) # {} => LET code == Structured(job.text) IN
    \A args \in program.start :
      (\E p \in PyRuns(program, args, Fuel) : p.unbound \cap Awaited(program) # {}) => Outcomes(code, args) \subseteq {{}}
=============================================================================
