---------------------------- MODULE AliasOutcomes ----------------------------
(***************************************************************************)
(* What a body of ListAliases does: under Python, where names share lists, *)
(* and as the emitted Rust, where each name owns its list and a name whose *)
(* list was moved away may not be used (rustc E0382).  The properties      *)
(* compare the two on every path through the body.                         *)
(***************************************************************************)
EXTENDS ListAliases

(* The block runs so often; for an if, 0 is its else. *)
Runs == 0..2

(* The places of b from i to j. *)
Places(i, j) == [n \in 1 .. (IF i <= j THEN j - i + 1 ELSE 0) |-> i + n - 1]

(* The places run, in order, if the block runs k times.  A block, and the    *)
(* else behind an if, stand together in the text.                            *)
Path(b, k) ==
  IF InBlock(b) = {} THEN Places(1, Len(b))
  ELSE LET first == CHOOSE i \in InBlock(b) : \A j \in InBlock(b) : i <= j
           last  == CHOOSE i \in InBlock(b) : \A j \in InBlock(b) : j <= i
           fork  == CHOOSE i \in first .. last : /\ b[i].at = b[first].at
                                                 /\ \A j \in (i + 1) .. last : b[j].at = "else"
           block == CASE b[first].at = "if" /\ k = 0   -> Places(fork + 1, last)
                      [] b[first].at = "loop" /\ k = 0 -> <<>>
                      [] b[first].at = "loop" /\ k = 2 -> Places(first, last) \o Places(first, last)
                      [] OTHER -> Places(first, fork)
       IN  Places(1, first - 1) \o block \o Places(last + 1, Len(b))

(* The statements run. *)
Unrolled(b, k) == LET path == Path(b, k) IN [n \in DOMAIN path |-> b[path[n]]]

-----------------------------------------------------------------------------
(* Python: names hold addresses; a cell holds integers, or addresses.        *)

RowOf(p, x) == IF x \in Rows THEN p.env[x] ELSE p.heap[p.env[x]][1]
Grow(p, a, v) == [p EXCEPT !.heap[a] = Append(@, v)]
Fresh(p, x, cell) ==
  [env |-> [p.env EXCEPT ![x] = Len(p.heap) + 1], heap |-> Append(p.heap, cell), out |-> p.out]
Shown(p, x) == IF x \in Rows THEN p.heap[p.env[x]]
               ELSE [i \in DOMAIN p.heap[p.env[x]] |-> p.heap[p.heap[p.env[x]][i]]]

PyStep(fns, p, s) ==
  CASE s.op = "new"                 -> IF s.x \in Rows THEN Fresh(p, s.x, <<0>>)
                                       ELSE Fresh([p EXCEPT !.heap = Append(@, <<0>>)],
                                                  s.x, <<Len(p.heap) + 1>>)
    [] s.op \in {"alias", "ident"}  -> [p EXCEPT !.env[s.x] = p.env[s.ys[1]]]
    [] s.op = "grid"                -> Fresh(p, s.x, [j \in DOMAIN s.ys |-> p.env[s.ys[j]]])
    [] s.op = "elem"                -> [p EXCEPT !.env[s.x] = p.heap[p.env[s.ys[1]]][1]]
    [] s.op \in {"append", "rowappend"} -> Grow(p, RowOf(p, s.x), 1)
    [] s.op \in {"store", "rowstore"}   -> [p EXCEPT !.heap[RowOf(p, s.x)][1] = 9]
    [] s.op = "embed"               -> Grow(p, p.env[s.x], p.env[s.ys[1]])
    [] s.op = "call"                -> IF fns[s.fn].changes THEN Grow(p, RowOf(p, s.x), 5) ELSE p
    [] s.op = "print"               -> [p EXCEPT !.out = Append(@, Shown(p, s.x))]

(* A row parameter is cell 1; a grid parameter is cell 2, its one row cell 1. *)
PyStart == [env |-> [n \in Names |-> IF n \in Rows THEN 1 ELSE 2], heap |-> <<<<0>>, <<1>>>>, out |-> <<>>]

PyRun(fns, b, k) ==
  LET path == Unrolled(b, k)
      after[j \in 0 .. Len(path)] == IF j = 0 THEN PyStart ELSE PyStep(fns, after[j - 1], path[j])
  IN  after[Len(path)]

(* On some path the caller's list is not what it was. *)
ChangesParam(fns, b) ==
  \E k \in Runs : SubSeq(PyRun(fns, b, k).heap, 1, 2) # PyStart.heap

-----------------------------------------------------------------------------
(* Rust: names hold values.                                                  *)

Uses(s) == ToSet(s.ys) \cup (IF s.op \in Binding THEN {} ELSE {s.x})
Moves(s) == Taken(s) \ s.clones

RsStart == [env |-> [n \in Names |-> IF n \in Rows THEN <<0>> ELSE <<<<0>>>>],
            out |-> <<>>]

RsEffect(r, s) ==
  LET y == s.ys[1] IN
  CASE s.op = "new"                -> [r EXCEPT !.env[s.x] = RsStart.env[s.x]]
    [] s.op \in {"alias", "ident"} -> [r EXCEPT !.env[s.x] = r.env[y]]
    [] s.op = "grid"               -> [r EXCEPT !.env[s.x] = [j \in DOMAIN s.ys |-> r.env[s.ys[j]]]]
    [] s.op = "elem"               -> [r EXCEPT !.env[s.x] = r.env[y][1]]
    [] s.op = "append"             -> [r EXCEPT !.env[s.x] = Append(@, 1)]
    [] s.op = "rowappend"          -> [r EXCEPT !.env[s.x][1] = Append(@, 1)]
    [] s.op = "store"              -> [r EXCEPT !.env[s.x][1] = 9]
    [] s.op = "rowstore"           -> [r EXCEPT !.env[s.x][1][1] = 9]
    [] s.op = "embed"              -> [r EXCEPT !.env[s.x] = Append(@, r.env[y])]
    [] s.op = "print"              -> [r EXCEPT !.out = Append(@, r.env[s.x])]
    [] s.op = "call"               -> r

RsRun(es, k) ==
  LET path == Unrolled(es, k)
      after[j \in 0 .. Len(path)] == IF j = 0 THEN RsStart ELSE RsEffect(after[j - 1], path[j])
  IN  after[Len(path)]

(* The names whose list some earlier statement of the path moved away, and   *)
(* that no statement has bound since.                                        *)
MovedAway(path, j) ==
  {n \in Names : \E i \in 1 .. (j - 1) :
     /\ n \in Moves(path[i])
     /\ \A k \in i .. (j - 1) : path[k].op \in Binding => path[k].x # n}

Compiles(es) ==
  \A k \in Runs : LET path == Unrolled(es, k) IN
    \A j \in DOMAIN path : Uses(path[j]) \cap MovedAway(path, j) = {}

-----------------------------------------------------------------------------
(* What a caller knows and does not know of a function of one parameter.     *)
Signature(fns, p, b) ==
  [on |-> IF p \in Rows THEN "row" ELSE "grid",
   changes |-> ChangesParam(fns, b),
   marked |-> mutable_params(b, {p}) # {}]

-----------------------------------------------------------------------------
Sharing == {"alias", "ident", "grid", "embed", "elem"}

(* The names of the statements that do one of these. *)
Joined(b, ops) == UNION {{b[i].x} \cup ToSet(b[i].ys) : i \in {j \in DOMAIN b : b[j].op \in ops}}

Shared(b)  == Joined(b, Sharing)
Aliased(b) == Joined(b, {"alias", "ident"})
Linked(b)  == Joined(b, {"alias", "ident", "grid"})

Changed(b) == {b[i].x : i \in {j \in DOMAIN b : b[j].op = "call" /\ Callees[b[j].fn].changes}}

(* Mutations of a list that collect_obj_mutated does not see. *)
Covert(b) ==
  Changed(b) \cup {b[i].x : i \in {j \in DOMAIN b :
    \/ b[j].op = "rowappend"
    \/ b[j].at = "try" /\ b[j].op \in {"append", "store", "embed", "rowstore"}}}

(* A display [x, ...] whose rows the analysis loses sight of: a parameter, a  *)
(* row that another display took, one row twice under other names of it or of *)
(* the display.                                                               *)
LostDisplay(b, i) ==
  LET rows == ToSet(b[i].ys) IN
  /\ b[i].op = "grid"
  /\ \/ ({b[i].x} \cup rows) \cap job.params # {}
     \/ \E j \in DOMAIN b \ {i} :
          /\ b[j].op = "grid"
          /\ rows \cap ToSet(b[j].ys) # {} \/ {} \notin {rows \cap Aliased(b), ToSet(b[j].ys) \cap Aliased(b)}
     \/ /\ alias_class(b)[b[i].x] \cap nested_mutated(b) # {}
        /\ Len(b[i].ys) = 2 /\ (Cardinality(rows) = 1 \/ rows \subseteq Aliased(b))

(* A loop appends a list to another one, and has changed it before: the next *)
(* round changes what this one appended, unless it binds the name in between. *)
NextRound(b, i) ==
  /\ b[i].op = "embed" /\ b[i].at = "loop"
  /\ \E j \in 1..(i - 1) :
       /\ b[j].at = "loop" /\ b[j].op \in {"append", "store"} /\ b[j].x = b[i].ys[1]
       /\ \A k \in DOMAIN b : b[k].at = "loop" /\ b[k].op \in Binding /\ b[k].x = b[j].x => j < k /\ k < i

(* A list is appended to another one, and a block that may not run binds its *)
(* name again: the walk takes the list for gone on every path.                *)
ForgottenEmbed(b, i) ==
  /\ b[i].op = "embed"
  /\ \E j \in DOMAIN b : \E k \in (i + 1) .. (j - 1) :
       /\ {b[k].x, b[j].x} = ToSet(b[i].ys)
       /\ b[k].op \in Binding /\ b[k].at \notin {"top", b[j].at}
       /\ b[j].op \in Mutations

(* A parameter and two names share a list that is changed: a parameter is not *)
(* counted among the observable names of its class, and the disposition of a  *)
(* binding sees no further than the two names it links.                       *)
SharedAfar(b) ==
  class_violation(b, {}) /\ \E n \in job.params : Cardinality(alias_class(b)[n]) > 2

(* A changed name is bound by two aliases, and another name of its class was  *)
(* aliased twice: what the first of the two brought, and the name changed,    *)
(* the second may bring back unchanged, through names nothing prints.         *)
Rejoined(b) ==
  LET aliases == {i \in DOMAIN b : b[i].op \in {"alias", "ident"}} IN
  \E i, j \in aliases :
    /\ i # j /\ b[i].x = b[j].x /\ b[i].x \in collect_obj_mutated(b)
    /\ \E k, l \in aliases :
         k # l /\ b[k].ys = b[l].ys /\ b[k].ys[1] \in alias_class(b)[b[i].x] \ {b[i].x}

(* The bodies the analysis covers. *)
Overt(b) ==
  /\ Shared(b) \cap Covert(b) = {}
  /\ ~ SharedAfar(b) /\ ~ Rejoined(b)
  /\ \A i \in DOMAIN b :
       /\ ~ NextRound(b, i)
       /\ ~ LostDisplay(b, i)
       /\ ~ ForgottenEmbed(b, i)
       /\ b[i].op = "elem" /\ {b[i].x, b[i].ys[1]} \cap Linked(b) # {} => ~ class_mutated(b, alias_class(b)[b[i].x])
       /\ b[i].op \in Sharing /\ b[i].at = "try" => Shared(b) \cap collect_obj_mutated(b) = {}
       /\ b[i].op = "call" /\ Callees[b[i].fn].changes => Callees[b[i].fn].marked

-----------------------------------------------------------------------------
(* Wherever the frontend cloned a list that Python shares, the program cannot *)
(* tell: an overt body that was not refused, and that rustc accepts, prints   *)
(* what Python prints on every path (alias_class_analysis,                    *)
(* reject_append_then_mutate and the disposition of every binding together).  *)
SharingKept ==
  phase = "emitted" /\ Overt(body) /\ Compiles(emitted) =>
    \A k \in Runs : PyRun(Callees, body, k).out = RsRun(emitted, k).out

(* A function that is not known to change its caller's list does not change   *)
(* it, by itself or through an alias: its callers may pass it a clone.        *)
MarksParams ==
  /\ phase = "emitted" /\ Overt(body) /\ Compiles(emitted)
  /\ ~ (job.params \subseteq mutable_params(body, job.params))
  /\ Changed(body) = {} /\ \A i \in DOMAIN body : body[i].op # "elem"
  => ~ ChangesParam(Callees, body)

(* A name is written, x[0] = v, which is no read, after its only read gave    *)
(* its list away, and no walk looks for the other holder: an argument, an     *)
(* alias that is a parameter or is not read, an embedding that a branch       *)
(* makes the walk forget, a statement in a try.                               *)
WrittenUnwatched(b) ==
  \E i, j \in DOMAIN b :
    /\ i < j /\ b[j].op \in {"store", "rowstore"} /\ b[j].x \in Taken(b[i])
    /\ \/ "try" \in {b[i].at, b[j].at}
       \/ b[i].op = "call"
       \/ b[i].op \in {"alias", "ident", "grid"}
            /\ ({b[i].x, b[j].x} \cap job.params # {} \/ ~ observable(b, b[i].x))
       \/ b[i].op = "embed" /\ ForgottenEmbed(b, i)

(* No other name is used after its list was moved away: reads counted through *)
(* loop bodies decide where a clone is needed (clone_if_reused_non_copy).     *)
EmittedCompiles == phase = "emitted" /\ ~ WrittenUnwatched(body) => Compiles(emitted)

(* Sharing alone is never refused, however the names are linked. *)
ReadOnlyAccepted ==
  (\A i \in DOMAIN body : body[i].op \in {"new", "alias", "ident", "grid", "elem", "print"}) =>
    phase # "refused" /\ (phase = "emitted" => Compiles(emitted))
=============================================================================
