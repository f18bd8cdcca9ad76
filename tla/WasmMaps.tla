------------------------------ MODULE WasmMaps ------------------------------
(***************************************************************************)
(* The dict/set statements of an emitted WASM module, run against the bump *)
(* heap of LinearHeap.  One caller function and one callee function: the   *)
(* caller passes maps to the callee by base pointer, the callee may hand   *)
(* back a map it built.  A step is one emitted statement, except that the  *)
(* statements that loop over dict_set (literal, merge, set algebra,        *)
(* update) take one step per iteration.                                    *)
(***************************************************************************)
EXTENDS LinearHeap, Sequences, FiniteSets

CONSTANTS
  Callers,           \* dict/set locals of the calling function
  Callees,           \* dict/set locals of the called function
  Params,            \* dict/set parameters of the called function
  SetNames,          \* the names declared `set[K]`; the others are `dict[K, V]`
  NoName,            \* not a name
  Slack,             \* DICT_GROWTH_SLACK: spare entries of a literal
  MaxItems,          \* bound: entries of a literal or merge
  ForeignBytes,      \* sizes of the strings, lists and structs on the same heap
  Removals,          \* may the program pop / del / remove / clear?
  EmptyAlgebra,      \* may a set operation have a worst-case size of zero?
  NestedSetDefault   \* may the setdefault of d[k] = d.setdefault(j, x) move d?

Names == Callers \cup Callees \cup Params

ASSUME MapsAssumption ==
  /\ Callers \cap Callees = {} /\ Callers \cap Params = {} /\ Callees \cap Params = {}
  /\ SetNames \subseteq Names
  /\ NoName \notin Names
  /\ Slack \in Nat \ {0}
  /\ MaxItems \in Nat
  /\ ForeignBytes \subseteq Nat
  /\ Removals \in BOOLEAN /\ EmptyAlgebra \in BOOLEAN /\ NestedSetDefault \in BOOLEAN

VARIABLES
  mem,      \* the linear memory from HeapBase to the end of the page
  hp,       \* $__heap_ptr, in words
  loc,      \* the WASM local of each name: a base pointer, 0 when unbound
  inCall,   \* is the callee running?
  run,      \* the dict_set loop in progress
  out,      \* the value the last expression statement produced
  trap,     \* "none" | "unreachable" | "oob"
  foreign,  \* words that belong to strings, lists and structs
  stmt      \* the statement last begun

vars == <<mem, hp, loc, inCall, run, out, trap, foreign, stmt>>

(* A loop in progress: `r` accumulates for `dst`; `todo` holds the entries  *)
(* still to insert (put) and the maps still to walk (walk); i and n are the *)
(* loop locals of the walk at the head of todo, n = -1 before it starts.    *)
Put(K, V)              == [kind : {"put"}, k : K, v : V]
Walk(src, gate, want)  == [kind |-> "walk", src |-> src, gate |-> gate, want |-> want]
IdleRun                == [dst |-> NoName, r |-> 0, i |-> 0, n |-> -1, todo |-> <<>>]
Start(dst, r, todo)    == [dst |-> dst, r |-> r, i |-> 0, n |-> -1, todo |-> todo]

Stmt(op, x, args) == [op |-> op, x |-> x, args |-> args]
Begin(op, x, args) == stmt' = Stmt(op, x, args)

Foreign == W(-1, -1)     \* what a string, list or struct keeps in its words

Bound(x)   == loc[x] # 0
Scope      == IF inCall THEN Callees \cup Params ELSE Callers
Live       == {x \in Scope : Bound(x)}
Dicts      == Live \ SetNames
Sets       == Live \cap SetNames
Ready      == trap = "none" /\ run.dst = NoName
Running    == trap = "none" /\ run.dst # NoName

Init ==
  /\ mem     = [a \in Page |-> Zero]
  /\ hp      = HeapBase
  /\ loc     = [x \in Names |-> 0]
  /\ inCall  = FALSE
  /\ run     = IdleRun
  /\ out     = Zero
  /\ trap    = "none"
  /\ foreign = {}
  /\ stmt    = Stmt("none", NoName, <<>>)

Abort(why) ==
  /\ trap' = why
  /\ UNCHANGED <<mem, loc, inCall, run, out, foreign>>

-----------------------------------------------------------------------------
(* A map-valued binding allocates a region, writes its header [0 | cap] and *)
(* then runs its insertions.                                                *)

NewMap(x, cap, todo) ==
  /\ hp' = alloc(hp, region_bytes(cap))
  /\ \/ /\ hp \in Page
        /\ mem' = [mem EXCEPT ![hp] = W(0, cap)]
        /\ run' = Start(x, hp, todo)
        /\ UNCHANGED <<loc, inCall, out, trap, foreign>>
     \/ /\ hp \notin Page
        /\ Abort("oob")

(* x = {k: v, ..., **e}: emit_dict_lit, emit_set_lit, emit_dict_merge.  The  *)
(* capacity counts the explicit entries; a splat grows the record as it      *)
(* walks.  A set literal stores the sentinel 0 with each key.                *)
EntriesOf(x) ==
  IF x \in SetNames THEN Put(Keys, {Zero})
  ELSE Put(Keys, Vals) \cup {Walk(e, NoName, TRUE) : e \in Dicts}

Explicit(todo) == Cardinality({j \in DOMAIN todo : todo[j].kind = "put"})

(* Slip: {**e} alone is the record of e itself. *)
BindLitAliasing(x) ==
  /\ Ready
  /\ x \in Scope
  /\ \E len \in 0 .. MaxItems : \E todo \in [1 .. len -> EntriesOf(x)] :
       /\ Begin("display", x, todo)
       /\ \/ Explicit(todo) = len /\ NewMap(x, len + Slack, todo)
          \/ /\ len = 1 /\ Explicit(todo) = 0
             /\ loc' = [loc EXCEPT ![x] = loc[todo[1].src]]
             /\ UNCHANGED <<mem, hp, inCall, run, out, trap, foreign>>

BindLit(x) ==
  /\ Ready
  /\ x \in Scope
  /\ \E len \in 0 .. MaxItems : \E todo \in [1 .. len -> EntriesOf(x)] :
       /\ NewMap(x, Explicit(todo) + Slack, todo)
       /\ Begin("display", x, todo)

(* x = a | b, a & b, a - b, a ^ b over two sets: emit_set_op and the four    *)
(* helpers of emit_set_algebra_helpers, capacity |a| or |a| + |b|.           *)
WalksOneSided(op, a, b) ==          \* slip: a ^ b without the second walk
  CASE op = "union"        -> <<Walk(a, NoName, TRUE), Walk(b, NoName, TRUE)>>
    [] op = "intersection" -> <<Walk(a, b, TRUE)>>
    [] op \in {"difference", "symdiff"} -> <<Walk(a, b, FALSE)>>

WalksOf(op, a, b) ==
  CASE op = "union"        -> <<Walk(a, NoName, TRUE), Walk(b, NoName, TRUE)>>
    [] op = "intersection" -> <<Walk(a, b, TRUE)>>
    [] op = "difference"   -> <<Walk(a, b, FALSE)>>
    [] op = "symdiff"      -> <<Walk(a, b, FALSE), Walk(b, a, FALSE)>>

AlgebraCap(op, a, b) ==
  Count(mem, loc[a]) + (IF op \in {"union", "symdiff"} THEN Count(mem, loc[b]) ELSE 0)

SetOp(x) ==
  /\ Ready
  /\ x \in Scope \cap SetNames
  /\ \E op \in {"union", "intersection", "difference", "symdiff"}, a, b \in Sets :
       /\ EmptyAlgebra \/ AlgebraCap(op, a, b) > 0
       /\ NewMap(x, AlgebraCap(op, a, b), WalksOf(op, a, b))
       /\ Begin(op, x, <<a, b>>)

(* d.update(e): emit_dict_update; the receiver is never a parameter          *)
(* (refuse_heap_param_growth), the source may be.                            *)
DictUpdate(d) ==
  /\ Ready
  /\ d \in Dicts \ Params
  /\ \E e \in Dicts : /\ run' = Start(d, loc[d], <<Walk(e, NoName, TRUE)>>)
                       /\ Begin("update", d, <<e>>)
  /\ UNCHANGED <<mem, hp, loc, inCall, out, trap, foreign>>

-----------------------------------------------------------------------------
(* The loop of a binding or an update, one dict_set per step.                *)

RunSet(k, v, next) ==
  LET s == dict_set(mem, hp, run.r, k, v) IN
  /\ hp' = s.hp
  /\ UNCHANGED stmt
  /\ \/ /\ s.ok
        /\ mem' = s.mem
        /\ run' = [next EXCEPT !.r = s.ptr]
        /\ UNCHANGED <<loc, inCall, out, trap, foreign>>
     \/ /\ ~ s.ok
        /\ Abort("oob")

RunPut ==
  /\ Running /\ run.todo # <<>> /\ Head(run.todo).kind = "put"
  /\ RunSet(Head(run.todo).k, Head(run.todo).v, [run EXCEPT !.todo = Tail(@)])

Walking == Running /\ run.todo # <<>> /\ Head(run.todo).kind = "walk"

(* The walk reads its source's count once, before the loop. *)
WalkStart ==
  /\ Walking /\ run.n = -1
  /\ run' = [run EXCEPT !.i = 0, !.n = Count(mem, loc[Head(run.todo).src])]
  /\ UNCHANGED <<mem, hp, loc, inCall, out, trap, foreign, stmt>>

WalkKey == load_key(mem, loc[Head(run.todo).src], run.i)
WalkVal == IF run.dst \in SetNames THEN Zero ELSE mem[ValAddr(loc[Head(run.todo).src], run.i)]
Gated   == LET w == Head(run.todo) IN
           w.gate # NoName => (dict_has(mem, loc[w.gate], WalkKey) = w.want)

(* Slip: an entry of a splat does not replace one that is there. *)
WalkInsertKeeping ==
  /\ Walking /\ run.n # -1 /\ run.i < run.n /\ Gated
  /\ \/ ~ dict_has(mem, run.r, WalkKey) /\ RunSet(WalkKey, WalkVal, [run EXCEPT !.i = @ + 1])
     \/ /\ dict_has(mem, run.r, WalkKey)
        /\ run' = [run EXCEPT !.i = @ + 1]
        /\ UNCHANGED <<mem, hp, loc, inCall, out, trap, foreign, stmt>>

WalkInsert ==
  /\ Walking /\ run.n # -1 /\ run.i < run.n /\ Gated
  /\ RunSet(WalkKey, WalkVal, [run EXCEPT !.i = @ + 1])

(* Slip: the skipping branch misses the increment. *)
WalkSkipStuck ==
  /\ Walking /\ run.n # -1 /\ run.i < run.n /\ ~ Gated
  /\ UNCHANGED vars

WalkSkip ==
  /\ Walking /\ run.n # -1 /\ run.i < run.n /\ ~ Gated
  /\ run' = [run EXCEPT !.i = @ + 1]
  /\ UNCHANGED <<mem, hp, loc, inCall, out, trap, foreign, stmt>>

WalkEnd ==
  /\ Walking /\ run.n # -1 /\ run.i >= run.n
  /\ run' = [run EXCEPT !.todo = Tail(@), !.i = 0, !.n = -1]
  /\ UNCHANGED <<mem, hp, loc, inCall, out, trap, foreign, stmt>>

(* local.set $dst *)
RunDone ==
  /\ Running /\ run.todo = <<>>
  /\ loc' = [loc EXCEPT ![run.dst] = run.r]
  /\ run' = IdleRun
  /\ UNCHANGED <<mem, hp, inCall, out, trap, foreign, stmt>>

-----------------------------------------------------------------------------
(* Statements that insert at most one entry.                                 *)

(* The result of a dict_set reaches the local by `local.set`. *)
StoreBack(d, s, result) ==
  /\ hp' = s.hp
  /\ \/ /\ s.ok
        /\ mem' = s.mem
        /\ loc' = [loc EXCEPT ![d] = s.ptr]
        /\ out' = result
        /\ UNCHANGED <<inCall, run, trap, foreign>>
     \/ /\ ~ s.ok
        /\ Abort("oob")

(* Slip: refuse_heap_param_growth is not consulted. *)
DictSetOnParams(d) ==
  /\ Ready
  /\ d \in Live
  /\ \E k \in Keys, v \in IF d \in SetNames THEN {Zero} ELSE Vals :
       /\ StoreBack(d, dict_set(mem, hp, loc[d], k, v), Zero)
       /\ Begin("store", d, <<KeyOf(k), v>>)

(* d[k] = v: emit_dict_set.  s.add(k): emit_set_add. *)
DictSet(d) ==
  /\ Ready
  /\ d \in Live \ Params
  /\ \E k \in Keys, v \in IF d \in SetNames THEN {Zero} ELSE Vals :
       /\ StoreBack(d, dict_set(mem, hp, loc[d], k, v), Zero)
       /\ Begin("store", d, <<KeyOf(k), v>>)

(* d.setdefault(k, v): emit_dict_set_default: has, then set, then get. *)
SetDefault(d) ==
  /\ Ready
  /\ d \in Dicts \ Params
  /\ \E k \in Keys, v \in Vals :
       /\ Begin("setdefault", d, <<KeyOf(k), v>>)
       /\ \/ /\ dict_has(mem, loc[d], k)
             /\ out' = dict_get(mem, loc[d], k)
             /\ UNCHANGED <<mem, hp, loc, inCall, run, trap, foreign>>
          \/ /\ ~ dict_has(mem, loc[d], k)
             /\ LET s == dict_set(mem, hp, loc[d], k, v) IN
                StoreBack(d, s, dict_get(s.mem, s.ptr, k))

(* d[k] = d.setdefault(j, v): emit_dict_set pushes $d, then evaluates the    *)
(* value, which may move the record and update $d, then calls dict_set with  *)
(* the base pointer pushed first.                                            *)
DictSetOfSetDefault(d) ==
  /\ Ready
  /\ d \in Dicts \ Params
  /\ \E k, j \in Keys, v \in Vals :
       LET base == loc[d]
           hit  == dict_has(mem, base, j)
           s    == dict_set(mem, hp, base, j, v)
       IN  /\ NestedSetDefault \/ hit \/ ~ s.ok \/ s.ptr = base
           /\ Begin("store_setdefault", d, <<KeyOf(k), KeyOf(j), v>>)
           /\ \/ hit /\ StoreBack(d, dict_set(mem, hp, base, k, dict_get(mem, base, j)), Zero)
              \/ ~ hit /\ s.ok /\ StoreBack(d, dict_set(s.mem, s.hp, base, k, v), Zero)
              \/ ~ hit /\ ~ s.ok /\ hp' = s.hp /\ Abort("oob")

-----------------------------------------------------------------------------
(* Statements that shrink a map in place; a parameter is a receiver too.     *)

TakeOut(d, k, result) ==
  /\ mem' = dict_pop(mem, loc[d], k)
  /\ out' = result
  /\ UNCHANGED <<hp, loc, inCall, run, trap, foreign>>

(* d.pop(k), del d[k], s.remove(k): emit_dict_pop, emit_dict_del,            *)
(* emit_set_remove; the helper's not-found tail is `unreachable`.            *)
Pop(d) ==
  /\ Ready /\ Removals
  /\ d \in Live
  /\ \E k \in Keys :
       /\ Begin("pop", d, <<KeyOf(k)>>)
       /\ \/ dict_has(mem, loc[d], k) /\ TakeOut(d, k, dict_get(mem, loc[d], k))
          \/ ~ dict_has(mem, loc[d], k) /\ hp' = hp /\ Abort("unreachable")

(* d.pop(k, v), s.discard(k): `has` gates the pop. *)
PopOr(d) ==
  /\ Ready /\ Removals
  /\ d \in Live
  /\ \E k \in Keys, v \in IF d \in SetNames THEN {Zero} ELSE Vals :
       /\ Begin("pop_or", d, <<KeyOf(k), v>>)
       /\ \/ dict_has(mem, loc[d], k) /\ TakeOut(d, k, dict_get(mem, loc[d], k))
          \/ /\ ~ dict_has(mem, loc[d], k)
             /\ out' = v
             /\ UNCHANGED <<mem, hp, loc, inCall, run, trap, foreign>>

(* d.clear(): emit_list_mutate stores 0 into the count. *)
Clear(d) ==
  /\ Ready /\ Removals
  /\ d \in Live
  /\ mem' = [mem EXCEPT ![loc[d]] = W(0, Cap(mem, loc[d]))]
  /\ out' = Zero
  /\ Begin("clear", d, <<>>)
  /\ UNCHANGED <<hp, loc, inCall, run, trap, foreign>>

(* Slip: an absent key falls through to a load past the entries. *)
GetFallingThrough(d) ==
  /\ Ready
  /\ d \in Dicts
  /\ \E k \in Keys :
       /\ Begin("get", d, <<KeyOf(k)>>)
       /\ \/ /\ dict_has(mem, loc[d], k)
             /\ out' = dict_get(mem, loc[d], k)
             /\ UNCHANGED <<mem, hp, loc, inCall, run, trap, foreign>>
          \/ ~ dict_has(mem, loc[d], k) /\ hp' = hp /\ Abort("oob")

(* d[k]: emit_dict_get. *)
Get(d) ==
  /\ Ready
  /\ d \in Dicts
  /\ \E k \in Keys :
       /\ Begin("get", d, <<KeyOf(k)>>)
       /\ \/ /\ dict_has(mem, loc[d], k)
             /\ out' = dict_get(mem, loc[d], k)
             /\ UNCHANGED <<mem, hp, loc, inCall, run, trap, foreign>>
          \/ ~ dict_has(mem, loc[d], k) /\ hp' = hp /\ Abort("unreachable")

-----------------------------------------------------------------------------
(* f(d, e): check_heap_call_args passes each map by base pointer, to a       *)
(* parameter of the same kind; one record may reach two parameters.          *)
Call ==
  /\ Ready /\ ~ inCall /\ Callees \cup Params # {}
  /\ \E arg \in [Params -> Live] :
       /\ \A p \in Params : (p \in SetNames) = (arg[p] \in SetNames)
       /\ loc' = [x \in Names |-> IF x \in Params THEN loc[arg[x]]
                                  ELSE IF x \in Callees THEN 0 ELSE loc[x]]
       /\ Begin("call", NoName, arg)
  /\ inCall' = TRUE
  /\ UNCHANGED <<mem, hp, run, out, trap, foreign>>

(* x = f(...) with `return r`: emit_heap_ret refuses a parameter. *)
ReturnMap ==
  /\ Ready /\ inCall
  /\ \E x \in Callers, r \in Callees :
       /\ Bound(r) /\ (x \in SetNames) = (r \in SetNames)
       /\ loc' = [y \in Names |-> IF y = x THEN loc[r] ELSE IF y \in Callers THEN loc[y] ELSE 0]
       /\ Begin("return", x, <<r>>)
  /\ inCall' = FALSE
  /\ UNCHANGED <<mem, hp, run, out, trap, foreign>>

(* A return of a scalar, or of nothing. *)
Return ==
  /\ Ready /\ inCall
  /\ loc' = [y \in Names |-> IF y \in Callers THEN loc[y] ELSE 0]
  /\ Begin("return", NoName, <<>>)
  /\ inCall' = FALSE
  /\ UNCHANGED <<mem, hp, run, out, trap, foreign>>

(* Slip: the bump pointer moves by whole words only, the last part word of   *)
(* a string is not reserved.                                                 *)
ForeignAllocUnrounded ==
  /\ Ready
  /\ \E bytes \in ForeignBytes :
       LET h2 == alloc(hp, bytes) IN
       /\ h2 <= PageWords
       /\ hp' = hp + (bytes \div 8)
       /\ mem' = [a \in Page |-> IF a \in hp .. (h2 - 1) THEN Foreign ELSE mem[a]]
       /\ foreign' = foreign \cup (hp .. (h2 - 1))
  /\ UNCHANGED <<loc, inCall, run, out, trap, stmt>>

(* A string, list or struct is built on the same heap. *)
ForeignAlloc ==
  /\ Ready
  /\ \E bytes \in ForeignBytes :
       LET h2 == alloc(hp, bytes) IN
       /\ hp' = h2
       /\ UNCHANGED stmt
       /\ \/ /\ h2 <= PageWords
             /\ mem' = [a \in Page |-> IF a \in hp .. (h2 - 1) THEN Foreign ELSE mem[a]]
             /\ foreign' = foreign \cup (hp .. (h2 - 1))
             /\ UNCHANGED <<loc, inCall, run, out, trap>>
          \/ /\ h2 > PageWords
             /\ Abort("oob")

(* A trap ends the instance. *)
Halted == trap # "none" /\ UNCHANGED vars

RunStep == RunPut \/ WalkStart \/ WalkInsert \/ WalkSkip \/ WalkEnd \/ RunDone

Next ==
  \/ \E x \in Names : \/ BindLit(x) \/ SetOp(x) \/ DictUpdate(x) \/ DictSet(x)
                      \/ SetDefault(x) \/ DictSetOfSetDefault(x)
                      \/ Pop(x) \/ PopOr(x) \/ Clear(x) \/ Get(x)
  \/ RunStep
  \/ Call \/ ReturnMap \/ Return \/ ForeignAlloc \/ Halted

Spec == Init /\ [][Next]_vars

(* The instance is one thread of control: a loop it entered keeps running.   *)
FairSpec == Spec /\ WF_vars(RunStep)

-----------------------------------------------------------------------------
(* What must hold of the heap.                                               *)

Entry == Put(Keys, Vals)
           \cup [kind : {"walk"}, src : Names, gate : Names \cup {NoName}, want : BOOLEAN]

TypeOK ==
  /\ mem \in [Page -> Word]
  /\ hp \in Nat
  /\ loc \in [Names -> Nat]
  /\ inCall \in BOOLEAN
  /\ run \in [dst : Names \cup {NoName}, r : Nat, i : Nat, n : Nat \cup {-1}, todo : Seq(Entry)]
  /\ out \in Word
  /\ trap \in {"none", "unreachable", "oob"}
  /\ foreign \subseteq Page

(* The records a program can still reach: through a local, or as the         *)
(* accumulator of the loop in progress.                                      *)
Records == {loc[x] : x \in {y \in Names : Bound(y)}}
             \cup (IF run.dst = NoName THEN {} ELSE {run.r})

Region(p) == p .. (p + 2 * Cap(mem, p))

(* Every reachable record has a header in the page, at least one slot, no    *)
(* more entries than slots, and lies below the bump pointer: an insertion    *)
(* that finds a free slot, or grows, writes only words of its own record.    *)
RecordsInside ==
  \A p \in Records :
    /\ p \in Page
    /\ Cap(mem, p) > 0
    /\ Count(mem, p) \in 0 .. Cap(mem, p)
    /\ p + 2 * Count(mem, p) < PageWords
    /\ p + 2 * Cap(mem, p) < hp

(* Two reachable records share no word, and none holds a word of a string,   *)
(* list or struct: no statement about one value can change another.          *)
RecordsApart ==
  /\ \A p, q \in Records : p # q => Region(p) \cap Region(q) = {}
  /\ \A p \in Records : Region(p) \cap foreign = {}

(* What a string, list or struct stored is never overwritten by a map.       *)
ForeignIntact == \A a \in foreign : a < hp /\ mem[a] = Foreign

(* One record has one owner among the locals; a parameter shares only with a *)
(* caller's local, so no growth can leave a stale pointer behind.            *)
OneOwner ==
  /\ \A x, y \in Names : Bound(x) /\ loc[x] = loc[y] /\ x # y =>
         \/ x \in Params /\ y \in Params \cup Callers
         \/ y \in Params /\ x \in Callers
  /\ ~ inCall => \A x \in Callees \cup Params : ~ Bound(x)

(* No record holds one key twice (for strings: two pointers to equal text).  *)
KeysDistinct ==
  \A p \in Records : \A i, j \in Slots(mem, p) :
     i # j => KeyOf(mem[KeyAddr(p, i)]) # KeyOf(mem[KeyAddr(p, j)])

(* A memory trap means the page is used up: it never stands for a KeyError.  *)
TrapOnlyWhenFull == trap = "oob" => hp > PageWords

(* Every literal, merge, set operation and update comes to its end, even     *)
(* when a map is walked into itself: the walk's bound is read once.          *)
LoopsEnd == (run.dst # NoName) ~> (run.dst = NoName \/ trap # "none")

-----------------------------------------------------------------------------
(* A claim of the repository's comments that the code does not keep.          *)

(* "on overflow (count >= capacity) the region GROWS": once a dict_set       *)
(* returns, the entries fit the capacity of the record.                      *)
GrowthMakesRoom == \A p \in Records : Count(mem, p) <= Cap(mem, p)
=============================================================================
