------------------------------ MODULE WasmLists ------------------------------
(***************************************************************************)
(* The list statements of an emitted WASM function, run against the bump   *)
(* heap.  The caller's lists reach it by base pointer, so two parameters   *)
(* may be one record and a local may alias a parameter; a step is one      *)
(* statement, with the element expressions it evaluates.                   *)
(***************************************************************************)
EXTENDS LinearLists

CONSTANTS
  Growable,      \* the names collect_growable_lists lets append and insert
  Others,        \* the other list locals
  Params,        \* list parameters (one rebound to a literal may be growable)
  NoName,        \* not a name
  ListSlack,     \* LIST_GROWTH_SLACK
  Idx,           \* the indices and slice bounds a program uses
  MaxLit,        \* bound: elements of a literal
  Given,         \* the lists a caller may pass
  Spare,         \* spare slots a passed record may have
  Table,         \* the entries of the one dict, as <<key word, value word>>
  SelfPops       \* may an operand pop the list its own statement writes?

Names == Growable \cup Others \cup Params

ASSUME ListsAssumption ==
  /\ Growable \cap Others = {} /\ Others \cap Params = {} /\ IsFiniteSet(Params)
  /\ NoName \notin Names
  /\ ListSlack \in Nat \ {0}
  /\ Idx \subseteq Int
  /\ MaxLit \in Nat
  /\ Given \subseteq Seq(Vals)
  /\ Spare \subseteq Nat
  /\ Table \in Seq(Vals \X Vals)
  /\ \A i, j \in DOMAIN Table : KeyOf(Table[i][1]) = KeyOf(Table[j][1]) => i = j
  /\ SelfPops \in BOOLEAN

VARIABLES
  mem,     \* the linear memory from HeapBase to the end of the page
  hp,      \* $__heap_ptr, in words
  loc,     \* the WASM local of each name: a base pointer, 0 when unbound
  dct,     \* the WASM local of the dict
  out,     \* the value the last expression statement produced
  trap,    \* "none" | "unreachable" | "capacity" | "oob"
  stmt     \* the statement last begun

vars == <<mem, hp, loc, dct, out, trap, stmt>>

Begin(op, x, args) == stmt' = [op |-> op, x |-> x, args |-> args]

Bound(x) == loc[x] # 0
Live     == {x \in Names : Bound(x)}
Running  == trap = "none"

(* What a caller leaves on the heap: a dict, then the lists it passes.      *)
Blank == [a \in Page |-> Zero]

DictAt(m, h) ==
  [a \in Page |-> CASE a = h -> W(Len(Table), Len(Table) + 1)
                    [] a \in (h + 1) .. (h + 2 * Len(Table)) ->
                         Table[((a - h - 1) \div 2) + 1][((a - h - 1) % 2) + 1]
                    [] OTHER -> m[a]]

FirstFree == HeapBase + 3 + 2 * Len(Table)

(* The lists follow each other, or every parameter is the first of them.    *)
Order == SetToSeq(Params)

Starts(given, room, same) ==
  LET at[i \in 1 .. Len(Order) + 1] ==
        IF i = 1 THEN FirstFree
        ELSE IF same /\ i > 2 THEN at[i - 1]
        ELSE at[i - 1] + 1 + Len(given[Order[i - 1]]) + room[Order[i - 1]]
  IN  at

Records(same) == IF same THEN {i \in DOMAIN Order : i = 1} ELSE DOMAIN Order

(* A list that was never given spare slots has no capacity word. *)
Passed(given, room, same) ==
  LET at == Starts(given, room, same)
      here(a) == {i \in Records(same) : a \in at[i] .. (at[i] + Len(given[Order[i]]))}
      word(a, i) == LET s == given[Order[i]]  r == room[Order[i]] IN
                    IF a = at[i] THEN W(Len(s), IF r = 0 THEN 0 ELSE Len(s) + r) ELSE s[a - at[i]]
  IN  [a \in Page |-> IF here(a) = {} THEN DictAt(Blank, HeapBase)[a]
                      ELSE word(a, CHOOSE i \in here(a) : TRUE)]

(* What a caller hands over was built on the page: a record that did not fit *)
(* would have trapped there.                                                 *)
Init ==
  /\ dct = HeapBase
  /\ out = Zero
  /\ trap = "none"
  /\ stmt = [op |-> "none", x |-> NoName, args |-> <<>>]
  /\ \E given \in [Params -> Given], room \in [Params -> Spare], same \in BOOLEAN :
       LET at == Starts(given, room, same) IN
       /\ hp = at[Len(Order) + 1] /\ hp <= PageWords
       /\ mem = Passed(given, room, same)
       /\ loc = [x \in Names |-> IF x \notin Params THEN 0
                                 ELSE at[IF same THEN 1 ELSE CHOOSE i \in DOMAIN Order : Order[i] = x]]

-----------------------------------------------------------------------------
(* Element expressions: a constant, y.pop() or y.pop(i).                     *)

Const(v)    == [kind |-> "const", v |-> v]
PopLast(y)  == [kind |-> "pop", y |-> y]
PopAt(y, i) == [kind |-> "pop_at", y |-> y, i |-> i]

Operands == {Const(v) : v \in Vals} \cup {PopLast(y) : y \in Live}
              \cup {PopAt(y, i) : y \in Live, i \in Idx}

(* May the statement that writes the record at p use this operand? *)
Allowed(e, p) == SelfPops \/ e.kind = "const" \/ loc[e.y] # p

eval(m, e) ==
  CASE e.kind = "const"  -> [ok |-> TRUE, mem |-> m, val |-> e.v]
    [] e.kind = "pop"    -> list_pop(m, loc[e.y])
    [] e.kind = "pop_at" -> list_pop_idx(m, loc[e.y], e.i)

Abort(why) == trap' = why /\ UNCHANGED <<mem, hp, loc, dct, out>>

Rewrite(m, result) == mem' = m /\ out' = result /\ UNCHANGED <<hp, loc, dct, trap>>

-----------------------------------------------------------------------------
(* Bindings.                                                                 *)

(* x = [e, ...]: allocate, write count and capacity, then store the elements *)
(* in order, each evaluated where it is stored.                              *)
Fill(m, p, es) ==
  LET filled[j \in 0 .. Len(es)] ==
        IF j = 0
        THEN IF p \notin Page THEN [why |-> "oob", mem |-> m]
             ELSE [why |-> "none", mem |-> [m EXCEPT ![p] = W(Len(es), Len(es) + ListSlack)]]
        ELSE LET r == filled[j - 1]
                 e == eval(r.mem, es[j])
             IN  IF r.why # "none" THEN r
                 ELSE IF ~ e.ok THEN [why |-> "unreachable", mem |-> r.mem]
                 ELSE IF p + j \notin Page THEN [why |-> "oob", mem |-> e.mem]
                 ELSE [why |-> "none", mem |-> [e.mem EXCEPT ![p + j] = e.val]]
  IN  filled[Len(es)]

(* Slip: the spare slots are in the capacity but not in the request. *)
literal_bytes_tight(len) == list_bytes(len)

literal_bytes(len) == list_bytes(len + ListSlack)

BindLit(x) ==
  /\ Running
  /\ x \in Names
  /\ \E len \in 0 .. MaxLit : \E es \in [1 .. len -> Operands] :
       /\ Begin("literal", x, es)
       /\ LET r == Fill(mem, hp, es) IN
          \/ r.why # "none" /\ Abort(r.why)
          \/ /\ r.why = "none"
             /\ mem' = r.mem
             /\ hp' = alloc(hp, literal_bytes(len))
             /\ loc' = [loc EXCEPT ![x] = hp]
             /\ UNCHANGED <<dct, out, trap>>

(* x = y: the pointer is copied.  The frontend refuses some of these; the    *)
(* model allows them all.                                                    *)
BindAlias(x) ==
  /\ Running
  /\ x \in (Others \cup Params) \ Growable
  /\ \E y \in Live :
       /\ Begin("alias", x, <<y>>)
       /\ loc' = [loc EXCEPT ![x] = loc[y]]
  /\ UNCHANGED <<mem, hp, dct, out, trap>>

(* x = a new list with elements s, from a helper that writes no capacity. *)
BindNew(x, s) ==
  LET r == new_list(mem, hp, s) IN
  \/ /\ r.ok
     /\ mem' = r.mem /\ hp' = r.hp
     /\ loc' = [loc EXCEPT ![x] = r.ptr]
     /\ UNCHANGED <<dct, out, trap>>
  \/ ~ r.ok /\ Abort("oob")

(* x = sorted(y, reverse=d), reversed(y), y + z, y[lo:hi], list(d),          *)
(* list(d.values()), sorted(d): the list-valued arms of emit_list_expr.      *)
BindHelper(x) ==
  /\ Running
  /\ x \in (Others \cup Params) \ Growable
  /\ \/ \E y \in Live, desc \in BOOLEAN :
          Begin("sorted", x, <<y, desc>>) /\ BindNew(x, list_sorted(mem, loc[y], desc))
     \/ \E y \in Live : Begin("reversed", x, <<y>>) /\ BindNew(x, list_reversed(mem, loc[y]))
     \/ \E y, z \in Live :
          Begin("concat", x, <<y, z>>) /\ BindNew(x, list_concat(mem, loc[y], loc[z]))
     \/ \E y \in Live, lo, hi \in Idx :
          Begin("slice", x, <<y, lo, hi>>) /\ BindNew(x, list_slice(mem, loc[y], lo, hi))
     \/ Begin("keys", x, <<>>) /\ BindNew(x, keys_to_list(mem, dct))
     \/ Begin("values", x, <<>>) /\ BindNew(x, values_to_list(mem, dct))

-----------------------------------------------------------------------------
(* Statements that change a list in place.                                   *)

(* Slip: the guard lets one more element in. *)
full_late(m, p) == Count(m, p) > Cap(m, p)

full(m, p) == Count(m, p) >= Cap(m, p)

(* x.append(e): the capacity guard and the address of the new element come   *)
(* first, then e is evaluated, then the count is read again.                 *)
ListAppend(x) ==
  /\ Running
  /\ x \in Growable /\ Bound(x)
  /\ \E e \in {o \in Operands : Allowed(o, loc[x])} :
       LET p    == loc[x]
           slot == p + 1 + Count(mem, p)
           r    == eval(mem, e)
       IN  /\ Begin("append", x, <<e>>)
           /\ \/ full(mem, p) /\ Abort("capacity")
              \/ ~ full(mem, p) /\ ~ r.ok /\ Abort("unreachable")
              \/ ~ full(mem, p) /\ r.ok /\ slot \notin Page /\ Abort("oob")
              \/ /\ ~ full(mem, p) /\ r.ok /\ slot \in Page
                 /\ LET m == [r.mem EXCEPT ![slot] = r.val] IN
                    Rewrite(set_count(m, p, Count(m, p) + 1), Zero)

(* x.insert(i, e): the operands first, then the helper reads the record. *)
Insert(x) ==
  /\ Running
  /\ x \in Growable /\ Bound(x)
  /\ \E i \in Idx, e \in Operands :
       LET p == loc[x]
           r == eval(mem, e)
       IN  /\ Begin("insert", x, <<i, e>>)
           /\ \/ ~ r.ok /\ Abort("unreachable")
              \/ r.ok /\ full(r.mem, p) /\ Abort("capacity")
              \/ /\ r.ok /\ ~ full(r.mem, p)
                 /\ \/ p + 1 + Count(r.mem, p) \notin Page /\ Abort("oob")
                    \/ p + 1 + Count(r.mem, p) \in Page /\ Rewrite(list_insert(r.mem, p, i, r.val), Zero)

(* x[i] = e: the index is normalised and checked before e is evaluated. *)
SetItem(x) ==
  /\ Running
  /\ Bound(x)
  /\ \E i \in Idx, e \in {o \in Operands : Allowed(o, loc[x])} :
       LET p == loc[x]
           n == Count(mem, p)
           r == eval(mem, e)
       IN  /\ Begin("setitem", x, <<i, e>>)
           /\ \/ ~ (InBounds(n, i) /\ r.ok) /\ Abort("unreachable")
              \/ /\ InBounds(n, i) /\ r.ok
                 /\ Rewrite([r.mem EXCEPT ![p + 1 + Normal(n, i)] = r.val], Zero)

(* del x[i] *)
DelItem(x) ==
  /\ Running
  /\ Bound(x)
  /\ \E i \in Idx :
       LET n == Count(mem, loc[x]) IN
       /\ Begin("del", x, <<i>>)
       /\ \/ ~ InBounds(n, i) /\ Abort("unreachable")
          \/ InBounds(n, i) /\ Rewrite(close_slot(mem, loc[x], Normal(n, i)), Zero)

(* x.remove(v) *)
ListRemove(x) ==
  /\ Running
  /\ Bound(x)
  /\ \E v \in Vals :
       /\ Begin("remove", x, <<v>>)
       /\ \/ ~ list_contains(mem, loc[x], v) /\ Abort("unreachable")
          \/ /\ list_contains(mem, loc[x], v)
             /\ Rewrite(close_slot(mem, loc[x], first_slot(mem, loc[x], v)), Zero)

(* x.reverse(), x.sort(reverse=d), x.clear() *)
Rearrange(x) ==
  /\ Running
  /\ Bound(x)
  /\ \/ Begin("reverse", x, <<>>) /\ Rewrite(list_reverse(mem, loc[x]), Zero)
     \/ \E desc \in BOOLEAN : Begin("sort", x, <<desc>>) /\ Rewrite(list_sort(mem, loc[x], desc), Zero)
     \/ Begin("clear", x, <<>>) /\ Rewrite(set_count(mem, loc[x], 0), Zero)

-----------------------------------------------------------------------------
(* Expressions whose value the function looks at.                            *)

(* v = x.pop(), v = x.pop(i) *)
PopValue(x) ==
  /\ Running
  /\ Bound(x)
  /\ \E e \in {PopLast(x)} \cup {PopAt(x, i) : i \in Idx} :
       /\ Begin("pop", x, <<e>>)
       /\ \/ ~ eval(mem, e).ok /\ Abort("unreachable")
          \/ eval(mem, e).ok /\ Rewrite(eval(mem, e).mem, eval(mem, e).val)

(* x[i] *)
GetItem(x) ==
  /\ Running
  /\ Bound(x)
  /\ \E i \in Idx :
       LET n == Count(mem, loc[x]) IN
       /\ Begin("getitem", x, <<i>>)
       /\ \/ ~ InBounds(n, i) /\ Abort("unreachable")
          \/ InBounds(n, i) /\ Rewrite(mem, mem[loc[x] + 1 + Normal(n, i)])

(* min(x) and max(x); sum(x).  The totals stay far below the word's end.     *)
Extremum(x) ==
  /\ Running
  /\ Bound(x)
  /\ \E is_max \in BOOLEAN :
       /\ Begin("minmax", x, <<is_max>>)
       /\ \/ Count(mem, loc[x]) = 0 /\ Abort("unreachable")
          \/ Count(mem, loc[x]) # 0 /\ Rewrite(mem, list_minmax(mem, loc[x], is_max))

Total(x) ==
  /\ Running
  /\ Bound(x)
  /\ Begin("sum", x, <<>>)
  /\ Rewrite(mem, W(list_sum(mem, loc[x]), 0))

(* x.index(v), x.count(v), v in x *)
Query(x) ==
  /\ Running
  /\ Bound(x)
  /\ \E v \in Vals :
       \/ /\ Begin("index", x, <<v>>)
          /\ \/ ~ list_contains(mem, loc[x], v) /\ Abort("unreachable")
             \/ list_contains(mem, loc[x], v) /\ Rewrite(mem, W(first_slot(mem, loc[x], v), 0))
       \/ Begin("count", x, <<v>>) /\ Rewrite(mem, W(list_count(mem, loc[x], v), 0))
       \/ /\ Begin("in", x, <<v>>)
          /\ Rewrite(mem, W(IF list_contains(mem, loc[x], v) THEN 1 ELSE 0, 0))

(* len(x) *)
Length(x) ==
  /\ Running
  /\ Bound(x)
  /\ Begin("len", x, <<>>)
  /\ Rewrite(mem, W(Count(mem, loc[x]), 0))

(* d.get(k, e): emit_dict_get_or evaluates e only when k is absent, where    *)
(* Python evaluates it first.                                                *)
GetOr ==
  /\ Running
  /\ \E k \in Vals, e \in {o \in Operands : SelfPops \/ o.kind = "const"} :
       LET r == eval(mem, e) IN
       /\ Begin("get_or", NoName, <<k, e>>)
       /\ \/ dict_has(mem, dct, k) /\ Rewrite(mem, dict_get(mem, dct, k))
          \/ ~ dict_has(mem, dct, k) /\ r.ok /\ Rewrite(r.mem, r.val)
          \/ ~ dict_has(mem, dct, k) /\ ~ r.ok /\ Abort("unreachable")

(* A trap ends the instance. *)
Halted == trap # "none" /\ UNCHANGED vars

Next ==
  \/ \E x \in Names : \/ BindLit(x) \/ BindAlias(x) \/ BindHelper(x)
                      \/ ListAppend(x) \/ Insert(x) \/ SetItem(x)
                      \/ DelItem(x) \/ ListRemove(x) \/ Rearrange(x) \/ PopValue(x)
                      \/ GetItem(x) \/ Extremum(x) \/ Total(x) \/ Query(x) \/ Length(x)
  \/ GetOr
  \/ Halted

Spec == Init /\ [][Next]_vars

-----------------------------------------------------------------------------
(* What must hold of the heap.                                               *)

Lists == {loc[x] : x \in Live}

ListsTypeOK ==
  /\ mem \in [Page -> Word]
  /\ hp \in Nat /\ dct \in Nat
  /\ loc \in [Names -> Nat]
  /\ out \in Word
  /\ trap \in {"none", "unreachable", "capacity", "oob"}

(* The words a list may ever write: those it holds and those it reserved. *)
Extent(p) == p .. (p + Max({Count(mem, p), Cap(mem, p)}))

(* Every reachable list keeps its elements, values all of them, inside what  *)
(* it reserved and inside the page: an append that passes the guard writes   *)
(* its own words only, though nothing ever moves a list to make room.        *)
ListsInside ==
  ListsTypeOK /\ \A p \in Lists :
    /\ p \in Page
    /\ Count(mem, p) >= 0
    /\ p + Count(mem, p) < PageWords
    /\ \A j \in 1 .. Count(mem, p) : mem[p + j] \in Vals
    /\ Cap(mem, p) # 0 => Count(mem, p) <= Cap(mem, p)

(* Two reachable lists are one record or share no word, no list overlaps the *)
(* dict, and what is allocated next lies above them all.                     *)
ListsApart ==
  /\ \A p, q \in Lists : p # q => Extent(p) \cap Extent(q) = {}
  /\ \A p \in Lists : Extent(p) \cap (dct .. (dct + 2 * Cap(mem, dct))) = {}
  /\ \A p \in Lists : \A a \in Extent(p) : a < hp
=============================================================================
