------------------------------- MODULE PyLists -------------------------------
(***************************************************************************)
(* What the list statements of a Python program mean: a name holds an      *)
(* object, an object is a sequence, two names may hold one object, an      *)
(* operand is evaluated before the list it is stored into is looked at, an *)
(* absent index or value raises, and memory may run out at any statement.  *)
(***************************************************************************)
EXTENDS Integers, Sequences, FiniteSets, FiniteSetsExt

CONSTANTS
  Names, NoName,
  Ids, NoObject,    \* object identities
  Vals, Zero,       \* the values; the one a statement without a result leaves
  Word(_), Value(_), \* an integer as a value, and back
  KeyOf(_),         \* the dict key a value stands for
  Idx, MaxLit,
  Table             \* the entries of the dict, in insertion order

VARIABLES
  ref,     \* the object each name holds
  obj,     \* the contents of every object some name holds
  out,     \* the value of the last expression statement
  exc,     \* "none" | "error" | "MemoryError"
  stmt     \* the statement last begun

vars == <<ref, obj, out, exc, stmt>>

Held(r) == {r[x] : x \in DOMAIN r} \ {NoObject}
Live    == {x \in Names : ref[x] # NoObject}
Of(x)   == obj[ref[x]]

Init ==
  /\ ref \in [Names -> Ids \cup {NoObject}]
  /\ DOMAIN obj = Held(ref) /\ \A id \in Held(ref) : obj[id] \in Seq(Vals)
  /\ exc = "none"
  /\ stmt = [op |-> "none", x |-> NoName, args |-> <<>>]

Running == exc = "none"
Begin(op, x, args) == stmt' = [op |-> op, x |-> x, args |-> args]

(* The statement chosen is an `op`; its operand is argument j. *)
Operand(op, j) == IF stmt'.op = op THEN {stmt'.args[j]} ELSE {}

Raise(what) == exc' = what /\ UNCHANGED <<ref, obj, out>>

-----------------------------------------------------------------------------
At(n, i)     == IF i < 0 THEN i + n ELSE i
Inside(n, i) == At(n, i) \in 0 .. n - 1
Bounded(n, i) == IF i < 0 THEN Max({i + n, 0}) ELSE Min({i, n})

Without(s, k) == SubSeq(s, 1, k) \o SubSeq(s, k + 2, Len(s))
With(s, k, v) == SubSeq(s, 1, k) \o <<v>> \o SubSeq(s, k + 1, Len(s))
Backwards(s)  == [k \in DOMAIN s |-> s[Len(s) + 1 - k]]
First(s, v)   == CHOOSE k \in 0 .. Len(s) - 1 : s[k + 1] = v /\ \A j \in 1 .. k : s[j] # v
Has(s, v)     == \E k \in DOMAIN s : s[k] = v

(* Does place j of s come before place k in the order of the sort?  Equal    *)
(* values keep the places they had.                                          *)
Ahead(s, desc, j, k) ==
  \/ IF desc THEN Value(s[j]) > Value(s[k]) ELSE Value(s[j]) < Value(s[k])
  \/ Value(s[j]) = Value(s[k]) /\ j < k

Ranking(s, desc, p) ==
  /\ \A i \in DOMAIN s : \E j \in DOMAIN s : p[j] = i
  /\ \A i, j \in DOMAIN s : i < j => Ahead(s, desc, p[i], p[j])

InOrder(s, desc) ==
  LET p == CHOOSE q \in [DOMAIN s -> DOMAIN s] : Ranking(s, desc, q)
  IN  [i \in DOMAIN s |-> s[p[i]]]

Total(s) ==
  LET upto[i \in 0 .. Len(s)] == IF i = 0 THEN 0 ELSE upto[i - 1] + Value(s[i])
  IN  upto[Len(s)]

(* An operand: its value, and the objects after it. *)
Eval(o, e) ==
  CASE e.kind = "const"  -> [ok |-> TRUE, obj |-> o, val |-> e.v]
    [] e.kind = "pop"    ->
         LET s == o[ref[e.y]] IN
         IF s = <<>> THEN [ok |-> FALSE]
         ELSE [ok |-> TRUE, obj |-> [o EXCEPT ![ref[e.y]] = Without(s, Len(s) - 1)], val |-> s[Len(s)]]
    [] e.kind = "pop_at" ->
         LET s == o[ref[e.y]]  k == At(Len(s), e.i) IN
         IF ~ Inside(Len(s), e.i) THEN [ok |-> FALSE]
         ELSE [ok |-> TRUE, obj |-> [o EXCEPT ![ref[e.y]] = Without(s, k)], val |-> s[k + 1]]

(* Operands from left to right: their values, and the objects after them. *)
EvalAll(es) ==
  LET upto[j \in 0 .. Len(es)] ==
        IF j = 0 THEN [ok |-> TRUE, obj |-> obj, vals |-> <<>>]
        ELSE IF ~ upto[j - 1].ok THEN upto[j - 1]
        ELSE LET r == Eval(upto[j - 1].obj, es[j]) IN
             IF r.ok THEN [ok |-> TRUE, obj |-> r.obj, vals |-> Append(upto[j - 1].vals, r.val)]
             ELSE [ok |-> FALSE]
  IN  upto[Len(es)]

(* x = <an object nobody holds, with contents s>. *)
Bind(x, o, s) ==
  \E id \in Ids \ Held(ref) :
    /\ ref' = [ref EXCEPT ![x] = id]
    /\ obj' = [i \in Held(ref') |-> IF i = id THEN s ELSE o[i]]
    /\ UNCHANGED <<out, exc>>

Change(o, result) == obj' = o /\ out' = result /\ UNCHANGED <<ref, exc>>
Update(x, s, result) == Change([obj EXCEPT ![ref[x]] = s], result)

-----------------------------------------------------------------------------
Literal(x) ==
  \E es \in {stmt'.args} :
    /\ Begin("literal", x, es)
    /\ LET r == EvalAll(es) IN IF r.ok THEN Bind(x, r.obj, r.vals) ELSE Raise("error")

Alias(x) ==
  \E y \in Live :
    /\ Begin("alias", x, <<y>>)
    /\ ref' = [ref EXCEPT ![x] = ref[y]]
    /\ obj' = [i \in Held(ref') |-> obj[i]]
    /\ UNCHANGED <<out, exc>>

Built(x) ==
  \/ \E y \in Live, desc \in BOOLEAN :
       Begin("sorted", x, <<y, desc>>) /\ Bind(x, obj, InOrder(Of(y), desc))
  \/ \E y \in Live :
       /\ Begin("reversed", x, <<y>>)
       /\ Bind(x, obj, Backwards(Of(y)))
  \/ \E y, z \in Live : Begin("concat", x, <<y, z>>) /\ Bind(x, obj, Of(y) \o Of(z))
  \/ \E y \in Live, lo, hi \in Idx :
       /\ Begin("slice", x, <<y, lo, hi>>)
       /\ LET n == Len(Of(y)) IN Bind(x, obj, SubSeq(Of(y), Bounded(n, lo) + 1, Bounded(n, hi)))
  \/ Begin("keys", x, <<>>)   /\ Bind(x, obj, [i \in DOMAIN Table |-> Table[i][1]])
  \/ Begin("values", x, <<>>) /\ Bind(x, obj, [i \in DOMAIN Table |-> Table[i][2]])

(* x.append(e), x.insert(i, e), x[i] = e: e first, then x as e left it. *)
Store(x) ==
  \/ \E e \in Operand("append", 1) :
       /\ Begin("append", x, <<e>>)
       /\ LET r == Eval(obj, e) IN
          IF r.ok THEN Change([r.obj EXCEPT ![ref[x]] = Append(@, r.val)], Zero)
          ELSE Raise("error")
  \/ \E i \in Idx, e \in Operand("insert", 2) :
       /\ Begin("insert", x, <<i, e>>)
       /\ LET r == Eval(obj, e) IN
          IF r.ok
          THEN LET s == r.obj[ref[x]] IN
               Change([r.obj EXCEPT ![ref[x]] = With(s, Bounded(Len(s), i), r.val)], Zero)
          ELSE Raise("error")
  \/ \E i \in Idx, e \in Operand("setitem", 2) :
       /\ Begin("setitem", x, <<i, e>>)
       /\ LET r == Eval(obj, e) IN
          IF r.ok /\ Inside(Len(r.obj[ref[x]]), i)
          THEN Change([r.obj EXCEPT ![ref[x]][At(Len(r.obj[ref[x]]), i) + 1] = r.val], Zero)
          ELSE Raise("error")

(* del x[i], x.remove(v) *)
Delete(x) ==
  \/ \E i \in Idx :
       /\ Begin("del", x, <<i>>)
       /\ LET n == Len(Of(x)) IN
          IF Inside(n, i) THEN Update(x, Without(Of(x), At(n, i)), Zero) ELSE Raise("error")
  \/ \E v \in Vals :
       /\ Begin("remove", x, <<v>>)
       /\ IF Has(Of(x), v) THEN Update(x, Without(Of(x), First(Of(x), v)), Zero) ELSE Raise("error")

(* x.reverse(), x.sort(reverse=d), x.clear() *)
Rearrange(x) ==
  \/ Begin("reverse", x, <<>>) /\ Update(x, Backwards(Of(x)), Zero)
  \/ \E desc \in BOOLEAN : Begin("sort", x, <<desc>>) /\ Update(x, InOrder(Of(x), desc), Zero)
  \/ Begin("clear", x, <<>>) /\ Update(x, <<>>, Zero)

PopValue(x) ==
  \E e \in Operand("pop", 1) :
    /\ Begin("pop", x, <<e>>)
    /\ LET r == Eval(obj, e) IN IF r.ok THEN Change(r.obj, r.val) ELSE Raise("error")

(* x[i], min(x), max(x), x.index(v), x.count(v), v in x, len(x), sum(x) *)
Read(x) ==
  \/ \E i \in Idx :
       /\ Begin("getitem", x, <<i>>)
       /\ LET n == Len(Of(x)) IN
          IF Inside(n, i) THEN Change(obj, Of(x)[At(n, i) + 1]) ELSE Raise("error")
  \/ \E is_max \in BOOLEAN :
       /\ Begin("minmax", x, <<is_max>>)
       /\ IF Of(x) = <<>> THEN Raise("error")
          ELSE Change(obj, InOrder(Of(x), is_max)[1])
  \/ \E v \in Vals :
       /\ Begin("index", x, <<v>>)
       /\ IF Has(Of(x), v) THEN Change(obj, Word(First(Of(x), v))) ELSE Raise("error")
  \/ \E v \in Vals :
       Begin("count", x, <<v>>) /\ Change(obj, Word(Cardinality({k \in DOMAIN Of(x) : Of(x)[k] = v})))
  \/ \E v \in Vals : Begin("in", x, <<v>>) /\ Change(obj, Word(IF Has(Of(x), v) THEN 1 ELSE 0))
  \/ Begin("len", x, <<>>) /\ Change(obj, Word(Len(Of(x))))
  \/ Begin("sum", x, <<>>) /\ Change(obj, Word(Total(Of(x))))

(* d.get(k, e): e is evaluated whether or not k is there. *)
GetOr ==
  \E k \in Vals, e \in Operand("get_or", 2) :
    /\ Begin("get_or", NoName, <<k, e>>)
    /\ LET r == Eval(obj, e) IN
       IF ~ r.ok THEN Raise("error")
       ELSE LET at == {j \in DOMAIN Table : KeyOf(Table[j][1]) = KeyOf(k)} IN
            Change(r.obj, IF at = {} THEN r.val ELSE Table[CHOOSE j \in at : TRUE][2])

(* Memory may run out at any statement. *)
OutOfMemory == Raise("MemoryError")

Next ==
  /\ Running
  /\ \/ \E x \in Names : Literal(x) \/ Alias(x) \/ Built(x)
     \/ \E x \in Live  : Store(x) \/ Delete(x) \/ Rearrange(x) \/ PopValue(x) \/ Read(x)
     \/ GetOr
     \/ OutOfMemory

Spec == Init /\ [][Next]_vars
=============================================================================
