------------------------------- MODULE PyMaps -------------------------------
(***************************************************************************)
(* What the dict and set statements of a Python program mean: a dict is a  *)
(* function from its keys to its values, a set a dict of zeros, a          *)
(* parameter names the object its caller passed, an absent key raises      *)
(* KeyError, and memory may run out at any statement.  The program that    *)
(* the WASM backend emits has to implement this.                           *)
(***************************************************************************)
EXTENDS MapOps, Sequences

CONSTANTS
  Callers, Callees, Params, SetNames,   \* the names of the two functions
  NoName,                               \* not a name
  Keys, Vals, Zero,                     \* keys, values, the value of a set's key
  MaxItems                              \* bound: entries of a display

Names == Callers \cup Callees \cup Params

VARIABLES
  bound,    \* the names that hold an object
  obj,      \* the contents of the object each name owns
  ref,      \* the name whose object each parameter holds
  inCall,   \* is the callee running?
  out,      \* the value of the last expression statement
  exc,      \* "none" | "KeyError" | "MemoryError"
  stmt      \* the statement last begun

vars == <<bound, obj, ref, inCall, out, exc, stmt>>

Empty    == <<>>                   \* the function with no keys
Of(x)    == obj[ref[x]]            \* the contents x stands for
Scope    == IF inCall THEN Callees \cup Params ELSE Callers
Live     == bound \cap Scope
Dicts    == Live \ SetNames
Sets     == Live \cap SetNames
Values(x) == IF x \in SetNames THEN {Zero} ELSE Vals

Init ==
  /\ bound = {} /\ obj = [x \in Names |-> Empty] /\ ref = [x \in Names |-> x]
  /\ inCall = FALSE /\ out = Zero /\ exc = "none"
  /\ stmt = [op |-> "none", x |-> NoName, args |-> <<>>]

Running == exc = "none"

Begin(op, x, args) == stmt' = [op |-> op, x |-> x, args |-> args]

(* A statement that leaves x's object with contents m. *)
Update(x, m, result) ==
  /\ UNCHANGED <<exc, inCall>>
  /\ out' = result
  /\ UNCHANGED <<bound, ref>>
  /\ obj' = [obj EXCEPT ![ref[x]] = m]

Raise(what) == exc' = what /\ UNCHANGED <<bound, obj, ref, inCall, out>>

(* x = <a new object>. *)
Bind(x, m) ==
  /\ UNCHANGED <<inCall, out, exc>>
  /\ bound' = bound \cup {x}
  /\ ref' = [ref EXCEPT ![x] = x]
  /\ obj' = [obj EXCEPT ![x] = m]

(* x = {k: v, ..., **e} *)
Pairs(x)  == {<<k, v>> : k \in Keys, v \in Values(x)}
Splats(x) == IF x \in SetNames THEN {} ELSE {<<e>> : e \in Dicts}
Entry(e)  == IF Len(e) = 2 THEN Single(e[1], e[2]) ELSE Of(e[1])

Display(x) ==
  /\ Running /\ x \in Scope
  /\ \E len \in 0 .. MaxItems : \E es \in [1 .. len -> Pairs(x) \cup Splats(x)] :
       /\ Begin("display", x, es)
       /\ Bind(x, Overlay([j \in 1 .. len |-> Entry(es[j])]))

Combine(op, A, B) ==
  CASE op = "union"        -> A \cup B
    [] op = "intersection" -> A \cap B
    [] op = "difference"   -> A \ B
    [] op = "symdiff"      -> (A \ B) \cup (B \ A)

Algebra(x) ==
  /\ Running /\ x \in Scope \cap SetNames
  /\ \E op \in {"union", "intersection", "difference", "symdiff"}, a, b \in Sets :
       /\ Begin(op, x, <<a, b>>)
       /\ Bind(x, [k \in Combine(op, DOMAIN Of(a), DOMAIN Of(b)) |-> Zero])

Merge(d) ==
  /\ Running /\ d \in Dicts
  /\ \E e \in Dicts : Begin("update", d, <<e>>) /\ Update(d, Over(Of(e), Of(d)), out)

Store(d) ==
  /\ Running /\ d \in Live
  /\ \E k \in Keys, v \in Values(d) :
       Begin("store", d, <<k, v>>) /\ Update(d, Over(Single(k, v), Of(d)), Zero)

SetDefault(d) ==
  /\ Running /\ d \in Dicts
  /\ \E k \in Keys, v \in Vals :
       /\ Begin("setdefault", d, <<k, v>>)
       /\ LET m == Over(Of(d), Single(k, v)) IN Update(d, m, m[k])

(* d[k] = d.setdefault(j, v): the right-hand side runs first. *)
StoreSetDefault(d) ==
  /\ Running /\ d \in Dicts
  /\ \E k, j \in Keys, v \in Vals :
       /\ Begin("store_setdefault", d, <<k, j, v>>)
       /\ LET m == Over(Of(d), Single(j, v)) IN Update(d, Over(Single(k, m[j]), m), Zero)

Without(m, k) == [j \in DOMAIN m \ {k} |-> m[j]]

Pop(d) ==
  /\ Running /\ d \in Live
  /\ \E k \in Keys :
       /\ Begin("pop", d, <<k>>)
       /\ IF k \in DOMAIN Of(d) THEN Update(d, Without(Of(d), k), Of(d)[k]) ELSE Raise("KeyError")

PopOr(d) ==
  /\ Running /\ d \in Live
  /\ \E k \in Keys, v \in Values(d) :
       /\ Begin("pop_or", d, <<k, v>>)
       /\ IF k \in DOMAIN Of(d) THEN Update(d, Without(Of(d), k), Of(d)[k]) ELSE Update(d, Of(d), v)

Clear(d) == Running /\ d \in Live /\ Begin("clear", d, <<>>) /\ Update(d, Empty, Zero)

Get(d) ==
  /\ Running /\ d \in Dicts
  /\ \E k \in Keys :
       /\ Begin("get", d, <<k>>)
       /\ IF k \in DOMAIN Of(d) THEN Update(d, Of(d), Of(d)[k]) ELSE Raise("KeyError")

Call ==
  /\ Running /\ ~ inCall /\ Callees \cup Params # {}
  /\ \E arg \in [Params -> Live] :
       /\ Begin("call", NoName, arg)
       /\ \A p \in Params : (p \in SetNames) = (arg[p] \in SetNames)
       /\ ref' = [x \in Names |-> IF x \in Params THEN arg[x] ELSE x]
  /\ bound' = bound \cup Params
  /\ inCall' = TRUE
  /\ UNCHANGED <<obj, out, exc>>

(* The callee's frame goes; the object it returns may get a caller's name. *)
Leave(hold) ==
  /\ obj' = [x \in Names |-> IF x \in Callers THEN hold[x] ELSE Empty]
  /\ ref' = [x \in Names |-> x]
  /\ inCall' = FALSE
  /\ UNCHANGED <<out, exc>>

Return ==
  /\ Running /\ inCall
  /\ Begin("return", NoName, <<>>)
  /\ Leave(obj)
  /\ bound' = bound \cap Callers

ReturnMap ==
  /\ Running /\ inCall
  /\ \E x \in Callers, r \in Callees \cap bound :
       /\ (x \in SetNames) = (r \in SetNames)
       /\ Begin("return", x, <<r>>)
       /\ Leave([obj EXCEPT ![x] = obj[r]])
       /\ bound' = (bound \cap Callers) \cup {x}

(* Memory may run out at any point; nothing can be observed afterwards. *)
OutOfMemory == Running /\ Raise("MemoryError")

Next ==
  \/ \E x \in Names : \/ Display(x) \/ Algebra(x) \/ Merge(x) \/ Store(x) \/ SetDefault(x)
                      \/ StoreSetDefault(x) \/ Pop(x) \/ PopOr(x) \/ Clear(x) \/ Get(x)
  \/ Call \/ Return \/ ReturnMap \/ OutOfMemory

Spec == Init /\ [][Next]_vars
=============================================================================
