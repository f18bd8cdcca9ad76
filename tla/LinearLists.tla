----------------------------- MODULE LinearLists -----------------------------
(***************************************************************************)
(* List records on the bump heap, and the helpers that read, rewrite and   *)
(* copy them.                                                              *)
(*                                                                         *)
(* A list record at base p:   [p]      count (.lo) | capacity (.hi)        *)
(*                            [p+1+i]  element i                           *)
(*                                                                         *)
(* Only a list literal reserves spare slots and writes the capacity; the   *)
(* helpers that build a list write the count alone.  A helper loop moves   *)
(* whole words of one record and calls nothing, so each helper is the      *)
(* memory it leaves behind.                                                *)
(***************************************************************************)
EXTENDS LinearHeap, SequencesExt, FiniteSetsExt

elems(m, p) == [i \in 1 .. Count(m, p) |-> m[p + i]]

list_bytes(n) == 8 + n * 8          \* LIST_ELEMS_OFFSET + n * 8

(* CPython's reading of an index: a negative one counts from the end. *)
Normal(n, i)   == IF i < 0 THEN i + n ELSE i
InBounds(n, i) == Normal(n, i) \in 0 .. (n - 1)
Clamp(n, i)    == Max({0, Min({n, Normal(n, i)})})

set_count(m, p, n) == [m EXCEPT ![p] = W(n, Cap(m, p))]

(* The words of elements 1 .. n rewritten by f. *)
put_elems(m, p, n, f) == [a \in Page |-> IF a \in (p + 1) .. (p + n) THEN f[a - p] ELSE m[a]]

-----------------------------------------------------------------------------
(* Helpers that change a record in place; its base pointer never moves.      *)

(* Slip: the shift leaves the last element where it is. *)
list_insert_short(m, p, idx, v) ==
  LET n    == Count(m, p)
      slot == p + 1 + Clamp(n, idx)
  IN  [a \in Page |-> CASE a = p                    -> W(n + 1, Cap(m, p))
                        [] a = slot                 -> v
                        [] a \in (slot + 1)..(p+n)  -> m[a - 1]
                        [] OTHER                    -> m[a]]

(* __wasm_list_insert: clamp, shift the tail right from the top, count + 1. *)
list_insert(m, p, idx, v) ==
  LET n    == Count(m, p)
      slot == p + 1 + Clamp(n, idx)
  IN  [a \in Page |-> CASE a = p                      -> W(n + 1, Cap(m, p))
                        [] a = slot                   -> v
                        [] a \in (slot + 1)..(p+n+1)  -> m[a - 1]
                        [] OTHER                      -> m[a]]

(* The left shift shared by del, remove and pop(i): closes slot s. *)
close_slot(m, p, s) ==
  LET n == Count(m, p) IN
  [a \in Page |-> CASE a = p                          -> W(n - 1, Cap(m, p))
                    [] a \in (p + 1 + s)..(p + n - 1) -> m[a + 1]
                    [] OTHER                          -> m[a]]

(* The slot of the first element equal to v, for remove and index. *)
first_slot(m, p, v) == Min({i \in Slots(m, p) : m[p + 1 + i] = v})

list_contains(m, p, v) == \E i \in Slots(m, p) : m[p + 1 + i] = v

(* xs.pop() inline, and __wasm_list_pop_idx: the element, then the shift.    *)
list_pop(m, p) ==
  LET n == Count(m, p) IN
  [ok |-> n > 0, mem |-> IF n > 0 THEN set_count(m, p, n - 1) ELSE m, val |-> IF n > 0 THEN m[p + n] ELSE Zero]

list_pop_idx(m, p, i) ==
  LET n == Count(m, p)  s == Normal(n, i) IN
  IF InBounds(n, i) THEN [ok |-> TRUE, mem |-> close_slot(m, p, s), val |-> m[p + 1 + s]]
                    ELSE [ok |-> FALSE, mem |-> m, val |-> Zero]

(* Slip: sorting down compares as sorting up does. *)
should_shift_one_way(desc, prev, key) == prev.lo > key.lo

(* The strict comparison of the insertion sort. *)
should_shift(desc, prev, key) == IF desc THEN prev.lo < key.lo ELSE prev.lo > key.lo

(* __wasm_list_sort / __wasm_list_sorted: element i sinks below the elements *)
(* in front of it that should shift.                                         *)
insertion_sort(s, desc) ==
  LET sorted[i \in 0 .. Len(s)] ==
        IF i = 0 THEN <<>>
        ELSE LET done == sorted[i - 1]
                 hole == Max({0} \cup {j \in DOMAIN done : ~ should_shift(desc, done[j], s[i])})
             IN  InsertAt(done, hole + 1, s[i])
  IN  sorted[Len(s)]

list_sort(m, p, desc) == put_elems(m, p, Count(m, p), insertion_sort(elems(m, p), desc))

(* __wasm_list_reverse: swaps word i with word n-1-i while i < n-1-i. *)
list_reverse(m, p) ==
  LET n == Count(m, p) IN put_elems(m, p, n, [i \in 1 .. n |-> m[p + n + 1 - i]])

-----------------------------------------------------------------------------
(* Helpers that build a record: allocate, write the count, copy the words.   *)

new_list(m, h, s) ==
  LET ok == h + Len(s) < PageWords IN
  [ok  |-> ok,
   ptr |-> h,
   hp  |-> alloc(h, list_bytes(Len(s))),
   mem |-> IF ok THEN put_elems(set_count(m, h, Len(s)), h, Len(s), s) ELSE m]

list_sorted(m, p, desc)  == insertion_sort(elems(m, p), desc)
list_reversed(m, p)      == LET n == Count(m, p) IN [i \in 1 .. n |-> m[p + n + 1 - i]]
list_concat(m, p, q)     == elems(m, p) \o elems(m, q)

(* Slip: the lower bound is clamped before it is read from the end. *)
slice_from_end_lost(n, lo, hi) ==
  LET l == Max({0, Min({n, lo})}) IN <<l, Max({l, Clamp(n, hi)})>>

(* __wasm_list_slice: both bounds normalised and clamped, hi raised to lo. *)
slice_bounds(n, lo, hi) == LET l == Clamp(n, lo) IN <<l, Max({l, Clamp(n, hi)})>>

list_slice(m, p, lo, hi) ==
  LET b == slice_bounds(Count(m, p), lo, hi) IN SubSeq(elems(m, p), b[1] + 1, b[2])

(* __wasm_set_to_list (also a dict's keys) and __wasm_dict_values_to_list. *)
keys_to_list(m, p)   == [i \in 1 .. Count(m, p) |-> m[KeyAddr(p, i - 1)]]
values_to_list(m, p) == [i \in 1 .. Count(m, p) |-> m[ValAddr(p, i - 1)]]

-----------------------------------------------------------------------------
(* Helpers that only read.                                                   *)

list_sum(m, p) ==
  LET total[i \in 0 .. Count(m, p)] == IF i = 0 THEN 0 ELSE total[i - 1] + m[p + i].lo
  IN  total[Count(m, p)]

(* Seeded with element 0, replaced on a strict improvement; empty traps. *)
list_minmax(m, p, is_max) ==
  LET better(w, acc) == IF is_max THEN w.lo > acc.lo ELSE w.lo < acc.lo
      best[i \in 1 .. Count(m, p)] ==
        IF i = 1 \/ better(m[p + i], best[i - 1]) THEN m[p + i] ELSE best[i - 1]
  IN  best[Count(m, p)]

list_count(m, p, v) == Cardinality({i \in Slots(m, p) : m[p + 1 + i] = v})
=============================================================================
