----------------------------- MODULE LinearHeap -----------------------------
(***************************************************************************)
(* The bump heap of an emitted WASM module and the dict/set records on it. *)
(*                                                                         *)
(* Addresses count 8-byte words: every region the code lays out (header    *)
(* 8 bytes, entry 16 bytes) starts on a word, because $__alloc rounds each *)
(* request up to 8.  A word is its two 32-bit halves, so `i32.load` is     *)
(* .lo, `i32.load offset=4` is .hi, and `i64.load` is the whole record.    *)
(*                                                                         *)
(* A dict/set record at base p:   [p]         count (.lo) | capacity (.hi) *)
(*                                [p+1+2i]    key of entry i               *)
(*                                [p+2+2i]    value of entry i             *)
(***************************************************************************)
EXTENDS Integers

CONSTANTS
  PageWords,   \* size of the single, never grown page, in words
  HeapBase,    \* first heap address (HEAP_BASE), above the static data
  KeyKind,     \* "Int" | "Str": the KeyKind of the maps
  Keys,        \* the key words a program uses
  Vals,        \* the value words a program uses
  Content      \* KeyKind "Str": string base pointer |-> the text it holds

W(l, h) == [lo |-> l, hi |-> h]
Zero    == W(0, 0)
Word    == [lo : Int, hi : Int]

ASSUME HeapAssumption ==
  /\ HeapBase \in Nat \ {0}
  /\ PageWords \in Nat
  /\ KeyKind \in {"Int", "Str"}
  /\ Keys \subseteq Word
  /\ Vals \subseteq Word
  /\ Zero \in Vals
  /\ KeyKind = "Str" => \A k \in Keys : k.hi = 0

Page == HeapBase .. (PageWords - 1)

-----------------------------------------------------------------------------
(* The allocator: __alloc(n) returns the bump pointer and advances it by    *)
(* (n + 7) & ~7 bytes.  It never traps and never looks at the page size.    *)

alloc(h, bytes) == h + ((bytes + 7) \div 8)

region_bytes_of_list(cap) == 8 + cap * 8     \* slip: the entry size of a list

(* 8 + cap * 16: LIST_ELEMS_OFFSET + cap * DICT_ENTRY_SIZE *)
region_bytes(cap) == 8 + cap * 16

Count(m, p)   == m[p].lo
Cap(m, p)     == m[p].hi
KeyAddr(p, i) == p + 1 + 2 * i
ValAddr(p, i) == p + 2 + 2 * i
Slots(m, p)   == 0 .. (Count(m, p) - 1)

(* The Python key a key word stands for: a string base pointer is its text. *)
KeyOf(w) == IF KeyKind = "Int" THEN w ELSE Content[w.lo]

same_pointer(w, k) == w = k                  \* slip: compares string pointers

(* emit_dict_key_compare: i64.eq, or __wasm_str_eq on the two texts *)
same_key(w, k) == KeyOf(w) = KeyOf(k)

(* emit_dict_store_key: i64.store, or i32.store into the low half only *)
store_key(w, k) == IF KeyKind = "Int" THEN k ELSE W(k.lo, w.hi)

(* The key of entry i as the walks read it: i64.load, or i32.load *)
load_key(m, p, i) ==
  LET w == m[KeyAddr(p, i)] IN IF KeyKind = "Int" THEN w ELSE W(w.lo, 0)

-----------------------------------------------------------------------------
(* The keyed helpers.  Each scans the live entries from slot 0.             *)

dict_has(m, p, k) == \E i \in Slots(m, p) : same_key(m[KeyAddr(p, i)], k)

(* The slot the scan stops at.  It is the first one that matches, and the   *)
(* only one: no record holds a key twice (KeysDistinct of WasmMaps).        *)
scan(m, p, k) == CHOOSE i \in Slots(m, p) : same_key(m[KeyAddr(p, i)], k)

dict_get(m, p, k) == m[ValAddr(p, scan(m, p, k))]

(* __wasm_dict_pop, key present: the last entry moves into the hole.        *)
dict_pop(m, p, k) ==
  LET i == scan(m, p, k)
      l == Count(m, p) - 1
  IN  [m EXCEPT ![KeyAddr(p, i)] = m[KeyAddr(p, l)],
                ![ValAddr(p, i)] = m[ValAddr(p, l)],
                ![p]             = W(l, Cap(m, p))]

(* Slip: the new region keeps the old capacity word. *)
grow_keeping_cap(m, h, p) ==
  [a \in Page |-> IF a \in h .. (h + 2 * Cap(m, p)) THEN m[p + (a - h)] ELSE m[a]]

(* The growth path of dict_set: a region of twice the capacity at the bump  *)
(* pointer, memory.copy of the header and the old entries, new capacity.    *)
grow(m, h, p) ==
  [a \in Page |->
     IF a \in h .. (h + 2 * Cap(m, p))
     THEN IF a = h THEN W(Count(m, p), 2 * Cap(m, p)) ELSE m[p + (a - h)]
     ELSE m[a]]

(* Write entry n of the record at p and set the count to n + 1. *)
append_entry(m, p, n, k, v) ==
  [m EXCEPT ![KeyAddr(p, n)] = store_key(@, k),
            ![ValAddr(p, n)] = v,
            ![p]             = W(n + 1, Cap(m, p))]

(* Slip: a full record is appended to as if it had room. *)
dict_set_never_growing(m, h, p, k, v) ==
  LET n == Count(m, p)  ok == ValAddr(p, n) < PageWords IN
  IF dict_has(m, p, k)
  THEN [mem |-> [m EXCEPT ![ValAddr(p, scan(m, p, k))] = v], hp |-> h, ptr |-> p, ok |-> TRUE]
  ELSE [mem |-> IF ok THEN append_entry(m, p, n, k, v) ELSE m, hp |-> h, ptr |-> p, ok |-> ok]

(* Slip: an update removes the old entry and appends the new one. *)
dict_set_moving_to_end(m, h, p, k, v) ==
  IF dict_has(m, p, k)
  THEN [mem |-> append_entry(dict_pop(m, p, k), p, Count(m, p) - 1, k, v),
        hp |-> h, ptr |-> p, ok |-> TRUE]
  ELSE dict_set_never_growing(m, h, p, k, v)

(* __wasm_dict_set: update in place, or append, growing first when the      *)
(* record is full.  `ok` is FALSE when a store (or the copy) leaves the     *)
(* page, which traps; a trap ends the instance, so the memory it leaves     *)
(* behind is not modelled.  `ptr` is the base pointer the caller stores.    *)
dict_set(m, h, p, k, v) ==
  LET n    == Count(m, p)
      full == n >= Cap(m, p)
      q    == IF full THEN h ELSE p
      h2   == IF full THEN alloc(h, region_bytes(2 * Cap(m, p))) ELSE h
      ok   == /\ full => h + 2 * Cap(m, p) < PageWords
              /\ ValAddr(q, n) < PageWords
  IN  IF dict_has(m, p, k)
      THEN [mem |-> [m EXCEPT ![ValAddr(p, scan(m, p, k))] = v],
            hp  |-> h, ptr |-> p, ok |-> TRUE]
      ELSE [mem |-> IF ok
                    THEN append_entry(IF full THEN grow(m, h, p) ELSE m, q, n, k, v)
                    ELSE m,
            hp  |-> h2, ptr |-> q, ok |-> ok]

-----------------------------------------------------------------------------
(* The whole-map predicates: each walks p and probes q with dict_has.       *)

set_subset(m, p, q) == \A i \in Slots(m, p) : dict_has(m, q, load_key(m, p, i))

set_disjoint(m, p, q) == \A i \in Slots(m, p) : ~ dict_has(m, q, load_key(m, p, i))

(* Slips: the two counts are not compared first. *)
set_eq_uncounted(m, p, q) == set_subset(m, p, q)
dict_eq_uncounted(m, p, q) ==
  \A i \in Slots(m, p) :
    /\ dict_has(m, q, load_key(m, p, i))
    /\ m[ValAddr(p, i)] = dict_get(m, q, load_key(m, p, i))

set_eq(m, p, q) == Count(m, p) = Count(m, q) /\ set_subset(m, p, q)

dict_eq(m, p, q) ==
  /\ Count(m, p) = Count(m, q)
  /\ \A i \in Slots(m, p) :
       /\ dict_has(m, q, load_key(m, p, i))
       /\ m[ValAddr(p, i)] = dict_get(m, q, load_key(m, p, i))
=============================================================================
