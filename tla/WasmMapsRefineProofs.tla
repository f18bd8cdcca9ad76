------------------------ MODULE WasmMapsRefineProofs ------------------------
(***************************************************************************)
(* What the records of an emitted module hold, for every page size, name   *)
(* set, key set and workload: no record holds a key twice, the whole-map   *)
(* predicates answer what Python answers, and a program without removals   *)
(* keeps the insertion order.  And, as the last theorem, that the emitted  *)
(* program implements the Python one: PyMaps, under the mapping of         *)
(* WasmMapsRefine.                                                         *)
(*                                                                         *)
(* WasmMapsProofs says which words a statement may write.  Here one lemma  *)
(* per heap operation says what becomes of the entries: Copied for every   *)
(* record that is left alone or moved, Stored and Removed for the one a    *)
(* statement is about.                                                     *)
(*                                                                         *)
(* For the refinement these become equations between maps (Spelled).  A    *)
(* loop that builds a map in many steps is one step of Python, the one     *)
(* that begins it: from then on the object is the record with everything   *)
(* that is still to come laid over it (Pieces), so every step of the loop  *)
(* must keep that overlay the same.                                        *)
(***************************************************************************)
EXTENDS WasmMapsRefine, WasmMapsProofs, WellFoundedInduction

(* The record at q of n holds the entries of the record at p of m. *)
Copied(m, p, n, q) ==
  /\ Count(n, q) = Count(m, p)
  /\ \A i \in Slots(m, p) : /\ n[KeyAddr(q, i)] = m[KeyAddr(p, i)]
                            /\ n[ValAddr(q, i)] = m[ValAddr(p, i)]

(* ... and after k was set to v: in the slot that held k, or in a new one. *)
Stored(m, p, n, q, k, v) ==
  /\ \A i \in Slots(m, p) : n[KeyAddr(q, i)] = m[KeyAddr(p, i)]
  /\ dict_has(m, p, k) =>
       /\ Count(n, q) = Count(m, p)
       /\ n[ValAddr(q, scan(m, p, k))] = v
       /\ \A i \in Slots(m, p) \ {scan(m, p, k)} : n[ValAddr(q, i)] = m[ValAddr(p, i)]
  /\ ~ dict_has(m, p, k) =>
       /\ Count(n, q) = Count(m, p) + 1
       /\ KeyOf(n[KeyAddr(q, Count(m, p))]) = KeyOf(k)
       /\ n[ValAddr(q, Count(m, p))] = v
       /\ \A i \in Slots(m, p) : n[ValAddr(q, i)] = m[ValAddr(p, i)]

(* The record at p after the entry of k went: the last one fills the hole. *)
Removed(m, p, n, k) ==
  /\ Count(n, p) = Count(m, p) - 1
  /\ \A i \in Slots(m, p) :
       LET from == IF i = scan(m, p, k) THEN Count(m, p) - 1 ELSE i
       IN  /\ n[KeyAddr(p, i)] = m[KeyAddr(p, from)]
           /\ n[ValAddr(p, i)] = m[ValAddr(p, from)]

(* No two live entries hold one key. *)
Distinct(m, p) ==
  \A i, j \in Slots(m, p) : i # j => KeyOf(m[KeyAddr(p, i)]) # KeyOf(m[KeyAddr(p, j)])

-----------------------------------------------------------------------------
(* Entries of records that a memory operation does not touch.                *)

(* Outside the record at p nothing changed: the other records keep theirs. *)
LEMMA FrameCopied ==
  ASSUME NEW m, NEW h, NEW R, NEW F, Good(m, h, R, F), NEW p \in R, NEW q \in R, q # p,
         NEW n, \A b \in Page : ~ Clear_of(m, p, b) \/ n[b] = m[b]
  PROVE  Copied(m, q, n, q)
<1>1. /\ p \in Int /\ q \in Int /\ Cap(m, p) \in Int /\ Cap(m, q) \in Int
      /\ q \in Page /\ Cap(m, q) >= 0 /\ Apart(m, p, q)
  BY DEF Good, WellFormed, Page
<1>2. ASSUME NEW b \in Page, ~ Clear_of(m, q, b) PROVE n[b] = m[b]
  <2>1. b \in Int
    BY DEF Page
  <2>2. Clear_of(m, p, b)
    BY <1>1, <1>2, <2>1 DEF Clear_of, Apart
  <2> QED BY <2>2
<1>3. n[q] = m[q]
  BY <1>1, <1>2 DEF Clear_of
<1>4. \A i \in Slots(m, q) : /\ n[KeyAddr(q, i)] = m[KeyAddr(q, i)]
                             /\ n[ValAddr(q, i)] = m[ValAddr(q, i)]
  BY <1>2, EntryAddrs
<1> QED BY <1>3, <1>4 DEF Copied, Count

(* Below the bump pointer nothing changed: every record keeps its entries. *)
LEMMA AboveCopied ==
  ASSUME NEW m, NEW h, NEW R, NEW F, Good(m, h, R, F), NEW q \in R,
         NEW n, \A b \in Page : b < h => n[b] = m[b]
  PROVE  Copied(m, q, n, q)
<1>1. q \in Int /\ Cap(m, q) \in Int /\ q \in Page /\ q + 2 * Cap(m, q) < h /\ h \in Int /\ Cap(m, q) >= 0
  BY DEF Good, WellFormed, Page
<1>2. ASSUME NEW b \in Page, ~ Clear_of(m, q, b) PROVE n[b] = m[b]
  <2>1. b \in Int
    BY DEF Page
  <2>2. b < h
    BY <1>1, <1>2, <2>1 DEF Clear_of
  <2> QED BY <2>2
<1>3. n[q] = m[q]
  BY <1>1, <1>2 DEF Clear_of
<1>4. \A i \in Slots(m, q) : /\ n[KeyAddr(q, i)] = m[KeyAddr(q, i)]
                             /\ n[ValAddr(q, i)] = m[ValAddr(q, i)]
  BY <1>2, EntryAddrs
<1> QED BY <1>3, <1>4 DEF Copied, Count

(* Two copies make a copy. *)
LEMMA CopiedTwice ==
  ASSUME NEW m, NEW p, NEW n, NEW q, NEW l, NEW r, Copied(m, p, n, q), Copied(n, q, l, r)
  PROVE  Copied(m, p, l, r)
BY DEF Copied, Slots

LEMMA CopiedSelf == ASSUME NEW m, NEW p PROVE Copied(m, p, m, p)
BY DEF Copied

-----------------------------------------------------------------------------
(* What the heap operations do to entries.                                   *)

(* Appending an entry to a record with a free slot. *)
LEMMA AppendStored ==
  ASSUME NEW m, NEW h, NEW R, NEW F, Good(m, h, R, F), NEW p \in R,
         NEW k \in Word, NEW v \in Word,
         HasRoom(m, p), ValAddr(p, Count(m, p)) < PageWords,
         NEW n, n = append_entry(m, p, Count(m, p), k, v)
  PROVE  /\ \A q \in R : q # p => Copied(m, q, n, q)
         /\ Count(n, p) = Count(m, p) + 1
         /\ \A i \in Slots(m, p) : /\ n[KeyAddr(p, i)] = m[KeyAddr(p, i)]
                                   /\ n[ValAddr(p, i)] = m[ValAddr(p, i)]
         /\ KeyOf(n[KeyAddr(p, Count(m, p))]) = KeyOf(k)
         /\ n[ValAddr(p, Count(m, p))] = v
<1>1. m \in [Page -> Word] /\ WellFormed(m, h, p) /\ h \in Nat
  BY DEF Good
<1>2. PICK c : c = Count(m, p)
  OBVIOUS
<1>3. PICK d : d = Cap(m, p)
  OBVIOUS
<1>4. p \in Nat \ {0} /\ p \in Page /\ c \in Nat /\ d \in Nat /\ c < d /\ p + 2 + 2 * c < PageWords
  BY <1>1, <1>2, <1>3, HeapAssumption DEF WellFormed, Page, ValAddr, HasRoom
<1>5. p + 1 + 2 * c \in Page /\ p + 2 + 2 * c \in Page
  BY <1>4, HeapAssumption DEF Page
<1>6. n = [[[m EXCEPT ![p + 1 + 2 * c] = store_key(m[p + 1 + 2 * c], k)]
                 EXCEPT ![p + 2 + 2 * c] = v] EXCEPT ![p] = W(c + 1, d)]
  BY <1>1, <1>2, <1>3, <1>5 DEF append_entry, KeyAddr, ValAddr
<1>7. /\ n[p] = W(c + 1, d)
      /\ n[p + 1 + 2 * c] = store_key(m[p + 1 + 2 * c], k)
      /\ n[p + 2 + 2 * c] = v
      /\ \A b \in Page : b \notin {p, p + 1 + 2 * c, p + 2 + 2 * c} => n[b] = m[b]
  BY <1>1, <1>4, <1>5, <1>6
<1>8. Count(n, p) = c + 1
  BY <1>4, <1>7, HeaderWord DEF Count
<1>9. \A b \in Page : ~ Clear_of(m, p, b) \/ n[b] = m[b]
  BY <1>3, <1>4, <1>7 DEF Clear_of
<1>10. \A q \in R : q # p => Copied(m, q, n, q)
  BY <1>9, FrameCopied
<1>11. ASSUME NEW i \in Slots(m, p)
       PROVE  n[KeyAddr(p, i)] = m[KeyAddr(p, i)] /\ n[ValAddr(p, i)] = m[ValAddr(p, i)]
  <2>1. i \in Nat /\ i < c /\ KeyAddr(p, i) \in Page /\ ValAddr(p, i) \in Page
    BY <1>2, EntryAddrs
  <2>2. /\ KeyAddr(p, i) \notin {p, p + 1 + 2 * c, p + 2 + 2 * c}
        /\ ValAddr(p, i) \notin {p, p + 1 + 2 * c, p + 2 + 2 * c}
    BY <1>4, <2>1 DEF KeyAddr, ValAddr
  <2> QED BY <1>7, <2>1, <2>2
<1>12. KeyOf(n[KeyAddr(p, c)]) = KeyOf(k)
  BY <1>7, StoredKey DEF KeyAddr, same_key
<1> QED BY <1>2, <1>7, <1>8, <1>10, <1>11, <1>12 DEF ValAddr

(* Growing a full record copies its entries to the bump pointer. *)
LEMMA GrowCopied ==
  ASSUME NEW m, NEW h, NEW R, NEW F, Good(m, h, R, F), NEW p \in R,
         CanGrow(m, h, p), NEW g, g = grow(m, h, p)
  PROVE  /\ \A q \in R : Copied(m, q, g, q)
         /\ Copied(m, p, g, h)
<1>1. m \in [Page -> Word] /\ WellFormed(m, h, p) /\ h \in Nat /\ h >= HeapBase
  BY DEF Good
<1>2. PICK c : c = Cap(m, p)
  OBVIOUS
<1>3. p \in Nat \ {0} /\ p \in Page /\ c \in Nat \ {0} /\ Count(m, p) = c /\ p + 2 * c < h
      /\ h + 2 * c < PageWords
  BY <1>1, <1>2, HeapAssumption DEF WellFormed, Page, CanGrow
<1>4. g = [a \in Page |-> IF a \in h .. (h + 2 * c)
                          THEN IF a = h THEN W(c, 2 * c) ELSE m[p + (a - h)] ELSE m[a]]
  BY <1>2, <1>3 DEF grow
<1>5. \A a \in Page : a < h => g[a] = m[a]
  BY <1>1, <1>4, HeapAssumption DEF Page
<1>6. \A q \in R : Copied(m, q, g, q)
  BY <1>5, AboveCopied
<1>7. Count(g, h) = c
  <2>1. h \in Page
    BY <1>1, <1>3, HeapAssumption DEF Page
  <2>2. g[h] = W(c, 2 * c)
    BY <1>1, <1>3, <1>4, <2>1
  <2> QED BY <1>3, <2>2, HeaderWord DEF Count
<1>8. ASSUME NEW i \in Slots(m, p)
      PROVE  g[KeyAddr(h, i)] = m[KeyAddr(p, i)] /\ g[ValAddr(h, i)] = m[ValAddr(p, i)]
  <2>1. i \in Nat /\ i < c
    BY <1>3 DEF Slots
  <2>2. /\ h + 1 + 2 * i \in Page /\ h + 1 + 2 * i \in h .. (h + 2 * c) /\ h + 1 + 2 * i # h
        /\ h + 2 + 2 * i \in Page /\ h + 2 + 2 * i \in h .. (h + 2 * c) /\ h + 2 + 2 * i # h
        /\ p + ((h + 1 + 2 * i) - h) = p + 1 + 2 * i
        /\ p + ((h + 2 + 2 * i) - h) = p + 2 + 2 * i
    BY <1>1, <1>3, <2>1, HeapAssumption DEF Page
  <2> QED BY <1>4, <2>2 DEF KeyAddr, ValAddr
<1> QED BY <1>3, <1>6, <1>7, <1>8 DEF Copied

(* dict_set stores k in the record that comes back, and nowhere else.        *)
LEMMA SetStored ==
  ASSUME NEW m, NEW h, NEW R, NEW F, Good(m, h, R, F), NEW p \in R,
         NEW k \in Word, NEW v \in Word,
         NEW s, s = dict_set(m, h, p, k, v), s.ok
  PROVE  /\ Stored(m, p, s.mem, s.ptr, k, v)
         /\ \A q \in R : q # p => Copied(m, q, s.mem, q)
         /\ s.ptr # p => Copied(m, p, s.mem, p)
<1>1. m \in [Page -> Word] /\ WellFormed(m, h, p) /\ h \in Nat /\ p \in Page
  BY DEF Good, WellFormed
<1>2. CASE dict_has(m, p, k)
  <2>1. PICK i \in Slots(m, p) : i = scan(m, p, k)
    BY <1>2, ScanInSlots
  <2>2. PICK n : n = [m EXCEPT ![ValAddr(p, i)] = v]
    OBVIOUS
  <2>3. s.mem = n /\ s.ptr = p
    BY <1>2, <2>1, <2>2 DEF dict_set
  <2>4. ValAddr(p, i) \in Page /\ ~ Clear_of(m, p, ValAddr(p, i)) /\ ValAddr(p, i) # p
    BY EntryAddrs
  <2>5. /\ \A b \in Page : b # ValAddr(p, i) => n[b] = m[b]
        /\ n[ValAddr(p, i)] = v
    BY <1>1, <2>2, <2>4
  <2>6. \A q \in R : q # p => Copied(m, q, n, q)
    BY <2>4, <2>5, FrameCopied
  <2>7. Count(n, p) = Count(m, p)
    BY <1>1, <2>4, <2>5 DEF Count
  <2>8. ASSUME NEW j \in Slots(m, p)
        PROVE  /\ n[KeyAddr(p, j)] = m[KeyAddr(p, j)]
               /\ j # i => n[ValAddr(p, j)] = m[ValAddr(p, j)]
    <3>1. j \in Nat /\ i \in Nat /\ p \in Nat /\ KeyAddr(p, j) \in Page /\ ValAddr(p, j) \in Page
      BY EntryAddrs
    <3>2. KeyAddr(p, j) # ValAddr(p, i) /\ (j # i => ValAddr(p, j) # ValAddr(p, i))
      BY <3>1 DEF KeyAddr, ValAddr
    <3> QED BY <2>5, <3>1, <3>2
  <2> QED BY <1>2, <2>1, <2>3, <2>5, <2>6, <2>7, <2>8 DEF Stored
<1>3. CASE ~ dict_has(m, p, k) /\ ~ (Count(m, p) >= Cap(m, p))
  <2>1. PICK n : n = append_entry(m, p, Count(m, p), k, v)
    OBVIOUS
  <2>2. s.mem = n /\ s.ptr = p /\ ValAddr(p, Count(m, p)) < PageWords
    BY <1>3, <2>1 DEF dict_set
  <2>3. HasRoom(m, p)
    BY <1>1, <1>3 DEF WellFormed, HasRoom
  <2> QED BY <1>3, <2>1, <2>2, <2>3, AppendStored DEF Stored
<1>4. CASE ~ dict_has(m, p, k) /\ Count(m, p) >= Cap(m, p)
  <2>1. PICK g : g = grow(m, h, p)
    OBVIOUS
  <2>2. PICK h2 : h2 = alloc(h, region_bytes(2 * Cap(m, p)))
    OBVIOUS
  <2>3. PICK n : n = append_entry(g, h, Count(m, p), k, v)
    OBVIOUS
  <2>4. /\ s.mem = n /\ s.ptr = h
        /\ h + 2 * Cap(m, p) < PageWords /\ ValAddr(h, Count(m, p)) < PageWords
    BY <1>4, <2>1, <2>2, <2>3 DEF dict_set
  <2>5. CanGrow(m, h, p)
    BY <1>4, <2>4 DEF CanGrow
  <2>6. /\ Good(g, h2, R \cup {h}, F) /\ h \notin R
        /\ Count(g, h) = Count(m, p) /\ HasRoom(g, h)
    <3>1. Good(grow(m, h, p), alloc(h, region_bytes(2 * Cap(m, p))), R \cup {h}, F)
      BY <2>5, GoodGrow
    <3>2. h \notin R /\ Count(grow(m, h, p), h) = Count(m, p) /\ HasRoom(grow(m, h, p), h)
      BY <2>5, <3>1, GoodGrow
    <3> QED BY <2>1, <2>2, <3>1, <3>2
  <2>7. /\ \A q \in R : Copied(m, q, g, q)
        /\ Copied(m, p, g, h)
    BY <2>1, <2>5, GrowCopied
  <2>8. /\ \A q \in R \cup {h} : q # h => Copied(g, q, n, q)
        /\ Count(n, h) = Count(g, h) + 1
        /\ \A i \in Slots(g, h) : /\ n[KeyAddr(h, i)] = g[KeyAddr(h, i)]
                                  /\ n[ValAddr(h, i)] = g[ValAddr(h, i)]
        /\ KeyOf(n[KeyAddr(h, Count(g, h))]) = KeyOf(k)
        /\ n[ValAddr(h, Count(g, h))] = v
    BY <2>3, <2>4, <2>6, AppendStored
  <2>9. Slots(g, h) = Slots(m, p)
    BY <2>6 DEF Slots
  <2>10. Stored(m, p, n, h, k, v)
    BY <1>4, <2>6, <2>7, <2>8, <2>9 DEF Stored, Copied
  <2>11. \A q \in R : Copied(m, q, n, q)
    BY <2>6, <2>7, <2>8, CopiedTwice
  <2> QED BY <2>4, <2>10, <2>11
<1> QED BY <1>2, <1>3, <1>4

(* dict_pop moves the last entry into the hole and shortens the record. *)
LEMMA PopRemoved ==
  ASSUME NEW m, NEW h, NEW R, NEW F, Good(m, h, R, F), NEW p \in R,
         NEW k, dict_has(m, p, k), NEW n, n = dict_pop(m, p, k)
  PROVE  /\ Removed(m, p, n, k)
         /\ \A q \in R : q # p => Copied(m, q, n, q)
<1>1. m \in [Page -> Word] /\ WellFormed(m, h, p)
  BY DEF Good
<1>2. PICK i \in Slots(m, p) : i = scan(m, p, k)
  BY ScanInSlots
<1>3. PICK l : l = Count(m, p) - 1
  OBVIOUS
<1>4. /\ i \in Nat /\ i < Count(m, p) /\ p \in Page /\ p \in Nat
      /\ KeyAddr(p, i) \in Page /\ ~ Clear_of(m, p, KeyAddr(p, i)) /\ KeyAddr(p, i) # p
      /\ ValAddr(p, i) \in Page /\ ~ Clear_of(m, p, ValAddr(p, i)) /\ ValAddr(p, i) # p
  BY EntryAddrs
<1>5. l \in Slots(m, p) /\ l \in Nat /\ Count(m, p) = l + 1
  BY <1>1, <1>3, <1>4 DEF WellFormed, Slots
<1>6. PICK d : d = W(l, Cap(m, p))
  OBVIOUS
<1>7. d.lo = l
  BY <1>1, <1>5, <1>6, HeaderWord DEF WellFormed
<1>8. n = [[[m EXCEPT ![KeyAddr(p, i)] = m[KeyAddr(p, l)]]
                EXCEPT ![ValAddr(p, i)] = m[ValAddr(p, l)]] EXCEPT ![p] = d]
  BY <1>2, <1>3, <1>6 DEF dict_pop
<1>9. KeyAddr(p, i) # ValAddr(p, i)
  BY <1>4 DEF KeyAddr, ValAddr
<1>10. /\ n[p] = d /\ n[KeyAddr(p, i)] = m[KeyAddr(p, l)] /\ n[ValAddr(p, i)] = m[ValAddr(p, l)]
       /\ \A b \in Page : b \notin {p, KeyAddr(p, i), ValAddr(p, i)} => n[b] = m[b]
  BY <1>1, <1>4, <1>8, <1>9
<1>11. ~ Clear_of(m, p, p)
  BY <1>1, HeapAssumption DEF Clear_of, WellFormed, Page
<1>12. \A b \in Page : ~ Clear_of(m, p, b) \/ n[b] = m[b]
  BY <1>4, <1>10, <1>11
<1>13. \A q \in R : q # p => Copied(m, q, n, q)
  BY <1>12, FrameCopied
<1>14. ASSUME NEW j \in Slots(m, p), j # i
       PROVE  n[KeyAddr(p, j)] = m[KeyAddr(p, j)] /\ n[ValAddr(p, j)] = m[ValAddr(p, j)]
  <2>1. j \in Nat /\ KeyAddr(p, j) \in Page /\ ValAddr(p, j) \in Page /\ KeyAddr(p, j) # p /\ ValAddr(p, j) # p
    BY EntryAddrs
  <2>2. /\ KeyAddr(p, j) # KeyAddr(p, i) /\ KeyAddr(p, j) # ValAddr(p, i)
        /\ ValAddr(p, j) # KeyAddr(p, i) /\ ValAddr(p, j) # ValAddr(p, i)
    BY <1>4, <1>14, <2>1 DEF KeyAddr, ValAddr
  <2> QED BY <1>10, <2>1, <2>2
<1>15. Count(n, p) = l
  BY <1>7, <1>10 DEF Count
<1> QED BY <1>2, <1>5, <1>10, <1>13, <1>14, <1>15 DEF Removed

-----------------------------------------------------------------------------
(* What that means for the keys of one record.                               *)

LEMMA CopiedDistinct ==
  ASSUME NEW m, NEW p, NEW n, NEW q, Copied(m, p, n, q), Distinct(m, p)
  PROVE  Distinct(n, q)
BY DEF Copied, Distinct, Slots

LEMMA StoredDistinct ==
  ASSUME NEW m, NEW p, NEW n, NEW q, NEW k, NEW v, Stored(m, p, n, q, k, v),
         Distinct(m, p), Count(m, p) \in Nat
  PROVE  Distinct(n, q)
<1>1. CASE dict_has(m, p, k)
  BY <1>1 DEF Stored, Distinct, Slots
<1>2. CASE ~ dict_has(m, p, k)
  <2>1. ASSUME NEW i \in Slots(n, q) PROVE i \in Slots(m, p) \/ i = Count(m, p)
    BY <1>2, <2>1 DEF Stored, Slots
  <2>2. \A i \in Slots(m, p) : KeyOf(n[KeyAddr(q, i)]) # KeyOf(k)
    BY <1>2 DEF Stored, dict_has, same_key
  <2> QED BY <1>2, <2>1, <2>2 DEF Stored, Distinct
<1> QED BY <1>1, <1>2

LEMMA RemovedDistinct ==
  ASSUME NEW m, NEW p, NEW n, NEW k, Removed(m, p, n, k), dict_has(m, p, k),
         Distinct(m, p), Count(m, p) \in Nat
  PROVE  Distinct(n, p)
<1> DEFINE l == Count(m, p) - 1
<1>1. l \in Slots(m, p) /\ l \notin Slots(n, p) /\ Slots(n, p) \subseteq Slots(m, p)
  BY ScanInSlots DEF Removed, Slots
<1>2. ASSUME NEW i \in Slots(n, p)
      PROVE  n[KeyAddr(p, i)] = IF i = scan(m, p, k) THEN m[KeyAddr(p, l)] ELSE m[KeyAddr(p, i)]
  BY <1>1 DEF Removed
<1> QED BY <1>1, <1>2 DEF Distinct

-----------------------------------------------------------------------------
(* What one statement does to the records: the effect of its action.         *)

(* No statement of the program has a record at the bump pointer lose words.  *)
LEMMA NewMapEffect ==
  ASSUME IInv, run.dst = NoName, NEW x, NEW cap, NEW todo, NewMap(x, cap, todo)
  PROVE  /\ \A q \in Records : Copied(mem, q, mem', q)
         /\ \A q \in Records' : q \in Records \/ Count(mem', q) = 0
<1>1. Good(mem, hp, Records, foreign) /\ mem \in [Page -> Word]
  BY DEF IInv, Good
<1>2. CASE hp \in Page
  <2>1. /\ mem' = [mem EXCEPT ![hp] = W(0, cap)] /\ run' = Start(x, hp, todo)
        /\ UNCHANGED <<loc, inCall, out, trap, foreign>>
    BY <1>2 DEF NewMap
  <2>2. \A b \in Page : b < hp => mem'[b] = mem[b]
    <3>1. hp \in Int
      BY <1>2 DEF Page
    <3> QED BY <1>1, <2>1, <3>1, HeapAssumption DEF Page
  <2>3. \A q \in Records : Copied(mem, q, mem', q)
    BY <1>1, <2>2, AboveCopied
  <2>4. Count(mem', hp) = 0
    BY <1>1, <1>2, <2>1 DEF Count, W
  <2>5. Records' \subseteq Records \cup {hp}
    BY <2>1 DEF Records, Bound, Start
  <2> QED BY <2>3, <2>4, <2>5
<1>3. CASE Abort("oob") /\ run' = run
  BY <1>3, CopiedSelf DEF Abort, Records, Bound
<1>4. hp \notin Page => Abort("oob") /\ run' = run
  BY DEF NewMap, Abort
<1> QED BY <1>2, <1>3, <1>4

(* dict_set on the accumulator of a loop. *)
LEMMA RunSetEffect ==
  ASSUME IInv, run.dst # NoName, NEW k \in Word, NEW v \in Word, NEW next,
         next.dst = run.dst, next.r = run.r, RunSet(k, v, next), DOMAIN next = DOMAIN IdleRun
  PROVE  \/ /\ Abort("oob") /\ UNCHANGED run
         \/ /\ Stored(mem, run.r, mem', run'.r, k, v)
            /\ \A q \in Records : q # run.r \/ run'.r # run.r => Copied(mem, q, mem', q)
            /\ Records' \subseteq Records \cup {run'.r}
            /\ UNCHANGED <<loc, inCall, out, trap, foreign>>
<1>1. Good(mem, hp, Records, foreign) /\ run.r \in Records
  BY HeldIsRecord DEF IInv
<1>2. PICK s : s = dict_set(mem, hp, run.r, k, v)
  OBVIOUS
<1>3. CASE s.ok
  <2>1. /\ mem' = s.mem /\ run' = [next EXCEPT !.r = s.ptr]
        /\ UNCHANGED <<loc, inCall, out, trap, foreign>>
    BY <1>2, <1>3 DEF RunSet
  <2>2. run'.r = s.ptr /\ run'.dst = run.dst
    BY <2>1 DEF IdleRun
  <2>3. /\ Stored(mem, run.r, s.mem, s.ptr, k, v)
        /\ \A q \in Records : q # run.r => Copied(mem, q, s.mem, q)
        /\ s.ptr # run.r => Copied(mem, run.r, s.mem, run.r)
    BY <1>1, <1>2, <1>3, SetStored
  <2>4. Records' \subseteq Records \cup {run'.r}
    BY <2>1, <2>2 DEF Records, Bound
  <2> QED BY <2>1, <2>2, <2>3, <2>4
<1>4. CASE ~ s.ok
  BY <1>2, <1>4 DEF RunSet, Abort
<1> QED BY <1>3, <1>4

(* dict_set on the record of a local that alone holds it. *)
LEMMA StoreBackEffect ==
  ASSUME IInv, run.dst = NoName, NEW d \in Live \ Params, NEW k \in Word, NEW v \in Word, NEW result,
         StoreBack(d, dict_set(mem, hp, loc[d], k, v), result)
  PROVE  \/ Abort("oob")
         \/ /\ Stored(mem, loc[d], mem', loc'[d], k, v)
            /\ \A q \in Records : q # loc[d] => Copied(mem, q, mem', q)
            /\ \A x \in Names : x # d => loc'[x] = loc[x] /\ loc[x] # loc[d]
            /\ Records' \subseteq (Records \ {loc[d]}) \cup {loc'[d]}
            /\ out' = result /\ UNCHANGED <<inCall, run, trap, foreign>>
<1>1. /\ Good(mem, hp, Records, foreign) /\ loc[d] \in Records /\ d \in Names /\ loc \in [Names -> Nat]
      /\ \A y \in Names : loc[y] = loc[d] => y = d
  BY ReceiverAlone DEF IInv, TypeOK
<1>2. PICK s : s = dict_set(mem, hp, loc[d], k, v)
  OBVIOUS
<1>3. CASE s.ok
  <2>1. /\ mem' = s.mem /\ loc' = [loc EXCEPT ![d] = s.ptr]
        /\ out' = result /\ UNCHANGED <<inCall, run, trap, foreign>>
    BY <1>2, <1>3 DEF StoreBack
  <2>2. loc'[d] = s.ptr /\ \A x \in Names : x # d => loc'[x] = loc[x]
    BY <1>1, <2>1
  <2>3. /\ Stored(mem, loc[d], s.mem, s.ptr, k, v)
        /\ \A q \in Records : q # loc[d] => Copied(mem, q, s.mem, q)
    BY <1>1, <1>2, <1>3, SetStored
  <2>4. Records' \subseteq (Records \ {loc[d]}) \cup {loc'[d]}
    BY <1>1, <2>1, <2>2 DEF Records, Bound
  <2> QED BY <1>1, <2>1, <2>2, <2>3, <2>4
<1>4. CASE ~ s.ok
  BY <1>2, <1>4 DEF StoreBack
<1> QED BY <1>3, <1>4

(* dict_pop on the record of a local, whoever else holds it. *)
LEMMA TakeOutEffect ==
  ASSUME IInv, run.dst = NoName, NEW d \in Live, NEW k, NEW result, dict_has(mem, loc[d], k),
         TakeOut(d, k, result)
  PROVE  /\ Removed(mem, loc[d], mem', k)
         /\ \A q \in Records : q # loc[d] => Copied(mem, q, mem', q)
         /\ Records' = Records
<1>1. Good(mem, hp, Records, foreign) /\ loc[d] \in Records
  BY HeldIsRecord DEF IInv, Live, Scope, Names
<1>2. mem' = dict_pop(mem, loc[d], k) /\ UNCHANGED <<loc, run>>
  BY DEF TakeOut
<1> QED BY <1>1, <1>2, PopRemoved DEF Records, Bound

(* clear() empties one record. *)
LEMMA ClearEffect ==
  ASSUME IInv, NEW d \in Names, Clear(d)
  PROVE  /\ Count(mem', loc[d]) = 0
         /\ \A q \in Records : q # loc[d] => Copied(mem, q, mem', q)
         /\ Records' = Records /\ loc[d] \in Records
<1>1. Good(mem, hp, Records, foreign) /\ loc[d] \in Records /\ mem \in [Page -> Word]
  BY HeldIsRecord DEF IInv, Clear, Live, Scope, Names, Good
<1>2. mem' = [mem EXCEPT ![loc[d]] = W(0, Cap(mem, loc[d]))] /\ UNCHANGED <<loc, run>>
  BY DEF Clear
<1>3. loc[d] \in Page /\ ~ Clear_of(mem, loc[d], loc[d])
  BY <1>1, HeapAssumption DEF Clear_of, Good, WellFormed, Page
<1>4. \A b \in Page : ~ Clear_of(mem, loc[d], b) \/ mem'[b] = mem[b]
  BY <1>1, <1>2, <1>3
<1>5. Count(mem', loc[d]) = 0
  BY <1>1, <1>2, <1>3 DEF Count, W
<1> QED BY <1>1, <1>2, <1>4, <1>5, FrameCopied DEF Records, Bound

(* What a walk hands to dict_set are words. *)
LEMMA WalkWords ==
  ASSUME IInv, run.dst # NoName, run.todo # <<>>, Head(run.todo).kind = "walk",
         run.n # -1, run.i < run.n
  PROVE  /\ WalkKey \in Word /\ WalkVal \in Word
         /\ Head(run.todo).src \in Names /\ Bound(Head(run.todo).src)
         /\ run.i \in Slots(mem, loc[Head(run.todo).src])
<1>1. run \in RunType
  BY DEF IInv, TypeOK, RunType
<1>2. /\ \A j \in DOMAIN run.todo : run.todo[j].kind = "walk" => Bound(run.todo[j].src)
      /\ run.n <= Count(mem, loc[Head(run.todo).src])
  BY DEF IInv, RunOK
<1>3. Head(run.todo) \in Entry /\ Head(run.todo) = run.todo[1] /\ 1 \in DOMAIN run.todo
  BY <1>1 DEF RunType
<1>4. Head(run.todo).src \in Names /\ Bound(Head(run.todo).src)
  BY <1>2, <1>3 DEF Entry, Put
<1>5. PICK p \in Records : p = loc[Head(run.todo).src]
  BY <1>4, HeldIsRecord
<1>6. Good(mem, hp, Records, foreign) /\ Count(mem, p) \in Nat
  BY <1>5 DEF IInv, Good, WellFormed
<1>7. run.i \in Slots(mem, p)
  BY <1>1, <1>2, <1>5, <1>6 DEF Slots, RunType
<1>8. mem[KeyAddr(p, run.i)] \in Word /\ mem[ValAddr(p, run.i)] \in Word
  BY <1>6, <1>7, EntryAddrs
<1> QED BY <1>4, <1>5, <1>7, <1>8, KeysAreWords DEF WalkKey, WalkVal, load_key, W, Word

(* A call or a return gives no name a pointer that none had. *)
LEMMA CallRenames ==
  ASSUME Call \/ ReturnMap \/ Return
  PROVE  \A x \in Names : loc'[x] # 0 => \E y \in Names : loc[y] = loc'[x]
<1>1. CASE Call
  <2>1. PICK arg \in [Params -> Live] :
          loc' = [x \in Names |-> IF x \in Params THEN loc[arg[x]]
                                  ELSE IF x \in Callees THEN 0 ELSE loc[x]]
    BY <1>1 DEF Call
  <2>2. \A x \in Params : arg[x] \in Names
    BY DEF Live, Scope, Names
  <2> QED BY <2>1, <2>2
<1>2. CASE ReturnMap \/ Return
  BY <1>2 DEF ReturnMap, Return, Names
<1> QED BY <1>1, <1>2

-----------------------------------------------------------------------------
(* No record holds a key twice.                                              *)

(* Where the record at q comes from: a copy of an old one, perhaps with one  *)
(* key set or taken out, or nothing.                                         *)
Origin(q) ==
  \/ \E p \in Records : Copied(mem, p, mem', q)
  \/ \E p \in Records, k, v \in Word : Stored(mem, p, mem', q, k, v)
  \/ q \in Records /\ \E k \in Word : dict_has(mem, q, k) /\ Removed(mem, q, mem', k)
  \/ Count(mem', q) = 0

LEMMA OriginDistinct ==
  ASSUME IInv, KeysDistinct, NEW q, Origin(q) PROVE Distinct(mem', q)
<1>1. \A p \in Records : Distinct(mem, p) /\ Count(mem, p) \in Nat
  BY DEF KeysDistinct, Distinct, IInv, Good, WellFormed
<1>2. CASE \E p \in Records : Copied(mem, p, mem', q)
  BY <1>1, <1>2, CopiedDistinct
<1>3. CASE \E p \in Records, k, v \in Word : Stored(mem, p, mem', q, k, v)
  BY <1>1, <1>3, StoredDistinct
<1>4. CASE q \in Records /\ \E k \in Word : dict_has(mem, q, k) /\ Removed(mem, q, mem', k)
  BY <1>1, <1>4, RemovedDistinct
<1>5. CASE Count(mem', q) = 0
  <2>1. Slots(mem', q) = {}
    BY <1>5 DEF Slots
  <2> QED BY <2>1 DEF Distinct
<1> QED BY <1>2, <1>3, <1>4, <1>5 DEF Origin

(* Calls, returns, reads, traps and the bookkeeping of a loop. *)
LEMMA SameMemoryOrigin ==
  ASSUME mem' = mem, Records' \subseteq Records PROVE \A q \in Records' : Origin(q)
BY CopiedSelf DEF Origin

LEMMA AbortOrigin ==
  ASSUME NEW why, Abort(why) PROVE \A q \in Records' : Origin(q)
<1>1. Records' = Records
  BY DEF Abort, Records, Bound
<1> QED BY <1>1, SameMemoryOrigin DEF Abort

LEMMA StoreBackOrigin ==
  ASSUME IInv, run.dst = NoName, NEW d \in Live \ Params, NEW k \in Word, NEW v \in Word, NEW result,
         StoreBack(d, dict_set(mem, hp, loc[d], k, v), result)
  PROVE  \A q \in Records' : Origin(q)
<1>1. loc[d] \in Records
  BY ReceiverAlone
<1>2. CASE Abort("oob")
  BY <1>2, AbortOrigin
<1>3. CASE /\ Stored(mem, loc[d], mem', loc'[d], k, v)
           /\ \A q \in Records : q # loc[d] => Copied(mem, q, mem', q)
           /\ Records' \subseteq (Records \ {loc[d]}) \cup {loc'[d]}
  BY <1>1, <1>3 DEF Origin
<1> QED BY <1>2, <1>3, StoreBackEffect

(* d[k] = d.setdefault(j, x) stores twice, the second time at the base that  *)
(* was pushed first: neither record gets a key twice.                        *)
LEMMA NestedSetDistinct ==
  ASSUME IInv, KeysDistinct, NEW d \in Names, DictSetOfSetDefault(d) PROVE KeysDistinct'
<1> DEFINE base == loc[d]
           first(j, v) == dict_set(mem, hp, base, j, v)
<1>1. d \in Live \ Params /\ run.dst = NoName
  BY DEF DictSetOfSetDefault, Ready, Dicts
<1>2. PICK k \in Keys, j \in Keys, v \in Vals :
        \/ dict_has(mem, base, j) /\ StoreBack(d, dict_set(mem, hp, base, k, dict_get(mem, base, j)), Zero)
        \/ first(j, v).ok /\ StoreBack(d, dict_set(first(j, v).mem, first(j, v).hp, base, k, v), Zero)
        \/ hp' = first(j, v).hp /\ Abort("oob")
  BY DEF DictSetOfSetDefault
<1>3. k \in Word /\ j \in Word /\ v \in Word
  BY KeysAreWords
<1>4. /\ Good(mem, hp, Records, foreign) /\ base \in Records /\ d \in Names /\ loc \in [Names -> Nat]
      /\ \A y \in Names : loc[y] = base => y = d
  BY <1>1, ReceiverAlone DEF IInv, TypeOK
<1>5. KeysDistinct' <=> \A q \in Records' : Distinct(mem', q)
  BY DEF KeysDistinct, Distinct
<1>6. CASE dict_has(mem, base, j) /\ StoreBack(d, dict_set(mem, hp, base, k, dict_get(mem, base, j)), Zero)
  <2>1. dict_get(mem, base, j) \in Word
    BY <1>4, <1>6, GetWord
  <2>2. \A q \in Records' : Origin(q)
    BY <1>1, <1>3, <1>6, <2>1, StoreBackOrigin
  <2> QED BY <1>5, <2>2, OriginDistinct
<1>7. CASE hp' = first(j, v).hp /\ Abort("oob")
  <2>1. \A q \in Records' : Origin(q)
    BY <1>7, AbortOrigin
  <2> QED BY <1>5, <2>1, OriginDistinct
<1>8. CASE first(j, v).ok /\ StoreBack(d, dict_set(first(j, v).mem, first(j, v).hp, base, k, v), Zero)
  <2>1. PICK s : s = first(j, v)
    OBVIOUS
  <2>2. PICK t : t = dict_set(s.mem, s.hp, base, k, v)
    OBVIOUS
  <2>3. StoreBack(d, t, Zero) /\ s.ok
    BY <1>8, <2>1, <2>2
  <2>4. CASE ~ t.ok
    <3>1. Abort("oob")
      BY <2>3, <2>4 DEF StoreBack
    <3>2. \A q \in Records' : Origin(q)
      BY <3>1, AbortOrigin
    <3> QED BY <1>5, <3>2, OriginDistinct
  <2>5. CASE t.ok
    <3> DEFINE R == Records \cup {s.ptr}
    <3>1. Good(s.mem, s.hp, R, foreign) /\ base \in R
      BY <1>3, <1>4, <2>1, <2>3, GoodSet
    <3>2. \A q \in Records : Distinct(mem, q) /\ Count(mem, q) \in Nat
      BY <1>4 DEF KeysDistinct, Distinct, Good, WellFormed
    <3>3. /\ Stored(mem, base, s.mem, s.ptr, j, v)
          /\ \A q \in Records : q # base => Copied(mem, q, s.mem, q)
          /\ s.ptr # base => Copied(mem, base, s.mem, base)
      BY <1>3, <1>4, <2>1, <2>3, SetStored
    <3>4. \A q \in Records : Distinct(s.mem, q)
      BY <1>4, <3>2, <3>3, StoredDistinct, CopiedDistinct
    <3>5. /\ Stored(s.mem, base, t.mem, t.ptr, k, v)
          /\ \A q \in R : q # base => Copied(s.mem, q, t.mem, q)
      BY <1>3, <2>2, <2>5, <3>1, SetStored
    <3>6. Count(s.mem, base) \in Nat
      BY <3>1 DEF Good, WellFormed
    <3>7. Distinct(t.mem, t.ptr) /\ \A q \in Records : q # base => Distinct(t.mem, q)
      BY <1>4, <3>4, <3>5, <3>6, StoredDistinct, CopiedDistinct
    <3>8. mem' = t.mem /\ loc' = [loc EXCEPT ![d] = t.ptr] /\ run' = run
      BY <2>3, <2>5 DEF StoreBack
    <3>9. \A y \in Names : loc'[y] = IF y = d THEN t.ptr ELSE loc[y]
      BY <1>4, <3>8
    <3>10. Records' \subseteq (Records \ {base}) \cup {t.ptr}
      BY <1>1, <1>4, <3>8, <3>9 DEF Records, Bound
    <3> QED BY <1>5, <3>7, <3>8, <3>10
  <2> QED BY <2>4, <2>5
<1> QED BY <1>2, <1>6, <1>7, <1>8

(* One step of a loop: a dict_set on the accumulator, bookkeeping, or the    *)
(* end, which hands the accumulator to its name.                             *)
LEMMA RunStepEffect ==
  ASSUME IInv, RunStep
  PROVE  /\ run \in RunType /\ run.dst # NoName /\ run.r \in Records
         /\ \/ /\ \E k, v \in Word : Stored(mem, run.r, mem', run'.r, k, v)
               /\ \A q \in Records : q # run.r \/ run'.r # run.r => Copied(mem, q, mem', q)
               /\ Records' \subseteq Records \cup {run'.r}
               /\ UNCHANGED loc
            \/ mem' = mem /\ Records' = Records /\ loc' = loc /\ run'.r = run.r
            \/ mem' = mem /\ Records' \subseteq Records /\ RunDone
<1> DEFINE Sets_(k, v) == /\ Stored(mem, run.r, mem', run'.r, k, v)
                          /\ \A q \in Records : q # run.r \/ run'.r # run.r => Copied(mem, q, mem', q)
                          /\ Records' \subseteq Records \cup {run'.r}
                          /\ UNCHANGED <<loc, inCall, out, trap, foreign>>
<1>1. run \in RunType /\ run.dst # NoName /\ run.r \in Records
  BY HeldIsRecord DEF IInv, TypeOK, RunType, RunStep, RunPut, WalkStart, WalkInsert, WalkSkip, WalkEnd,
         RunDone, Walking, Running
<1>2. ASSUME NEW k \in Word, NEW v \in Word, NEW next, next.dst = run.dst, next.r = run.r,
             DOMAIN next = DOMAIN IdleRun, RunSet(k, v, next)
      PROVE  Sets_(k, v) \/ (mem' = mem /\ Records' = Records /\ loc' = loc /\ run'.r = run.r)
  <2>1. ASSUME Abort("oob"), UNCHANGED run
        PROVE  mem' = mem /\ Records' = Records /\ loc' = loc /\ run'.r = run.r
    BY <2>1 DEF Abort, Records, Bound
  <2> QED BY <1>1, <1>2, <2>1, RunSetEffect
<1>3. run.todo # <<>> => Head(run.todo) \in Entry
  BY <1>1 DEF RunType
<1>4. CASE RunPut
  <2> DEFINE next == [run EXCEPT !.todo = Tail(@)]
  <2>1. run.todo # <<>> /\ Head(run.todo).kind = "put" /\ RunSet(Head(run.todo).k, Head(run.todo).v, next)
    BY <1>4 DEF RunPut
  <2>2. Head(run.todo).k \in Word /\ Head(run.todo).v \in Word
    BY <1>3, <2>1, KeysAreWords DEF Entry, Put
  <2>3. next.dst = run.dst /\ next.r = run.r /\ DOMAIN next = DOMAIN IdleRun
    BY <1>1 DEF RunType, IdleRun
  <2> HIDE DEF next
  <2> QED BY <1>1, <1>2, <2>1, <2>2, <2>3
<1>5. CASE WalkInsert
  <2> DEFINE next == [run EXCEPT !.i = @ + 1]
  <2>1. /\ run.todo # <<>> /\ Head(run.todo).kind = "walk" /\ run.n # -1 /\ run.i < run.n
        /\ RunSet(WalkKey, WalkVal, next)
    BY <1>5 DEF WalkInsert, Walking
  <2>2. WalkKey \in Word /\ WalkVal \in Word
    BY <1>1, <2>1, WalkWords
  <2>3. next.dst = run.dst /\ next.r = run.r /\ DOMAIN next = DOMAIN IdleRun
    BY <1>1 DEF RunType, IdleRun
  <2> HIDE DEF next
  <2> QED BY <1>1, <1>2, <2>1, <2>2, <2>3
<1>6. CASE WalkStart \/ WalkSkip \/ WalkEnd
  <2>1. mem' = mem /\ loc' = loc /\ run'.r = run.r /\ run'.dst = run.dst
    BY <1>1, <1>6 DEF WalkStart, WalkSkip, WalkEnd, RunType
  <2>2. Records' = Records
    BY <2>1 DEF Records, Bound
  <2> QED BY <1>1, <2>1, <2>2
<1>7. CASE RunDone
  <2>1. loc' = [loc EXCEPT ![run.dst] = run.r] /\ run' = IdleRun /\ mem' = mem
    BY <1>7 DEF RunDone
  <2>2. \A y \in Names : loc'[y] \in {run.r, loc[y]}
    BY <2>1 DEF IInv, TypeOK
  <2>3. Records' \subseteq Records
    BY <1>1, <2>1, <2>2 DEF Records, Bound, IdleRun
  <2> QED BY <1>1, <1>7, <2>1, <2>3
<1> QED BY <1>4, <1>5, <1>6, <1>7 DEF RunStep

LEMMA RunStepOrigin == ASSUME IInv, RunStep PROVE \A q \in Records' : Origin(q)
<1>1. run.r \in Records
  BY RunStepEffect
<1>2. CASE /\ \E k, v \in Word : Stored(mem, run.r, mem', run'.r, k, v)
           /\ \A q \in Records : q # run.r \/ run'.r # run.r => Copied(mem, q, mem', q)
           /\ Records' \subseteq Records \cup {run'.r}
  BY <1>1, <1>2 DEF Origin
<1>3. CASE mem' = mem /\ Records' \subseteq Records
  BY <1>3, SameMemoryOrigin
<1> QED BY <1>2, <1>3, RunStepEffect

(* Every step but the nested store. *)
LEMMA StepOrigin ==
  ASSUME IInv, [Next]_vars, \A d \in Names : ~ DictSetOfSetDefault(d)
  PROVE  \A q \in Records' : Origin(q)
<1>1. ASSUME NEW x, NEW cap, NEW todo, NewMap(x, cap, todo), run.dst = NoName
      PROVE  \A q \in Records' : Origin(q)
  BY <1>1, NewMapEffect DEF Origin
<1>2. ASSUME NEW x \in Names, BindLit(x) \/ SetOp(x) PROVE \A q \in Records' : Origin(q)
  BY <1>1, <1>2 DEF BindLit, SetOp, Ready
<1>3. ASSUME NEW d \in Names, DictUpdate(d) PROVE \A q \in Records' : Origin(q)
  <2>1. PICK e : /\ run' = Start(d, loc[d], e)
                 /\ d \in Live \ Params /\ UNCHANGED <<mem, loc>> /\ run.dst = NoName
    BY <1>3 DEF DictUpdate, Dicts, Ready
  <2>2. Records' \subseteq Records
    BY <2>1, ReceiverAlone DEF Records, Bound, Start
  <2> QED BY <2>1, <2>2, SameMemoryOrigin
<1>4. ASSUME NEW d \in Names, DictSet(d) PROVE \A q \in Records' : Origin(q)
  <2>1. PICK k \in Keys, v \in IF d \in SetNames THEN {Zero} ELSE Vals :
          StoreBack(d, dict_set(mem, hp, loc[d], k, v), Zero)
    BY <1>4 DEF DictSet
  <2>2. k \in Word /\ v \in Word /\ d \in Live \ Params /\ run.dst = NoName
    BY <1>4, KeysAreWords DEF DictSet, Ready
  <2> QED BY <2>1, <2>2, StoreBackOrigin
<1>5. ASSUME NEW d \in Names, SetDefault(d) PROVE \A q \in Records' : Origin(q)
  <2>1. PICK k \in Keys, v \in Vals :
          \/ UNCHANGED <<mem, hp, loc, inCall, run, trap, foreign>>
          \/ \E result : StoreBack(d, dict_set(mem, hp, loc[d], k, v), result)
    BY <1>5 DEF SetDefault
  <2>2. k \in Word /\ v \in Word /\ d \in Live \ Params /\ run.dst = NoName
    BY <1>5, KeysAreWords DEF SetDefault, Ready, Dicts
  <2>3. CASE UNCHANGED <<mem, hp, loc, inCall, run, trap, foreign>>
    <3>1. Records' = Records
      BY <2>3 DEF Records, Bound
    <3> QED BY <2>3, <3>1, SameMemoryOrigin
  <2> QED BY <2>1, <2>2, <2>3, StoreBackOrigin
<1>6. ASSUME NEW d \in Names, NEW k \in Keys, NEW result, d \in Live, run.dst = NoName,
             dict_has(mem, loc[d], k), TakeOut(d, k, result)
      PROVE  \A q \in Records' : Origin(q)
  <2>1. k \in Word
    BY KeysAreWords
  <2> QED BY <1>6, <2>1, TakeOutEffect DEF Origin
<1>7. ASSUME UNCHANGED <<mem, loc, run>> PROVE \A q \in Records' : Origin(q)
  <2>1. Records' = Records
    BY <1>7 DEF Records, Bound
  <2> QED BY <1>7, <2>1, SameMemoryOrigin
<1>8. ASSUME NEW d \in Names, Pop(d) \/ PopOr(d) PROVE \A q \in Records' : Origin(q)
  <2>1. d \in Live /\ run.dst = NoName
    BY <1>8 DEF Pop, PopOr, Ready
  <2>2. \E k \in Keys : \/ \E result : dict_has(mem, loc[d], k) /\ TakeOut(d, k, result)
                        \/ UNCHANGED <<mem, loc, run>>
    BY <1>8 DEF Pop, PopOr, Abort
  <2> QED BY <1>6, <1>7, <2>1, <2>2
<1>9. ASSUME NEW d \in Names, Clear(d) PROVE \A q \in Records' : Origin(q)
  BY <1>9, ClearEffect DEF Origin
<1>10. ASSUME NEW d \in Names, Get(d) PROVE \A q \in Records' : Origin(q)
  <2>1. UNCHANGED <<mem, loc, run>>
    BY <1>10 DEF Get, Abort
  <2> QED BY <1>7, <2>1
<1>11. CASE Call \/ ReturnMap \/ Return
  <2>1. mem' = mem /\ run' = run
    BY <1>11 DEF Call, ReturnMap, Return
  <2>2. \A x \in Names : loc'[x] # 0 => \E y \in Names : loc[y] = loc'[x]
    BY <1>11, CallRenames
  <2>3. Records' \subseteq Records
    BY <2>1, <2>2 DEF Records, Bound
  <2> QED BY <2>1, <2>3, SameMemoryOrigin
<1>12. CASE ForeignAlloc
  <2>1. CASE Abort("oob")
    BY <2>1, AbortOrigin
  <2>2. CASE /\ mem' = [a \in Page |-> IF a \in hp .. (hp' - 1) THEN Foreign ELSE mem[a]]
             /\ UNCHANGED <<loc, run>>
    <3>1. Good(mem, hp, Records, foreign) /\ hp \in Int
      BY DEF IInv, TypeOK
    <3>2. \A b \in Page : b < hp => mem'[b] = mem[b]
      BY <2>2, <3>1, HeapAssumption DEF Page
    <3>3. Records' = Records
      BY <2>2 DEF Records, Bound
    <3> QED BY <3>1, <3>2, <3>3, AboveCopied DEF Origin
  <2> QED BY <1>12, <2>1, <2>2 DEF ForeignAlloc
<1>13. CASE RunStep
  BY <1>13, RunStepOrigin
<1>14. CASE UNCHANGED vars
  BY <1>7, <1>14 DEF vars
<1> QED BY <1>2, <1>3, <1>4, <1>5, <1>8, <1>9, <1>10, <1>11, <1>12, <1>13, <1>14 DEF Next, Halted

LEMMA KeysDistinctNext == IInv /\ KeysDistinct /\ [Next]_vars => KeysDistinct'
<1> SUFFICES ASSUME IInv, KeysDistinct, [Next]_vars PROVE KeysDistinct'
  OBVIOUS
<1>1. CASE \E d \in Names : DictSetOfSetDefault(d)
  BY <1>1, NestedSetDistinct
<1>2. CASE \A d \in Names : ~ DictSetOfSetDefault(d)
  BY <1>2, StepOrigin, OriginDistinct DEF KeysDistinct, Distinct
<1> QED BY <1>1, <1>2

(* __wasm_dict_set never appends a key its scan has seen, and a walk, a      *)
(* growth or the hole a pop fills never makes a second copy of one: no dict  *)
(* or set of a program holds a key twice, for strings no two equal texts.    *)
THEOREM KeysStayDistinct == ASSUME ~ EmptyAlgebra PROVE Spec => []KeysDistinct
<1>1. Init => KeysDistinct
  BY DEF Init, KeysDistinct, Records, Bound, IdleRun
<1>2. IInv /\ KeysDistinct /\ [Next]_vars => KeysDistinct'
  BY KeysDistinctNext
<1> QED BY <1>1, <1>2, IInvHolds, PTL DEF Spec

-----------------------------------------------------------------------------
(* A memory trap is the end of the page.                                     *)

(* A dict_set that leaves the page has used the page up: a record always     *)
(* lies below the bump pointer, and a growth asks for twice the room.        *)
LEMMA SetTraps ==
  ASSUME NEW m, NEW h, NEW R, NEW F, Good(m, h, R, F), NEW p \in R, NEW k, NEW v,
         ~ dict_set(m, h, p, k, v).ok
  PROVE  dict_set(m, h, p, k, v).hp > PageWords
<1>1. WellFormed(m, h, p) /\ h \in Nat /\ PageWords \in Nat
  BY HeapAssumption DEF Good
<1>2. PICK c : c = Count(m, p)
  OBVIOUS
<1>3. PICK d : d = Cap(m, p)
  OBVIOUS
<1>4. p \in Int /\ c \in Nat /\ d \in Nat \ {0} /\ c <= d /\ p + 2 * d < h
  BY <1>1, <1>2, <1>3, HeapAssumption DEF WellFormed, Page
<1>5. ~ dict_has(m, p, k)
  BY DEF dict_set
<1>6. CASE ~ (c >= d)
  <2>1. dict_set(m, h, p, k, v).hp = h /\ ~ (ValAddr(p, c) < PageWords)
    BY <1>2, <1>3, <1>5, <1>6 DEF dict_set
  <2>2. p + 2 + 2 * c <= p + 2 * d
    BY <1>4, <1>6
  <2> QED BY <1>1, <1>4, <2>1, <2>2 DEF ValAddr
<1>7. CASE c >= d
  <2>1. /\ dict_set(m, h, p, k, v).hp = alloc(h, region_bytes(2 * d))
        /\ ~ (h + 2 * d < PageWords) \/ ~ (ValAddr(h, c) < PageWords)
    BY <1>2, <1>3, <1>5, <1>7 DEF dict_set
  <2>2. 2 * d \in Nat
    BY <1>4
  <2>3. dict_set(m, h, p, k, v).hp = h + 1 + 2 * (2 * d)
    BY <1>1, <2>1, <2>2, AllocWords
  <2> QED BY <1>1, <1>4, <1>7, <2>1, <2>3 DEF ValAddr
<1> QED BY <1>4, <1>6, <1>7

LEMMA NewMapTraps ==
  ASSUME IInv, trap = "none", NEW x, NEW cap \in Nat, NEW todo, NewMap(x, cap, todo), trap' = "oob"
  PROVE  hp' > PageWords
<1>1. hp \notin Page /\ hp' = alloc(hp, region_bytes(cap))
  BY DEF NewMap
<1>2. hp \in Nat /\ hp >= HeapBase /\ PageWords \in Nat /\ HeapBase \in Nat
  BY HeapAssumption DEF IInv, Good
<1>3. hp >= PageWords
  BY <1>1, <1>2 DEF Page
<1> QED BY <1>1, <1>2, <1>3, AllocWords

LEMMA RunTraps ==
  ASSUME IInv, RunStep, trap = "none", trap' = "oob" PROVE hp' > PageWords
<1>1. PICK k, v, next : RunSet(k, v, next) /\ run.dst # NoName
  BY DEF RunStep, RunPut, WalkStart, WalkInsert, WalkSkip, WalkEnd, RunDone, Walking, Running
<1>2. ~ dict_set(mem, hp, run.r, k, v).ok /\ hp' = dict_set(mem, hp, run.r, k, v).hp
  BY <1>1 DEF RunSet
<1>3. Good(mem, hp, Records, foreign) /\ run.r \in Records
  BY <1>1, HeldIsRecord DEF IInv
<1> QED BY <1>2, <1>3, SetTraps

LEMMA StatementTraps ==
  ASSUME IInv, trap = "none", trap' = "oob", NEW d \in Names,
         DictSet(d) \/ SetDefault(d) \/ DictSetOfSetDefault(d)
  PROVE  hp' > PageWords
<1>1. d \in Live \ Params
  BY DEF DictSet, SetDefault, DictSetOfSetDefault, Dicts
<1>2. Good(mem, hp, Records, foreign) /\ loc[d] \in Records
  BY <1>1, ReceiverAlone DEF IInv
<1>3. ASSUME NEW k, NEW v, NEW result, StoreBack(d, dict_set(mem, hp, loc[d], k, v), result)
      PROVE  hp' > PageWords
  <2>1. ~ dict_set(mem, hp, loc[d], k, v).ok /\ hp' = dict_set(mem, hp, loc[d], k, v).hp
    BY <1>3 DEF StoreBack
  <2> QED BY <1>2, <2>1, SetTraps
<1>4. CASE DictSet(d) \/ SetDefault(d)
  BY <1>3, <1>4 DEF DictSet, SetDefault
<1>5. CASE DictSetOfSetDefault(d)
  <2> DEFINE base == loc[d]
             first(j, v) == dict_set(mem, hp, base, j, v)
  <2>1. PICK k \in Keys, j \in Keys, v \in Vals :
          \/ StoreBack(d, dict_set(mem, hp, base, k, dict_get(mem, base, j)), Zero)
          \/ /\ first(j, v).ok
             /\ StoreBack(d, dict_set(first(j, v).mem, first(j, v).hp, base, k, v), Zero)
          \/ ~ first(j, v).ok /\ hp' = first(j, v).hp
    BY <1>5 DEF DictSetOfSetDefault
  <2>2. CASE StoreBack(d, dict_set(mem, hp, base, k, dict_get(mem, base, j)), Zero)
    BY <1>3, <2>2
  <2>3. CASE ~ first(j, v).ok /\ hp' = first(j, v).hp
    BY <1>2, <2>3, SetTraps
  <2>4. CASE /\ first(j, v).ok
             /\ StoreBack(d, dict_set(first(j, v).mem, first(j, v).hp, base, k, v), Zero)
    <3>1. PICK s : s = first(j, v)
      OBVIOUS
    <3>2. k \in Word /\ j \in Word /\ v \in Word
      BY KeysAreWords
    <3>3. Good(s.mem, s.hp, Records \cup {s.ptr}, foreign) /\ base \in Records \cup {s.ptr}
      BY <1>2, <2>4, <3>1, <3>2, GoodSet
    <3>4. ~ dict_set(s.mem, s.hp, base, k, v).ok /\ hp' = dict_set(s.mem, s.hp, base, k, v).hp
      BY <2>4, <3>1 DEF StoreBack
    <3> QED BY <3>3, <3>4, SetTraps
  <2> QED BY <2>1, <2>2, <2>3, <2>4
<1> QED BY <1>4, <1>5

LEMMA TrapNext ==
  IInv /\ TrapOnlyWhenFull /\ [Next]_vars => TrapOnlyWhenFull'
<1> SUFFICES ASSUME IInv, TrapOnlyWhenFull, [Next]_vars, trap' = "oob" PROVE hp' > PageWords
  BY DEF TrapOnlyWhenFull
<1>1. CASE UNCHANGED vars
  BY <1>1 DEF vars, TrapOnlyWhenFull
<1>2. ASSUME NEW x \in Names, BindLit(x) PROVE hp' > PageWords
  <2>1. PICK len \in 0 .. MaxItems : \E todo \in [1 .. len -> EntriesOf(x)] :
          NewMap(x, Explicit(todo) + Slack, todo)
    BY <1>2 DEF BindLit
  <2>2. PICK todo \in [1 .. len -> EntriesOf(x)] : NewMap(x, Explicit(todo) + Slack, todo)
    BY <2>1
  <2>3. IsFiniteSet(1 .. len) /\ {j \in DOMAIN todo : todo[j].kind = "put"} \subseteq 1 .. len
    BY FS_Interval, MapsAssumption
  <2>4. Explicit(todo) + Slack \in Nat
    BY <2>3, FS_Subset, FS_CardinalityType, MapsAssumption DEF Explicit
  <2> QED BY <1>2, <2>2, <2>4, NewMapTraps DEF BindLit, Ready
<1>3. ASSUME NEW x \in Names, SetOp(x) PROVE hp' > PageWords
  <2>1. PICK op \in {"union", "intersection", "difference", "symdiff"}, a \in Sets, b \in Sets :
          NewMap(x, AlgebraCap(op, a, b), WalksOf(op, a, b))
    BY <1>3 DEF SetOp
  <2>2. loc[a] \in Records /\ loc[b] \in Records
    BY HeldIsRecord DEF Sets, Live, Scope, Names
  <2>3. AlgebraCap(op, a, b) \in Nat
    BY <2>2 DEF AlgebraCap, IInv, Good, WellFormed
  <2> QED BY <1>3, <2>1, <2>3, NewMapTraps DEF SetOp, Ready
<1>4. ASSUME NEW d \in Names, DictSet(d) \/ SetDefault(d) \/ DictSetOfSetDefault(d) PROVE hp' > PageWords
  BY <1>4, StatementTraps DEF DictSet, SetDefault, DictSetOfSetDefault, Ready
<1>5. CASE RunStep
  <2>1. trap = "none"
    BY <1>5 DEF RunStep, RunPut, WalkStart, WalkInsert, WalkSkip, WalkEnd, RunDone, Walking, Running
  <2> QED BY <1>5, <2>1, RunTraps
<1>6. CASE ForeignAlloc
  <2>1. PICK bytes \in ForeignBytes : hp' = alloc(hp, bytes) /\ alloc(hp, bytes) > PageWords
    BY <1>6 DEF ForeignAlloc, Ready
  <2> QED BY <2>1
<1>7. ASSUME NEW d \in Names, DictUpdate(d) \/ Pop(d) \/ PopOr(d) \/ Clear(d) \/ Get(d) PROVE FALSE
  BY <1>7 DEF DictUpdate, Pop, PopOr, Clear, Get, TakeOut, Abort, Ready
<1>8. CASE Call \/ ReturnMap \/ Return
  BY <1>8 DEF Call, ReturnMap, Return, Ready
<1> QED BY <1>1, <1>2, <1>3, <1>4, <1>5, <1>6, <1>7, <1>8 DEF Next, Halted

(* A store, a header or a memory.copy that leaves the page does so with the  *)
(* bump pointer past its end: a memory trap always means memory used up, and *)
(* never hides a missing key.                                                *)
THEOREM MemoryTrapMeansFull == ASSUME ~ EmptyAlgebra PROVE Spec => []TrapOnlyWhenFull
<1>1. Init => TrapOnlyWhenFull
  BY DEF Init, TrapOnlyWhenFull
<1>2. IInv /\ TrapOnlyWhenFull /\ [Next]_vars => TrapOnlyWhenFull'
  BY TrapNext
<1> QED BY <1>1, <1>2, IInvHolds, PTL DEF Spec

-----------------------------------------------------------------------------
(* The whole-map predicates.                                                 *)

(* The Python keys of a record. *)
KeySet(m, p) == {KeyOf(m[KeyAddr(p, i)]) : i \in Slots(m, p)}

(* What a scan finds is a key of the record, whatever word stands for it. *)
LEMMA HasKey ==
  ASSUME NEW m, NEW p, NEW k PROVE dict_has(m, p, k) <=> KeyOf(k) \in KeySet(m, p)
BY DEF dict_has, KeySet, same_key

(* i32.load of a string key drops what the other half of the word held. *)
LEMMA LoadedKey ==
  ASSUME NEW m, NEW p, NEW i PROVE KeyOf(load_key(m, p, i)) = KeyOf(m[KeyAddr(p, i)])
BY DEF load_key, KeyOf, W

(* In a record without duplicates one slot holds a key: the scan finds it. *)
LEMMA OneSlot ==
  ASSUME NEW m, NEW p, Distinct(m, p), NEW i \in Slots(m, p), NEW k,
         KeyOf(k) = KeyOf(m[KeyAddr(p, i)])
  PROVE  dict_has(m, p, k) /\ scan(m, p, k) = i
<1>1. dict_has(m, p, k)
  BY DEF dict_has, same_key
<1>2. /\ scan(m, p, k) \in Slots(m, p)
      /\ KeyOf(m[KeyAddr(p, scan(m, p, k))]) = KeyOf(k)
  BY <1>1 DEF dict_has, scan, same_key
<1> QED BY <1>1, <1>2 DEF Distinct

(* The count of a record without duplicates is the number of its keys. *)
LEMMA CountIsSize ==
  ASSUME NEW m, NEW p, Count(m, p) \in Nat, Distinct(m, p)
  PROVE  IsFiniteSet(KeySet(m, p)) /\ Cardinality(KeySet(m, p)) = Count(m, p)
<1> DEFINE n == Count(m, p)
           f == [j \in 1 .. n |-> KeyOf(m[KeyAddr(p, j - 1)])]
<1>1. \A j \in 1 .. n : j - 1 \in Slots(m, p)
  BY DEF Slots
<1>2. \A i \in Slots(m, p) : i + 1 \in 1 .. n /\ (i + 1) - 1 = i
  BY DEF Slots
<1>3. f \in [1 .. n -> KeySet(m, p)]
  BY <1>1 DEF KeySet
<1>4. \A a, b \in 1 .. n : f[a] = f[b] => a = b
  BY <1>1 DEF Distinct
<1>5. \A k \in KeySet(m, p) : \E j \in 1 .. n : f[j] = k
  BY <1>2 DEF KeySet
<1>6. f \in Bijection(1 .. n, KeySet(m, p))
  BY <1>3, <1>4, <1>5 DEF Bijection, Injection, Surjection, IsInjective
<1>7. ExistsBijection(1 .. n, KeySet(m, p))
  BY <1>6 DEF ExistsBijection
<1>8. IsFiniteSet(1 .. n)
  BY FS_Interval
<1>9. IsFiniteSet(KeySet(m, p))
  BY <1>7, <1>8, FS_Bijection
<1> QED BY <1>7, <1>9, FS_CountingElements

(* e has the keys and the values of the record's slots from slot i on. *)
Spells(e, m, p, i) ==
  /\ DOMAIN e = {KeyOf(m[KeyAddr(p, j)]) : j \in From(m, p, i)}
  /\ e = [k \in DOMAIN e |-> e[k]]
  /\ \A j \in From(m, p, i) : e[KeyOf(m[KeyAddr(p, j)])] = m[ValAddr(p, j)]

LEMMA EntriesOn ==
  ASSUME NEW m, NEW p, Distinct(m, p), NEW i \in Nat
  PROVE  Spells(Entries(m, p, i), m, p, i)
<1> DEFINE slot(k) == CHOOSE j \in From(m, p, i) : KeyOf(m[KeyAddr(p, j)]) = k
           K == {KeyOf(m[KeyAddr(p, j)]) : j \in From(m, p, i)}
<1>1. Entries(m, p, i) = [k \in K |-> m[ValAddr(p, slot(k))]]
  BY DEF Entries
<1>2. ASSUME NEW j \in From(m, p, i) PROVE slot(KeyOf(m[KeyAddr(p, j)])) = j
  <2>1. /\ slot(KeyOf(m[KeyAddr(p, j)])) \in From(m, p, i)
        /\ KeyOf(m[KeyAddr(p, slot(KeyOf(m[KeyAddr(p, j)])))]) = KeyOf(m[KeyAddr(p, j)])
    OBVIOUS
  <2>2. From(m, p, i) \subseteq Slots(m, p)
    BY DEF From, Slots
  <2> QED BY <2>1, <2>2 DEF Distinct
<1> HIDE DEF slot
<1> QED BY <1>1, <1>2 DEF Spells

LEMMA ContentsOf ==
  ASSUME NEW p, Distinct(mem, p)
  PROVE  /\ DOMAIN Contents(p) = KeySet(mem, p)
         /\ Contents(p) = [k \in DOMAIN Contents(p) |-> Contents(p)[k]]
         /\ \A i \in Slots(mem, p) :
              Contents(p)[KeyOf(mem[KeyAddr(p, i)])] = mem[ValAddr(p, i)]
<1>1. From(mem, p, 0) = Slots(mem, p)
  BY DEF From, Slots
<1>2. Spells(Contents(p), mem, p, 0)
  BY EntriesOn DEF Contents
<1> QED BY <1>1, <1>2 DEF Spells, KeySet

LEMMA ReadsOf ==
  ASSUME NEW p, NEW q, Distinct(mem, p), Distinct(mem, q),
         Count(mem, p) \in Nat, Count(mem, q) \in Nat
  PROVE  LET P == Contents(p)  Q == Contents(q) IN
         /\ set_eq(mem, p, q)       = (DOMAIN P = DOMAIN Q)
         /\ set_subset(mem, p, q)   = (DOMAIN P \subseteq DOMAIN Q)
         /\ set_disjoint(mem, p, q) = (DOMAIN P \cap DOMAIN Q = {})
         /\ dict_eq(mem, p, q)      = (P = Q)
<1> DEFINE P == Contents(p)
           Q == Contents(q)
<1>1. DOMAIN P = KeySet(mem, p) /\ DOMAIN Q = KeySet(mem, q)
  BY ContentsOf
<1>2. \A i \in Slots(mem, p) :
        dict_has(mem, q, load_key(mem, p, i)) <=> KeyOf(mem[KeyAddr(p, i)]) \in KeySet(mem, q)
  BY HasKey, LoadedKey
<1>3. set_subset(mem, p, q) <=> KeySet(mem, p) \subseteq KeySet(mem, q)
  BY <1>2 DEF set_subset, KeySet
<1>4. set_disjoint(mem, p, q) <=> KeySet(mem, p) \cap KeySet(mem, q) = {}
  BY <1>2 DEF set_disjoint, KeySet
<1>5. Count(mem, p) = Count(mem, q) /\ KeySet(mem, p) \subseteq KeySet(mem, q)
        <=> KeySet(mem, p) = KeySet(mem, q)
  <2>1. /\ IsFiniteSet(KeySet(mem, p)) /\ Cardinality(KeySet(mem, p)) = Count(mem, p)
        /\ IsFiniteSet(KeySet(mem, q)) /\ Cardinality(KeySet(mem, q)) = Count(mem, q)
    BY CountIsSize
  <2>2. KeySet(mem, p) \subseteq KeySet(mem, q) /\ Count(mem, p) = Count(mem, q)
          => KeySet(mem, p) = KeySet(mem, q)
    BY <2>1, FS_Subset
  <2> QED BY <2>1, <2>2
<1>6. set_eq(mem, p, q) <=> KeySet(mem, p) = KeySet(mem, q)
  BY <1>3, <1>5 DEF set_eq
<1>7. dict_eq(mem, p, q)
        <=> /\ KeySet(mem, p) = KeySet(mem, q)
            /\ \A i \in Slots(mem, p) : P[KeyOf(mem[KeyAddr(p, i)])] = Q[KeyOf(mem[KeyAddr(p, i)])]
  <2>1. ASSUME NEW i \in Slots(mem, p), KeyOf(mem[KeyAddr(p, i)]) \in KeySet(mem, q)
        PROVE  /\ dict_get(mem, q, load_key(mem, p, i)) = Q[KeyOf(mem[KeyAddr(p, i)])]
               /\ mem[ValAddr(p, i)] = P[KeyOf(mem[KeyAddr(p, i)])]
    <3>1. PICK j \in Slots(mem, q) : KeyOf(mem[KeyAddr(q, j)]) = KeyOf(mem[KeyAddr(p, i)])
      BY <2>1 DEF KeySet
    <3>2. scan(mem, q, load_key(mem, p, i)) = j
      BY <3>1, LoadedKey, OneSlot
    <3> QED BY <3>1, <3>2, ContentsOf DEF dict_get
  <2>2. dict_eq(mem, p, q)
          <=> /\ Count(mem, p) = Count(mem, q) /\ set_subset(mem, p, q)
              /\ \A i \in Slots(mem, p) :
                   mem[ValAddr(p, i)] = dict_get(mem, q, load_key(mem, p, i))
    BY DEF dict_eq, set_subset
  <2>3. \A i \in Slots(mem, p) : KeyOf(mem[KeyAddr(p, i)]) \in KeySet(mem, p)
    BY DEF KeySet
  <2> QED BY <1>3, <1>5, <2>1, <2>2, <2>3
<1>8. P = Q <=> /\ DOMAIN P = DOMAIN Q
                /\ \A k \in DOMAIN P : P[k] = Q[k]
  <2>1. P = [k \in DOMAIN P |-> P[k]] /\ Q = [k \in DOMAIN Q |-> Q[k]]
    BY ContentsOf
  <2> HIDE DEF P, Q
  <2> QED BY <2>1
<1>9. dict_eq(mem, p, q) <=> P = Q
  <2>1. (\A k \in KeySet(mem, p) : P[k] = Q[k])
          <=> \A i \in Slots(mem, p) : P[KeyOf(mem[KeyAddr(p, i)])] = Q[KeyOf(mem[KeyAddr(p, i)])]
    BY DEF KeySet
  <2> QED BY <1>1, <1>7, <1>8, <2>1
<1>10. /\ set_eq(mem, p, q) \in BOOLEAN /\ set_subset(mem, p, q) \in BOOLEAN
       /\ set_disjoint(mem, p, q) \in BOOLEAN /\ dict_eq(mem, p, q) \in BOOLEAN
  BY DEF set_eq, set_subset, set_disjoint, dict_eq
<1> HIDE DEF P, Q
<1>11. /\ set_eq(mem, p, q)       = (DOMAIN P = DOMAIN Q)
       /\ set_subset(mem, p, q)   = (DOMAIN P \subseteq DOMAIN Q)
       /\ set_disjoint(mem, p, q) = (DOMAIN P \cap DOMAIN Q = {})
       /\ dict_eq(mem, p, q)      = (P = Q)
  BY <1>1, <1>3, <1>4, <1>6, <1>9, <1>10
<1> QED BY <1>11 DEF P, Q

(* set_eq, set_subset, set_disjoint and dict_eq compare two maps as Python   *)
(* does, in whatever order, region and growth history the two records came   *)
(* about: one walk and the comparison of the counts are enough because no    *)
(* record holds a key twice.                                                 *)
THEOREM ReadsAreExact == ASSUME ~ EmptyAlgebra PROVE Spec => []ReadsExact
<1>1. IInv /\ KeysDistinct => ReadsExact
  <2> SUFFICES ASSUME IInv, KeysDistinct PROVE ReadsExact
    OBVIOUS
  <2>1. \A p \in Records : Distinct(mem, p) /\ Count(mem, p) \in Nat
    BY DEF KeysDistinct, Distinct, IInv, Good, WellFormed
  <2> QED BY <2>1, ReadsOf DEF ReadsExact
<1> QED BY <1>1, IInvHolds, KeysStayDistinct, PTL

-----------------------------------------------------------------------------
(* Insertion order.                                                          *)

(* The keys of the record at p of m begin the record at q of n. *)
Grown(m, p, n, q) ==
  /\ Count(m, p) \in Nat /\ Count(n, q) \in Nat /\ Count(m, p) <= Count(n, q)
  /\ \A i \in Slots(m, p) : n[KeyAddr(q, i)] = m[KeyAddr(p, i)]

LEMMA CopiedGrown ==
  ASSUME NEW m, NEW p, NEW n, NEW q, Copied(m, p, n, q), Count(m, p) \in Nat PROVE Grown(m, p, n, q)
BY DEF Copied, Grown

LEMMA StoredGrown ==
  ASSUME NEW m, NEW p, NEW n, NEW q, NEW k, NEW v, Stored(m, p, n, q, k, v), Count(m, p) \in Nat
  PROVE  Grown(m, p, n, q)
BY DEF Stored, Grown

LEMMA GrownTwice ==
  ASSUME NEW m, NEW p, NEW n, NEW q, NEW l, NEW r, Grown(m, p, n, q), Grown(n, q, l, r)
  PROVE  Grown(m, p, l, r)
<1>1. Slots(m, p) \subseteq Slots(n, q)
  BY DEF Grown, Slots
<1> QED BY <1>1 DEF Grown

LEMMA GrownStays ==
  ASSUME NEW p, NEW q, Grown(mem, p, mem', q)
  PROVE  LET old == KeySeq(mem, p)  new == KeySeq(mem', q) IN
         Len(old) <= Len(new) /\ \A i \in 1 .. Len(old) : new[i] = old[i]
<1>1. Len(KeySeq(mem, p)) = Count(mem, p) /\ Len(KeySeq(mem', q)) = Count(mem', q)
  BY DEF KeySeq, Grown
<1>2. ASSUME NEW i \in 1 .. Count(mem, p)
      PROVE  KeySeq(mem', q)[i] = KeySeq(mem, p)[i]
  <2>1. i - 1 \in Slots(mem, p) /\ i \in 1 .. Count(mem', q)
    BY DEF Slots, Grown
  <2> QED BY <2>1 DEF KeySeq, Grown
<1> QED BY <1>1, <1>2 DEF Grown

(* One statement that stores into d, from the record it started on.          *)
LEMMA StoreBackGrown ==
  ASSUME IInv, run.dst = NoName, NEW d \in Live \ Params, NEW k \in Word, NEW v \in Word, NEW result,
         StoreBack(d, dict_set(mem, hp, loc[d], k, v), result)
  PROVE  \A x \in Names : Bound(x) => Grown(mem, loc[x], mem', loc'[x])
<1>1. /\ \A x \in Names : Bound(x) => loc[x] \in Records /\ Count(mem, loc[x]) \in Nat
      /\ Bound(d) /\ d \in Names /\ \A y \in Names : loc[y] = loc[d] => y = d
  BY HeldIsRecord, ReceiverAlone DEF IInv, Good, WellFormed, Bound
<1>2. CASE Abort("oob")
  BY <1>1, <1>2, CopiedSelf, CopiedGrown DEF Abort
<1>3. CASE /\ Stored(mem, loc[d], mem', loc'[d], k, v)
           /\ \A q \in Records : q # loc[d] => Copied(mem, q, mem', q)
           /\ \A x \in Names : x # d => loc'[x] = loc[x] /\ loc[x] # loc[d]
  BY <1>1, <1>3, CopiedGrown, StoredGrown
<1> QED BY <1>2, <1>3, StoreBackEffect

LEMMA NestedSetGrown ==
  ASSUME IInv, NEW d \in Names, DictSetOfSetDefault(d)
  PROVE  \A x \in Names : Bound(x) => Grown(mem, loc[x], mem', loc'[x])
<1> DEFINE base == loc[d]
           first(j, v) == dict_set(mem, hp, base, j, v)
<1>1. d \in Live \ Params /\ run.dst = NoName
  BY DEF DictSetOfSetDefault, Ready, Dicts
<1>2. PICK k \in Keys, j \in Keys, v \in Vals :
        \/ dict_has(mem, base, j) /\ StoreBack(d, dict_set(mem, hp, base, k, dict_get(mem, base, j)), Zero)
        \/ first(j, v).ok /\ StoreBack(d, dict_set(first(j, v).mem, first(j, v).hp, base, k, v), Zero)
        \/ hp' = first(j, v).hp /\ Abort("oob")
  BY DEF DictSetOfSetDefault
<1>3. k \in Word /\ j \in Word /\ v \in Word
  BY KeysAreWords
<1>4. /\ Good(mem, hp, Records, foreign) /\ base \in Records /\ d \in Names /\ loc \in [Names -> Nat]
      /\ \A y \in Names : loc[y] = base => y = d
      /\ \A x \in Names : Bound(x) => loc[x] \in Records
      /\ \A q \in Records : Count(mem, q) \in Nat
  BY <1>1, ReceiverAlone, HeldIsRecord DEF IInv, TypeOK, Good, WellFormed
<1>5. ASSUME mem' = mem, loc' = loc PROVE \A x \in Names : Bound(x) => Grown(mem, loc[x], mem', loc'[x])
  BY <1>4, <1>5, CopiedSelf, CopiedGrown
<1>6. CASE dict_has(mem, base, j) /\ StoreBack(d, dict_set(mem, hp, base, k, dict_get(mem, base, j)), Zero)
  <2>1. dict_get(mem, base, j) \in Word
    BY <1>4, <1>6, GetWord
  <2> QED BY <1>1, <1>3, <1>6, <2>1, StoreBackGrown
<1>7. CASE Abort("oob")
  BY <1>5, <1>7 DEF Abort
<1>8. CASE first(j, v).ok /\ StoreBack(d, dict_set(first(j, v).mem, first(j, v).hp, base, k, v), Zero)
  <2>1. PICK s : s = first(j, v)
    OBVIOUS
  <2>2. PICK t : t = dict_set(s.mem, s.hp, base, k, v)
    OBVIOUS
  <2>3. StoreBack(d, t, Zero) /\ s.ok
    BY <1>8, <2>1, <2>2
  <2>4. CASE ~ t.ok
    BY <1>5, <2>3, <2>4 DEF StoreBack, Abort
  <2>5. CASE t.ok
    <3> DEFINE R == Records \cup {s.ptr}
    <3>1. Good(s.mem, s.hp, R, foreign) /\ base \in R
      BY <1>3, <1>4, <2>1, <2>3, GoodSet
    <3>2. /\ Stored(mem, base, s.mem, s.ptr, j, v)
          /\ \A q \in Records : q # base => Copied(mem, q, s.mem, q)
          /\ s.ptr # base => Copied(mem, base, s.mem, base)
      BY <1>3, <1>4, <2>1, <2>3, SetStored
    <3>3. \A q \in Records : Grown(mem, q, s.mem, q)
      BY <1>4, <3>2, StoredGrown, CopiedGrown
    <3>4. /\ Stored(s.mem, base, t.mem, t.ptr, k, v)
          /\ \A q \in R : q # base => Copied(s.mem, q, t.mem, q)
      BY <1>3, <2>2, <2>5, <3>1, SetStored
    <3>5. \A q \in R : Count(s.mem, q) \in Nat
      BY <3>1 DEF Good, WellFormed
    <3>6. /\ Grown(s.mem, base, t.mem, t.ptr)
          /\ \A q \in R : q # base => Grown(s.mem, q, t.mem, q)
      BY <3>1, <3>4, <3>5, StoredGrown, CopiedGrown
    <3>7. /\ Grown(mem, base, t.mem, t.ptr)
          /\ \A q \in Records : q # base => Grown(mem, q, t.mem, q)
      BY <1>4, <3>3, <3>6, GrownTwice
    <3>8. mem' = t.mem /\ loc' = [loc EXCEPT ![d] = t.ptr]
      BY <2>3, <2>5 DEF StoreBack
    <3>9. \A y \in Names : loc'[y] = IF y = d THEN t.ptr ELSE loc[y]
      BY <1>4, <3>8
    <3> QED BY <1>4, <3>7, <3>8, <3>9
  <2> QED BY <2>4, <2>5
<1> QED BY <1>2, <1>6, <1>7, <1>8

(* What a step keeps, for every name no binding is about. *)
LEMMA StepGrown ==
  ASSUME IInv, ~ Removals, [Next]_vars
  PROVE  /\ \A x \in Names \ {run.dst, run'.dst} :
              Bound(x) /\ loc'[x] # 0 /\ inCall' = inCall => Grown(mem, loc[x], mem', loc'[x])
         /\ run.dst # NoName /\ run'.dst = run.dst => Grown(mem, run.r, mem', run'.r)
<1>1. /\ \A x \in Names : Bound(x) => loc[x] \in Records
      /\ run.dst # NoName => run.r \in Records
      /\ \A q \in Records : Count(mem, q) \in Nat
  BY HeldIsRecord DEF IInv, Good, WellFormed
<1>2. ASSUME \A q \in Records : Copied(mem, q, mem', q), loc' = loc PROVE
        \A x \in Names : Bound(x) => Grown(mem, loc[x], mem', loc'[x])
  BY <1>1, <1>2, CopiedGrown
<1>3. ASSUME NEW x, NEW cap, NEW todo, NewMap(x, cap, todo), run.dst = NoName
      PROVE  \A y \in Names : Bound(y) => Grown(mem, loc[y], mem', loc'[y])
  <2>1. loc' = loc
    BY <1>3 DEF NewMap, Abort
  <2> QED BY <1>2, <1>3, <2>1, NewMapEffect
<1>4. ASSUME NEW x \in Names, BindLit(x) \/ SetOp(x)
      PROVE  run.dst = NoName /\ \A y \in Names : Bound(y) => Grown(mem, loc[y], mem', loc'[y])
  BY <1>3, <1>4 DEF BindLit, SetOp, Ready
<1>5. ASSUME NEW d \in Names, DictUpdate(d) \/ Get(d)
      PROVE  run.dst = NoName /\ \A y \in Names : Bound(y) => Grown(mem, loc[y], mem', loc'[y])
  <2>1. mem' = mem /\ loc' = loc /\ run.dst = NoName
    BY <1>5 DEF DictUpdate, Get, Abort, Ready
  <2> QED BY <1>2, <2>1, CopiedSelf
<1>6. ASSUME NEW d \in Names, DictSet(d) \/ SetDefault(d)
      PROVE  run.dst = NoName /\ \A y \in Names : Bound(y) => Grown(mem, loc[y], mem', loc'[y])
  <2>1. d \in Live \ Params /\ run.dst = NoName
    BY <1>6 DEF DictSet, SetDefault, Ready, Dicts
  <2>2. \/ \E k \in Word, v \in Word : \E result : StoreBack(d, dict_set(mem, hp, loc[d], k, v), result)
        \/ mem' = mem /\ loc' = loc
    BY <1>6, KeysAreWords DEF DictSet, SetDefault
  <2> QED BY <1>2, <2>1, <2>2, CopiedSelf, StoreBackGrown
<1>7. ASSUME NEW d \in Names, DictSetOfSetDefault(d)
      PROVE  run.dst = NoName /\ \A y \in Names : Bound(y) => Grown(mem, loc[y], mem', loc'[y])
  BY <1>7, NestedSetGrown DEF DictSetOfSetDefault, Ready
<1>8. ASSUME NEW d \in Names, Pop(d) \/ PopOr(d) \/ Clear(d) PROVE FALSE
  BY <1>8 DEF Pop, PopOr, Clear
<1>9. CASE Call \/ ReturnMap \/ Return
  <2>1. inCall' # inCall /\ run.dst = NoName
    BY <1>9 DEF Call, ReturnMap, Return, Ready
  <2> QED BY <2>1
<1>10. CASE ForeignAlloc
  <2>1. loc' = loc /\ run.dst = NoName
    BY <1>10 DEF ForeignAlloc, Abort, Ready
  <2>2. CASE mem' = mem
    BY <1>2, <2>1, <2>2, CopiedSelf
  <2>3. CASE mem' = [a \in Page |-> IF a \in hp .. (hp' - 1) THEN Foreign ELSE mem[a]]
    <3>1. Good(mem, hp, Records, foreign) /\ hp \in Int
      BY DEF IInv, TypeOK
    <3>2. \A b \in Page : b < hp => mem'[b] = mem[b]
      BY <2>3, <3>1, HeapAssumption DEF Page
    <3>3. \A q \in Records : Copied(mem, q, mem', q)
      BY <3>1, <3>2, AboveCopied
    <3> QED BY <1>2, <2>1, <3>3
  <2> QED BY <1>10, <2>2, <2>3 DEF ForeignAlloc, Abort
<1>11. CASE RunStep
  <2>1. run.dst # NoName /\ \A x \in Names : loc[x] = run.r => x = run.dst
    BY <1>11, RunStepEffect DEF IInv, RunOK
  <2>2. CASE /\ \E k, v \in Word : Stored(mem, run.r, mem', run'.r, k, v)
             /\ \A q \in Records : q # run.r \/ run'.r # run.r => Copied(mem, q, mem', q)
             /\ UNCHANGED loc
    BY <1>1, <2>1, <2>2, CopiedGrown, StoredGrown
  <2>3. CASE mem' = mem /\ loc' = loc /\ run'.r = run.r
    BY <1>1, <2>1, <2>3, CopiedSelf, CopiedGrown
  <2>4. CASE mem' = mem /\ RunDone
    <3>1. loc' = [loc EXCEPT ![run.dst] = run.r] /\ run'.dst = NoName
      BY <2>4 DEF RunDone, IdleRun
    <3>2. \A x \in Names : x # run.dst => loc'[x] = loc[x]
      BY <3>1 DEF IInv, TypeOK
    <3> QED BY <1>1, <2>1, <2>4, <3>1, <3>2, CopiedSelf, CopiedGrown
  <2> QED BY <1>11, <2>2, <2>3, <2>4, RunStepEffect
<1>12. CASE UNCHANGED vars
  <2>1. mem' = mem /\ loc' = loc /\ run' = run
    BY <1>12 DEF vars
  <2> QED BY <1>1, <2>1, CopiedSelf, CopiedGrown
<1> QED BY <1>4, <1>5, <1>6, <1>7, <1>8, <1>9, <1>10, <1>11, <1>12 DEF Next, Halted

(* Without pop, del, remove, discard and clear, what is stored of a map only *)
(* grows at its end: neither dict_set, nor a growth, nor a loop that builds  *)
(* or updates it moves a key, so the walks see Python's insertion order.     *)
THEOREM OrderIsKept == ASSUME ~ EmptyAlgebra, ~ Removals PROVE Spec => OrderKept
<1>1. IInv /\ [Next]_vars =>
        [/\ \A x \in Names \ {run.dst, run'.dst} :
              Bound(x) /\ loc'[x] # 0 /\ inCall' = inCall => KeysStay(loc[x], loc'[x])
         /\ run.dst # NoName /\ run'.dst = run.dst => KeysStay(run.r, run'.r)]_vars
  BY StepGrown, GrownStays DEF KeysStay
<1> QED BY <1>1, IInvHolds, PTL DEF Spec, OrderKept

-----------------------------------------------------------------------------
(* Records as maps.                                                          *)

(* The map that the record at p of m spells. *)
Spelled(m, p) == Entries(m, p, 0)

(* The facts about it that the statements need. *)
LEMMA SpelledKeys ==
  ASSUME NEW m, NEW p, Distinct(m, p)
  PROVE  /\ DOMAIN Spelled(m, p) = KeySet(m, p)
         /\ Spelled(m, p) = [k \in DOMAIN Spelled(m, p) |-> Spelled(m, p)[k]]
         /\ \A i \in Slots(m, p) : Spelled(m, p)[KeyOf(m[KeyAddr(p, i)])] = m[ValAddr(p, i)]
<1>1. From(m, p, 0) = Slots(m, p)
  BY DEF From, Slots
<1>2. Spells(Spelled(m, p), m, p, 0)
  BY EntriesOn DEF Spelled
<1> QED BY <1>1, <1>2 DEF Spells, KeySet

(* Two spellings of one record are equal. *)
LEMMA SpellsOne ==
  ASSUME NEW m, NEW p, NEW i, NEW e, NEW f, Spells(e, m, p, i), Spells(f, m, p, i)
  PROVE  e = f
<1>1. DOMAIN e = DOMAIN f
  BY DEF Spells
<1>2. ASSUME NEW k \in DOMAIN e PROVE e[k] = f[k]
  <2>1. PICK j \in From(m, p, i) : k = KeyOf(m[KeyAddr(p, j)])
    BY DEF Spells
  <2>2. e[KeyOf(m[KeyAddr(p, j)])] = m[ValAddr(p, j)] /\ f[KeyOf(m[KeyAddr(p, j)])] = m[ValAddr(p, j)]
    BY <2>1 DEF Spells
  <2> QED BY <2>1, <2>2
<1>3. e = [k \in DOMAIN e |-> e[k]] /\ f = [k \in DOMAIN f |-> f[k]]
  BY DEF Spells
<1> QED BY <1>1, <1>2, <1>3

(* A record that moved, or was left alone, still spells the same entries. *)
LEMMA CopiedEntries ==
  ASSUME NEW m, NEW p, NEW n, NEW q, Copied(m, p, n, q), Distinct(m, p), NEW i \in Nat
  PROVE  Entries(n, q, i) = Entries(m, p, i)
<1>1. Distinct(n, q)
  BY CopiedDistinct
<1>2. Spells(Entries(m, p, i), m, p, i) /\ Spells(Entries(n, q, i), n, q, i)
  BY <1>1, EntriesOn
<1>3. From(n, q, i) = From(m, p, i) /\ From(m, p, i) \subseteq Slots(m, p)
  BY DEF From, Copied, Slots
<1>4. \A j \in From(m, p, i) : n[KeyAddr(q, j)] = m[KeyAddr(p, j)] /\ n[ValAddr(q, j)] = m[ValAddr(p, j)]
  BY <1>3 DEF Copied
<1>5. PICK e : e = Entries(n, q, i)
  OBVIOUS
<1>6. Spells(e, n, q, i)
  BY <1>2, <1>5
<1>7. Spells(e, m, p, i)
  BY <1>3, <1>4, <1>6 DEF Spells
<1> QED BY <1>2, <1>5, <1>7, SpellsOne

(* What dict_has and dict_get see is the map. *)
LEMMA HasSpelled ==
  ASSUME NEW m, NEW p, Distinct(m, p), NEW k
  PROVE  /\ dict_has(m, p, k) <=> KeyOf(k) \in DOMAIN Spelled(m, p)
         /\ dict_has(m, p, k) => dict_get(m, p, k) = Spelled(m, p)[KeyOf(k)]
<1>1. dict_has(m, p, k) <=> KeyOf(k) \in DOMAIN Spelled(m, p)
  BY SpelledKeys, HasKey
<1>2. ASSUME dict_has(m, p, k) PROVE dict_get(m, p, k) = Spelled(m, p)[KeyOf(k)]
  <2>1. PICK i \in Slots(m, p) : KeyOf(m[KeyAddr(p, i)]) = KeyOf(k)
    BY <1>2 DEF dict_has, same_key
  <2>2. scan(m, p, k) = i
    BY <2>1, OneSlot
  <2> QED BY <2>1, <2>2, SpelledKeys DEF dict_get
<1> QED BY <1>1, <1>2

(* dict_set lays the pair over the map. *)
LEMMA StoredSpelled ==
  ASSUME NEW m, NEW p, NEW n, NEW q, NEW k, NEW v, Stored(m, p, n, q, k, v),
         Distinct(m, p), Count(m, p) \in Nat
  PROVE  Spelled(n, q) = Over(Single(KeyOf(k), v), Spelled(m, p))
<1> DEFINE e == Over(Single(KeyOf(k), v), Spelled(m, p))
           f == Spelled(n, q)
<1>1. Distinct(n, q)
  BY StoredDistinct
<1>2. /\ DOMAIN f = KeySet(n, q)
      /\ f = [j \in DOMAIN f |-> f[j]]
      /\ \A i \in Slots(n, q) : f[KeyOf(n[KeyAddr(q, i)])] = n[ValAddr(q, i)]
  BY <1>1, SpelledKeys
<1>3. /\ DOMAIN Spelled(m, p) = KeySet(m, p)
      /\ \A i \in Slots(m, p) : Spelled(m, p)[KeyOf(m[KeyAddr(p, i)])] = m[ValAddr(p, i)]
  BY SpelledKeys
<1>4. /\ DOMAIN e = {KeyOf(k)} \cup KeySet(m, p)
      /\ e = [j \in DOMAIN e |-> e[j]]
      /\ e[KeyOf(k)] = v
      /\ \A j \in KeySet(m, p) : j # KeyOf(k) => e[j] = Spelled(m, p)[j]
  BY <1>3 DEF Over, Single
<1>5. \A i \in Slots(m, p) : n[KeyAddr(q, i)] = m[KeyAddr(p, i)] /\ i \in Slots(n, q)
  BY DEF Stored, Slots
<1>6. DOMAIN f = DOMAIN e /\ \A i \in Slots(n, q) : f[KeyOf(n[KeyAddr(q, i)])] = e[KeyOf(n[KeyAddr(q, i)])]
  <2>1. CASE dict_has(m, p, k)
    <3>1. Slots(n, q) = Slots(m, p) /\ scan(m, p, k) \in Slots(m, p)
      BY <2>1, ScanInSlots DEF Stored, Slots
    <3>2. KeyOf(m[KeyAddr(p, scan(m, p, k))]) = KeyOf(k)
      BY <2>1 DEF dict_has, scan, same_key
    <3>3. DOMAIN f = DOMAIN e
      BY <1>2, <1>4, <1>5, <3>1, <3>2 DEF KeySet
    <3>4. ASSUME NEW i \in Slots(m, p) PROVE n[ValAddr(q, i)] = e[KeyOf(m[KeyAddr(p, i)])]
      <4>1. CASE i = scan(m, p, k)
        BY <2>1, <3>2, <4>1, <1>4 DEF Stored
      <4>2. CASE i # scan(m, p, k)
        <5>1. KeyOf(m[KeyAddr(p, i)]) # KeyOf(k)
          BY <3>1, <3>2, <4>2 DEF Distinct
        <5> QED BY <2>1, <4>2, <5>1, <1>3, <1>4 DEF Stored, KeySet
      <4> QED BY <4>1, <4>2
    <3> QED BY <1>2, <1>5, <3>1, <3>3, <3>4
  <2>2. CASE ~ dict_has(m, p, k)
    <3> DEFINE c == Count(m, p)
    <3>1. /\ Count(n, q) = c + 1 /\ KeyOf(n[KeyAddr(q, c)]) = KeyOf(k) /\ n[ValAddr(q, c)] = v
          /\ \A i \in Slots(m, p) : n[ValAddr(q, i)] = m[ValAddr(p, i)]
      BY <2>2 DEF Stored
    <3>2. Slots(n, q) = Slots(m, p) \cup {c}
      BY <3>1 DEF Slots
    <3>3. DOMAIN f = DOMAIN e
      BY <1>2, <1>4, <1>5, <3>1, <3>2 DEF KeySet
    <3>4. \A i \in Slots(m, p) : KeyOf(m[KeyAddr(p, i)]) # KeyOf(k) /\ KeyOf(m[KeyAddr(p, i)]) \in KeySet(m, p)
      BY <2>2 DEF dict_has, same_key, KeySet
    <3> QED BY <1>2, <1>3, <1>4, <1>5, <3>1, <3>2, <3>3, <3>4
  <2> QED BY <2>1, <2>2
<1>7. \A j \in DOMAIN f : f[j] = e[j]
  BY <1>2, <1>6 DEF KeySet
<1> HIDE DEF e, f
<1>8. f = e
  BY <1>2, <1>4, <1>6, <1>7
<1> QED BY <1>8 DEF e, f

(* dict_pop takes the key out of the map. *)
LEMMA RemovedSpelled ==
  ASSUME NEW m, NEW p, NEW n, NEW k, Removed(m, p, n, k), dict_has(m, p, k),
         Distinct(m, p), Count(m, p) \in Nat
  PROVE  Spelled(n, p) = Py!Without(Spelled(m, p), KeyOf(k))
<1> DEFINE e == [j \in DOMAIN Spelled(m, p) \ {KeyOf(k)} |-> Spelled(m, p)[j]]
           f == Spelled(n, p)
           l == Count(m, p) - 1
           h == scan(m, p, k)
           from(i) == IF i = h THEN l ELSE i
<1>1. Distinct(n, p)
  BY RemovedDistinct
<1>2. /\ DOMAIN f = KeySet(n, p)
      /\ f = [j \in DOMAIN f |-> f[j]]
      /\ \A i \in Slots(n, p) : f[KeyOf(n[KeyAddr(p, i)])] = n[ValAddr(p, i)]
  BY <1>1, SpelledKeys
<1>3. /\ DOMAIN Spelled(m, p) = KeySet(m, p)
      /\ \A i \in Slots(m, p) : Spelled(m, p)[KeyOf(m[KeyAddr(p, i)])] = m[ValAddr(p, i)]
  BY SpelledKeys
<1>4. /\ h \in Slots(m, p) /\ l \in Slots(m, p) /\ Slots(m, p) = Slots(n, p) \cup {l} /\ l \notin Slots(n, p)
  BY ScanInSlots DEF Removed, Slots
<1>5. KeyOf(m[KeyAddr(p, h)]) = KeyOf(k)
  BY DEF dict_has, scan, same_key
<1>6. \A i \in Slots(n, p) : /\ from(i) \in Slots(m, p) /\ from(i) # h
                             /\ n[KeyAddr(p, i)] = m[KeyAddr(p, from(i))]
                             /\ n[ValAddr(p, i)] = m[ValAddr(p, from(i))]
  BY <1>4 DEF Removed
<1>7. \A i \in Slots(m, p) : i # h => \E j \in Slots(n, p) : i = from(j)
  BY <1>4
<1> HIDE DEF from, h, l
<1>8. \A i \in Slots(m, p) : i # h <=> KeyOf(m[KeyAddr(p, i)]) # KeyOf(k)
  BY <1>4, <1>5 DEF Distinct
<1>9. KeySet(n, p) = KeySet(m, p) \ {KeyOf(k)}
  BY <1>6, <1>7, <1>8 DEF KeySet
<1>10. \A i \in Slots(n, p) : f[KeyOf(n[KeyAddr(p, i)])] = Spelled(m, p)[KeyOf(n[KeyAddr(p, i)])]
  BY <1>2, <1>3, <1>6
<1>11. DOMAIN f = DOMAIN e /\ e = [j \in DOMAIN e |-> e[j]]
  BY <1>2, <1>3, <1>9
<1>12. \A j \in DOMAIN f : f[j] = e[j]
  <2>1. \A j \in KeySet(n, p) : f[j] = Spelled(m, p)[j]
    BY <1>10 DEF KeySet
  <2> QED BY <1>2, <1>3, <1>9, <2>1
<1> HIDE DEF e, f
<1>13. f = e
  BY <1>2, <1>11, <1>12
<1> QED BY <1>13 DEF e, f, Py!Without

(* A count of zero spells the empty map. *)
LEMMA NothingSpelled ==
  ASSUME NEW n, NEW p, Count(n, p) = 0
  PROVE  Distinct(n, p) /\ Spelled(n, p) = <<>>
<1>1. Slots(n, p) = {}
  BY DEF Slots
<1>2. Distinct(n, p)
  BY <1>1 DEF Distinct
<1>3. PICK e : e = Spelled(n, p)
  OBVIOUS
<1>4. DOMAIN e = {} /\ e = [k \in DOMAIN e |-> e[k]]
  <2>1. /\ DOMAIN Spelled(n, p) = KeySet(n, p)
        /\ Spelled(n, p) = [k \in DOMAIN Spelled(n, p) |-> Spelled(n, p)[k]]
    BY <1>2, SpelledKeys
  <2>2. KeySet(n, p) = {}
    BY <1>1 DEF KeySet
  <2> QED BY <1>3, <2>1, <2>2
<1>5. e = <<>>
  BY <1>4
<1> QED BY <1>2, <1>3, <1>5

-----------------------------------------------------------------------------
(* Maps laid over each other.                                                *)

(* Every set of numbers has a least element, and a bounded one a greatest. *)
LEMMA Least ==
  ASSUME NEW T \in SUBSET Nat, T # {}
  PROVE  \E n \in T : \A m \in T : n <= m
<1>1. PICK n \in T : \A m \in T : <<m, n>> \notin OpToRel(<, Nat)
  BY WFMin, NatLessThanWellFounded, Zenon
<1>2. ASSUME NEW m \in T, m < n PROVE FALSE
  <2>1. <<m, n>> \in Nat \X Nat /\ <<m, n>>[1] < <<m, n>>[2]
    BY <1>2
  <2>2. <<m, n>> \in OpToRel(<, Nat)
    BY <2>1, Zenon DEF OpToRel
  <2> QED BY <1>1, <2>2
<1> QED BY <1>2

LEMMA Greatest ==
  ASSUME NEW n \in Nat, NEW T \in SUBSET (1 .. n), T # {}
  PROVE  \E i \in T : \A j \in T : j <= i
<1> DEFINE D == {n - i : i \in T}
<1>1. D \in SUBSET Nat /\ D # {}
  <2>1. \A i \in T : i \in 1 .. n /\ n - i \in Nat
    OBVIOUS
  <2> QED BY <2>1
<1>2. PICK d \in D : \A c \in D : d <= c
  BY <1>1, Least
<1>3. PICK i \in T : d = n - i
  OBVIOUS
<1>4. ASSUME NEW j \in T PROVE j <= i
  <2>1. n - i <= n - j
    BY <1>2, <1>3
  <2>2. i \in 1 .. n /\ j \in 1 .. n
    OBVIOUS
  <2> QED BY <2>1, <2>2
<1> QED BY <1>4

(* Of the maps 1 .. n the j-th is the last that has the key k. *)
Top(ms, n, j, k) ==
  /\ j \in 1 .. n /\ k \in DOMAIN ms[j]
  /\ \A i \in 1 .. n : k \in DOMAIN ms[i] => i <= j

(* The last map that has a key decides what the overlay holds there ... *)
LEMMA OverlayTop ==
  ASSUME NEW n \in Nat, NEW ms, DOMAIN ms = 1 .. n, NEW j, NEW k, Top(ms, n, j, k)
  PROVE  k \in DOMAIN Overlay(ms) /\ Overlay(ms)[k] = ms[j][k]
<1> DEFINE H(x) == {i \in 1 .. n : x \in DOMAIN ms[i]}
           last(x) == CHOOSE i \in H(x) : \A h \in H(x) : h <= i
<1>1. Overlay(ms) = [x \in UNION {DOMAIN ms[i] : i \in 1 .. n} |-> ms[last(x)][x]]
  BY DEF Overlay
<1>2. j \in H(k) /\ \A h \in H(k) : h <= j
  BY DEF Top
<1>3. last(k) \in H(k) /\ \A h \in H(k) : h <= last(k)
  BY <1>2
<1>4. last(k) = j
  <2>1. last(k) \in 1 .. n /\ j \in 1 .. n
    BY <1>2, <1>3
  <2>2. last(k) <= j /\ j <= last(k)
    BY <1>2, <1>3
  <2> HIDE DEF last
  <2> QED BY <2>1, <2>2
<1>5. k \in UNION {DOMAIN ms[i] : i \in 1 .. n}
  BY <1>2
<1> HIDE DEF last
<1> QED BY <1>1, <1>4, <1>5

(* ... every key of the overlay has such a last map ... *)
LEMMA OverlayHas ==
  ASSUME NEW n \in Nat, NEW ms, DOMAIN ms = 1 .. n
  PROVE  /\ \A k \in DOMAIN Overlay(ms) : \E j \in 1 .. n : Top(ms, n, j, k)
         /\ Overlay(ms) = [k \in DOMAIN Overlay(ms) |-> Overlay(ms)[k]]
         /\ DOMAIN Overlay(ms) = UNION {DOMAIN ms[j] : j \in 1 .. n}
<1>1. DOMAIN Overlay(ms) = UNION {DOMAIN ms[j] : j \in 1 .. n}
  BY DEF Overlay
<1>2. Overlay(ms) = [k \in DOMAIN Overlay(ms) |-> Overlay(ms)[k]]
  BY DEF Overlay
<1>3. ASSUME NEW k \in DOMAIN Overlay(ms) PROVE \E j \in 1 .. n : Top(ms, n, j, k)
  <2> DEFINE T == {i \in 1 .. n : k \in DOMAIN ms[i]}
  <2>1. T \in SUBSET (1 .. n) /\ T # {}
    BY <1>1
  <2>2. PICK j \in T : \A i \in T : i <= j
    BY <2>1, Greatest
  <2> QED BY <2>2 DEF Top
<1> QED BY <1>1, <1>2, <1>3

(* f has the keys of the maps 1 .. n, each with its value in the last one.   *)
Topped(f, ms, n) ==
  /\ DOMAIN ms = 1 .. n
  /\ f = [k \in DOMAIN f |-> f[k]]
  /\ \A j \in 1 .. n : DOMAIN ms[j] \subseteq DOMAIN f
  /\ \A k \in DOMAIN f : \E j \in 1 .. n : Top(ms, n, j, k) /\ f[k] = ms[j][k]

(* ... and that is all an overlay is. *)
LEMMA OverlayIs ==
  ASSUME NEW n \in Nat, NEW ms, NEW f, Topped(f, ms, n)
  PROVE  Overlay(ms) = f
<1> USE DEF Topped
<1> DEFINE o == Overlay(ms)
<1>1. DOMAIN o = UNION {DOMAIN ms[j] : j \in 1 .. n} /\ o = [k \in DOMAIN o |-> o[k]]
  BY OverlayHas
<1>2. \A k \in DOMAIN f : k \in DOMAIN o /\ o[k] = f[k]
  BY OverlayTop
<1> HIDE DEF o
<1>3. DOMAIN o = DOMAIN f
  BY <1>1, <1>2
<1>4. o = f
  BY <1>1, <1>2, <1>3
<1> QED BY <1>4 DEF o

(* One map, overlaid. *)
LEMMA OverlayOne ==
  ASSUME NEW ms, DOMAIN ms = 1 .. 1, ms[1] = [k \in DOMAIN ms[1] |-> ms[1][k]]
  PROVE  Overlay(ms) = ms[1]
<1>1. \A j \in 1 .. 1 : j = 1
  OBVIOUS
<1>2. \A k \in DOMAIN ms[1] : Top(ms, 1, 1, k)
  BY DEF Top
<1>3. PICK f : f = ms[1]
  OBVIOUS
<1>4. /\ f = [k \in DOMAIN f |-> f[k]]
      /\ \A j \in 1 .. 1 : DOMAIN ms[j] \subseteq DOMAIN f
      /\ \A k \in DOMAIN f : \E j \in 1 .. 1 : Top(ms, 1, j, k) /\ f[k] = ms[j][k]
  BY <1>1, <1>2, <1>3
<1>5. 1 \in Nat
  OBVIOUS
<1>6. Topped(f, ms, 1)
  BY <1>4 DEF Topped
<1> QED BY <1>3, <1>5, <1>6, OverlayIs

(* The n maps ns are the maps ms, the second of which joined the first. *)
Joined(ms, ns, n) ==
  /\ n # 0 /\ DOMAIN ms = 1 .. (n + 1) /\ DOMAIN ns = 1 .. n
  /\ ns[1] = Over(ms[2], ms[1])
  /\ \A j \in 2 .. n : ns[j] = ms[j + 1]

LEMMA OverlayJoins ==
  ASSUME NEW n \in Nat, NEW ms, NEW ns, Joined(ms, ns, n)
  PROVE  Overlay(ms) = Overlay(ns)
<1> USE DEF Joined
<1> DEFINE f == Overlay(ns)
<1>1. /\ \A k \in DOMAIN f : \E j \in 1 .. n : Top(ns, n, j, k)
      /\ f = [k \in DOMAIN f |-> f[k]]
      /\ DOMAIN f = UNION {DOMAIN ns[j] : j \in 1 .. n}
  BY OverlayHas
<1>2. /\ DOMAIN ns[1] = DOMAIN ms[1] \cup DOMAIN ms[2]
      /\ \A k \in DOMAIN ms[2] : ns[1][k] = ms[2][k]
      /\ \A k \in DOMAIN ms[1] \ DOMAIN ms[2] : ns[1][k] = ms[1][k]
  BY DEF Over
<1>3. ASSUME NEW j \in 1 .. (n + 1) PROVE DOMAIN ms[j] \subseteq DOMAIN f
  <2>1. CASE j \in {1, 2}
    BY <1>1, <1>2, <2>1
  <2>2. CASE j \notin {1, 2}
    <3>1. j - 1 \in 2 .. n /\ (j - 1) + 1 = j
      BY <2>2
    <3>2. ns[j - 1] = ms[j] /\ j - 1 \in 1 .. n
      BY <3>1
    <3> QED BY <1>1, <3>2
  <2> QED BY <2>1, <2>2
<1>4. ASSUME NEW k \in DOMAIN f
      PROVE  \E j \in 1 .. (n + 1) : Top(ms, n + 1, j, k) /\ f[k] = ms[j][k]
  <2>1. PICK j \in 1 .. n : Top(ns, n, j, k)
    BY <1>1
  <2>2. f[k] = ns[j][k]
    BY <2>1, OverlayTop
  <2>3. ASSUME NEW i \in 3 .. (n + 1), k \in DOMAIN ms[i] PROVE i <= j + 1
    <3>1. i - 1 \in 2 .. n /\ (i - 1) + 1 = i
      OBVIOUS
    <3>2. ns[i - 1] = ms[i] /\ i - 1 \in 1 .. n
      BY <3>1
    <3>3. i - 1 <= j
      BY <2>1, <2>3, <3>2 DEF Top
    <3> QED BY <3>3
  <2>4. CASE j >= 2
    <3>1. j + 1 \in 1 .. (n + 1) /\ ns[j] = ms[j + 1]
      BY <2>4
    <3>2. Top(ms, n + 1, j + 1, k)
      BY <2>1, <2>3, <2>4, <3>1 DEF Top
    <3> QED BY <2>2, <3>1, <3>2
  <2>5. CASE j = 1 /\ k \in DOMAIN ms[2]
    <3>1. Top(ms, n + 1, 2, k)
      BY <2>3, <2>5 DEF Top
    <3> QED BY <1>2, <2>2, <2>5, <3>1
  <2>6. CASE j = 1 /\ k \notin DOMAIN ms[2]
    <3>1. k \in DOMAIN ms[1]
      BY <1>2, <2>1, <2>6 DEF Top
    <3>2. Top(ms, n + 1, 1, k)
      <4>1. ASSUME NEW i \in 1 .. (n + 1), k \in DOMAIN ms[i] PROVE i <= 1
        BY <2>3, <2>6, <4>1
      <4> QED BY <3>1, <4>1 DEF Top
    <3> QED BY <1>2, <2>2, <2>6, <3>1, <3>2
  <2> QED BY <2>4, <2>5, <2>6
<1>5. n + 1 \in Nat
  OBVIOUS
<1> HIDE DEF f
<1>6. Topped(f, ms, n + 1)
  BY <1>1, <1>3, <1>4 DEF Topped
<1>7. Overlay(ms) = f
  BY <1>5, <1>6, OverlayIs
<1> QED BY <1>7 DEF f

(* The part e of the second of the n maps ms is in the first of the maps ns. *)
Moved(ms, ns, n, e) ==
  /\ n >= 2 /\ DOMAIN ms = 1 .. n /\ DOMAIN ns = 1 .. n
  /\ ns[1] = Over(e, ms[1]) /\ ms[2] = Over(ns[2], e)
  /\ \A j \in 3 .. n : ns[j] = ms[j]

(* A piece of a later map may be laid over the first one beforehand. *)
LEMMA OverlayMoves ==
  ASSUME NEW n \in Nat, NEW ms, NEW ns, NEW e, Moved(ms, ns, n, e)
  PROVE  Overlay(ms) = Overlay(ns)
<1> USE DEF Moved
<1> DEFINE f == Overlay(ns)
<1>1. /\ \A k \in DOMAIN f : \E j \in 1 .. n : Top(ns, n, j, k)
      /\ f = [k \in DOMAIN f |-> f[k]]
      /\ DOMAIN f = UNION {DOMAIN ns[j] : j \in 1 .. n}
  BY OverlayHas
<1>2. /\ DOMAIN ns[1] = DOMAIN ms[1] \cup DOMAIN e
      /\ \A k \in DOMAIN e : ns[1][k] = e[k]
      /\ \A k \in DOMAIN ms[1] \ DOMAIN e : ns[1][k] = ms[1][k]
      /\ DOMAIN ms[2] = DOMAIN ns[2] \cup DOMAIN e
      /\ \A k \in DOMAIN ns[2] : ms[2][k] = ns[2][k]
      /\ \A k \in DOMAIN e \ DOMAIN ns[2] : ms[2][k] = e[k]
  BY DEF Over
<1>3. ASSUME NEW j \in 1 .. n PROVE DOMAIN ms[j] \subseteq DOMAIN f
  <2>1. CASE j \in {1, 2}
    <3>1. 1 \in 1 .. n /\ 2 \in 1 .. n
      OBVIOUS
    <3> QED BY <1>1, <1>2, <2>1, <3>1
  <2>2. CASE j \notin {1, 2}
    <3>1. j \in 3 .. n
      BY <2>2
    <3> QED BY <1>1, <3>1
  <2> QED BY <2>1, <2>2
<1>4. ASSUME NEW k \in DOMAIN f
      PROVE  \E j \in 1 .. n : Top(ms, n, j, k) /\ f[k] = ms[j][k]
  <2>1. PICK j \in 1 .. n : Top(ns, n, j, k)
    BY <1>1
  <2>2. f[k] = ns[j][k]
    BY <2>1, OverlayTop
  <2>3. 1 \in 1 .. n /\ 2 \in 1 .. n
    OBVIOUS
  <2>4. ASSUME NEW i \in 3 .. n, k \in DOMAIN ms[i] PROVE i <= j
    BY <2>1, <2>4 DEF Top
  <2>5. CASE j >= 3
    <3>1. ns[j] = ms[j]
      BY <2>5
    <3>2. Top(ms, n, j, k)
      BY <2>1, <2>4, <2>5, <3>1 DEF Top
    <3> QED BY <2>2, <3>1, <3>2
  <2>6. CASE j = 2
    <3>1. Top(ms, n, 2, k)
      BY <1>2, <2>1, <2>3, <2>4, <2>6 DEF Top
    <3> QED BY <1>2, <2>1, <2>2, <2>3, <2>6, <3>1 DEF Top
  <2>7. CASE j = 1 /\ k \in DOMAIN e
    <3>1. k \notin DOMAIN ns[2]
      BY <2>1, <2>3, <2>7 DEF Top
    <3>2. Top(ms, n, 2, k)
      BY <1>2, <2>3, <2>4, <2>7 DEF Top
    <3> QED BY <1>2, <2>2, <2>3, <2>7, <3>1, <3>2
  <2>8. CASE j = 1 /\ k \notin DOMAIN e
    <3>1. k \notin DOMAIN ns[2] /\ k \in DOMAIN ms[1] /\ k \notin DOMAIN ms[2]
      BY <1>2, <2>1, <2>3, <2>8 DEF Top
    <3>2. Top(ms, n, 1, k)
      <4>1. ASSUME NEW i \in 1 .. n, k \in DOMAIN ms[i] PROVE i <= 1
        BY <2>4, <2>8, <3>1, <4>1
      <4> QED BY <2>3, <3>1, <4>1 DEF Top
    <3> QED BY <1>2, <2>2, <2>3, <2>8, <3>1, <3>2
  <2> QED BY <2>5, <2>6, <2>7, <2>8
<1> HIDE DEF f
<1>5. Topped(f, ms, n)
  BY <1>1, <1>3, <1>4 DEF Topped
<1>6. Overlay(ms) = f
  BY <1>5, OverlayIs
<1> QED BY <1>6 DEF f

LEMMA OverIsMap ==
  ASSUME NEW e, NEW m PROVE Over(e, m) = [k \in DOMAIN Over(e, m) |-> Over(e, m)[k]]
BY DEF Over

(* Two maps, overlaid. *)
LEMMA OverlayTwo ==
  ASSUME NEW ms, DOMAIN ms = 1 .. 2 PROVE Overlay(ms) = Over(ms[2], ms[1])
<1> DEFINE ns == [j \in 1 .. 1 |-> Over(ms[2], ms[1])]
<1>1. ns[1] = Over(ms[2], ms[1]) /\ DOMAIN ns = 1 .. 1 /\ DOMAIN ms = 1 .. (1 + 1)
  OBVIOUS
<1>2. Overlay(ns) = ns[1]
  BY <1>1, OverIsMap, OverlayOne
<1>3. \A j \in 2 .. 1 : ns[j] = ms[j + 1]
  OBVIOUS
<1> HIDE DEF ns
<1>4. 1 \in Nat /\ Joined(ms, ns, 1)
  BY <1>1, <1>3 DEF Joined
<1>5. Overlay(ms) = Overlay(ns)
  BY <1>4, OverlayJoins
<1> QED BY <1>1, <1>2, <1>5

(* An empty map at the bottom. *)
LEMMA OverlayEmpty ==
  ASSUME NEW n \in Nat, NEW ms, NEW ns, DOMAIN ms = 1 .. n, DOMAIN ns = 1 .. (n + 1),
         DOMAIN ns[1] = {}, \A j \in 1 .. n : ns[j + 1] = ms[j]
  PROVE  Overlay(ns) = Overlay(ms)
<1> DEFINE f == Overlay(ms)
<1>1. /\ \A k \in DOMAIN f : \E j \in 1 .. n : Top(ms, n, j, k)
      /\ f = [k \in DOMAIN f |-> f[k]]
      /\ DOMAIN f = UNION {DOMAIN ms[j] : j \in 1 .. n}
  BY OverlayHas
<1>2. \A j \in 2 .. (n + 1) : j - 1 \in 1 .. n /\ ns[j] = ms[j - 1]
  <2>1. \A j \in 2 .. (n + 1) : j - 1 \in 1 .. n /\ (j - 1) + 1 = j
    OBVIOUS
  <2> QED BY <2>1
<1>3. \A j \in 1 .. (n + 1) : j = 1 \/ j \in 2 .. (n + 1)
  OBVIOUS
<1>4. \A j \in 1 .. (n + 1) : DOMAIN ns[j] \subseteq DOMAIN f
  BY <1>1, <1>2, <1>3
<1>5. ASSUME NEW k \in DOMAIN f
      PROVE  \E j \in 1 .. (n + 1) : Top(ns, n + 1, j, k) /\ f[k] = ns[j][k]
  <2>1. PICK j \in 1 .. n : Top(ms, n, j, k)
    BY <1>1
  <2>2. f[k] = ms[j][k] /\ j + 1 \in 1 .. (n + 1) /\ ns[j + 1] = ms[j]
    BY <2>1, OverlayTop
  <2>3. ASSUME NEW i \in 1 .. (n + 1), k \in DOMAIN ns[i] PROVE i <= j + 1
    <3>1. i \in 2 .. (n + 1)
      BY <1>3, <2>3
    <3>2. i - 1 \in 1 .. n /\ k \in DOMAIN ms[i - 1]
      BY <1>2, <2>3, <3>1
    <3>3. i - 1 <= j
      BY <2>1, <3>2 DEF Top
    <3> QED BY <3>3
  <2>4. Top(ns, n + 1, j + 1, k)
    BY <2>1, <2>2, <2>3 DEF Top
  <2> QED BY <2>2, <2>4
<1>6. n + 1 \in Nat
  OBVIOUS
<1> HIDE DEF f
<1>7. Topped(f, ns, n + 1)
  BY <1>1, <1>4, <1>5 DEF Topped
<1>8. Overlay(ns) = f
  BY <1>6, <1>7, OverlayIs
<1> QED BY <1>8 DEF f

-----------------------------------------------------------------------------
(* What else the refinement needs of a state.                                *)

(* Two parameters share a record only because the caller passed it twice.    *)
Sharing ==
  \A x, y \in Params : Bound(x) /\ x # y /\ loc[x] = loc[y] => \E c \in Callers : loc[c] = loc[x]

(* The loop in progress reads its own accumulator only in d.update(d), where *)
(* the one walk is not gated; the bound of a walk stays the source's count.  *)
WalkKept(w) ==
  w.kind = "walk" =>
    /\ w.gate # NoName => Bound(w.gate) /\ loc[w.gate] # run.r
    /\ loc[w.src] = run.r => Len(run.todo) = 1 /\ w.gate = NoName

LoopKept ==
  run.dst # NoName =>
    /\ run.n = -1 => run.i = 0
    /\ run.n # -1 => run.n = Count(mem, loc[Head(run.todo).src]) /\ run.i <= run.n
    /\ \A j \in DOMAIN run.todo : WalkKept(run.todo[j])

(* The inductive invariant of the refinement. *)
RInv == IInv /\ KeysDistinct /\ Sharing /\ LoopKept

(* Parameters start to share a record in a call, and only there. *)
LEMMA SharingStay == ASSUME Sharing, loc' = loc PROVE Sharing'
BY DEF Sharing, Bound

LEMMA SharingMove ==
  ASSUME IInv, Sharing, NEW d \in Names \ Params, NEW q, loc' = [loc EXCEPT ![d] = q],
         \A y \in Names : loc[y] = loc[d] => y = d
  PROVE  Sharing'
<1>1. \A y \in Names : loc'[y] = IF y = d THEN q ELSE loc[y]
  BY DEF IInv, TypeOK
<1> SUFFICES ASSUME NEW x \in Params, NEW y \in Params, loc'[x] # 0, x # y, loc'[x] = loc'[y]
             PROVE  \E c \in Callers : loc'[c] = loc'[x]
  BY DEF Sharing, Bound
<1>2. x \in Names /\ y \in Names /\ x # d /\ y # d
  BY DEF Names
<1>3. PICK c \in Callers : loc[c] = loc[x]
  BY <1>1, <1>2 DEF Sharing, Bound
<1>4. c \in Names /\ c # d
  BY <1>2, <1>3 DEF Names
<1> QED BY <1>1, <1>2, <1>3, <1>4

LEMMA SharingStoreBack ==
  ASSUME IInv, Sharing, NEW d \in Live \ Params, NEW s, NEW result, StoreBack(d, s, result)
  PROVE  Sharing'
<1>1. d \in Names \ Params /\ \A y \in Names : loc[y] = loc[d] => y = d
  BY ReceiverAlone
<1>2. CASE loc' = loc
  BY <1>2, SharingStay
<1>3. CASE loc' = [loc EXCEPT ![d] = s.ptr]
  BY <1>1, <1>3, SharingMove
<1> QED BY <1>2, <1>3 DEF StoreBack, Abort

LEMMA SharingNext == ASSUME IInv, Sharing, [Next]_vars PROVE Sharing'
<1>1. ASSUME NEW x \in Names,
             BindLit(x) \/ SetOp(x) \/ DictUpdate(x) \/ Pop(x) \/ PopOr(x) \/ Clear(x) \/ Get(x)
      PROVE  loc' = loc
  BY <1>1 DEF BindLit, SetOp, NewMap, DictUpdate, Pop, PopOr, Clear, Get, TakeOut, Abort
<1>2. ASSUME NEW d \in Names, DictSet(d) \/ SetDefault(d) \/ DictSetOfSetDefault(d) PROVE Sharing'
  <2>1. d \in Live \ Params
    BY <1>2 DEF DictSet, SetDefault, DictSetOfSetDefault, Dicts
  <2>2. loc' = loc \/ \E s, result : StoreBack(d, s, result)
    BY <1>2 DEF DictSet, SetDefault, DictSetOfSetDefault, Abort
  <2> QED BY <2>1, <2>2, SharingStay, SharingStoreBack
<1>3. CASE RunPut \/ WalkStart \/ WalkInsert \/ WalkSkip \/ WalkEnd
  <2>1. loc' = loc
    BY <1>3 DEF RunPut, WalkStart, WalkInsert, WalkSkip, WalkEnd, RunSet, Abort
  <2> QED BY <2>1, SharingStay
<1>4. CASE RunDone
  <2>1. /\ run.dst \in Scope /\ run.dst # NoName
        /\ \A x \in Names : loc[x] = run.r => x = run.dst
        /\ \A y \in Names : loc'[y] = IF y = run.dst THEN run.r ELSE loc[y]
    BY <1>4 DEF RunDone, Running, IInv, RunOK, TypeOK
  <2> SUFFICES ASSUME NEW x \in Params, NEW y \in Params, loc'[x] # 0, x # y, loc'[x] = loc'[y]
               PROVE  \E c \in Callers : loc'[c] = loc'[x]
    BY DEF Sharing, Bound
  <2>2. x \in Names /\ y \in Names
    BY DEF Names
  <2>3. x # run.dst /\ y # run.dst
    BY <2>1, <2>2
  <2>4. PICK c \in Callers : loc[c] = loc[x]
    BY <2>1, <2>2, <2>3 DEF Sharing, Bound
  <2>5. inCall
    BY <2>1, <2>2, <2>3 DEF IInv, OneOwner, Bound
  <2>6. c \in Names /\ c # run.dst
    BY <2>1, <2>4, <2>5, MapsAssumption DEF Scope, Names
  <2> QED BY <2>1, <2>2, <2>3, <2>4, <2>6
<1>5. CASE Call
  <2>1. PICK arg \in [Params -> Live] :
          loc' = [x \in Names |-> IF x \in Params THEN loc[arg[x]]
                                  ELSE IF x \in Callees THEN 0 ELSE loc[x]]
    BY <1>5 DEF Call
  <2>2. \A x \in Params : arg[x] \in Callers /\ x \in Names
    BY <1>5, <2>1 DEF Live, Scope, Call, Names
  <2>3. \A c \in Callers : loc'[c] = loc[c]
    BY <2>1, MapsAssumption DEF Names
  <2>4. \A x \in Params : loc'[x] = loc[arg[x]]
    BY <2>1, <2>2
  <2> QED BY <2>2, <2>3, <2>4 DEF Sharing
<1>6. CASE ReturnMap \/ Return
  <2>1. \A x \in Params : loc'[x] = 0
    BY <1>6, MapsAssumption DEF ReturnMap, Return, Names
  <2> QED BY <2>1 DEF Sharing, Bound
<1>7. CASE ForeignAlloc
  <2>1. loc' = loc
    BY <1>7 DEF ForeignAlloc, Abort
  <2> QED BY <2>1, SharingStay
<1>8. CASE UNCHANGED vars
  BY <1>8, SharingStay DEF vars
<1> QED BY <1>1, <1>2, <1>3, <1>4, <1>5, <1>6, <1>7, <1>8, SharingStay DEF Next, RunStep, Halted

(* One dict_set of a loop, for the loop's own bookkeeping. *)
LEMMA RunSetKeeps ==
  ASSUME IInv, run.dst # NoName, NEW k \in Word, NEW v \in Word, NEW next \in RunType,
         next.dst = run.dst, next.r = run.r, RunSet(k, v, next)
  PROVE  \/ UNCHANGED <<mem, loc, run, inCall, out>> /\ trap' = "oob"
         \/ /\ UNCHANGED <<loc, inCall, out, trap>>
            /\ run'.dst = run.dst /\ run'.i = next.i /\ run'.n = next.n /\ run'.todo = next.todo
            /\ run'.r = run.r \/ run'.r \notin Records
            /\ Stored(mem, run.r, mem', run'.r, k, v)
            /\ \A q \in Records : q # run.r => Copied(mem, q, mem', q)
            /\ dict_has(mem, run.r, k) => run'.r = run.r
<1>1. Good(mem, hp, Records, foreign) /\ run.r \in Records
  BY HeldIsRecord DEF IInv
<1>2. PICK s : s = dict_set(mem, hp, run.r, k, v)
  OBVIOUS
<1>3. CASE s.ok
  <2>1. /\ mem' = s.mem /\ run' = [next EXCEPT !.r = s.ptr]
        /\ UNCHANGED <<loc, inCall, out, trap, foreign>>
    BY <1>2, <1>3 DEF RunSet
  <2>2. /\ run'.r = s.ptr /\ run'.dst = run.dst /\ run'.i = next.i /\ run'.n = next.n
        /\ run'.todo = next.todo
    BY <2>1 DEF RunType
  <2>3. /\ Stored(mem, run.r, s.mem, s.ptr, k, v)
        /\ \A q \in Records : q # run.r => Copied(mem, q, s.mem, q)
    BY <1>1, <1>2, <1>3, SetStored
  <2>4. s.ptr = run.r \/ s.ptr \notin Records
    <3>1. dict_set(mem, hp, run.r, k, v).ok
      BY <1>2, <1>3
    <3> QED BY <1>1, <1>2, <3>1, GoodSet
  <2>5. dict_has(mem, run.r, k) => s.ptr = run.r
    BY <1>2 DEF dict_set
  <2> QED BY <2>1, <2>2, <2>3, <2>4, <2>5
<1>4. CASE ~ s.ok
  BY <1>2, <1>4 DEF RunSet, Abort
<1> QED BY <1>3, <1>4

(* A walk of the loop in progress, as the loop goes on. *)
LEMMA WalkKeptStays ==
  ASSUME IInv, run.dst # NoName, loc' = loc, run'.r = run.r \/ run'.r \notin Records,
         NEW w \in Entry, w.kind = "walk" => Bound(w.src), WalkKept(w),
         run'.todo = run.todo \/ (w.kind = "walk" => loc[w.src] # run.r)
  PROVE  WalkKept(w)'
<1> SUFFICES ASSUME w.kind = "walk"
             PROVE  /\ w.gate # NoName => loc[w.gate] # 0 /\ loc[w.gate] # run'.r
                    /\ loc[w.src] = run'.r => Len(run'.todo) = 1 /\ w.gate = NoName
  BY DEF WalkKept, Bound
<1>1. w.src \in Names /\ w.gate \in Names \cup {NoName}
  BY DEF Entry, Put
<1>2. loc[w.src] \in Records
  BY <1>1, HeldIsRecord
<1>3. w.gate # NoName => Bound(w.gate) /\ loc[w.gate] # run.r /\ loc[w.gate] \in Records
  BY <1>1, HeldIsRecord DEF WalkKept
<1> QED BY <1>2, <1>3 DEF WalkKept, Bound

(* What the head of the work list is. *)
LEMMA RunFacts ==
  ASSUME IInv, LoopKept, run.dst # NoName
  PROVE  /\ run \in RunType
         /\ \A j \in DOMAIN run.todo : /\ run.todo[j] \in Entry /\ WalkKept(run.todo[j])
                                       /\ run.todo[j].kind = "walk" => Bound(run.todo[j].src)
         /\ run.todo # <<>> => /\ 1 \in DOMAIN run.todo /\ Head(run.todo) = run.todo[1]
                               /\ Len(run.todo) \in Nat \ {0} /\ DOMAIN run.todo = 1 .. Len(run.todo)
                               /\ Len(Tail(run.todo)) = Len(run.todo) - 1
                               /\ Tail(run.todo) \in Seq(Entry)
                               /\ \A j \in 1 .. Len(run.todo) - 1 : Tail(run.todo)[j] = run.todo[j + 1]
<1>1. run \in RunType
  BY DEF IInv, TypeOK, RunType
<1>2. run.todo \in Seq(Entry)
  BY <1>1 DEF RunType
<1>3. \A j \in DOMAIN run.todo : run.todo[j] \in Entry
  BY <1>2
<1> QED BY <1>1, <1>2, <1>3 DEF IInv, RunOK, LoopKept

(* The loop goes on with the entries that are left. *)
LEMMA LoopKeptTail ==
  ASSUME IInv, LoopKept, run.dst # NoName, run.todo # <<>>, loc' = loc,
         run'.r = run.r \/ run'.r \notin Records,
         run'.todo = Tail(run.todo), run'.n = -1, run'.i = 0
  PROVE  LoopKept'
<1>1. ASSUME NEW j \in DOMAIN run'.todo PROVE WalkKept(run.todo[j])'
  <2>1. j \in 1 .. Len(run.todo) - 1 /\ j + 1 \in DOMAIN run.todo /\ Len(run.todo) # 1
    BY RunFacts
  <2>2. PICK w : w = run.todo[j + 1]
    OBVIOUS
  <2>3. w = run'.todo[j]
    BY <2>1, <2>2, RunFacts
  <2>4. w \in Entry /\ WalkKept(w) /\ (w.kind = "walk" => Bound(w.src))
    BY <2>1, <2>2, RunFacts
  <2>5. w.kind = "walk" => loc[w.src] # run.r
    BY <2>1, <2>4 DEF WalkKept
  <2>6. WalkKept(w)'
    BY <2>4, <2>5, WalkKeptStays
  <2> QED BY <2>3, <2>6 DEF WalkKept
<1> QED BY <1>1 DEF LoopKept

(* The loop goes on with the entry it is at. *)
LEMMA LoopKeptOn ==
  ASSUME IInv, LoopKept, run.dst # NoName, loc' = loc,
         run'.r = run.r \/ run'.r \notin Records, run'.todo = run.todo,
         run'.n # -1, run'.n = Count(mem', loc[Head(run.todo).src]), run'.i <= run'.n
  PROVE  LoopKept'
<1>1. ASSUME NEW j \in DOMAIN run'.todo PROVE WalkKept(run.todo[j])'
  <2>1. PICK w : w = run.todo[j]
    OBVIOUS
  <2>2. w \in Entry /\ WalkKept(w) /\ (w.kind = "walk" => Bound(w.src))
    BY <2>1, RunFacts
  <2>3. WalkKept(w)'
    BY <2>2, WalkKeptStays
  <2> QED BY <2>1, <2>3 DEF WalkKept
<1> QED BY <1>1 DEF LoopKept

(* No step of a loop disturbs what the loop relies on. *)
LEMMA RunStepKept == ASSUME IInv, LoopKept, RunStep PROVE LoopKept'
<1>1. run \in RunType /\ run.dst # NoName
  BY RunFacts DEF RunStep, RunPut, WalkStart, WalkInsert, WalkSkip, WalkEnd, RunDone, Walking, Running
<1>2. /\ run.n = -1 => run.i = 0
      /\ run.n # -1 => run.n = Count(mem, loc[Head(run.todo).src]) /\ run.i <= run.n
  BY <1>1 DEF LoopKept
<1>3. ASSUME UNCHANGED <<mem, loc, run>> PROVE LoopKept'
  BY <1>3 DEF LoopKept, WalkKept, Bound
<1>4. CASE RunPut
  <2> DEFINE next == [run EXCEPT !.todo = Tail(@)]
  <2>1. run.todo # <<>> /\ Head(run.todo).kind = "put" /\ RunSet(Head(run.todo).k, Head(run.todo).v, next)
    BY <1>4 DEF RunPut
  <2>2. Head(run.todo).k \in Word /\ Head(run.todo).v \in Word
    <3>1. Head(run.todo) \in Entry
      BY <1>1, <2>1, RunFacts
    <3> QED BY <2>1, <3>1, KeysAreWords DEF Entry, Put
  <2>3. /\ next.dst = run.dst /\ next.r = run.r /\ next.i = run.i /\ next.n = run.n
        /\ next.todo = Tail(run.todo) /\ next \in RunType
    BY <1>1, <2>1, RunFacts DEF RunType
  <2> HIDE DEF next
  <2>4. run.n = -1
    BY <1>1, <2>1 DEF IInv, RunOK
  <2>5. CASE UNCHANGED <<mem, loc, run>>
    BY <1>3, <2>5
  <2>6. CASE /\ loc' = loc /\ run'.dst = run.dst /\ run'.i = next.i /\ run'.n = next.n
             /\ run'.todo = next.todo
             /\ run'.r = run.r \/ run'.r \notin Records
    BY <1>1, <1>2, <2>1, <2>3, <2>4, <2>6, LoopKeptTail
  <2> QED BY <1>1, <2>1, <2>2, <2>3, <2>5, <2>6, RunSetKeeps
<1>5. CASE WalkStart
  <2>1. /\ run'.i = 0 /\ run'.n = Count(mem, loc[Head(run.todo).src]) /\ run'.todo = run.todo
        /\ run'.r = run.r /\ UNCHANGED <<mem, loc>>
    BY <1>1, <1>5 DEF WalkStart, RunType
  <2>2. run.todo # <<>> /\ Head(run.todo).kind = "walk"
    BY <1>5 DEF WalkStart, Walking
  <2>3. Head(run.todo).src \in Names /\ Bound(Head(run.todo).src)
    BY <1>1, <2>2, RunFacts DEF Entry, Put
  <2>4. Count(mem, loc[Head(run.todo).src]) \in Nat
    BY <2>3, HeldIsRecord DEF IInv, Good, WellFormed
  <2> QED BY <1>1, <2>1, <2>4, LoopKeptOn
<1>6. CASE WalkInsert
  <2> DEFINE next == [run EXCEPT !.i = @ + 1]
  <2>1. /\ run.todo # <<>> /\ Head(run.todo).kind = "walk" /\ run.n # -1 /\ run.i < run.n
        /\ RunSet(WalkKey, WalkVal, next)
    BY <1>6 DEF WalkInsert, Walking
  <2>2. /\ WalkKey \in Word /\ WalkVal \in Word
        /\ Head(run.todo).src \in Names /\ Bound(Head(run.todo).src)
        /\ run.i \in Slots(mem, loc[Head(run.todo).src])
    BY <1>1, <2>1, WalkWords
  <2>3. /\ next.dst = run.dst /\ next.r = run.r /\ next.i = run.i + 1 /\ next.n = run.n
        /\ next.todo = run.todo /\ next \in RunType
    BY <1>1 DEF RunType
  <2> HIDE DEF next
  <2>4. PICK p : p = loc[Head(run.todo).src]
    OBVIOUS
  <2>5. p \in Records
    BY <2>2, <2>4, HeldIsRecord
  <2>6. CASE UNCHANGED <<mem, loc, run>>
    BY <1>3, <2>6
  <2>7. CASE /\ loc' = loc /\ run'.dst = run.dst /\ run'.i = next.i /\ run'.n = next.n
             /\ run'.todo = next.todo
             /\ run'.r = run.r \/ run'.r \notin Records
             /\ Stored(mem, run.r, mem', run'.r, WalkKey, WalkVal)
             /\ \A q \in Records : q # run.r => Copied(mem, q, mem', q)
             /\ dict_has(mem, run.r, WalkKey) => run'.r = run.r
    <3>1. Count(mem', p) = Count(mem, p)
      <4>1. CASE p # run.r
        BY <2>5, <2>7, <4>1 DEF Copied
      <4>2. CASE p = run.r
        <5>1. dict_has(mem, run.r, WalkKey)
          BY <2>2, <2>4, <4>2, LoadedKey DEF WalkKey, dict_has, same_key
        <5> QED BY <2>7, <4>2, <5>1 DEF Stored
      <4> QED BY <4>1, <4>2
    <3>2. run.i + 1 <= run.n
      BY <1>1, <2>1 DEF RunType
    <3> QED BY <1>1, <1>2, <2>1, <2>3, <2>4, <2>7, <3>1, <3>2, LoopKeptOn
  <2>8. /\ run.dst # NoName /\ WalkKey \in Word /\ WalkVal \in Word /\ next \in RunType
        /\ next.dst = run.dst /\ next.r = run.r /\ RunSet(WalkKey, WalkVal, next)
    BY <1>1, <2>1, <2>2, <2>3
  <2>9. PICK k \in Word, v \in Word : k = WalkKey /\ v = WalkVal
    BY <2>2
  <2>10. RunSet(k, v, next)
    BY <2>8, <2>9
  <2> QED BY <2>6, <2>7, <2>8, <2>9, <2>10, RunSetKeeps
<1>7. CASE WalkSkip
  <2>1. /\ run'.i = run.i + 1 /\ run'.n = run.n /\ run'.todo = run.todo
        /\ run'.r = run.r /\ UNCHANGED <<mem, loc>> /\ run.n # -1 /\ run.i < run.n
    BY <1>1, <1>7 DEF WalkSkip, RunType
  <2>2. run.i + 1 <= run.n
    BY <1>1, <2>1 DEF RunType
  <2> QED BY <1>1, <1>2, <2>1, <2>2, LoopKeptOn
<1>8. CASE WalkEnd
  <2>1. /\ run'.i = 0 /\ run'.n = -1 /\ run'.todo = Tail(run.todo)
        /\ run'.r = run.r /\ UNCHANGED <<mem, loc>> /\ run.todo # <<>>
    BY <1>1, <1>8 DEF WalkEnd, Walking, RunType
  <2> QED BY <1>1, <2>1, LoopKeptTail
<1>9. CASE RunDone
  BY <1>9 DEF RunDone, IdleRun, LoopKept
<1> QED BY <1>4, <1>5, <1>6, <1>7, <1>8, <1>9 DEF RunStep

(* A loop that has just begun on a region nobody holds yet. *)
LEMMA LoopKeptNew ==
  ASSUME IInv, NEW x, NEW cap, NEW todo, NewMap(x, cap, todo), run.dst = NoName,
         \A j \in DOMAIN todo : todo[j].kind = "walk" =>
            /\ todo[j].src \in Names /\ Bound(todo[j].src)
            /\ todo[j].gate # NoName => todo[j].gate \in Names /\ Bound(todo[j].gate)
  PROVE  LoopKept'
<1>1. CASE UNCHANGED run
  BY <1>1 DEF LoopKept
<1>2. CASE run' = Start(x, hp, todo) /\ loc' = loc
  <2>1. \A q \in Records : q # hp
    <3>1. \A q \in Records : q \in Nat /\ Cap(mem, q) \in Nat /\ q + 2 * Cap(mem, q) < hp /\ hp \in Nat
      BY HeapAssumption DEF IInv, Good, WellFormed, Page, TypeOK
    <3> QED BY <3>1
  <2>2. \A y \in Names : Bound(y) => loc[y] # hp
    BY <2>1, HeldIsRecord
  <2> QED BY <1>2, <2>2 DEF LoopKept, WalkKept, Start, Bound
<1> QED BY <1>1, <1>2 DEF NewMap, Abort

LEMMA LoopKeptNext == ASSUME IInv, LoopKept, [Next]_vars PROVE LoopKept'
<1>1. ASSUME NEW x \in Names, BindLit(x) PROVE LoopKept'
  <2>1. PICK len \in 0 .. MaxItems : \E todo \in [1 .. len -> EntriesOf(x)] :
          NewMap(x, Explicit(todo) + Slack, todo)
    BY <1>1 DEF BindLit
  <2>2. PICK todo \in [1 .. len -> EntriesOf(x)] : NewMap(x, Explicit(todo) + Slack, todo)
    BY <2>1
  <2>3. ASSUME NEW j \in DOMAIN todo, todo[j].kind = "walk"
        PROVE  todo[j].src \in Names /\ Bound(todo[j].src) /\ todo[j].gate = NoName
    <3>1. todo[j] \in EntriesOf(x)
      BY <2>2, <2>3
    <3> QED BY <2>3, <3>1 DEF EntriesOf, Put, Walk, Dicts, Live, Scope, Names
  <2> QED BY <1>1, <2>2, <2>3, LoopKeptNew DEF BindLit, Ready
<1>2. ASSUME NEW x \in Names, SetOp(x) PROVE LoopKept'
  <2>1. PICK op \in {"union", "intersection", "difference", "symdiff"}, a \in Sets, b \in Sets :
          NewMap(x, AlgebraCap(op, a, b), WalksOf(op, a, b))
    BY <1>2 DEF SetOp
  <2>2. a \in Names /\ b \in Names /\ Bound(a) /\ Bound(b)
    BY DEF Sets, Live, Scope, Names
  <2>3. \A j \in DOMAIN WalksOf(op, a, b) :
          /\ WalksOf(op, a, b)[j].src \in {a, b}
          /\ WalksOf(op, a, b)[j].gate \in {a, b, NoName}
    <3>1. CASE op = "union"
      BY <3>1 DEF WalksOf, Walk
    <3>2. CASE op = "intersection"
      BY <3>2 DEF WalksOf, Walk
    <3>3. CASE op = "difference"
      BY <3>3 DEF WalksOf, Walk
    <3>4. CASE op = "symdiff"
      BY <3>4 DEF WalksOf, Walk
    <3> QED BY <3>1, <3>2, <3>3, <3>4
  <2> QED BY <1>2, <2>1, <2>2, <2>3, LoopKeptNew DEF SetOp, Ready
<1>3. ASSUME NEW d \in Names, DictUpdate(d) PROVE LoopKept'
  <2>1. PICK e : run' = Start(d, loc[d], <<Walk(e, NoName, TRUE)>>)
    BY <1>3 DEF DictUpdate
  <2> QED BY <2>1 DEF LoopKept, WalkKept, Start, Walk
<1>4. ASSUME run.dst = NoName, run' = run PROVE LoopKept'
  BY <1>4 DEF LoopKept
<1>5. ASSUME NEW d \in Names,
             \/ DictSet(d) \/ SetDefault(d) \/ DictSetOfSetDefault(d)
             \/ Pop(d) \/ PopOr(d) \/ Clear(d) \/ Get(d)
      PROVE  run.dst = NoName /\ run' = run
  <2>1. CASE DictSet(d)
    BY <2>1 DEF DictSet, StoreBack, Abort, Ready
  <2>2. CASE SetDefault(d)
    BY <2>2 DEF SetDefault, StoreBack, Abort, Ready
  <2>3. CASE DictSetOfSetDefault(d)
    BY <2>3 DEF DictSetOfSetDefault, StoreBack, Abort, Ready
  <2>4. CASE Pop(d) \/ PopOr(d) \/ Clear(d) \/ Get(d)
    BY <2>4 DEF Pop, PopOr, Clear, Get, TakeOut, Abort, Ready
  <2> QED BY <1>5, <2>1, <2>2, <2>3, <2>4
<1>6. CASE Call \/ ReturnMap \/ Return \/ ForeignAlloc
  <2>1. run.dst = NoName /\ run' = run
    BY <1>6 DEF Call, ReturnMap, Return, ForeignAlloc, Abort, Ready
  <2> QED BY <1>4, <2>1
<1>7. CASE RunStep
  BY <1>7, RunStepKept
<1>8. CASE UNCHANGED vars
  BY <1>8 DEF vars, LoopKept, WalkKept, Bound
<1> QED BY <1>1, <1>2, <1>3, <1>4, <1>5, <1>6, <1>7, <1>8 DEF Next, Halted

(* The four parts hold together in every state. *)
LEMMA RInvHolds == ASSUME ~ EmptyAlgebra PROVE Spec => []RInv
<1>1. Init => Sharing /\ LoopKept
  BY DEF Init, Sharing, LoopKept, Bound, IdleRun, Names
<1>2. IInv /\ Sharing /\ LoopKept /\ [Next]_vars => Sharing' /\ LoopKept'
  BY SharingNext, LoopKeptNext
<1> QED BY <1>1, <1>2, IInvHolds, KeysStayDistinct, PTL DEF Spec, RInv

-----------------------------------------------------------------------------
(* The refinement mapping, step by step.  The lemmas speak of any memory m   *)
(* and locals l: of the ones before a step as of the ones after it.          *)

(* Owner and PyRef, of any locals l while the loop builds t. *)
OwnsIn(l, t, x) == x \notin Params \/ x = t \/ \A c \in Callers : l[c] # l[x] \/ l[c] = 0

RefsIn(l, t) == [x \in Names |-> IF OwnsIn(l, t, x) THEN x ELSE CHOOSE c \in Callers : l[c] = l[x]]

LEMMA RefNow ==
  /\ PyRef = RefsIn(loc, run.dst) /\ PyRef' = RefsIn(loc', run'.dst)
  /\ \A x : Owner(x) <=> OwnsIn(loc, run.dst, x)
  /\ \A x : Owner(x)' <=> OwnsIn(loc', run'.dst, x)
BY DEF PyRef, RefsIn, Owner, OwnsIn, Bound

(* A caller's local stands for itself alone. *)
LEMMA CallersApart ==
  ASSUME IInv, NEW c \in Callers, NEW e \in Callers, loc[c] # 0, loc[c] = loc[e] PROVE c = e
<1>1. c \in Names /\ e \in Names /\ c \notin Params /\ e \notin Params
  BY MapsAssumption DEF Names
<1> QED BY <1>1 DEF IInv, OneOwner, Bound

(* The object a parameter holds is its caller's. *)
LEMMA RefIs ==
  ASSUME NEW l, NEW t, NEW x \in Names, ~ OwnsIn(l, t, x),
         \A c, e \in Callers : l[c] # 0 /\ l[c] = l[e] => c = e,
         NEW c \in Callers, l[c] = l[x]
  PROVE  RefsIn(l, t)[x] = c
<1>1. l[x] # 0
  BY DEF OwnsIn
<1>2. \A e \in Callers : l[e] = l[x] => e = c
  BY <1>1
<1>3. (CHOOSE e \in Callers : l[e] = l[x]) = c
  BY <1>2
<1> QED BY <1>3 DEF RefsIn

(* Who holds whose object depends on which locals are equal, and on nothing  *)
(* else about them.                                                          *)
LEMMA RefsStay ==
  ASSUME NEW l, NEW l2, NEW t,
         \A x, y \in Names : l2[x] = l2[y] <=> l[x] = l[y],
         \A x \in Names : l2[x] = 0 <=> l[x] = 0,
         \A c, e \in Callers : l[c] # 0 /\ l[c] = l[e] => c = e
  PROVE  /\ \A x \in Names : OwnsIn(l2, t, x) <=> OwnsIn(l, t, x)
         /\ RefsIn(l2, t) = RefsIn(l, t)
<1>1. \A c \in Callers : c \in Names
  BY DEF Names
<1>2. \A x \in Names : OwnsIn(l2, t, x) <=> OwnsIn(l, t, x)
  BY <1>1 DEF OwnsIn
<1>3. ASSUME NEW x \in Names PROVE RefsIn(l2, t)[x] = RefsIn(l, t)[x]
  <2>1. CASE OwnsIn(l, t, x)
    BY <1>2, <2>1 DEF RefsIn
  <2>2. CASE ~ OwnsIn(l, t, x)
    <3>1. PICK c \in Callers : l[c] = l[x]
      BY <2>2 DEF OwnsIn
    <3>2. RefsIn(l, t)[x] = c
      BY <2>2, <3>1, RefIs
    <3>3. ~ OwnsIn(l2, t, x) /\ l2[c] = l2[x]
      BY <1>1, <1>2, <2>2, <3>1
    <3>4. \A d, e \in Callers : l2[d] # 0 /\ l2[d] = l2[e] => d = e
      BY <1>1
    <3>5. RefsIn(l2, t)[x] = c
      BY <3>3, <3>4, RefIs
    <3> QED BY <3>2, <3>5
  <2> QED BY <2>1, <2>2
<1>4. RefsIn(l2, t) = [x \in Names |-> RefsIn(l2, t)[x]] /\ RefsIn(l, t) = [x \in Names |-> RefsIn(l, t)[x]]
  BY DEF RefsIn
<1> QED BY <1>2, <1>3, <1>4

(* Between statements every bound name stands for the contents of its        *)
(* record, and one name owns each record.                                    *)
LEMMA RefTo ==
  ASSUME RInv, run.dst = NoName, NEW x \in Names, Bound(x)
  PROVE  /\ PyRef[x] \in Names /\ Bound(PyRef[x]) /\ Owner(PyRef[x]) /\ loc[PyRef[x]] = loc[x]
         /\ PyObj[PyRef[x]] = Contents(loc[x])
         /\ x \notin Params => PyRef[x] = x
         /\ \A y \in Names : Owner(y) /\ loc[y] = loc[x] => y = PyRef[x]
<1>1. IInv /\ Sharing /\ NoName \notin Names
  BY MapsAssumption DEF RInv
<1>2. \A c, e \in Callers : loc[c] # 0 /\ loc[c] = loc[e] => c = e
  BY <1>1, CallersApart
<1>3. \A c \in Callers : c \in Names /\ c \notin Params
  BY MapsAssumption DEF Names
<1>4. /\ PyRef[x] \in Names /\ Owner(PyRef[x]) /\ loc[PyRef[x]] = loc[x]
      /\ x \notin Params => PyRef[x] = x
  <2>1. CASE Owner(x)
    BY <2>1 DEF PyRef
  <2>2. CASE ~ Owner(x)
    <3>1. PICK c \in Callers : loc[c] = loc[x]
      BY <2>2 DEF Owner
    <3>2. PyRef[x] = c
      BY <1>2, <2>2, <3>1, RefNow, RefIs
    <3> QED BY <1>3, <2>2, <3>1, <3>2 DEF Owner
  <2> QED BY <2>1, <2>2
<1>5. Bound(PyRef[x])
  BY <1>4 DEF Bound
<1>6. PyObj[PyRef[x]] = Contents(loc[x])
  BY <1>1, <1>4, <1>5 DEF PyObj
<1>7. ASSUME NEW y \in Names, Owner(y), NEW z \in Names, Owner(z), loc[y] = loc[x], loc[z] = loc[x], y # z
      PROVE  FALSE
  <2>1. Bound(y) /\ Bound(z) /\ y # run.dst /\ z # run.dst
    BY <1>1, <1>7 DEF Bound
  <2>2. \/ y \in Params /\ z \in Params \cup Callers
        \/ z \in Params /\ y \in Callers
    BY <1>1, <1>7, <2>1 DEF IInv, OneOwner
  <2>3. CASE y \in Params /\ z \in Params
    <3>1. \E c \in Callers : loc[c] = loc[y]
      BY <1>1, <1>7, <2>1, <2>3 DEF Sharing
    <3> QED BY <1>7, <2>1, <2>3, <3>1 DEF Owner, Bound
  <2>4. CASE y \in Params /\ z \in Callers
    BY <1>7, <2>1, <2>4 DEF Owner, Bound
  <2>5. CASE z \in Params /\ y \in Callers
    BY <1>7, <2>1, <2>5 DEF Owner, Bound
  <2> QED BY <2>2, <2>3, <2>4, <2>5
<1> QED BY <1>4, <1>5, <1>6, <1>7

(* PyObj before and after a step, in terms of what the records spell. *)
LEMMA ObjForm ==
  /\ PyObj = [x \in Names |-> PyObj[x]] /\ PyObj' = [x \in Names |-> PyObj'[x]]
  /\ DOMAIN PyObj = Names
  /\ \A x \in Names : PyObj[x] = IF x = run.dst THEN Overlay(Pieces)
                                 ELSE IF Bound(x) /\ Owner(x) THEN Contents(loc[x]) ELSE <<>>
  /\ \A x \in Names : PyObj'[x] = IF x = run'.dst THEN Overlay(Pieces)'
                                  ELSE IF loc'[x] # 0 /\ OwnsIn(loc', run'.dst, x)
                                       THEN Spelled(mem', loc'[x]) ELSE <<>>
<1>1. /\ PyObj = [x \in Names |-> PyObj[x]] /\ PyObj' = [x \in Names |-> PyObj'[x]]
      /\ DOMAIN PyObj = Names
  BY DEF PyObj
<1>2. \A x \in Names : PyObj[x] = IF x = run.dst THEN Overlay(Pieces)
                                 ELSE IF Bound(x) /\ Owner(x) THEN Contents(loc[x]) ELSE <<>>
  BY DEF PyObj
<1>3. \A x \in Names : PyObj'[x] = IF x = run'.dst THEN Overlay(Pieces)'
                                  ELSE IF loc'[x] # 0 /\ OwnsIn(loc', run'.dst, x)
                                       THEN Spelled(mem', loc'[x]) ELSE <<>>
  BY DEF PyObj, Bound, Owner, OwnsIn, Contents, Spelled
<1> QED BY <1>1, <1>2, <1>3

(* PyBound before and after a step. *)
LEMMA BoundNow ==
  /\ PyBound = {x \in Names : loc[x] # 0 \/ x = run.dst}
  /\ PyBound' = {x \in Names : loc'[x] # 0 \/ x = run'.dst}
  /\ NoName \notin Names
BY MapsAssumption DEF PyBound, Bound

(* What a record spells does not change while its words do not. *)
LEMMA CopiedSpelled ==
  ASSUME RInv, NEW p \in Records, NEW q, Copied(mem, p, mem', q)
  PROVE  Spelled(mem', q) = Contents(p)
<1>1. Distinct(mem, p)
  BY DEF RInv, KeysDistinct, Distinct
<1>2. 0 \in Nat
  OBVIOUS
<1>3. Entries(mem', q, 0) = Entries(mem, p, 0)
  BY <1>1, <1>2, CopiedEntries
<1> QED BY <1>3 DEF Spelled, Contents

(* A statement about d's record: it may move, and d's object is what it      *)
(* spells then; every other object stays what it was.                        *)
LEMMA ObjUpdate ==
  ASSUME RInv, run.dst = NoName, run'.dst = NoName, NEW d \in Names, Bound(d),
         \A y \in Names : loc'[y] = IF loc[y] = loc[d] THEN loc'[d] ELSE loc[y],
         loc'[d] # 0, \A y \in Names : loc[y] = loc'[d] => loc[y] = loc[d],
         \A p \in Records : p # loc[d] => Copied(mem, p, mem', p)
  PROVE  /\ PyBound' = PyBound /\ PyRef' = PyRef
         /\ PyObj' = [PyObj EXCEPT ![PyRef[d]] = Spelled(mem', loc'[d])]
<1>1. \A x, y \in Names : loc'[x] = loc'[y] <=> loc[x] = loc[y]
  OBVIOUS
<1>2. \A x \in Names : loc'[x] = 0 <=> loc[x] = 0
  BY DEF Bound
<1>3. \A c, e \in Callers : loc[c] # 0 /\ loc[c] = loc[e] => c = e
  BY CallersApart DEF RInv
<1>4. /\ \A x \in Names : OwnsIn(loc', NoName, x) <=> Owner(x)
      /\ PyRef' = PyRef
  <2>1. PICK l2 : l2 = loc'
    OBVIOUS
  <2>2. /\ \A x \in Names : OwnsIn(l2, NoName, x) <=> OwnsIn(loc, NoName, x)
        /\ RefsIn(l2, NoName) = RefsIn(loc, NoName)
    BY <1>1, <1>2, <1>3, <2>1, RefsStay
  <2> QED BY <2>1, <2>2, RefNow
<1>5. PyBound' = PyBound
  BY <1>2, BoundNow
<1>6. /\ PyRef[d] \in Names /\ Bound(PyRef[d]) /\ Owner(PyRef[d]) /\ loc[PyRef[d]] = loc[d]
      /\ \A y \in Names : Owner(y) /\ loc[y] = loc[d] => y = PyRef[d]
  BY RefTo
<1>7. ASSUME NEW x \in Names
      PROVE  PyObj'[x] = IF x = PyRef[d] THEN Spelled(mem', loc'[d]) ELSE PyObj[x]
  <2>1. x # run.dst /\ x # run'.dst
    BY BoundNow
  <2>2. CASE x = PyRef[d]
    BY <1>2, <1>4, <1>6, <2>1, <2>2, ObjForm DEF Bound
  <2>3. CASE x # PyRef[d] /\ Bound(x) /\ Owner(x)
    <3>1. loc[x] # loc[d] /\ loc[x] \in Records
      BY <1>6, <2>3, HeldIsRecord DEF RInv
    <3>2. Spelled(mem', loc[x]) = Contents(loc[x])
      BY <3>1, CopiedSpelled
    <3> QED BY <1>2, <1>4, <2>1, <2>3, <3>1, <3>2, ObjForm DEF Bound
  <2>4. CASE x # PyRef[d] /\ ~ (Bound(x) /\ Owner(x))
    BY <1>2, <1>4, <2>1, <2>4, ObjForm DEF Bound
  <2> QED BY <2>2, <2>3, <2>4
<1>8. PyObj' = [PyObj EXCEPT ![PyRef[d]] = Spelled(mem', loc'[d])]
  <2>1. PICK f : f = PyObj'
    OBVIOUS
  <2>2. /\ f = [x \in Names |-> f[x]]
        /\ \A x \in Names : f[x] = IF x = PyRef[d] THEN Spelled(mem', loc'[d]) ELSE PyObj[x]
    BY <1>7, <2>1, ObjForm
  <2>3. PICK g : g = PyObj
    OBVIOUS
  <2>4. g = [x \in Names |-> g[x]]
    BY <2>3, ObjForm
  <2>5. f = [g EXCEPT ![PyRef[d]] = Spelled(mem', loc'[d])]
    BY <1>6, <2>2, <2>3, <2>4
  <2> QED BY <2>1, <2>3, <2>5
<1> QED BY <1>4, <1>5, <1>8

(* A step between statements that leaves the records and the locals alone. *)
LEMMA Unmoved ==
  ASSUME RInv, run.dst = NoName, run'.dst = NoName, loc' = loc,
         \A p \in Records : Copied(mem, p, mem', p)
  PROVE  PyBound' = PyBound /\ PyRef' = PyRef /\ PyObj' = PyObj
<1>1. PyRef' = PyRef /\ PyBound' = PyBound
  BY RefNow, BoundNow
<1>2. ASSUME NEW x \in Names PROVE PyObj'[x] = PyObj[x]
  <2>1. x # run.dst /\ x # run'.dst
    BY BoundNow
  <2>2. OwnsIn(loc', run'.dst, x) <=> Owner(x)
    BY RefNow
  <2>3. CASE Bound(x)
    <3>1. Spelled(mem', loc[x]) = Contents(loc[x])
      BY <2>3, HeldIsRecord, CopiedSpelled DEF RInv
    <3> QED BY <2>1, <2>2, <2>3, <3>1, ObjForm DEF Bound
  <2>4. CASE ~ Bound(x)
    BY <2>1, <2>2, <2>4, ObjForm DEF Bound
  <2> QED BY <2>3, <2>4
<1> QED BY <1>1, <1>2, ObjForm

(* The begin of a loop for x: its object is what the loop will have built,   *)
(* at once.                                                                  *)
LEMMA BindStart ==
  ASSUME RInv, run.dst = NoName, NEW x \in Names, run'.dst = x, loc' = loc,
         \A p \in Records : Copied(mem, p, mem', p)
  PROVE  /\ PyBound' = PyBound \cup {x} /\ PyRef' = [PyRef EXCEPT ![x] = x]
         /\ PyObj' = [PyObj EXCEPT ![x] = Overlay(Pieces)']
<1>1. PyBound' = PyBound \cup {x}
  BY BoundNow
<1>2. ASSUME NEW y \in Names PROVE OwnsIn(loc', run'.dst, y) <=> y = x \/ Owner(y)
  BY BoundNow DEF OwnsIn, Owner, Bound
<1>3. PyRef' = [PyRef EXCEPT ![x] = x]
  <2>1. \A y \in Names : PyRef'[y] = IF y = x THEN x ELSE PyRef[y]
    BY <1>2, RefNow DEF RefsIn
  <2>2. PyRef' = [y \in Names |-> PyRef'[y]] /\ PyRef = [y \in Names |-> PyRef[y]]
    BY DEF PyRef
  <2>3. PICK f : f = PyRef'
    OBVIOUS
  <2>4. PICK g : g = PyRef
    OBVIOUS
  <2>5. f = [g EXCEPT ![x] = x]
    BY <2>1, <2>2, <2>3, <2>4
  <2> QED BY <2>3, <2>4, <2>5
<1>4. ASSUME NEW y \in Names PROVE PyObj'[y] = IF y = x THEN Overlay(Pieces)' ELSE PyObj[y]
  <2>1. y # run.dst
    BY BoundNow
  <2>2. CASE y = x
    BY <2>2, ObjForm
  <2>3. CASE y # x /\ Bound(y)
    <3>1. Spelled(mem', loc[y]) = Contents(loc[y])
      BY <2>3, HeldIsRecord, CopiedSpelled DEF RInv
    <3> QED BY <1>2, <2>1, <2>3, <3>1, ObjForm DEF Bound
  <2>4. CASE y # x /\ ~ Bound(y)
    BY <2>1, <2>4, ObjForm DEF Bound
  <2> QED BY <2>2, <2>3, <2>4
<1>5. PyObj' = [PyObj EXCEPT ![x] = Overlay(Pieces)']
  <2>1. PICK f : f = PyObj'
    OBVIOUS
  <2>2. PICK g : g = PyObj
    OBVIOUS
  <2>3. PICK o : o = Overlay(Pieces)'
    OBVIOUS
  <2>4. /\ f = [y \in Names |-> f[y]] /\ g = [y \in Names |-> g[y]]
        /\ \A y \in Names : f[y] = IF y = x THEN o ELSE g[y]
    BY <1>4, <2>1, <2>2, <2>3, ObjForm
  <2>5. f = [g EXCEPT ![x] = o]
    BY <2>4
  <2> QED BY <2>1, <2>2, <2>3, <2>5
<1> QED BY <1>1, <1>3, <1>5

(* A step inside a loop: the object the loop builds is what it was. *)
LEMMA LoopOn ==
  ASSUME RInv, run.dst # NoName, run'.dst = run.dst, loc' = loc,
         \A p \in Records : p # run.r => Copied(mem, p, mem', p),
         Overlay(Pieces)' = Overlay(Pieces)
  PROVE  PyBound' = PyBound /\ PyRef' = PyRef /\ PyObj' = PyObj
<1>1. PyRef' = PyRef /\ PyBound' = PyBound
  BY RefNow, BoundNow
<1>2. ASSUME NEW x \in Names PROVE PyObj'[x] = PyObj[x]
  <2>1. OwnsIn(loc', run'.dst, x) <=> Owner(x)
    BY RefNow
  <2>2. CASE x = run.dst
    BY <2>2, ObjForm
  <2>3. CASE x # run.dst /\ Bound(x)
    <3>1. loc[x] \in Records /\ loc[x] # run.r
      BY <2>3, HeldIsRecord DEF RInv, IInv, RunOK
    <3>2. Spelled(mem', loc[x]) = Contents(loc[x])
      BY <3>1, CopiedSpelled
    <3> QED BY <2>1, <2>3, <3>2, ObjForm DEF Bound
  <2>4. CASE x # run.dst /\ ~ Bound(x)
    BY <2>1, <2>4, ObjForm DEF Bound
  <2> QED BY <2>2, <2>3, <2>4
<1> QED BY <1>1, <1>2, ObjForm

-----------------------------------------------------------------------------
(* What the entries of a loop in progress contribute.                        *)

(* Gives and Pieces, of any memory, locals and loop. *)
Kept(m, l, w, rest) ==
  {k \in DOMAIN rest : w.gate # NoName => ((k \in DOMAIN Spelled(m, l[w.gate])) = w.want)}

Given(dst, rest, K) == [k \in K |-> IF dst \in SetNames THEN Zero ELSE rest[k]]

GivesIn(m, l, dst, w, i) ==
  IF w.kind = "put" THEN Single(KeyOf(w.k), w.v)
  ELSE Given(dst, Entries(m, l[w.src], i), Kept(m, l, w, Entries(m, l[w.src], i)))

PiecesIn(m, l, r) ==
  [j \in 1 .. Len(r.todo) + 1 |->
     IF j = 1 THEN Spelled(m, r.r)
     ELSE GivesIn(m, l, r.dst, r.todo[j - 1], IF j = 2 THEN r.i ELSE 0)]

LEMMA PiecesNow ==
  /\ Overlay(Pieces) = Overlay(PiecesIn(mem, loc, run))
  /\ Overlay(Pieces)' = Overlay(PiecesIn(mem', loc', run'))
<1>1. Pieces = PiecesIn(mem, loc, run)
  BY DEF Pieces, PiecesIn, Gives, GivesIn, Contents, Spelled, Kept, Given
<1>2. Pieces' = PiecesIn(mem', loc', run')
  BY DEF Pieces, PiecesIn, Gives, GivesIn, Contents, Spelled, Kept, Given
<1> QED BY <1>1, <1>2

(* The same slots, the same entries. *)
LEMMA SameSlots ==
  ASSUME NEW m, NEW n, NEW p, NEW i \in Nat, Distinct(m, p), Distinct(n, p), Count(n, p) = Count(m, p),
         \A j \in From(m, p, i) : /\ n[KeyAddr(p, j)] = m[KeyAddr(p, j)]
                                  /\ n[ValAddr(p, j)] = m[ValAddr(p, j)]
  PROVE  Entries(n, p, i) = Entries(m, p, i)
<1>1. Spells(Entries(m, p, i), m, p, i) /\ Spells(Entries(n, p, i), n, p, i)
  BY EntriesOn
<1>2. From(n, p, i) = From(m, p, i)
  BY DEF From
<1>3. PICK e : e = Entries(n, p, i)
  OBVIOUS
<1>4. Spells(e, m, p, i)
  BY <1>1, <1>2, <1>3 DEF Spells
<1> QED BY <1>1, <1>3, <1>4, SpellsOne

(* An entry gives the same as long as what it walks spells the same. *)
LEMMA GivesSame ==
  ASSUME NEW m, NEW n, NEW l, NEW dst, NEW w, NEW i,
         w.kind = "put" \/ /\ Entries(n, l[w.src], i) = Entries(m, l[w.src], i)
                           /\ w.gate # NoName => Spelled(n, l[w.gate]) = Spelled(m, l[w.gate])
  PROVE  GivesIn(n, l, dst, w, i) = GivesIn(m, l, dst, w, i)
<1>1. CASE w.kind = "put"
  BY <1>1 DEF GivesIn
<1>2. CASE ~ (w.kind = "put")
  <2>1. PICK rest : rest = Entries(m, l[w.src], i)
    OBVIOUS
  <2>2. Kept(n, l, w, rest) = Kept(m, l, w, rest)
    BY <1>2 DEF Kept
  <2> QED BY <1>2, <2>1, <2>2 DEF GivesIn
<1> QED BY <1>1, <1>2

(* A walk past its end has nothing left to give. *)
LEMMA GivesNothing ==
  ASSUME NEW m, NEW l, NEW dst, NEW w, w.kind = "walk", NEW i \in Nat, Distinct(m, l[w.src]),
         Count(m, l[w.src]) \in Nat, i >= Count(m, l[w.src])
  PROVE  DOMAIN GivesIn(m, l, dst, w, i) = {}
<1>1. Spells(Entries(m, l[w.src], i), m, l[w.src], i)
  BY EntriesOn
<1>2. From(m, l[w.src], i) = {}
  BY DEF From
<1>3. DOMAIN Entries(m, l[w.src], i) = {}
  BY <1>1, <1>2 DEF Spells
<1> QED BY <1>3 DEF GivesIn, Given, Kept

(* The entries from slot i on are the one in slot i under the later ones. *)
LEMMA EntriesStep ==
  ASSUME NEW m, NEW p, NEW i \in Nat, Distinct(m, p), Count(m, p) \in Nat, i < Count(m, p),
         NEW k, k = KeyOf(m[KeyAddr(p, i)])
  PROVE  /\ DOMAIN Entries(m, p, i) = DOMAIN Entries(m, p, i + 1) \cup {k}
         /\ k \notin DOMAIN Entries(m, p, i + 1)
         /\ Entries(m, p, i)[k] = m[ValAddr(p, i)]
         /\ \A x \in DOMAIN Entries(m, p, i + 1) : Entries(m, p, i)[x] = Entries(m, p, i + 1)[x]
<1>1. PICK e : e = Entries(m, p, i)
  OBVIOUS
<1>2. PICK f : f = Entries(m, p, i + 1)
  OBVIOUS
<1>3. Spells(e, m, p, i) /\ Spells(f, m, p, i + 1)
  BY <1>1, <1>2, EntriesOn
<1>4. From(m, p, i) = From(m, p, i + 1) \cup {i} /\ i \notin From(m, p, i + 1)
      /\ From(m, p, i) \subseteq Slots(m, p)
  BY DEF From, Slots
<1>5. k \notin DOMAIN f
  BY <1>3, <1>4 DEF Spells, Distinct
<1>6. DOMAIN e = DOMAIN f \cup {k} /\ e[k] = m[ValAddr(p, i)]
  BY <1>3, <1>4 DEF Spells
<1>7. \A x \in DOMAIN f : e[x] = f[x]
  BY <1>3, <1>4 DEF Spells
<1> QED BY <1>1, <1>2, <1>5, <1>6, <1>7

(* The walk w is at slot i, which holds k and would give v. *)
At(m, l, dst, w, i, k, v) ==
  /\ w.kind = "walk" /\ Distinct(m, l[w.src]) /\ Count(m, l[w.src]) \in Nat
  /\ i \in Nat /\ i < Count(m, l[w.src])
  /\ k = KeyOf(m[KeyAddr(l[w.src], i)])
  /\ v = IF dst \in SetNames THEN Zero ELSE m[ValAddr(l[w.src], i)]

(* The gate of w lets k pass. *)
Passes(m, l, w, k) == w.gate # NoName => ((k \in DOMAIN Spelled(m, l[w.gate])) = w.want)

(* One step of a walk: the entry in slot i goes, or never counted. *)
LEMMA GivesStep ==
  ASSUME NEW m, NEW l, NEW dst, NEW w, NEW i, NEW k, NEW v, At(m, l, dst, w, i, k, v)
  PROVE  /\ Passes(m, l, w, k)
              => GivesIn(m, l, dst, w, i) = Over(GivesIn(m, l, dst, w, i + 1), Single(k, v))
         /\ ~ Passes(m, l, w, k) => GivesIn(m, l, dst, w, i) = GivesIn(m, l, dst, w, i + 1)
<1>1. PICK p : p = l[w.src]
  OBVIOUS
<1>2. PICK e : e = Entries(m, p, i)
  OBVIOUS
<1>3. PICK f : f = Entries(m, p, i + 1)
  OBVIOUS
<1>4. /\ DOMAIN e = DOMAIN f \cup {k} /\ k \notin DOMAIN f /\ e[k] = m[ValAddr(p, i)]
      /\ \A x \in DOMAIN f : e[x] = f[x]
  BY <1>1, <1>2, <1>3, EntriesStep DEF At
<1>5. PICK g : g = GivesIn(m, l, dst, w, i)
  OBVIOUS
<1>6. PICK h : h = GivesIn(m, l, dst, w, i + 1)
  OBVIOUS
<1>7. /\ g = Given(dst, e, Kept(m, l, w, e))
      /\ h = Given(dst, f, Kept(m, l, w, f))
  BY <1>1, <1>2, <1>3, <1>5, <1>6 DEF GivesIn, At
<1>8. CASE Passes(m, l, w, k)
  <2>1. Kept(m, l, w, e) = Kept(m, l, w, f) \cup {k}
    BY <1>4, <1>8 DEF Kept, Passes
  <2>2. /\ DOMAIN g = DOMAIN h \cup {k} /\ g = [x \in DOMAIN g |-> g[x]]
        /\ DOMAIN h \subseteq DOMAIN f
        /\ g[k] = v /\ \A x \in DOMAIN h : g[x] = h[x]
    BY <1>1, <1>4, <1>7, <2>1 DEF Given, Kept, At
  <2>3. PICK o : o = Over(h, Single(k, v))
    OBVIOUS
  <2>4. /\ DOMAIN o = DOMAIN h \cup {k} /\ o = [x \in DOMAIN o |-> o[x]]
        /\ k \notin DOMAIN h => o[k] = v
        /\ \A x \in DOMAIN h : o[x] = h[x]
    BY <2>3 DEF Over, Single
  <2>5. k \notin DOMAIN h
    BY <1>4, <2>2
  <2>6. g = o
    BY <2>2, <2>4, <2>5
  <2> QED BY <1>5, <1>6, <1>8, <2>3, <2>6
<1>9. CASE ~ Passes(m, l, w, k)
  <2>1. Kept(m, l, w, e) = Kept(m, l, w, f)
    BY <1>4, <1>9 DEF Kept, Passes
  <2>2. /\ DOMAIN g = DOMAIN h /\ g = [x \in DOMAIN g |-> g[x]] /\ h = [x \in DOMAIN h |-> h[x]]
        /\ \A x \in DOMAIN h : g[x] = h[x]
    BY <1>1, <1>4, <1>7, <2>1 DEF Given, Kept, At
  <2>3. g = h
    BY <2>2
  <2> QED BY <1>5, <1>6, <1>9, <2>3
<1> QED BY <1>8, <1>9

(* The first entry is done: the record took it in. *)
LEMMA PiecesTail ==
  ASSUME NEW m, NEW n, NEW l, NEW r, NEW s, r.todo \in Seq(Entry), r.todo # <<>>,
         s.todo = Tail(r.todo), s.dst = r.dst, s.i = 0,
         Spelled(n, s.r) = Over(GivesIn(m, l, r.dst, r.todo[1], r.i), Spelled(m, r.r)),
         \A j \in 2 .. Len(r.todo) : GivesIn(n, l, r.dst, r.todo[j], 0) = GivesIn(m, l, r.dst, r.todo[j], 0)
  PROVE  Overlay(PiecesIn(n, l, s)) = Overlay(PiecesIn(m, l, r))
<1>1. PICK N \in Nat \ {0} : N = Len(r.todo)
  OBVIOUS
<1>2. Len(s.todo) + 1 = N /\ \A j \in 1 .. N - 1 : s.todo[j] = r.todo[j + 1]
  BY <1>1
<1>3. PICK ms : ms = PiecesIn(m, l, r)
  OBVIOUS
<1>4. PICK ns : ns = PiecesIn(n, l, s)
  OBVIOUS
<1>5. /\ DOMAIN ms = 1 .. (N + 1) /\ DOMAIN ns = 1 .. N
      /\ ms[1] = Spelled(m, r.r) /\ ns[1] = Spelled(n, s.r)
      /\ ms[2] = GivesIn(m, l, r.dst, r.todo[1], r.i)
  <2>1. 1 \in 1 .. (N + 1) /\ 2 \in 1 .. (N + 1) /\ 1 \in 1 .. N /\ 2 - 1 = 1
    OBVIOUS
  <2> QED BY <1>1, <1>2, <1>3, <1>4, <2>1 DEF PiecesIn
<1>6. ASSUME NEW j \in 2 .. N PROVE ns[j] = ms[j + 1]
  <2>1. /\ j \in 1 .. N /\ j # 1 /\ j - 1 \in 1 .. N - 1 /\ (j - 1) + 1 = j
        /\ j + 1 \in 1 .. (N + 1) /\ j + 1 # 1 /\ j + 1 # 2 /\ (j + 1) - 1 = j
    OBVIOUS
  <2>2. ns[j] = GivesIn(n, l, s.dst, s.todo[j - 1], 0)
    BY <1>2, <1>4, <2>1 DEF PiecesIn
  <2>3. ms[j + 1] = GivesIn(m, l, r.dst, r.todo[j], 0)
    BY <1>1, <1>3, <2>1 DEF PiecesIn
  <2>4. s.todo[j - 1] = r.todo[j]
    BY <1>2, <2>1
  <2> QED BY <1>1, <2>2, <2>3, <2>4
<1>7. Joined(ms, ns, N)
  <2>1. ns[1] = Over(ms[2], ms[1])
    BY <1>5
  <2> QED BY <1>1, <1>5, <1>6, <2>1 DEF Joined
<1>8. Overlay(ms) = Overlay(ns)
  BY <1>1, <1>7, OverlayJoins
<1> QED BY <1>3, <1>4, <1>8

(* One entry of the walk went into the record. *)
LEMMA PiecesMove ==
  ASSUME NEW m, NEW n, NEW l, NEW r, NEW s, r.todo \in Seq(Entry), r.todo # <<>>,
         s.todo = r.todo, s.dst = r.dst, NEW e,
         Spelled(n, s.r) = Over(e, Spelled(m, r.r)),
         GivesIn(m, l, r.dst, r.todo[1], r.i) = Over(GivesIn(n, l, r.dst, r.todo[1], s.i), e),
         \A j \in 2 .. Len(r.todo) : GivesIn(n, l, r.dst, r.todo[j], 0) = GivesIn(m, l, r.dst, r.todo[j], 0)
  PROVE  Overlay(PiecesIn(n, l, s)) = Overlay(PiecesIn(m, l, r))
<1>1. PICK N \in Nat : N = Len(r.todo) + 1 /\ N >= 2
  <2>1. Len(r.todo) \in Nat /\ Len(r.todo) # 0
    OBVIOUS
  <2>2. Len(r.todo) + 1 \in Nat /\ Len(r.todo) + 1 >= 2
    BY <2>1
  <2> QED BY <2>2
<1>2. PICK ms : ms = PiecesIn(m, l, r)
  OBVIOUS
<1>3. PICK ns : ns = PiecesIn(n, l, s)
  OBVIOUS
<1>4. /\ DOMAIN ms = 1 .. N /\ DOMAIN ns = 1 .. N
      /\ ms[1] = Spelled(m, r.r) /\ ns[1] = Spelled(n, s.r)
      /\ ms[2] = GivesIn(m, l, r.dst, r.todo[1], r.i)
      /\ ns[2] = GivesIn(n, l, r.dst, r.todo[1], s.i)
  <2>1. 1 \in 1 .. N /\ 2 \in 1 .. N /\ 2 - 1 = 1
    BY <1>1
  <2> QED BY <1>1, <1>2, <1>3, <2>1 DEF PiecesIn
<1>5. ASSUME NEW j \in 3 .. N PROVE ns[j] = ms[j]
  <2>1. j \in 1 .. N /\ j # 1 /\ j # 2 /\ j - 1 \in 2 .. Len(r.todo)
    BY <1>1
  <2>2. ns[j] = GivesIn(n, l, r.dst, r.todo[j - 1], 0) /\ ms[j] = GivesIn(m, l, r.dst, r.todo[j - 1], 0)
    BY <1>1, <1>2, <1>3, <2>1 DEF PiecesIn
  <2> QED BY <2>1, <2>2
<1>6. ns[1] = Over(e, ms[1]) /\ ms[2] = Over(ns[2], e)
  BY <1>4
<1>7. Moved(ms, ns, N, e)
  BY <1>1, <1>4, <1>5, <1>6 DEF Moved
<1> QED BY <1>2, <1>3, <1>7, OverlayMoves

(* The walk moved on without taking anything. *)
LEMMA PiecesSame ==
  ASSUME NEW m, NEW l, NEW r, NEW s, s.todo = r.todo, s.dst = r.dst, s.r = r.r,
         r.todo # <<>> => GivesIn(m, l, r.dst, r.todo[1], r.i) = GivesIn(m, l, r.dst, r.todo[1], s.i),
         r.todo \in Seq(Entry)
  PROVE  PiecesIn(m, l, s) = PiecesIn(m, l, r)
<1>1. PICK f : f = PiecesIn(m, l, s)
  OBVIOUS
<1>2. PICK g : g = PiecesIn(m, l, r)
  OBVIOUS
<1>3. DOMAIN f = 1 .. Len(r.todo) + 1 /\ f = [j \in DOMAIN f |-> f[j]]
  BY <1>1 DEF PiecesIn
<1>4. DOMAIN g = 1 .. Len(r.todo) + 1 /\ g = [j \in DOMAIN g |-> g[j]]
  BY <1>2 DEF PiecesIn
<1>5. ASSUME NEW j \in 1 .. Len(r.todo) + 1 PROVE f[j] = g[j]
  <2>1. CASE j = 1
    BY <1>1, <1>2, <2>1 DEF PiecesIn
  <2>2. CASE j = 2
    <3>1. r.todo # <<>> /\ j - 1 = 1
      BY <2>2
    <3> QED BY <1>1, <1>2, <2>2, <3>1 DEF PiecesIn
  <2>3. CASE j # 1 /\ j # 2
    BY <1>1, <1>2, <2>3 DEF PiecesIn
  <2> QED BY <2>1, <2>2, <2>3
<1>6. f = g
  BY <1>3, <1>4, <1>5
<1> QED BY <1>1, <1>2, <1>6

-----------------------------------------------------------------------------
(* A loop in progress: no step of it changes the overlay.                    *)

(* The records a state holds are ones the lemmas above apply to. *)
LEMMA RecordFacts ==
  ASSUME RInv, NEW p \in Records
  PROVE  Distinct(mem, p) /\ Count(mem, p) \in Nat /\ p \in Nat
BY HeldIsRecord DEF RInv, KeysDistinct, Distinct, IInv, Good, WellFormed

(* The records the entries of the loop read. *)
LEMMA WalkRecords ==
  ASSUME RInv, run.dst # NoName, NEW w \in Entry, WalkKept(w), w.kind = "walk", Bound(w.src)
  PROVE  /\ loc[w.src] \in Records
         /\ w.gate # NoName => loc[w.gate] \in Records /\ loc[w.gate] # run.r
<1>1. w.src \in Names /\ w.gate \in Names \cup {NoName}
  BY DEF Entry, Put
<1>2. w.gate # NoName => Bound(w.gate) /\ loc[w.gate] # run.r
  BY DEF WalkKept
<1> QED BY <1>1, <1>2, HeldIsRecord DEF RInv

(* A store into the accumulator changes nothing for the entries that follow. *)
LEMMA LaterGives ==
  ASSUME RInv, run.dst # NoName, \A q \in Records : q # run.r => Copied(mem, q, mem', q),
         NEW w \in Entry, WalkKept(w),
         w.kind = "walk" => Bound(w.src) /\ loc[w.src] # run.r, NEW i \in Nat
  PROVE  GivesIn(mem', loc, run.dst, w, i) = GivesIn(mem, loc, run.dst, w, i)
<1>1. CASE w.kind = "put"
  BY <1>1 DEF GivesIn
<1>2. CASE w.kind # "put"
  <2>1. w.kind = "walk"
    BY <1>2 DEF Entry, Put
  <2>2. /\ loc[w.src] \in Records /\ loc[w.src] # run.r
        /\ w.gate # NoName => loc[w.gate] \in Records /\ loc[w.gate] # run.r
    BY <2>1, WalkRecords
  <2>3. PICK p \in Records : p = loc[w.src]
    BY <2>2
  <2>4. Copied(mem, p, mem', p) /\ Distinct(mem, p)
    BY <2>2, <2>3, RecordFacts
  <2>5. Entries(mem', p, i) = Entries(mem, p, i)
    BY <2>4, CopiedEntries
  <2>6. ASSUME w.gate # NoName PROVE Spelled(mem', loc[w.gate]) = Spelled(mem, loc[w.gate])
    <3>1. PICK q \in Records : q = loc[w.gate] /\ q # run.r
      BY <2>2, <2>6
    <3>2. Copied(mem, q, mem', q) /\ Distinct(mem, q) /\ 0 \in Nat
      BY <3>1, RecordFacts
    <3>3. Entries(mem', q, 0) = Entries(mem, q, 0)
      BY <3>2, CopiedEntries
    <3> QED BY <3>1, <3>3 DEF Spelled
  <2> QED BY <2>3, <2>5, <2>6, GivesSame
<1> QED BY <1>1, <1>2

LEMMA LaterAll ==
  ASSUME RInv, run.dst # NoName, run.todo # <<>>, \A q \in Records : q # run.r => Copied(mem, q, mem', q)
  PROVE  \A j \in 2 .. Len(run.todo) :
           GivesIn(mem', loc, run.dst, run.todo[j], 0) = GivesIn(mem, loc, run.dst, run.todo[j], 0)
<1> SUFFICES ASSUME NEW j \in 2 .. Len(run.todo)
             PROVE  GivesIn(mem', loc, run.dst, run.todo[j], 0) = GivesIn(mem, loc, run.dst, run.todo[j], 0)
  OBVIOUS
<1>1. IInv /\ LoopKept
  BY DEF RInv
<1>2. j \in DOMAIN run.todo /\ Len(run.todo) # 1
  BY <1>1, RunFacts
<1>3. PICK w : w = run.todo[j]
  OBVIOUS
<1>4. w \in Entry /\ WalkKept(w) /\ (w.kind = "walk" => Bound(w.src))
  BY <1>1, <1>2, <1>3, RunFacts
<1>5. w.kind = "walk" => loc[w.src] # run.r
  BY <1>2, <1>4 DEF WalkKept
<1>6. 0 \in Nat
  OBVIOUS
<1>7. GivesIn(mem', loc, run.dst, w, 0) = GivesIn(mem, loc, run.dst, w, 0)
  BY <1>4, <1>5, <1>6, LaterGives
<1> QED BY <1>3, <1>7

(* What is the same memory, locals and loop is the same to Python. *)
LEMMA SameState ==
  ASSUME UNCHANGED <<mem, loc, run>> PROVE PyBound' = PyBound /\ PyRef' = PyRef /\ PyObj' = PyObj
<1>1. PyBound' = PyBound
  BY BoundNow
<1>2. PyRef' = PyRef
  BY RefNow
<1>3. Overlay(Pieces)' = Overlay(Pieces)
  BY PiecesNow
<1>4. \A x \in Names : PyObj'[x] = PyObj[x]
  BY <1>3, ObjForm, RefNow DEF Bound, Contents, Spelled
<1> QED BY <1>1, <1>2, <1>4, ObjForm

(* dict_set of a pair. *)
LEMMA PutStutters ==
  ASSUME RInv, RunPut PROVE PyBound' = PyBound /\ PyRef' = PyRef /\ PyObj' = PyObj
<1> DEFINE next == [run EXCEPT !.todo = Tail(@)]
<1>1. IInv /\ LoopKept /\ run \in RunType /\ run.dst # NoName
  BY RunFacts DEF RInv, RunPut, Running
<1>2. /\ run.todo # <<>> /\ Head(run.todo).kind = "put" /\ RunSet(Head(run.todo).k, Head(run.todo).v, next)
      /\ Head(run.todo) = run.todo[1] /\ run.todo \in Seq(Entry)
  BY <1>1, RunFacts DEF RunPut, RunType
<1>3. PICK k \in Word, v \in Word : k = Head(run.todo).k /\ v = Head(run.todo).v
  <2>1. Head(run.todo) \in Entry
    BY <1>1, <1>2, RunFacts
  <2>2. Head(run.todo).k \in Word /\ Head(run.todo).v \in Word
    BY <1>2, <2>1, KeysAreWords DEF Entry, Put
  <2> QED BY <2>2
<1>4. /\ next.dst = run.dst /\ next.r = run.r /\ next.i = run.i /\ next.n = run.n
      /\ next.todo = Tail(run.todo) /\ next \in RunType
  BY <1>1, <1>2, RunFacts DEF RunType
<1> HIDE DEF next
<1>5. run.i = 0
  BY <1>1, <1>2 DEF IInv, RunOK, LoopKept
<1>6. RunSet(k, v, next)
  BY <1>2, <1>3
<1>7. CASE UNCHANGED <<mem, loc, run>>
  BY <1>7, SameState
<1>8. CASE /\ loc' = loc
           /\ run'.dst = run.dst /\ run'.i = next.i /\ run'.todo = next.todo
           /\ Stored(mem, run.r, mem', run'.r, k, v)
           /\ \A q \in Records : q # run.r => Copied(mem, q, mem', q)
  <2>1. PICK p \in Records : p = run.r
    BY <1>1, HeldIsRecord
  <2>2. Spelled(mem', run'.r) = Over(Single(KeyOf(k), v), Spelled(mem, p))
    BY <1>8, <2>1, RecordFacts, StoredSpelled
  <2>3. GivesIn(mem, loc, run.dst, run.todo[1], run.i) = Single(KeyOf(k), v)
    BY <1>2, <1>3 DEF GivesIn
  <2>4. \A j \in 2 .. Len(run.todo) :
           GivesIn(mem', loc, run.dst, run.todo[j], 0) = GivesIn(mem, loc, run.dst, run.todo[j], 0)
    BY <1>1, <1>2, <1>8, LaterAll
  <2>5. Overlay(PiecesIn(mem', loc, run')) = Overlay(PiecesIn(mem, loc, run))
    <3>1. Spelled(mem', run'.r) = Over(GivesIn(mem, loc, run.dst, run.todo[1], run.i), Spelled(mem, run.r))
      BY <2>1, <2>2, <2>3
    <3>2. run'.todo = Tail(run.todo) /\ run'.i = 0
      BY <1>4, <1>5, <1>8
    <3>3. PICK s : s = run'
      OBVIOUS
    <3>4. PICK n : n = mem'
      OBVIOUS
    <3>5. PICK r : r = run
      OBVIOUS
    <3>6. Overlay(PiecesIn(n, loc, s)) = Overlay(PiecesIn(mem, loc, r))
      BY <1>2, <1>8, <2>4, <3>1, <3>2, <3>3, <3>4, <3>5, PiecesTail
    <3> QED BY <3>3, <3>4, <3>5, <3>6
  <2>6. Overlay(Pieces)' = Overlay(Pieces)
    BY <1>8, <2>5, PiecesNow
  <2> QED BY <1>1, <1>8, <2>6, LoopOn
<1> QED BY <1>1, <1>4, <1>6, <1>7, <1>8, RunSetKeeps

(* The bookkeeping of a walk. *)
LEMMA WalkFacts ==
  ASSUME RInv, Walking
  PROVE  /\ IInv /\ LoopKept /\ run \in RunType /\ run.dst # NoName /\ run.todo \in Seq(Entry)
         /\ run.todo # <<>> /\ Head(run.todo) = run.todo[1] /\ run.todo[1] \in Entry
         /\ run.todo[1].kind = "walk" /\ WalkKept(run.todo[1])
         /\ Bound(run.todo[1].src) /\ loc[run.todo[1].src] \in Records
         /\ run.n # -1 => run.n = Count(mem, loc[run.todo[1].src])
         /\ run.n = -1 => run.i = 0
         /\ run.i \in Nat
<1>1. IInv /\ LoopKept /\ run.dst # NoName /\ run.todo # <<>> /\ Head(run.todo).kind = "walk"
  BY DEF RInv, Walking, Running
<1>2. /\ run \in RunType /\ Head(run.todo) = run.todo[1] /\ run.todo[1] \in Entry
      /\ WalkKept(run.todo[1])
      /\ Bound(run.todo[1].src)
  BY <1>1, RunFacts
<1>3. loc[run.todo[1].src] \in Records
  BY <1>1, <1>2, WalkRecords
<1> QED BY <1>1, <1>2, <1>3 DEF RunType, LoopKept

(* What the gate of a walk sees are keys. *)
LEMMA GateSpelled ==
  ASSUME RInv, Walking, NEW k, k = KeyOf(mem[KeyAddr(loc[run.todo[1].src], run.i)])
  PROVE  /\ KeyOf(WalkKey) = k
         /\ Gated <=> (run.todo[1].gate # NoName
                         => ((k \in DOMAIN Spelled(mem, loc[run.todo[1].gate])) = run.todo[1].want))
<1>1. PICK w \in Entry : w = run.todo[1] /\ w = Head(run.todo) /\ w.kind = "walk"
  BY WalkFacts
<1>2. KeyOf(WalkKey) = k
  BY <1>1, LoadedKey DEF WalkKey
<1>3. Gated <=> (w.gate # NoName => (dict_has(mem, loc[w.gate], WalkKey) = w.want))
  BY <1>1 DEF Gated
<1>4. ASSUME w.gate # NoName
      PROVE  dict_has(mem, loc[w.gate], WalkKey) = (k \in DOMAIN Spelled(mem, loc[w.gate]))
  <2>1. loc[w.gate] \in Records
    BY <1>1, <1>4, WalkFacts, WalkRecords
  <2>2. PICK p : p = loc[w.gate]
    OBVIOUS
  <2>3. Distinct(mem, p)
    BY <2>1, <2>2, RecordFacts
  <2>4. PICK x : x = WalkKey
    OBVIOUS
  <2>5. dict_has(mem, p, x) <=> KeyOf(x) \in DOMAIN Spelled(mem, p)
    BY <2>3, HasSpelled
  <2>6. dict_has(mem, p, x) \in BOOLEAN
    BY DEF dict_has
  <2> QED BY <1>2, <2>2, <2>4, <2>5, <2>6
<1> QED BY <1>1, <1>2, <1>3, <1>4

(* The walk reads its bound, or passes an entry its gate keeps out. *)
LEMMA WalkMovesOn ==
  ASSUME RInv, WalkStart \/ WalkSkip PROVE PyBound' = PyBound /\ PyRef' = PyRef /\ PyObj' = PyObj
<1>1. Walking
  BY DEF WalkStart, WalkSkip
<1>2. /\ IInv /\ run \in RunType /\ run.dst # NoName /\ run.todo \in Seq(Entry) /\ run.todo # <<>>
      /\ run.n = -1 => run.i = 0
      /\ run.i \in Nat
  BY <1>1, WalkFacts
<1>3. /\ run'.todo = run.todo /\ run'.dst = run.dst /\ run'.r = run.r /\ UNCHANGED <<mem, loc>>
  BY <1>2 DEF WalkStart, WalkSkip, RunType
<1>4. GivesIn(mem, loc, run.dst, run.todo[1], run.i) = GivesIn(mem, loc, run.dst, run.todo[1], run'.i)
  <2>1. CASE WalkStart
    <3>1. run'.i = run.i
      BY <1>2, <2>1 DEF WalkStart, RunType
    <3> QED BY <3>1
  <2>2. CASE WalkSkip
    <3>1. run'.i = run.i + 1 /\ run.n # -1 /\ run.i < run.n /\ ~ Gated
      BY <1>2, <2>2 DEF WalkSkip, RunType
    <3>2. PICK w : w = run.todo[1]
      OBVIOUS
    <3>3. PICK p \in Records : p = loc[w.src]
      BY <1>1, <3>2, WalkFacts
    <3>4. w.kind = "walk" /\ run.i < Count(mem, p) /\ Distinct(mem, p) /\ Count(mem, p) \in Nat
      BY <1>1, <3>1, <3>2, <3>3, WalkFacts, RecordFacts
    <3>5. PICK k : k = KeyOf(mem[KeyAddr(p, run.i)])
      OBVIOUS
    <3>6. ~ Passes(mem, loc, w, k)
      BY <1>1, <3>1, <3>2, <3>3, <3>5, GateSpelled DEF Passes
    <3>7. PICK v : v = IF run.dst \in SetNames THEN Zero ELSE mem[ValAddr(p, run.i)]
      OBVIOUS
    <3>8. At(mem, loc, run.dst, w, run.i, k, v)
      BY <1>2, <3>3, <3>4, <3>5, <3>7 DEF At
    <3>9. GivesIn(mem, loc, run.dst, w, run.i) = GivesIn(mem, loc, run.dst, w, run.i + 1)
      BY <3>6, <3>8, GivesStep
    <3> QED BY <3>1, <3>2, <3>9
  <2> QED BY <2>1, <2>2
<1>5. PICK r : r = run
  OBVIOUS
<1>6. PICK s : s = run'
  OBVIOUS
<1>7. PiecesIn(mem, loc, s) = PiecesIn(mem, loc, r)
  BY <1>2, <1>3, <1>4, <1>5, <1>6, PiecesSame
<1>8. Overlay(Pieces)' = Overlay(Pieces)
  BY <1>3, <1>5, <1>6, <1>7, PiecesNow
<1> QED BY <1>2, <1>3, <1>8, CopiedSelf, LoopOn

(* Nothing laid over a map leaves it what it was. *)
LEMMA OverNothing ==
  ASSUME NEW e, DOMAIN e = {}, NEW f, f = [k \in DOMAIN f |-> f[k]] PROVE Over(e, f) = f
<1>1. PICK o : o = Over(e, f)
  OBVIOUS
<1>2. DOMAIN o = DOMAIN f /\ o = [k \in DOMAIN o |-> o[k]] /\ \A k \in DOMAIN f : o[k] = f[k]
  BY <1>1 DEF Over
<1>3. o = f
  BY <1>2
<1> QED BY <1>1, <1>3

(* The walk is at its end, and what it had left to give was nothing. *)
LEMMA EndStutters ==
  ASSUME RInv, WalkEnd PROVE PyBound' = PyBound /\ PyRef' = PyRef /\ PyObj' = PyObj
<1>1. Walking /\ run.n # -1 /\ run.i >= run.n
  BY DEF WalkEnd
<1>2. /\ IInv /\ run \in RunType /\ run.dst # NoName /\ run.todo \in Seq(Entry) /\ run.todo # <<>>
      /\ run.i \in Nat
  BY <1>1, WalkFacts
<1>3. /\ run'.todo = Tail(run.todo) /\ run'.dst = run.dst /\ run'.r = run.r /\ run'.i = 0
      /\ UNCHANGED <<mem, loc>>
  BY <1>2 DEF WalkEnd, RunType
<1>4. PICK w : w = run.todo[1]
  OBVIOUS
<1>5. PICK p \in Records : p = loc[w.src]
  BY <1>1, <1>4, WalkFacts
<1>6. w.kind = "walk" /\ run.i >= Count(mem, p) /\ Distinct(mem, p) /\ Count(mem, p) \in Nat
  BY <1>1, <1>4, <1>5, WalkFacts, RecordFacts
<1>7. DOMAIN GivesIn(mem, loc, run.dst, w, run.i) = {}
  BY <1>2, <1>5, <1>6, GivesNothing
<1>8. PICK q \in Records : q = run.r
  BY <1>2, HeldIsRecord
<1>9. Spelled(mem, q) = [k \in DOMAIN Spelled(mem, q) |-> Spelled(mem, q)[k]]
  BY RecordFacts, SpelledKeys
<1>10. Over(GivesIn(mem, loc, run.dst, w, run.i), Spelled(mem, q)) = Spelled(mem, q)
  BY <1>7, <1>9, OverNothing
<1>11. PICK r : r = run
  OBVIOUS
<1>12. PICK s : s = run'
  OBVIOUS
<1>13. Overlay(PiecesIn(mem, loc, s)) = Overlay(PiecesIn(mem, loc, r))
  BY <1>2, <1>3, <1>4, <1>8, <1>10, <1>11, <1>12, PiecesTail
<1>14. Overlay(Pieces)' = Overlay(Pieces)
  BY <1>3, <1>11, <1>12, <1>13, PiecesNow
<1> QED BY <1>2, <1>3, <1>14, CopiedSelf, LoopOn

(* dict_set of an entry of the walked map; the walked map may be the one     *)
(* that is updated, then every key is there and every value stays.           *)
LEMMA InsertStutters ==
  ASSUME RInv, WalkInsert PROVE PyBound' = PyBound /\ PyRef' = PyRef /\ PyObj' = PyObj
<1> DEFINE next == [run EXCEPT !.i = @ + 1]
<1>1. Walking /\ run.n # -1 /\ run.i < run.n /\ Gated /\ RunSet(WalkKey, WalkVal, next)
  BY DEF WalkInsert
<1>2. /\ IInv /\ LoopKept /\ run \in RunType /\ run.dst # NoName /\ run.todo \in Seq(Entry) /\ run.todo # <<>>
      /\ run.i \in Nat /\ Head(run.todo).kind = "walk" /\ Head(run.todo) = run.todo[1]
  BY <1>1, WalkFacts
<1>3. WalkKey \in Word /\ WalkVal \in Word
  BY <1>1, <1>2, WalkWords
<1>4. PICK x \in Word, v \in Word : x = WalkKey /\ v = WalkVal
  BY <1>3
<1>5. /\ next.dst = run.dst /\ next.r = run.r /\ next.i = run.i + 1 /\ next.n = run.n
      /\ next.todo = run.todo /\ next \in RunType
  <2>1. run \in RunType /\ run.i + 1 \in Nat
    BY <1>2
  <2>2. next \in RunType
    BY <2>1 DEF RunType
  <2>3. next = [run EXCEPT !.i = run.i + 1]
    OBVIOUS
  <2> QED BY <2>1, <2>2, <2>3 DEF RunType
<1> HIDE DEF next
<1>6. RunSet(x, v, next)
  BY <1>1, <1>4
<1>7. CASE UNCHANGED <<mem, loc, run>>
  BY <1>7, SameState
<1>8. CASE /\ loc' = loc
           /\ run'.dst = run.dst /\ run'.i = next.i /\ run'.todo = next.todo
           /\ Stored(mem, run.r, mem', run'.r, x, v)
           /\ \A q \in Records : q # run.r => Copied(mem, q, mem', q)
           /\ dict_has(mem, run.r, x) => run'.r = run.r
  <2>1. PICK p \in Records : p = run.r
    BY <1>2, HeldIsRecord
  <2>2. PICK w \in Entry : w = run.todo[1]
    BY <1>1, WalkFacts
  <2>3. PICK q \in Records : q = loc[w.src]
    BY <1>1, <2>2, WalkFacts
  <2>4. /\ w.kind = "walk" /\ run.i < Count(mem, q) /\ Distinct(mem, q) /\ Count(mem, q) \in Nat
        /\ WalkKept(w) /\ Bound(w.src)
    BY <1>1, <2>2, <2>3, WalkFacts, RecordFacts
  <2>5. PICK k : k = KeyOf(mem[KeyAddr(q, run.i)])
    OBVIOUS
  <2>6. /\ KeyOf(x) = k
        /\ Passes(mem, loc, w, k)
    BY <1>1, <1>4, <2>2, <2>3, <2>5, GateSpelled DEF Passes
  <2>7. v = IF run.dst \in SetNames THEN Zero ELSE mem[ValAddr(q, run.i)]
    BY <1>2, <1>4, <2>2, <2>3 DEF WalkVal
  <2>8. GivesIn(mem, loc, run.dst, w, run.i) = Over(GivesIn(mem, loc, run.dst, w, run.i + 1), Single(k, v))
    <3>1. At(mem, loc, run.dst, w, run.i, k, v)
      BY <1>2, <2>3, <2>4, <2>5, <2>7 DEF At
    <3> QED BY <2>6, <3>1, GivesStep
  <2>9. GivesIn(mem', loc, run.dst, w, run.i + 1) = GivesIn(mem, loc, run.dst, w, run.i + 1)
    <3>1. CASE q # p
      <4>1. run.i + 1 \in Nat
        BY <1>2
      <4> QED BY <1>2, <1>8, <2>1, <2>3, <2>4, <3>1, <4>1, LaterGives
    <3>2. CASE q = p
      <4>1. w.gate = NoName
        BY <2>1, <2>3, <2>4, <3>2 DEF WalkKept
      <4>2. run.i \in Slots(mem, q) /\ From(mem, q, run.i + 1) \subseteq Slots(mem, q) \ {run.i}
        BY <1>2, <2>4 DEF Slots, From
      <4>3. dict_has(mem, q, x) /\ scan(mem, q, x) = run.i
        BY <2>4, <2>5, <2>6, <4>2, OneSlot
      <4>4. /\ Count(mem', q) = Count(mem, q)
            /\ \A j \in From(mem, q, run.i + 1) : /\ mem'[KeyAddr(q, j)] = mem[KeyAddr(q, j)]
                                                  /\ mem'[ValAddr(q, j)] = mem[ValAddr(q, j)]
        BY <1>8, <2>1, <3>2, <4>2, <4>3 DEF Stored
      <4>5. Distinct(mem', q)
        BY <1>8, <2>1, <2>4, <3>2, <4>3, StoredDistinct
      <4>6. run.i + 1 \in Nat
        BY <1>2
      <4>7. Entries(mem', q, run.i + 1) = Entries(mem, q, run.i + 1)
        BY <2>4, <4>4, <4>5, <4>6, SameSlots
      <4> QED BY <2>3, <4>1, <4>7, GivesSame
    <3> QED BY <3>1, <3>2
  <2>10. Spelled(mem', run'.r) = Over(Single(k, v), Spelled(mem, p))
    BY <1>8, <2>1, <2>6, RecordFacts, StoredSpelled
  <2>11. \A j \in 2 .. Len(run.todo) :
           GivesIn(mem', loc, run.dst, run.todo[j], 0) = GivesIn(mem, loc, run.dst, run.todo[j], 0)
    BY <1>2, <1>8, LaterAll
  <2>12. PICK e : e = Single(k, v)
    OBVIOUS
  <2>13. PICK s : s = run'
    OBVIOUS
  <2>14. PICK n : n = mem'
    OBVIOUS
  <2>15. PICK r : r = run
    OBVIOUS
  <2>16. /\ r.todo \in Seq(Entry) /\ r.todo # <<>> /\ s.todo = r.todo /\ s.dst = r.dst
         /\ Spelled(n, s.r) = Over(e, Spelled(mem, r.r))
         /\ GivesIn(mem, loc, r.dst, r.todo[1], r.i) = Over(GivesIn(n, loc, r.dst, r.todo[1], s.i), e)
         /\ \A j \in 2 .. Len(r.todo) :
              GivesIn(n, loc, r.dst, r.todo[j], 0) = GivesIn(mem, loc, r.dst, r.todo[j], 0)
    BY <1>2, <1>5, <1>8, <2>1, <2>2, <2>8, <2>9, <2>10, <2>11, <2>12, <2>13, <2>14, <2>15
  <2>17. Overlay(PiecesIn(n, loc, s)) = Overlay(PiecesIn(mem, loc, r))
    BY <2>16, PiecesMove
  <2>18. Overlay(Pieces)' = Overlay(Pieces)
    BY <1>8, <2>13, <2>14, <2>15, <2>17, PiecesNow
  <2> QED BY <1>2, <1>8, <2>18, LoopOn
<1> QED BY <1>2, <1>5, <1>6, <1>7, <1>8, RunSetKeeps

(* local.set $dst: the name gets the record the loop has built. *)
LEMMA DoneStutters ==
  ASSUME RInv, RunDone PROVE PyBound' = PyBound /\ PyRef' = PyRef /\ PyObj' = PyObj
<1>1. /\ IInv /\ run \in RunType /\ run.dst # NoName /\ run.dst \in Names /\ run.todo = <<>>
      /\ \A x \in Names : loc[x] = run.r => x = run.dst
      /\ run.r \in Records /\ run.r \in Nat \ {0}
  BY HeldIsRecord DEF RInv, RunDone, Running, IInv, RunOK, TypeOK, RunType
<1>2. /\ mem' = mem /\ run'.dst = NoName
      /\ \A y \in Names : loc'[y] = IF y = run.dst THEN run.r ELSE loc[y]
  BY <1>1 DEF RunDone, IdleRun, IInv, TypeOK
<1>3. PyBound' = PyBound
  BY <1>1, <1>2, BoundNow
<1>4. \A c \in Callers : c \in Names /\ c \notin Params
  BY MapsAssumption DEF Names
<1>5. ASSUME NEW x \in Names
      PROVE  /\ OwnsIn(loc', NoName, x) <=> Owner(x)
             /\ PyRef'[x] = PyRef[x]
  <2>1. CASE x = run.dst
    <3>1. Owner(x)
      BY <2>1 DEF Owner
    <3>2. OwnsIn(loc', NoName, x)
      <4>1. x \notin Params \/ \A c \in Callers : loc'[c] # loc'[x]
        BY <1>1, <1>2, <1>4, <2>1
      <4> QED BY <4>1 DEF OwnsIn
    <3> QED BY <1>2, <3>1, <3>2, RefNow DEF RefsIn
  <2>2. CASE x # run.dst /\ x \notin Params
    <3>1. Owner(x) /\ OwnsIn(loc', NoName, x)
      BY <2>2 DEF Owner, OwnsIn
    <3> QED BY <1>2, <3>1, RefNow DEF RefsIn
  <2>3. CASE x # run.dst /\ x \in Params /\ loc[x] = 0
    <3>1. loc'[x] = 0
      BY <1>2, <2>3
    <3>2. Owner(x) /\ OwnsIn(loc', NoName, x)
      BY <2>3, <3>1 DEF Owner, OwnsIn, Bound
    <3> QED BY <1>2, <3>2, RefNow DEF RefsIn
  <2>4. CASE x # run.dst /\ x \in Params /\ loc[x] # 0
    <3>1. inCall
      BY <2>4 DEF RInv, IInv, OneOwner, Bound
    <3>2. run.dst \notin Callers
      BY <1>1, <3>1, MapsAssumption DEF IInv, RunOK, Scope
    <3>3. \A c \in Callers : loc'[c] = loc[c]
      BY <1>2, <1>4, <3>2
    <3>4. loc'[x] = loc[x]
      BY <1>2, <2>4
    <3>5. OwnsIn(loc', NoName, x) <=> Owner(x)
      BY <2>4, <3>3, <3>4, BoundNow DEF OwnsIn, Owner, Bound
    <3>6. PyRef'[x] = PyRef[x]
      <4>1. CASE Owner(x)
        BY <1>2, <3>5, <4>1, RefNow DEF RefsIn
      <4>2. CASE ~ Owner(x)
        <5>1. PICK c \in Callers : loc[c] = loc[x]
          BY <4>2 DEF Owner
        <5>2. \A d, e \in Callers : loc[d] # 0 /\ loc[d] = loc[e] => d = e
          BY <1>1, CallersApart
        <5>3. PyRef[x] = c
          BY <4>2, <5>1, <5>2, RefNow, RefIs
        <5>4. PICK l : l = loc'
          OBVIOUS
        <5>5. /\ ~ OwnsIn(l, NoName, x) /\ l[c] = l[x]
              /\ \A d, e \in Callers : l[d] # 0 /\ l[d] = l[e] => d = e
          BY <3>3, <3>4, <3>5, <4>2, <5>1, <5>2, <5>4
        <5>6. RefsIn(l, NoName)[x] = c
          BY <5>5, RefIs
        <5> QED BY <1>2, <5>3, <5>4, <5>6, RefNow
      <4> QED BY <4>1, <4>2
    <3> QED BY <3>5, <3>6
  <2> QED BY <2>1, <2>2, <2>3, <2>4
<1>6. PyRef' = PyRef
  <2>1. PyRef' = [x \in Names |-> PyRef'[x]] /\ PyRef = [x \in Names |-> PyRef[x]]
    BY DEF PyRef
  <2> QED BY <1>5, <2>1
<1>7. Overlay(Pieces) = Spelled(mem, run.r)
  <2>1. PICK ms : ms = PiecesIn(mem, loc, run)
    OBVIOUS
  <2>2. DOMAIN ms = 1 .. 1 /\ ms[1] = Spelled(mem, run.r)
    BY <1>1, <2>1 DEF PiecesIn
  <2>3. PICK p \in Records : p = run.r
    BY <1>1
  <2>4. Spelled(mem, p) = [k \in DOMAIN Spelled(mem, p) |-> Spelled(mem, p)[k]]
    BY RecordFacts, SpelledKeys
  <2>5. Overlay(ms) = ms[1]
    BY <2>2, <2>3, <2>4, OverlayOne
  <2> QED BY <2>1, <2>2, <2>5, PiecesNow
<1>8. ASSUME NEW x \in Names PROVE PyObj'[x] = PyObj[x]
  <2>1. x # run'.dst
    BY <1>2, BoundNow
  <2>2. CASE x = run.dst
    <3>1. Owner(x)
      BY <2>2 DEF Owner
    <3>2. PyObj'[x] = Spelled(mem, run.r)
      BY <1>1, <1>2, <1>5, <2>1, <2>2, <3>1, ObjForm
    <3> QED BY <1>7, <2>2, <3>2, ObjForm
  <2>3. CASE x # run.dst
    BY <1>2, <1>5, <2>1, <2>3, ObjForm DEF Bound, Contents, Spelled
  <2> QED BY <2>2, <2>3
<1> QED BY <1>3, <1>6, <1>8, ObjForm

(* A trap that ends the program is memory running out. *)
LEMMA OutStep ==
  ASSUME trap = "none", trap' = "oob", UNCHANGED <<mem, loc, inCall, run, out>>
  PROVE  Py!OutOfMemory
<1>1. PyExc = "none" /\ PyExc' = "MemoryError"
  BY DEF PyExc
<1>2. PyBound' = PyBound /\ PyRef' = PyRef /\ PyObj' = PyObj
  BY SameState
<1> QED BY <1>1, <1>2 DEF Py!OutOfMemory, Py!Running, Py!Raise

(* The statement begun, as Python sees it. *)
LEMMA StmtNow ==
  /\ \A op, x, args : op # "display" /\ Begin(op, x, args) => Py!Begin(op, x, args)
  /\ \A x, args : Begin("display", x, args)
                    => Py!Begin("display", x, [j \in DOMAIN args |-> PyEntry(args[j])])
<1>1. ASSUME NEW op, NEW x, NEW args, op # "display", Begin(op, x, args) PROVE Py!Begin(op, x, args)
  BY <1>1 DEF Begin, Stmt, PyStmt, Py!Begin
<1>2. ASSUME NEW x, NEW args, Begin("display", x, args)
      PROVE  Py!Begin("display", x, [j \in DOMAIN args |-> PyEntry(args[j])])
  <2>1. stmt' = [op |-> "display", x |-> x, args |-> args]
    BY <1>2 DEF Begin, Stmt
  <2>2. PyStmt' = [stmt' EXCEPT !.args = [j \in DOMAIN @ |-> PyEntry(@[j])]]
    BY <2>1 DEF PyStmt, PyEntry
  <2> QED BY <2>1, <2>2 DEF Py!Begin
<1> QED BY <1>1, <1>2

(* A loop that begins on an empty record gives what its entries give. *)
LEMMA PiecesStart ==
  ASSUME NEW m, NEW l, NEW r, r.todo \in Seq(Entry), r.i = 0, Count(m, r.r) = 0,
         NEW ms, DOMAIN ms = 1 .. Len(r.todo),
         \A j \in 1 .. Len(r.todo) : ms[j] = GivesIn(m, l, r.dst, r.todo[j], 0)
  PROVE  Overlay(PiecesIn(m, l, r)) = Overlay(ms)
<1>1. PICK n \in Nat : n = Len(r.todo)
  OBVIOUS
<1>2. PICK ns : ns = PiecesIn(m, l, r)
  OBVIOUS
<1>3. DOMAIN ns = 1 .. (n + 1) /\ ns[1] = Spelled(m, r.r)
  BY <1>1, <1>2 DEF PiecesIn
<1>4. DOMAIN ns[1] = {}
  <2>1. PICK p : p = r.r
    OBVIOUS
  <2>2. Distinct(m, p) /\ Count(m, p) = 0
    BY <2>1, NothingSpelled
  <2>3. DOMAIN Spelled(m, p) = KeySet(m, p)
    BY <2>2, SpelledKeys
  <2>4. KeySet(m, p) = {}
    BY <2>2 DEF KeySet, Slots
  <2> QED BY <1>3, <2>1, <2>3, <2>4
<1>5. ASSUME NEW j \in 1 .. n PROVE ns[j + 1] = ms[j]
  <2>1. j + 1 \in 1 .. (n + 1) /\ j + 1 # 1 /\ (j + 1) - 1 = j /\ (j + 1 = 2 <=> j = 1)
    BY <1>1
  <2>2. ns[j + 1] = GivesIn(m, l, r.dst, r.todo[(j + 1) - 1], IF j + 1 = 2 THEN r.i ELSE 0)
    BY <1>1, <1>2, <2>1 DEF PiecesIn
  <2> QED BY <1>1, <2>1, <2>2
<1>6. DOMAIN ms = 1 .. n
  BY <1>1
<1>7. Overlay(ns) = Overlay(ms)
  BY <1>3, <1>4, <1>5, <1>6, OverlayEmpty
<1> QED BY <1>2, <1>7

(* What a walk gives that has not begun: to a dict the walked map, to a set  *)
(* its keys, as far as the gate lets them pass.                              *)
LEMMA GivesWhole ==
  ASSUME NEW m, NEW l, NEW dst, NEW w, w.kind = "walk", Distinct(m, l[w.src]),
         w.gate = NoName, dst \notin SetNames
  PROVE  GivesIn(m, l, dst, w, 0) = Spelled(m, l[w.src])
<1>1. PICK e : e = Spelled(m, l[w.src])
  OBVIOUS
<1>2. e = [k \in DOMAIN e |-> e[k]]
  BY <1>1, SpelledKeys
<1>3. GivesIn(m, l, dst, w, 0) = Given(dst, e, Kept(m, l, w, e))
  BY <1>1 DEF GivesIn, Spelled
<1>4. Kept(m, l, w, e) = DOMAIN e
  BY DEF Kept
<1> QED BY <1>1, <1>2, <1>3, <1>4 DEF Given

(* The set with the keys K. *)
Zeros(K) == [k \in K |-> Zero]

(* A walk of a set operation gives the keys its gate lets through. *)
LEMMA GivesKeys ==
  ASSUME NEW m, NEW l, NEW dst \in SetNames, NEW w, w.kind = "walk",
         NEW K, K = {k \in DOMAIN Spelled(m, l[w.src]) : Passes(m, l, w, k)}
  PROVE  GivesIn(m, l, dst, w, 0) = Zeros(K)
<1>1. PICK e : e = Spelled(m, l[w.src])
  OBVIOUS
<1>2. GivesIn(m, l, dst, w, 0) = Given(dst, e, Kept(m, l, w, e))
  BY <1>1 DEF GivesIn, Spelled
<1>3. Kept(m, l, w, e) = K
  BY <1>1 DEF Kept, Passes
<1> QED BY <1>2, <1>3 DEF Given, Zeros

(* emit_map_alloc and the begin of the loop on its record. *)
LEMMA NewMapStarts ==
  ASSUME RInv, run.dst = NoName, trap = "none", NEW x \in Scope, NEW cap, NEW todo \in Seq(Entry),
         NewMap(x, cap, todo)
  PROVE  \/ Py!OutOfMemory
         \/ /\ \A q \in Records : Copied(mem, q, mem', q)
            /\ UNCHANGED <<loc, inCall, out, trap>>
            /\ \A ms : DOMAIN ms = 1 .. Len(todo)
                       /\ (\A j \in 1 .. Len(todo) : ms[j] = GivesIn(mem', loc, x, todo[j], 0))
                         => Py!Bind(x, Overlay(ms))
<1>1. CASE hp \notin Page
  <2>1. UNCHANGED <<mem, loc, inCall, run, out>> /\ trap' = "oob"
    BY <1>1 DEF NewMap, Abort
  <2> QED BY <2>1, OutStep
<1>2. CASE hp \in Page
  <2>1. /\ UNCHANGED <<loc, inCall, out, trap>>
        /\ run' = Start(x, hp, todo) /\ mem' = [mem EXCEPT ![hp] = W(0, cap)]
    BY <1>2 DEF NewMap
  <2>2. \A q \in Records : Copied(mem, q, mem', q)
    BY NewMapEffect DEF RInv
  <2>3. x \in Names
    BY DEF Scope, Names
  <2>4. run'.dst = x /\ run'.r = hp /\ run'.i = 0 /\ run'.todo = todo
    BY <2>1 DEF Start
  <2>5. Count(mem', hp) = 0
    BY <1>2, <2>1 DEF RInv, IInv, TypeOK, Count, W
  <2>6. /\ PyBound' = PyBound \cup {x} /\ PyRef' = [PyRef EXCEPT ![x] = x]
        /\ PyObj' = [PyObj EXCEPT ![x] = Overlay(Pieces)']
    BY <2>1, <2>2, <2>3, <2>4, BindStart
  <2>7. PyExc' = PyExc
    BY <2>1 DEF PyExc
  <2>8. ASSUME NEW ms, DOMAIN ms = 1 .. Len(todo),
               \A j \in 1 .. Len(todo) : ms[j] = GivesIn(mem', loc, x, todo[j], 0)
        PROVE  Py!Bind(x, Overlay(ms))
    <3>1. PICK m : m = mem'
      OBVIOUS
    <3>2. PICK s : s = run'
      OBVIOUS
    <3>3. PICK h : h = hp
      OBVIOUS
    <3>4. /\ s.dst = x /\ s.r = h /\ s.i = 0 /\ s.todo = todo /\ Count(m, h) = 0
          /\ \A j \in 1 .. Len(todo) : ms[j] = GivesIn(m, loc, x, todo[j], 0)
      BY <2>4, <2>5, <2>8, <3>1, <3>2, <3>3
    <3>5. Overlay(PiecesIn(m, loc, s)) = Overlay(ms)
      BY <2>8, <3>4, PiecesStart
    <3>6. Overlay(Pieces)' = Overlay(ms)
      BY <2>1, <3>1, <3>2, <3>5, PiecesNow
    <3> QED BY <2>1, <2>6, <2>7, <3>6 DEF Py!Bind
  <2> QED BY <2>1, <2>2, <2>8
<1> QED BY <1>1, <1>2

-----------------------------------------------------------------------------
(* One statement, one step: each action against its action of PyMaps.        *)

(* Between statements the two programs have the same names in scope. *)
LEMMA PyNow ==
  ASSUME run.dst = NoName
  PROVE  /\ Py!Scope = Scope /\ Py!Live = Live /\ Py!Dicts = Dicts /\ Py!Sets = Sets /\ Py!Names = Names
         /\ Live \subseteq Names /\ Scope \subseteq Names
         /\ trap = "none" => PyExc = "none" /\ Py!Running
<1>1. Py!Scope = Scope /\ Scope \subseteq Names /\ Py!Names = Names
  BY DEF Py!Scope, Scope, Names, Py!Names
<1>2. PyBound = {y \in Names : Bound(y)}
  BY MapsAssumption DEF PyBound
<1>3. Py!Live = Live
  BY <1>1, <1>2 DEF Py!Live, Live
<1>4. Py!Dicts = Dicts /\ Py!Sets = Sets
  BY <1>3 DEF Py!Dicts, Py!Sets, Dicts, Sets
<1>5. trap = "none" => PyExc = "none" /\ Py!Running
  BY DEF PyExc, Py!Running
<1> QED BY <1>1, <1>3, <1>4, <1>5 DEF Live

(* PyMaps and the refinement share the operators on maps. *)
LEMMA SameOps ==
  /\ \A k, v : Py!Single(k, v) = Single(k, v)
  /\ \A e, f : Py!Over(e, f) = Over(e, f)
  /\ \A ms : Py!Overlay(ms) = Overlay(ms)
<1>1. \A k, v : Py!Single(k, v) = Single(k, v)
  BY DEF Py!Single, Single
<1>2. \A e, f : Py!Over(e, f) = Over(e, f)
  BY DEF Py!Over, Over
<1>3. \A ms : Py!Overlay(ms) = Overlay(ms)
  BY DEF Py!Overlay, Overlay
<1> QED BY <1>1, <1>2, <1>3

(* What a name that is bound stands for. *)
LEMMA PyOf ==
  ASSUME RInv, run.dst = NoName, NEW x \in Live
  PROVE  /\ Py!Of(x) = Spelled(mem, loc[x]) /\ loc[x] \in Records /\ Bound(x) /\ x \in Names
         /\ Distinct(mem, loc[x]) /\ Count(mem, loc[x]) \in Nat
<1>1. x \in Names /\ Bound(x)
  BY PyNow DEF Live
<1>2. loc[x] \in Records
  BY <1>1, HeldIsRecord DEF RInv
<1>3. PyObj[PyRef[x]] = Contents(loc[x])
  BY <1>1, RefTo
<1> QED BY <1>1, <1>2, <1>3, RecordFacts DEF Py!Of, Contents, Spelled

(* What an entry of a display gives is what Python's entry gives. *)
LEMMA EntryGives ==
  ASSUME RInv, run.dst = NoName, NEW x \in Names, NEW w \in EntriesOf(x),
         \A q \in Records : Copied(mem, q, mem', q)
  PROVE  /\ PyEntry(w) \in Py!Pairs(x) \cup Py!Splats(x)
         /\ GivesIn(mem', loc, x, w, 0) = Py!Entry(PyEntry(w))
<1>1. CASE w \in Put(Keys, {Zero}) \cup Put(Keys, Vals)
  <2>1. w.kind = "put" /\ w.k \in Keys
    BY <1>1 DEF Put
  <2>2. w.v \in Py!Values(x)
    <3>1. CASE x \in SetNames
      BY <3>1 DEF EntriesOf, Put, Py!Values
    <3>2. CASE x \notin SetNames
      <4>1. w \in Put(Keys, Vals) \/ w \in {Walk(e, NoName, TRUE) : e \in Dicts}
        BY <3>2 DEF EntriesOf
      <4>2. w \in Put(Keys, Vals)
        BY <2>1, <4>1 DEF Walk
      <4> QED BY <3>2, <4>2 DEF Put, Py!Values
    <3> QED BY <3>1, <3>2
  <2>3. PyEntry(w) = <<KeyOf(w.k), w.v>>
    BY <2>1 DEF PyEntry
  <2>4. PyEntry(w) \in Py!Pairs(x)
    BY <2>1, <2>2, <2>3 DEF Py!Pairs
  <2>5. Py!Entry(PyEntry(w)) = Single(KeyOf(w.k), w.v)
    BY <2>3, SameOps DEF Py!Entry
  <2> QED BY <2>1, <2>4, <2>5 DEF GivesIn
<1>2. CASE w \notin Put(Keys, {Zero}) \cup Put(Keys, Vals)
  <2>1. x \notin SetNames /\ w \in {Walk(e, NoName, TRUE) : e \in Dicts}
    BY <1>2 DEF EntriesOf
  <2>2. PICK e \in Dicts : w = Walk(e, NoName, TRUE)
    BY <2>1
  <2>3. w.kind = "walk" /\ w.src = e /\ w.gate = NoName
    BY <2>2 DEF Walk
  <2>4. PyEntry(w) = <<e>>
    BY <2>3 DEF PyEntry
  <2>5. PyEntry(w) \in Py!Splats(x)
    BY <2>1, <2>4, PyNow DEF Py!Splats
  <2>6. Py!Entry(PyEntry(w)) = Py!Of(e)
    BY <2>4 DEF Py!Entry
  <2>7. e \in Live
    BY DEF Dicts
  <2>8. PICK p \in Records : p = loc[e]
    BY <2>7, PyOf
  <2>9. Py!Of(e) = Spelled(mem, p) /\ Distinct(mem, p)
    BY <2>7, <2>8, PyOf
  <2>10. PICK n : n = mem'
    OBVIOUS
  <2>11. Copied(mem, p, n, p)
    BY <2>8, <2>10
  <2>12. Spelled(n, p) = Spelled(mem, p) /\ Distinct(n, p)
    <3>1. 0 \in Nat
      OBVIOUS
    <3> QED BY <2>9, <2>11, <3>1, CopiedEntries, CopiedDistinct DEF Spelled
  <2>13. GivesIn(n, loc, x, w, 0) = Spelled(n, p)
    <3>1. Distinct(n, loc[w.src]) /\ loc[w.src] = p
      BY <2>3, <2>8, <2>12
    <3>2. GivesIn(n, loc, x, w, 0) = Spelled(n, loc[w.src])
      BY <2>1, <2>3, <3>1, GivesWhole
    <3> QED BY <3>1, <3>2
  <2> QED BY <2>5, <2>6, <2>9, <2>10, <2>12, <2>13
<1> QED BY <1>1, <1>2

(* A display. *)
LEMMA DisplayStep ==
  ASSUME RInv, NEW x \in Names, BindLit(x) PROVE Py!Display(x) \/ Py!OutOfMemory
<1>1. run.dst = NoName /\ trap = "none" /\ x \in Scope
  BY DEF BindLit, Ready
<1>2. PICK len \in 0 .. MaxItems : \E todo \in [1 .. len -> EntriesOf(x)] :
        NewMap(x, Explicit(todo) + Slack, todo) /\ Begin("display", x, todo)
  BY DEF BindLit
<1>3. PICK todo \in [1 .. len -> EntriesOf(x)] :
        NewMap(x, Explicit(todo) + Slack, todo) /\ Begin("display", x, todo)
  BY <1>2
<1>4. EntriesOf(x) \subseteq Entry
  <2>1. Dicts \subseteq Names
    BY PyNow, <1>1 DEF Dicts
  <2>2. \A e \in Dicts : Walk(e, NoName, TRUE) \in Entry
    BY <2>1, PutWalkEntry
  <2>3. Put(Keys, {Zero}) \subseteq Entry /\ Put(Keys, Vals) \subseteq Entry
    BY KeysAreWords, PutWalkEntry
  <2> QED BY <2>2, <2>3 DEF EntriesOf
<1>5. todo \in Seq(Entry) /\ DOMAIN todo = 1 .. len /\ Len(todo) = len
  BY <1>4, MapsAssumption
<1>6. PICK es : es = [j \in DOMAIN todo |-> PyEntry(todo[j])]
  OBVIOUS
<1>7. SUFFICES ASSUME ~ Py!OutOfMemory PROVE Py!Display(x)
  OBVIOUS
<1>8. PICK cap : cap = Explicit(todo) + Slack
  OBVIOUS
<1>9. /\ \A q \in Records : Copied(mem, q, mem', q)
      /\ \A ms : DOMAIN ms = 1 .. Len(todo)
                 /\ (\A j \in 1 .. Len(todo) : ms[j] = GivesIn(mem', loc, x, todo[j], 0))
                   => Py!Bind(x, Overlay(ms))
  BY <1>1, <1>3, <1>5, <1>7, <1>8, NewMapStarts
<1>10. PICK ms : ms = [j \in 1 .. len |-> Py!Entry(es[j])]
  OBVIOUS
<1>11. \A j \in 1 .. len : /\ es[j] \in Py!Pairs(x) \cup Py!Splats(x)
                           /\ ms[j] = GivesIn(mem', loc, x, todo[j], 0)
  BY <1>1, <1>5, <1>6, <1>9, <1>10, EntryGives
<1>12. Py!Bind(x, Overlay(ms))
  BY <1>5, <1>9, <1>10, <1>11
<1>13. es \in [1 .. len -> Py!Pairs(x) \cup Py!Splats(x)]
  BY <1>5, <1>6, <1>11
<1>14. Py!Begin("display", x, es)
  BY <1>3, <1>6, StmtNow
<1>15. Py!Running /\ x \in Py!Scope
  BY <1>1, PyNow
<1> QED BY <1>10, <1>12, <1>13, <1>14, <1>15, SameOps DEF Py!Display

(* The begin of a loop leaves what the walked names stand for. *)
LEMMA OfStays ==
  ASSUME RInv, run.dst = NoName, NEW x \in Live, \A q \in Records : Copied(mem, q, mem', q)
  PROVE  Spelled(mem', loc[x]) = Py!Of(x)
<1>1. PICK p \in Records : p = loc[x]
  BY PyOf
<1>2. Copied(mem, p, mem', p)
  BY <1>1
<1>3. Spelled(mem', p) = Contents(p)
  BY <1>2, CopiedSpelled
<1> QED BY <1>1, <1>3, PyOf DEF Contents, Spelled

(* Set union, as maps to zero. *)
LEMMA OverZeros ==
  ASSUME NEW A, NEW B PROVE Over(Zeros(B), Zeros(A)) = Zeros(A \cup B)
<1>1. PICK o : o = Over(Zeros(B), Zeros(A))
  OBVIOUS
<1>2. PICK z : z = Zeros(A \cup B)
  OBVIOUS
<1>3. DOMAIN o = A \cup B /\ o = [k \in DOMAIN o |-> o[k]] /\ \A k \in A \cup B : o[k] = Zero
  BY <1>1 DEF Over, Zeros
<1>4. DOMAIN z = A \cup B /\ z = [k \in DOMAIN z |-> z[k]] /\ \A k \in A \cup B : z[k] = Zero
  BY <1>2 DEF Zeros
<1>5. o = z
  BY <1>3, <1>4
<1> QED BY <1>1, <1>2, <1>5

(* The walks of the set algebra: all of a, or what b has too, or has not. *)
All(a)     == Walk(a, NoName, TRUE)
Both(a, b) == Walk(a, b, TRUE)
Only(a, b) == Walk(a, b, FALSE)

LEMMA WalksAre ==
  /\ \A a : All(a).kind = "walk" /\ All(a).src = a /\ All(a).gate = NoName
  /\ \A a, b : /\ Both(a, b).kind = "walk" /\ Both(a, b).src = a /\ Both(a, b).gate = b /\ Both(a, b).want
               /\ Only(a, b).kind = "walk" /\ Only(a, b).src = a /\ Only(a, b).gate = b /\ ~ Only(a, b).want
  /\ \A a, b \in Names : All(a) \in Entry /\ Both(a, b) \in Entry /\ Only(a, b) \in Entry
<1>1. \A a : All(a).kind = "walk" /\ All(a).src = a /\ All(a).gate = NoName
  BY DEF All, Walk
<1>2. \A a, b : Both(a, b).kind = "walk" /\ Both(a, b).src = a /\ Both(a, b).gate = b /\ Both(a, b).want
  BY DEF Both, Walk
<1>3. \A a, b : Only(a, b).kind = "walk" /\ Only(a, b).src = a /\ Only(a, b).gate = b /\ ~ Only(a, b).want
  BY DEF Only, Walk
<1>4. ASSUME NEW a \in Names, NEW b \in Names
      PROVE  All(a) \in Entry /\ Both(a, b) \in Entry /\ Only(a, b) \in Entry
  BY DEF All, Both, Only, Walk, Entry
<1> QED BY <1>1, <1>2, <1>3, <1>4

(* A is the set of the keys of the record that a holds. *)
HasKeys(n, l, a, A) == DOMAIN Spelled(n, l[a]) = A

(* What each kind of walk gives, when A are a's keys and B are b's. *)
WalksGive(n, l, x, a, b, A, B) ==
  /\ GivesIn(n, l, x, All(a), 0) = Zeros(A)
  /\ GivesIn(n, l, x, Both(a, b), 0) = Zeros(A \cap B)
  /\ GivesIn(n, l, x, Only(a, b), 0) = Zeros(A \ B)

LEMMA SetWalk ==
  ASSUME NEW n, NEW l, NEW x \in SetNames, NEW a, NEW b, b # NoName,
         NEW A, NEW B, HasKeys(n, l, a, A), HasKeys(n, l, b, B)
  PROVE  WalksGive(n, l, x, a, b, A, B)
<1>1. GivesIn(n, l, x, All(a), 0) = Zeros(A)
  <2>1. PICK w : w = All(a)
    OBVIOUS
  <2>2. A = {k \in DOMAIN Spelled(n, l[w.src]) : Passes(n, l, w, k)}
    BY <2>1, WalksAre DEF Passes, HasKeys
  <2>3. w.kind = "walk"
    BY <2>1, WalksAre
  <2>4. GivesIn(n, l, x, w, 0) = Zeros(A)
    BY <2>2, <2>3, GivesKeys
  <2> QED BY <2>1, <2>4
<1>2. GivesIn(n, l, x, Both(a, b), 0) = Zeros(A \cap B)
  <2>1. PICK w : w = Both(a, b)
    OBVIOUS
  <2>2. A \cap B = {k \in DOMAIN Spelled(n, l[w.src]) : Passes(n, l, w, k)}
    <3>1. ASSUME NEW k PROVE Passes(n, l, w, k) <=> k \in B
      <4>1. w.gate = b /\ w.want = TRUE
        BY <2>1 DEF Both, Walk
      <4>2. CASE k \in B
        BY <4>1, <4>2 DEF Passes, HasKeys
      <4>3. CASE k \notin B
        BY <4>1, <4>3 DEF Passes, HasKeys
      <4> QED BY <4>2, <4>3
    <3>2. w.src = a
      BY <2>1, WalksAre
    <3> QED BY <3>1, <3>2 DEF HasKeys
  <2>3. w.kind = "walk"
    BY <2>1, WalksAre
  <2>4. GivesIn(n, l, x, w, 0) = Zeros(A \cap B)
    BY <2>2, <2>3, GivesKeys
  <2> QED BY <2>1, <2>4
<1>3. GivesIn(n, l, x, Only(a, b), 0) = Zeros(A \ B)
  <2>1. PICK w : w = Only(a, b)
    OBVIOUS
  <2>2. A \ B = {k \in DOMAIN Spelled(n, l[w.src]) : Passes(n, l, w, k)}
    <3>1. ASSUME NEW k PROVE Passes(n, l, w, k) <=> k \notin B
      <4>1. w.gate = b /\ w.want = FALSE
        BY <2>1 DEF Only, Walk
      <4>2. CASE k \in B
        BY <4>1, <4>2 DEF Passes, HasKeys
      <4>3. CASE k \notin B
        <5>1. (k \in DOMAIN Spelled(n, l[b])) = FALSE
          BY <4>3 DEF HasKeys
        <5>2. (k \in DOMAIN Spelled(n, l[w.gate])) = w.want
          BY <4>1, <5>1
        <5> QED BY <4>3, <5>2 DEF Passes
      <4> QED BY <4>2, <4>3
    <3>2. w.src = a
      BY <2>1, WalksAre
    <3> QED BY <3>1, <3>2 DEF HasKeys
  <2>3. w.kind = "walk"
    BY <2>1, WalksAre
  <2>4. GivesIn(n, l, x, w, 0) = Zeros(A \ B)
    BY <2>2, <2>3, GivesKeys
  <2> QED BY <2>1, <2>4
<1> QED BY <1>1, <1>2, <1>3 DEF WalksGive

(* ms are the maps that the walks of todo give. *)
GivenBy(ms, n, l, x, todo) ==
  /\ DOMAIN ms = 1 .. Len(todo)
  /\ \A j \in 1 .. Len(todo) : ms[j] = GivesIn(n, l, x, todo[j], 0)

(* One walk, or two, and the set they build. *)
LEMMA OneWalk ==
  ASSUME NEW n, NEW l, NEW x, NEW w \in Entry, NEW K, GivesIn(n, l, x, w, 0) = Zeros(K)
  PROVE  \E ms : GivenBy(ms, n, l, x, <<w>>) /\ Overlay(ms) = Zeros(K)
<1>1. PICK ms : ms = [j \in 1 .. 1 |-> Zeros(K)]
  OBVIOUS
<1>2. DOMAIN ms = 1 .. 1 /\ ms[1] = Zeros(K)
  BY <1>1
<1>3. ms[1] = [k \in DOMAIN ms[1] |-> ms[1][k]]
  BY <1>2 DEF Zeros
<1>4. Overlay(ms) = Zeros(K)
  BY <1>2, <1>3, OverlayOne
<1>5. Len(<<w>>) = 1 /\ <<w>>[1] = w
  OBVIOUS
<1>6. GivenBy(ms, n, l, x, <<w>>)
  BY <1>2, <1>5 DEF GivenBy
<1> QED BY <1>4, <1>6

LEMMA TwoWalks ==
  ASSUME NEW n, NEW l, NEW x, NEW w \in Entry, NEW u \in Entry, NEW K, NEW L,
         GivesIn(n, l, x, w, 0) = Zeros(K), GivesIn(n, l, x, u, 0) = Zeros(L)
  PROVE  \E ms : GivenBy(ms, n, l, x, <<w, u>>) /\ Overlay(ms) = Zeros(K \cup L)
<1>1. PICK ms : ms = [j \in 1 .. 2 |-> IF j = 1 THEN Zeros(K) ELSE Zeros(L)]
  OBVIOUS
<1>2. DOMAIN ms = 1 .. 2 /\ ms[1] = Zeros(K) /\ ms[2] = Zeros(L)
  BY <1>1
<1>3. Overlay(ms) = Zeros(K \cup L)
  BY <1>2, OverlayTwo, OverZeros
<1>4. Len(<<w, u>>) = 2 /\ <<w, u>>[1] = w /\ <<w, u>>[2] = u
  OBVIOUS
<1>5. \A j \in 1 .. 2 : j = 1 \/ j = 2
  OBVIOUS
<1>6. GivenBy(ms, n, l, x, <<w, u>>)
  BY <1>2, <1>4, <1>5 DEF GivenBy
<1> QED BY <1>3, <1>6

(* The set algebra helpers walk one set or both, gated by the other one. *)
LEMMA WalksCombine ==
  ASSUME NEW n, NEW l, NEW x \in SetNames, NEW a \in Names, NEW b \in Names,
         NEW A, NEW B, HasKeys(n, l, a, A), HasKeys(n, l, b, B),
         NEW op \in {"union", "intersection", "difference", "symdiff"}
  PROVE  /\ WalksOf(op, a, b) \in Seq(Entry)
         /\ \E ms : GivenBy(ms, n, l, x, WalksOf(op, a, b)) /\ Overlay(ms) = Zeros(Py!Combine(op, A, B))
<1>1. a # NoName /\ b # NoName
  BY MapsAssumption
<1>2. /\ All(a) \in Entry /\ All(b) \in Entry
      /\ Both(a, b) \in Entry /\ Only(a, b) \in Entry /\ Only(b, a) \in Entry
  BY WalksAre
<1>3. /\ GivesIn(n, l, x, All(a), 0) = Zeros(A)
      /\ GivesIn(n, l, x, All(b), 0) = Zeros(B)
      /\ GivesIn(n, l, x, Both(a, b), 0) = Zeros(A \cap B)
      /\ GivesIn(n, l, x, Only(a, b), 0) = Zeros(A \ B)
      /\ GivesIn(n, l, x, Only(b, a), 0) = Zeros(B \ A)
  <2>1. WalksGive(n, l, x, a, b, A, B)
    BY <1>1, SetWalk
  <2>2. WalksGive(n, l, x, b, a, B, A)
    BY <1>1, SetWalk
  <2> QED BY <2>1, <2>2 DEF WalksGive
<1>4. CASE op = "union"
  <2>1. WalksOf(op, a, b) = <<All(a), All(b)>> /\ Py!Combine(op, A, B) = A \cup B
    BY <1>4 DEF WalksOf, Py!Combine, All, Both, Only
  <2>2. <<All(a), All(b)>> \in Seq(Entry)
    BY <1>2
  <2> QED BY <1>2, <1>3, <2>1, <2>2, TwoWalks
<1>5. CASE op = "intersection"
  <2>1. WalksOf(op, a, b) = <<Both(a, b)>> /\ Py!Combine(op, A, B) = A \cap B
    BY <1>5 DEF WalksOf, Py!Combine, All, Both, Only
  <2>2. <<Both(a, b)>> \in Seq(Entry)
    BY <1>2
  <2> QED BY <1>2, <1>3, <2>1, <2>2, OneWalk
<1>6. CASE op = "difference"
  <2>1. WalksOf(op, a, b) = <<Only(a, b)>> /\ Py!Combine(op, A, B) = A \ B
    BY <1>6 DEF WalksOf, Py!Combine, All, Both, Only
  <2>2. <<Only(a, b)>> \in Seq(Entry)
    BY <1>2
  <2> QED BY <1>2, <1>3, <2>1, <2>2, OneWalk
<1>7. CASE op = "symdiff"
  <2>1. WalksOf(op, a, b) = <<Only(a, b), Only(b, a)>> /\ Py!Combine(op, A, B) = (A \ B) \cup (B \ A)
    BY <1>7 DEF WalksOf, Py!Combine, All, Both, Only
  <2>2. <<Only(a, b), Only(b, a)>> \in Seq(Entry)
    BY <1>2
  <2> QED BY <1>2, <1>3, <2>1, <2>2, TwoWalks
<1> QED BY <1>4, <1>5, <1>6, <1>7

(* x = a | b, a & b, a - b, a ^ b. *)
LEMMA AlgebraStep ==
  ASSUME RInv, NEW x \in Names, SetOp(x) PROVE Py!Algebra(x) \/ Py!OutOfMemory
<1>1. run.dst = NoName /\ trap = "none" /\ x \in Scope /\ x \in SetNames
  BY DEF SetOp, Ready
<1>2. PICK op \in {"union", "intersection", "difference", "symdiff"}, a \in Sets, b \in Sets :
        NewMap(x, AlgebraCap(op, a, b), WalksOf(op, a, b)) /\ Begin(op, x, <<a, b>>)
  BY DEF SetOp
<1>3. SUFFICES ASSUME ~ Py!OutOfMemory PROVE Py!Algebra(x)
  OBVIOUS
<1>4. \A q \in Records : Copied(mem, q, mem', q)
  BY <1>1, <1>2, NewMapEffect DEF RInv
<1>5. PICK todo : todo = WalksOf(op, a, b)
  OBVIOUS
<1>6. PICK cap : cap = AlgebraCap(op, a, b)
  OBVIOUS
<1>7. PICK A : A = DOMAIN Py!Of(a)
  OBVIOUS
<1>8. PICK B : B = DOMAIN Py!Of(b)
  OBVIOUS
<1>9. PICK n : n = mem'
  OBVIOUS
<1>10. /\ a \in Names /\ b \in Names
       /\ HasKeys(n, loc, a, A) /\ HasKeys(n, loc, b, B)
  <2>1. a \in Live /\ b \in Live
    BY DEF Sets
  <2> QED BY <1>1, <1>4, <1>7, <1>8, <1>9, <2>1, OfStays, PyNow DEF HasKeys
<1>11. todo \in Seq(Entry)
  BY <1>1, <1>5, <1>10, WalksCombine
<1>12. PICK ms : GivenBy(ms, n, loc, x, todo) /\ Overlay(ms) = Zeros(Py!Combine(op, A, B))
  BY <1>1, <1>5, <1>10, WalksCombine
<1>13. NewMap(x, cap, todo)
  BY <1>2, <1>5, <1>6
<1>14. Py!Bind(x, Overlay(ms))
  BY <1>1, <1>3, <1>13, <1>9, <1>11, <1>12, NewMapStarts DEF GivenBy
<1>15. Py!Begin(op, x, <<a, b>>)
  BY <1>2, StmtNow
<1>16. Py!Running /\ x \in Py!Scope \cap SetNames /\ a \in Py!Sets /\ b \in Py!Sets
  BY <1>1, PyNow
<1> QED BY <1>7, <1>8, <1>14, <1>15, <1>16, <1>12 DEF Py!Algebra, Zeros

(* d.update(e). *)
LEMMA MergeStep ==
  ASSUME RInv, NEW d \in Names, DictUpdate(d) PROVE Py!Merge(d)
<1>1. run.dst = NoName /\ trap = "none" /\ d \in Dicts /\ d \notin Params /\ d \notin SetNames
  BY DEF DictUpdate, Ready, Dicts
<1>2. PICK e \in Dicts : run' = Start(d, loc[d], <<All(e)>>) /\ Begin("update", d, <<e>>)
  BY DEF DictUpdate, All
<1>3. UNCHANGED <<mem, loc, inCall, out, trap>>
  BY DEF DictUpdate
<1>4. d \in Live /\ e \in Live
  BY <1>1 DEF Dicts
<1>5. \A q \in Records : Copied(mem, q, mem', q)
  BY <1>3, CopiedSelf
<1>6. run'.dst = d /\ run'.r = loc[d] /\ run'.i = 0 /\ run'.todo = <<All(e)>>
  BY <1>2 DEF Start
<1>7. /\ PyBound' = PyBound \cup {d} /\ PyRef' = [PyRef EXCEPT ![d] = d]
      /\ PyObj' = [PyObj EXCEPT ![d] = Overlay(Pieces)']
  BY <1>1, <1>3, <1>5, <1>6, BindStart
<1>8. PyRef[d] = d
  BY <1>1, <1>4, RefTo, PyOf
<1>9. PyBound' = PyBound /\ PyRef' = PyRef
  <2>1. d \in PyBound
    BY <1>1, <1>4, PyOf DEF PyBound
  <2>2. PyRef = [y \in Names |-> PyRef[y]]
    BY DEF PyRef
  <2> QED BY <1>7, <1>8, <2>1, <2>2
<1>10. Overlay(Pieces)' = Over(Py!Of(e), Py!Of(d))
  <2>1. PICK s : s = run'
    OBVIOUS
  <2>2. PICK w : w = All(e)
    OBVIOUS
  <2>3. w.kind = "walk" /\ w.src = e /\ w.gate = NoName
    BY <2>2, WalksAre
  <2>4. Distinct(mem, loc[w.src]) /\ Py!Of(e) = Spelled(mem, loc[w.src])
    BY <1>1, <1>4, <2>3, PyOf
  <2>5. GivesIn(mem, loc, d, w, 0) = Py!Of(e)
    BY <1>1, <2>3, <2>4, GivesWhole
  <2>6. PICK ms : ms = PiecesIn(mem, loc, s)
    OBVIOUS
  <2>7. s.todo = <<w>> /\ s.dst = d /\ s.i = 0 /\ s.r = loc[d]
    BY <1>6, <2>1, <2>2
  <2>8. Len(<<w>>) = 1 /\ <<w>>[1] = w
    OBVIOUS
  <2>9. DOMAIN ms = 1 .. 2 /\ ms[1] = Spelled(mem, loc[d]) /\ ms[2] = GivesIn(mem, loc, d, w, 0)
    <3>1. ms = [j \in 1 .. 1 + 1 |-> IF j = 1 THEN Spelled(mem, loc[d])
                                    ELSE GivesIn(mem, loc, d, <<w>>[j - 1], IF j = 2 THEN 0 ELSE 0)]
      BY <2>6, <2>7, <2>8 DEF PiecesIn
    <3> QED BY <2>8, <3>1
  <2>10. Overlay(ms) = Over(Py!Of(e), Spelled(mem, loc[d]))
    BY <2>5, <2>9, OverlayTwo
  <2>11. Py!Of(d) = Spelled(mem, loc[d])
    BY <1>1, <1>4, PyOf
  <2> QED BY <1>3, <2>1, <2>6, <2>10, <2>11, PiecesNow
<1>11. PyExc' = PyExc
  BY <1>3 DEF PyExc
<1>12. Py!Begin("update", d, <<e>>)
  BY <1>2, StmtNow
<1>13. Py!Running /\ d \in Py!Dicts /\ e \in Py!Dicts
  BY <1>1, PyNow
<1>14. Py!Update(d, Over(Py!Of(e), Py!Of(d)), out)
  BY <1>3, <1>7, <1>8, <1>9, <1>10, <1>11 DEF Py!Update
<1> QED BY <1>12, <1>13, <1>14, SameOps DEF Py!Merge

(* A statement that leaves d's record, wherever it is then, with contents c. *)
LEMMA UpdateStep ==
  ASSUME RInv, run.dst = NoName, run'.dst = NoName, NEW d \in Live,
         \A y \in Names : loc'[y] = IF loc[y] = loc[d] THEN loc'[d] ELSE loc[y],
         loc'[d] # 0, \A y \in Names : loc[y] = loc'[d] => loc[y] = loc[d],
         \A p \in Records : p # loc[d] => Copied(mem, p, mem', p),
         UNCHANGED <<inCall, trap>>,
         NEW c, Spelled(mem', loc'[d]) = c
  PROVE  Py!Update(d, c, out')
<1>1. d \in Names /\ Bound(d)
  BY PyOf
<1>2. /\ PyBound' = PyBound /\ PyRef' = PyRef
      /\ PyObj' = [PyObj EXCEPT ![PyRef[d]] = Spelled(mem', loc'[d])]
  BY <1>1, ObjUpdate
<1>3. PyExc' = PyExc
  BY DEF PyExc
<1> QED BY <1>2, <1>3 DEF Py!Update

(* A statement that only reads d. *)
LEMMA ReadStep ==
  ASSUME RInv, run.dst = NoName, NEW d \in Live, UNCHANGED <<mem, loc, inCall, run, trap>>
  PROVE  Py!Update(d, Py!Of(d), out')
<1>1. \A p \in Records : Copied(mem, p, mem', p)
  BY CopiedSelf
<1>2. Spelled(mem', loc'[d]) = Py!Of(d)
  BY PyOf
<1>3. Bound(d)
  BY PyOf
<1>4. \A y \in Names : loc'[y] = IF loc[y] = loc[d] THEN loc'[d] ELSE loc[y]
  OBVIOUS
<1>5. loc'[d] # 0
  BY <1>3 DEF Bound
<1>6. \A y \in Names : loc[y] = loc'[d] => loc[y] = loc[d]
  OBVIOUS
<1>7. run'.dst = NoName
  OBVIOUS
<1> QED BY <1>1, <1>2, <1>4, <1>5, <1>6, <1>7, UpdateStep

(* A trap on an absent key. *)
LEMMA RaiseStep ==
  ASSUME trap = "none", Abort("unreachable") PROVE Py!Raise("KeyError")
<1>1. PyExc' = "KeyError"
  BY DEF PyExc, Abort
<1>2. UNCHANGED <<mem, loc, run, inCall, out>>
  BY DEF Abort
<1> QED BY <1>1, <1>2, SameState DEF Py!Raise

(* setdefault lays a pair under a map: over it or under it is the same        *)
(* unless the key is there already.                                           *)
LEMMA OverHas ==
  ASSUME NEW f, f = [x \in DOMAIN f |-> f[x]], NEW k \in DOMAIN f, NEW v
  PROVE  Over(f, Single(k, v)) = f
<1>1. PICK o : o = Over(f, Single(k, v))
  OBVIOUS
<1>2. DOMAIN o = DOMAIN f /\ o = [x \in DOMAIN o |-> o[x]] /\ \A x \in DOMAIN f : o[x] = f[x]
  BY <1>1 DEF Over, Single
<1>3. o = f
  BY <1>2
<1> QED BY <1>1, <1>3

LEMMA OverLacks ==
  ASSUME NEW f, NEW k, k \notin DOMAIN f, NEW v
  PROVE  Over(f, Single(k, v)) = Over(Single(k, v), f) /\ Over(f, Single(k, v))[k] = v
<1>1. PICK o : o = Over(f, Single(k, v))
  OBVIOUS
<1>2. PICK r : r = Over(Single(k, v), f)
  OBVIOUS
<1>3. /\ DOMAIN o = DOMAIN f \cup {k} /\ o = [x \in DOMAIN o |-> o[x]]
      /\ o[k] = v /\ \A x \in DOMAIN f : o[x] = f[x]
  BY <1>1 DEF Over, Single
<1>4. /\ DOMAIN r = DOMAIN f \cup {k} /\ r = [x \in DOMAIN r |-> r[x]]
      /\ r[k] = v /\ \A x \in DOMAIN f : r[x] = f[x]
  BY <1>2 DEF Over, Single
<1>5. \A x \in DOMAIN o : o[x] = r[x]
  BY <1>3, <1>4
<1>6. o = r
  BY <1>3, <1>4, <1>5
<1> QED BY <1>1, <1>2, <1>3, <1>6

(* The result of a dict_set stored back: d's object is what the record that  *)
(* came back spells.                                                         *)
LEMMA StoreBackAt ==
  ASSUME RInv, run.dst = NoName, NEW d \in Live \ Params, NEW t, NEW result, StoreBack(d, t, result),
         t.ok, t.ptr \in Page, t.ptr = loc[d] \/ t.ptr \notin Records,
         \A q \in Records : q # loc[d] => Copied(mem, q, t.mem, q),
         NEW c, Spelled(t.mem, t.ptr) = c
  PROVE  Py!Update(d, c, result)
<1>1. /\ mem' = t.mem /\ loc' = [loc EXCEPT ![d] = t.ptr] /\ out' = result
      /\ UNCHANGED <<inCall, run, trap>>
  BY DEF StoreBack
<1>2. IInv /\ loc \in [Names -> Nat]
  BY DEF RInv, IInv, TypeOK
<1>3. d \in Names /\ loc[d] \notin {0} /\ \A y \in Names : loc[y] = loc[d] => y = d
  BY <1>2, ReceiverAlone
<1>4. \A y \in Names : loc'[y] = IF y = d THEN t.ptr ELSE loc[y]
  BY <1>1, <1>2, <1>3
<1>5. t.ptr # 0
  BY HeapAssumption DEF Page
<1>6. \A y \in Names : loc[y] = t.ptr => loc[y] = loc[d]
  BY <1>2, <1>5, HeldIsRecord DEF Bound
<1>7. \A y \in Names : loc'[y] = IF loc[y] = loc[d] THEN loc'[d] ELSE loc[y]
  BY <1>3, <1>4
<1>8. loc'[d] = t.ptr
  BY <1>3, <1>4
<1>9. \A p \in Records : p # loc[d] => Copied(mem, p, mem', p)
  BY <1>1
<1>10. run'.dst = NoName /\ d \in Live /\ UNCHANGED <<inCall, trap>>
  BY <1>1
<1>11. Spelled(mem', loc'[d]) = c
  BY <1>1, <1>8
<1>12. \A y \in Names : loc[y] = loc'[d] => loc[y] = loc[d]
  BY <1>6, <1>8
<1>13. loc'[d] # 0
  BY <1>5, <1>8
<1>14. Py!Update(d, c, out')
  BY <1>7, <1>9, <1>10, <1>11, <1>12, <1>13, UpdateStep
<1> QED BY <1>1, <1>14

(* A dict_set that finds no memory ends the program. *)
LEMMA StoreBackOut ==
  ASSUME trap = "none", NEW d, NEW t, NEW result, StoreBack(d, t, result), ~ t.ok
  PROVE  Py!OutOfMemory
<1>1. UNCHANGED <<mem, loc, inCall, run, out>> /\ trap' = "oob"
  BY DEF StoreBack, Abort
<1> QED BY <1>1, OutStep

(* One dict_set on d's own record. *)
LEMMA SetGives ==
  ASSUME RInv, run.dst = NoName, NEW d \in Live \ Params, NEW k \in Word, NEW v \in Word,
         NEW t, t = dict_set(mem, hp, loc[d], k, v), t.ok
  PROVE  /\ t.ptr \in Page /\ (t.ptr = loc[d] \/ t.ptr \notin Records)
         /\ \A q \in Records : q # loc[d] => Copied(mem, q, t.mem, q)
         /\ Spelled(t.mem, t.ptr) = Over(Single(KeyOf(k), v), Py!Of(d))
         /\ Distinct(t.mem, t.ptr) /\ dict_has(t.mem, t.ptr, k)
<1>1. Good(mem, hp, Records, foreign)
  BY DEF RInv, IInv
<1>2. PICK p \in Records : p = loc[d]
  BY PyOf
<1>3. Py!Of(d) = Spelled(mem, p) /\ Distinct(mem, p) /\ Count(mem, p) \in Nat
  BY <1>2, PyOf
<1>4. t.ptr \in Page /\ (t.ptr = p \/ t.ptr \notin Records) /\ dict_has(t.mem, t.ptr, k)
  BY <1>1, <1>2, GoodSet
<1>5. /\ Stored(mem, p, t.mem, t.ptr, k, v)
      /\ \A q \in Records : q # p => Copied(mem, q, t.mem, q)
  BY <1>1, <1>2, SetStored
<1>6. Spelled(t.mem, t.ptr) = Over(Single(KeyOf(k), v), Spelled(mem, p))
  BY <1>3, <1>5, StoredSpelled
<1>7. Distinct(t.mem, t.ptr)
  BY <1>3, <1>5, StoredDistinct
<1> QED BY <1>2, <1>3, <1>4, <1>5, <1>6, <1>7

(* The values a statement may store in d. *)
LEMMA ValuesAre ==
  ASSUME NEW d, NEW v
  PROVE  /\ v \in (IF d \in SetNames THEN {Zero} ELSE Vals) <=> v \in Py!Values(d)
         /\ v \in Py!Values(d) => v \in Word
BY KeysAreWords DEF Py!Values

(* d[k] = v. *)
LEMMA StoreStep ==
  ASSUME RInv, NEW d \in Names, DictSet(d) PROVE Py!Store(d) \/ Py!OutOfMemory
<1>1. run.dst = NoName /\ trap = "none" /\ d \in Live \ Params
  BY DEF DictSet, Ready
<1>2. PICK k \in Keys : \E v \in Py!Values(d) :
        /\ StoreBack(d, dict_set(mem, hp, loc[d], k, v), Zero) /\ Begin("store", d, <<KeyOf(k), v>>)
  BY DEF DictSet, Py!Values
<1>3. PICK v \in Py!Values(d) :
        /\ StoreBack(d, dict_set(mem, hp, loc[d], k, v), Zero) /\ Begin("store", d, <<KeyOf(k), v>>)
  BY <1>2
<1>4. k \in Word /\ v \in Word
  BY KeysAreWords, ValuesAre
<1>5. PICK t : t = dict_set(mem, hp, loc[d], k, v)
  OBVIOUS
<1>6. StoreBack(d, t, Zero)
  BY <1>3, <1>5
<1>7. CASE ~ t.ok
  BY <1>1, <1>6, <1>7, StoreBackOut
<1>8. CASE t.ok
  <2>1. /\ t.ptr \in Page /\ (t.ptr = loc[d] \/ t.ptr \notin Records)
        /\ \A q \in Records : q # loc[d] => Copied(mem, q, t.mem, q)
        /\ Spelled(t.mem, t.ptr) = Over(Single(KeyOf(k), v), Py!Of(d))
    BY <1>1, <1>4, <1>5, <1>8, SetGives
  <2>2. Py!Update(d, Over(Single(KeyOf(k), v), Py!Of(d)), Zero)
    BY <1>1, <1>6, <1>8, <2>1, StoreBackAt
  <2>3. Py!Begin("store", d, <<KeyOf(k), v>>)
    BY <1>3, StmtNow
  <2>4. Py!Running /\ d \in Py!Live
    BY <1>1, PyNow
  <2>5. KeyOf(k) \in {KeyOf(x) : x \in Keys}
    OBVIOUS
  <2> QED BY <2>2, <2>3, <2>4, <2>5, SameOps DEF Py!Store
<1> QED BY <1>7, <1>8

(* d.setdefault(k, v). *)
LEMMA SetDefaultStep ==
  ASSUME RInv, NEW d \in Names, SetDefault(d) PROVE Py!SetDefault(d) \/ Py!OutOfMemory
<1>1. run.dst = NoName /\ trap = "none" /\ d \in Live \ Params /\ d \in Dicts /\ d \in Live
  BY DEF SetDefault, Ready, Dicts
<1>2. PICK k \in Keys, v \in Vals :
       /\ Begin("setdefault", d, <<KeyOf(k), v>>)
       /\ \/ /\ dict_has(mem, loc[d], k)
             /\ out' = dict_get(mem, loc[d], k)
             /\ UNCHANGED <<mem, hp, loc, inCall, run, trap, foreign>>
          \/ /\ ~ dict_has(mem, loc[d], k)
             /\ StoreBack(d, dict_set(mem, hp, loc[d], k, v),
                          dict_get(dict_set(mem, hp, loc[d], k, v).mem,
                                   dict_set(mem, hp, loc[d], k, v).ptr, k))
  BY DEF SetDefault
<1>3. k \in Word /\ v \in Word
  BY KeysAreWords
<1>4. PICK x : x = KeyOf(k)
  OBVIOUS
<1>5. PICK p \in Records : p = loc[d]
  BY <1>1, PyOf
<1>6. PICK f : f = Py!Of(d)
  OBVIOUS
<1>7. f = Spelled(mem, p) /\ Distinct(mem, p)
  BY <1>1, <1>5, <1>6, PyOf
<1>8. f = [y \in DOMAIN f |-> f[y]]
  BY <1>7, SpelledKeys
<1>9. /\ dict_has(mem, p, k) <=> x \in DOMAIN f
      /\ dict_has(mem, p, k) => dict_get(mem, p, k) = f[x]
  BY <1>4, <1>7, HasSpelled
<1>10. SUFFICES ASSUME ~ Py!OutOfMemory
                PROVE  Py!Update(d, Over(f, Single(x, v)), Over(f, Single(x, v))[x])
  <2>1. Py!Begin("setdefault", d, <<x, v>>)
    BY <1>2, <1>4, StmtNow
  <2>2. Py!Running /\ d \in Py!Dicts
    BY <1>1, PyNow
  <2>3. x \in {KeyOf(y) : y \in Keys}
    BY <1>4
  <2> QED BY <1>6, <2>1, <2>2, <2>3, SameOps DEF Py!SetDefault
<1>11. CASE dict_has(mem, p, k)
  <2>1. Over(f, Single(x, v)) = f
    BY <1>8, <1>9, <1>11, OverHas
  <2>2. out' = f[x] /\ UNCHANGED <<mem, loc, inCall, run, trap>>
    BY <1>2, <1>5, <1>9, <1>11
  <2>3. Py!Update(d, f, out')
    BY <1>1, <1>6, <2>2, ReadStep
  <2> QED BY <2>1, <2>2, <2>3
<1>12. CASE ~ dict_has(mem, p, k)
  <2>1. PICK t : t = dict_set(mem, hp, loc[d], k, v)
    OBVIOUS
  <2>2. StoreBack(d, t, dict_get(t.mem, t.ptr, k))
    BY <1>2, <1>5, <1>12, <2>1
  <2>3. t.ok
    BY <1>1, <1>10, <2>2, StoreBackOut
  <2>4. Over(f, Single(x, v)) = Over(Single(x, v), f) /\ Over(f, Single(x, v))[x] = v
    BY <1>9, <1>12, OverLacks
  <2>5. /\ t.ptr \in Page /\ (t.ptr = loc[d] \/ t.ptr \notin Records)
        /\ \A q \in Records : q # loc[d] => Copied(mem, q, t.mem, q)
        /\ Spelled(t.mem, t.ptr) = Over(Single(x, v), f)
        /\ Distinct(t.mem, t.ptr) /\ dict_has(t.mem, t.ptr, k)
    BY <1>1, <1>3, <1>4, <1>6, <2>1, <2>3, SetGives
  <2>6. dict_get(t.mem, t.ptr, k) = Spelled(t.mem, t.ptr)[x]
    BY <1>4, <2>5, HasSpelled
  <2>7. Py!Update(d, Over(Single(x, v), f), dict_get(t.mem, t.ptr, k))
    BY <1>1, <2>2, <2>3, <2>5, StoreBackAt
  <2> QED BY <2>4, <2>5, <2>6, <2>7
<1> QED BY <1>11, <1>12

(* d[k] = d.setdefault(j, v), as long as the inner store does not move d. *)
LEMMA StoreSetDefaultStep ==
  ASSUME RInv, ~ NestedSetDefault, NEW d \in Names, DictSetOfSetDefault(d)
  PROVE  Py!StoreSetDefault(d) \/ Py!OutOfMemory
<1> DEFINE first(j, v) == dict_set(mem, hp, loc[d], j, v)
<1>1. run.dst = NoName /\ trap = "none" /\ d \in Live \ Params /\ d \in Dicts /\ d \in Live
  BY DEF DictSetOfSetDefault, Ready, Dicts
<1>2. PICK k \in Keys, j \in Keys, v \in Vals :
        /\ dict_has(mem, loc[d], j) \/ ~ first(j, v).ok \/ first(j, v).ptr = loc[d]
        /\ Begin("store_setdefault", d, <<KeyOf(k), KeyOf(j), v>>)
        /\ \/ /\ dict_has(mem, loc[d], j)
              /\ StoreBack(d, dict_set(mem, hp, loc[d], k, dict_get(mem, loc[d], j)), Zero)
           \/ /\ ~ dict_has(mem, loc[d], j) /\ first(j, v).ok
              /\ StoreBack(d, dict_set(first(j, v).mem, first(j, v).hp, loc[d], k, v), Zero)
           \/ /\ ~ dict_has(mem, loc[d], j) /\ ~ first(j, v).ok
              /\ hp' = first(j, v).hp /\ Abort("oob")
  BY DEF DictSetOfSetDefault
<1>3. k \in Word /\ j \in Word /\ v \in Word
  BY KeysAreWords
<1>4. PICK x : x = KeyOf(k)
  OBVIOUS
<1>5. PICK y : y = KeyOf(j)
  OBVIOUS
<1>6. PICK p \in Records : p = loc[d]
  BY <1>1, PyOf
<1>7. PICK f : f = Py!Of(d)
  OBVIOUS
<1>8. f = Spelled(mem, p) /\ Distinct(mem, p) /\ Count(mem, p) \in Nat
  BY <1>1, <1>6, <1>7, PyOf
<1>9. f = [z \in DOMAIN f |-> f[z]]
  BY <1>8, SpelledKeys
<1>10. /\ dict_has(mem, p, j) <=> y \in DOMAIN f
       /\ dict_has(mem, p, j) => dict_get(mem, p, j) = f[y]
  BY <1>5, <1>8, HasSpelled
<1>11. SUFFICES ASSUME ~ Py!OutOfMemory
                PROVE  Py!Update(d, Over(Single(x, Over(f, Single(y, v))[y]), Over(f, Single(y, v))), Zero)
  <2>1. Py!Begin("store_setdefault", d, <<x, y, v>>)
    BY <1>2, <1>4, <1>5, StmtNow
  <2>2. Py!Running /\ d \in Py!Dicts
    BY <1>1, PyNow
  <2>3. x \in {KeyOf(z) : z \in Keys} /\ y \in {KeyOf(z) : z \in Keys}
    BY <1>4, <1>5
  <2> QED BY <1>7, <2>1, <2>2, <2>3, SameOps DEF Py!StoreSetDefault
<1>12. Good(mem, hp, Records, foreign)
  BY DEF RInv, IInv
<1>13. CASE dict_has(mem, p, j)
  <2>1. PICK u : u = dict_get(mem, p, j)
    OBVIOUS
  <2>2. u \in Word
    BY <1>12, <1>13, <2>1, GetWord
  <2>3. PICK t : t = dict_set(mem, hp, loc[d], k, u)
    OBVIOUS
  <2>4. StoreBack(d, t, Zero)
    BY <1>2, <1>6, <1>13, <2>1, <2>3
  <2>5. t.ok
    BY <1>1, <1>11, <2>4, StoreBackOut
  <2>6. /\ t.ptr \in Page /\ (t.ptr = loc[d] \/ t.ptr \notin Records)
        /\ \A q \in Records : q # loc[d] => Copied(mem, q, t.mem, q)
        /\ Spelled(t.mem, t.ptr) = Over(Single(x, u), f)
    BY <1>1, <1>3, <1>4, <1>7, <2>2, <2>3, <2>5, SetGives
  <2>7. Py!Update(d, Over(Single(x, u), f), Zero)
    BY <1>1, <2>4, <2>5, <2>6, StoreBackAt
  <2>8. Over(f, Single(y, v)) = f /\ u = f[y]
    BY <1>9, <1>10, <1>13, <2>1, OverHas
  <2> QED BY <2>7, <2>8
<1>14. CASE ~ dict_has(mem, p, j)
  <2>1. PICK s : s = first(j, v)
    OBVIOUS
  <2>2. s = dict_set(mem, hp, loc[d], j, v)
    BY <2>1
  <2>3. s.ok
    <3>1. CASE ~ s.ok
      <4>1. UNCHANGED <<mem, loc, inCall, run, out>> /\ trap' = "oob"
        BY <1>2, <1>6, <1>14, <2>1, <3>1 DEF Abort
      <4> QED BY <1>1, <1>11, <4>1, OutStep
    <3> QED BY <3>1
  <2>4. s.ptr = p
    BY <1>2, <1>6, <1>14, <2>1, <2>3
  <2>5. PICK t : t = dict_set(s.mem, s.hp, p, k, v)
    OBVIOUS
  <2>6. StoreBack(d, t, Zero)
    BY <1>2, <1>6, <1>14, <2>1, <2>3, <2>5
  <2>7. t.ok
    BY <1>1, <1>11, <2>6, StoreBackOut
  <2>8. /\ \A q \in Records : q # p => Copied(mem, q, s.mem, q)
        /\ Spelled(s.mem, p) = Over(Single(y, v), f) /\ Distinct(s.mem, p)
    BY <1>1, <1>3, <1>5, <1>6, <1>7, <2>2, <2>3, <2>4, SetGives
  <2>9. Good(s.mem, s.hp, Records, foreign)
    <3>1. Good(s.mem, s.hp, Records \cup {s.ptr}, foreign)
      BY <1>3, <1>6, <1>12, <2>2, <2>3, GoodSet
    <3> QED BY <2>4, <3>1, GoodSubset
  <2>10. t.ptr \in Page /\ (t.ptr = p \/ t.ptr \notin Records)
    BY <1>3, <2>5, <2>7, <2>9, GoodSet
  <2>11. /\ Stored(s.mem, p, t.mem, t.ptr, k, v)
         /\ \A q \in Records : q # p => Copied(s.mem, q, t.mem, q)
    BY <1>3, <2>5, <2>7, <2>9, SetStored
  <2>12. Count(s.mem, p) \in Nat
    BY <2>9 DEF Good, WellFormed
  <2>13. Spelled(t.mem, t.ptr) = Over(Single(x, v), Spelled(s.mem, p))
    BY <1>4, <2>8, <2>11, <2>12, StoredSpelled
  <2>14. \A q \in Records : q # loc[d] => Copied(mem, q, t.mem, q)
    BY <1>6, <2>8, <2>11, CopiedTwice
  <2>15. t.ptr = loc[d] \/ t.ptr \notin Records
    BY <1>6, <2>10
  <2>16. Py!Update(d, Over(Single(x, v), Over(Single(y, v), f)), Zero)
    BY <1>1, <2>6, <2>7, <2>8, <2>10, <2>13, <2>14, <2>15, StoreBackAt
  <2>17. Over(f, Single(y, v)) = Over(Single(y, v), f) /\ Over(f, Single(y, v))[y] = v
    BY <1>10, <1>14, OverLacks
  <2> QED BY <2>16, <2>17
<1> QED BY <1>13, <1>14

(* dict_pop of a key that is there. *)
LEMMA TakeStep ==
  ASSUME RInv, run.dst = NoName, NEW d \in Live, NEW k, dict_has(mem, loc[d], k),
         TakeOut(d, k, dict_get(mem, loc[d], k))
  PROVE  Py!Update(d, Py!Without(Py!Of(d), KeyOf(k)), Py!Of(d)[KeyOf(k)])
<1>1. /\ Removed(mem, loc[d], mem', k)
      /\ \A q \in Records : q # loc[d] => Copied(mem, q, mem', q)
  BY TakeOutEffect DEF RInv
<1>2. out' = dict_get(mem, loc[d], k) /\ UNCHANGED <<loc, inCall, run, trap>>
  BY DEF TakeOut
<1>3. PICK p \in Records : p = loc[d]
  BY PyOf
<1>4. PICK f : f = Py!Of(d)
  OBVIOUS
<1>5. f = Spelled(mem, p) /\ Distinct(mem, p) /\ Count(mem, p) \in Nat /\ Bound(d)
  BY <1>3, <1>4, PyOf
<1>6. PICK n : n = mem'
  OBVIOUS
<1>7. Spelled(n, p) = Py!Without(Spelled(mem, p), KeyOf(k))
  <2>1. /\ Removed(mem, p, n, k) /\ dict_has(mem, p, k)
        /\ Distinct(mem, p) /\ Count(mem, p) \in Nat
    BY <1>1, <1>3, <1>5, <1>6
  <2> QED BY <2>1, RemovedSpelled
<1>8. Spelled(mem', loc'[d]) = Py!Without(f, KeyOf(k))
  <2>1. loc'[d] = p /\ mem' = n /\ f = Spelled(mem, p)
    BY <1>2, <1>3, <1>5, <1>6
  <2> QED BY <1>7, <2>1
<1>9. out' = f[KeyOf(k)]
  BY <1>2, <1>3, <1>5, HasSpelled
<1>10. \A z \in Names : loc'[z] = IF loc[z] = loc[d] THEN loc'[d] ELSE loc[z]
  BY <1>2
<1>11. loc'[d] # 0 /\ \A z \in Names : loc[z] = loc'[d] => loc[z] = loc[d]
  BY <1>2, <1>5 DEF Bound
<1>12. run'.dst = NoName /\ UNCHANGED <<inCall, trap>>
  BY <1>2
<1>13. Py!Update(d, Py!Without(f, KeyOf(k)), out')
  BY <1>1, <1>8, <1>10, <1>11, <1>12, UpdateStep
<1> QED BY <1>4, <1>9, <1>13

(* What dict_has says is what Python's `in` says. *)
LEMMA HasNow ==
  ASSUME RInv, run.dst = NoName, NEW d \in Live, NEW k
  PROVE  /\ dict_has(mem, loc[d], k) <=> KeyOf(k) \in DOMAIN Py!Of(d)
         /\ dict_has(mem, loc[d], k) => dict_get(mem, loc[d], k) = Py!Of(d)[KeyOf(k)]
<1>1. PICK p \in Records : p = loc[d]
  BY PyOf
<1>2. Py!Of(d) = Spelled(mem, p) /\ Distinct(mem, p)
  BY <1>1, PyOf
<1> QED BY <1>1, <1>2, HasSpelled

(* d.pop(k), del d[k], s.remove(k). *)
LEMMA PopStep == ASSUME RInv, NEW d \in Names, Pop(d) PROVE Py!Pop(d)
<1>1. run.dst = NoName /\ trap = "none" /\ d \in Live
  BY DEF Pop, Ready
<1>2. PICK k \in Keys :
        /\ Begin("pop", d, <<KeyOf(k)>>)
        /\ \/ dict_has(mem, loc[d], k) /\ TakeOut(d, k, dict_get(mem, loc[d], k))
           \/ ~ dict_has(mem, loc[d], k) /\ hp' = hp /\ Abort("unreachable")
  BY DEF Pop
<1>3. Py!Begin("pop", d, <<KeyOf(k)>>)
  BY <1>2, StmtNow
<1>4. Py!Running /\ d \in Py!Live
  BY <1>1, PyNow
<1>5. KeyOf(k) \in {KeyOf(z) : z \in Keys}
  OBVIOUS
<1>6. CASE dict_has(mem, loc[d], k)
  <2>1. Py!Update(d, Py!Without(Py!Of(d), KeyOf(k)), Py!Of(d)[KeyOf(k)])
    BY <1>1, <1>2, <1>6, TakeStep
  <2>2. KeyOf(k) \in DOMAIN Py!Of(d)
    BY <1>1, <1>6, HasNow
  <2> QED BY <1>3, <1>4, <1>5, <2>1, <2>2 DEF Py!Pop
<1>7. CASE ~ dict_has(mem, loc[d], k)
  <2>1. Py!Raise("KeyError")
    BY <1>1, <1>2, <1>7, RaiseStep
  <2>2. KeyOf(k) \notin DOMAIN Py!Of(d)
    BY <1>1, <1>7, HasNow
  <2> QED BY <1>3, <1>4, <1>5, <2>1, <2>2 DEF Py!Pop
<1> QED BY <1>6, <1>7

(* d.pop(k, v), s.discard(k). *)
LEMMA PopOrStep == ASSUME RInv, NEW d \in Names, PopOr(d) PROVE Py!PopOr(d)
<1>1. run.dst = NoName /\ trap = "none" /\ d \in Live
  BY DEF PopOr, Ready
<1>2. PICK k \in Keys, v \in Py!Values(d) :
        /\ Begin("pop_or", d, <<KeyOf(k), v>>)
        /\ \/ dict_has(mem, loc[d], k) /\ TakeOut(d, k, dict_get(mem, loc[d], k))
           \/ /\ ~ dict_has(mem, loc[d], k)
              /\ out' = v
              /\ UNCHANGED <<mem, hp, loc, inCall, run, trap, foreign>>
  BY DEF PopOr, Py!Values
<1>3. Py!Begin("pop_or", d, <<KeyOf(k), v>>)
  BY <1>2, StmtNow
<1>4. Py!Running /\ d \in Py!Live
  BY <1>1, PyNow
<1>5. KeyOf(k) \in {KeyOf(z) : z \in Keys}
  OBVIOUS
<1>6. CASE dict_has(mem, loc[d], k)
  <2>1. Py!Update(d, Py!Without(Py!Of(d), KeyOf(k)), Py!Of(d)[KeyOf(k)])
    BY <1>1, <1>2, <1>6, TakeStep
  <2>2. KeyOf(k) \in DOMAIN Py!Of(d)
    BY <1>1, <1>6, HasNow
  <2> QED BY <1>3, <1>4, <1>5, <2>1, <2>2 DEF Py!PopOr
<1>7. CASE ~ dict_has(mem, loc[d], k)
  <2>1. out' = v /\ UNCHANGED <<mem, loc, inCall, run, trap>>
    BY <1>2, <1>7
  <2>2. Py!Update(d, Py!Of(d), v)
    BY <1>1, <2>1, ReadStep
  <2>3. KeyOf(k) \notin DOMAIN Py!Of(d)
    BY <1>1, <1>7, HasNow
  <2> QED BY <1>3, <1>4, <1>5, <2>2, <2>3 DEF Py!PopOr
<1> QED BY <1>6, <1>7

(* d[k]. *)
LEMMA GetStep == ASSUME RInv, NEW d \in Names, Get(d) PROVE Py!Get(d)
<1>1. run.dst = NoName /\ trap = "none" /\ d \in Dicts /\ d \in Live
  BY DEF Get, Ready, Dicts
<1>2. PICK k \in Keys :
       /\ Begin("get", d, <<KeyOf(k)>>)
       /\ \/ /\ dict_has(mem, loc[d], k)
             /\ out' = dict_get(mem, loc[d], k)
             /\ UNCHANGED <<mem, hp, loc, inCall, run, trap, foreign>>
          \/ ~ dict_has(mem, loc[d], k) /\ hp' = hp /\ Abort("unreachable")
  BY DEF Get
<1>3. Py!Begin("get", d, <<KeyOf(k)>>)
  BY <1>2, StmtNow
<1>4. Py!Running /\ d \in Py!Dicts
  BY <1>1, PyNow
<1>5. KeyOf(k) \in {KeyOf(z) : z \in Keys}
  OBVIOUS
<1>6. CASE dict_has(mem, loc[d], k)
  <2>1. out' = Py!Of(d)[KeyOf(k)] /\ UNCHANGED <<mem, loc, inCall, run, trap>>
    BY <1>1, <1>2, <1>6, HasNow
  <2>2. Py!Update(d, Py!Of(d), Py!Of(d)[KeyOf(k)])
    BY <1>1, <2>1, ReadStep
  <2>3. KeyOf(k) \in DOMAIN Py!Of(d)
    BY <1>1, <1>6, HasNow
  <2> QED BY <1>3, <1>4, <1>5, <2>2, <2>3 DEF Py!Get
<1>7. CASE ~ dict_has(mem, loc[d], k)
  <2>1. Py!Raise("KeyError")
    BY <1>1, <1>2, <1>7, RaiseStep
  <2>2. KeyOf(k) \notin DOMAIN Py!Of(d)
    BY <1>1, <1>7, HasNow
  <2> QED BY <1>3, <1>4, <1>5, <2>1, <2>2 DEF Py!Get
<1> QED BY <1>6, <1>7

(* d.clear(). *)
LEMMA ClearStep == ASSUME RInv, NEW d \in Names, Clear(d) PROVE Py!Clear(d)
<1>1. run.dst = NoName /\ trap = "none" /\ d \in Live /\ Begin("clear", d, <<>>) /\ out' = Zero
      /\ UNCHANGED <<loc, inCall, run, trap>>
  BY DEF Clear, Ready
<1>2. /\ Count(mem', loc[d]) = 0
      /\ \A q \in Records : q # loc[d] => Copied(mem, q, mem', q)
  BY ClearEffect DEF RInv
<1>3. PICK n : n = mem'
  OBVIOUS
<1>4. PICK p : p = loc[d]
  OBVIOUS
<1>5. Spelled(n, p) = <<>>
  BY <1>2, <1>3, <1>4, NothingSpelled
<1>6. Spelled(mem', loc'[d]) = <<>>
  BY <1>1, <1>3, <1>4, <1>5
<1>7. \A z \in Names : loc'[z] = IF loc[z] = loc[d] THEN loc'[d] ELSE loc[z]
  BY <1>1
<1>8. Bound(d)
  BY <1>1, PyOf
<1>9. loc'[d] # 0 /\ \A z \in Names : loc[z] = loc'[d] => loc[z] = loc[d]
  BY <1>1, <1>8 DEF Bound
<1>10. run'.dst = NoName /\ UNCHANGED <<inCall, trap>>
  BY <1>1
<1>11. Py!Update(d, <<>>, out')
  BY <1>1, <1>2, <1>6, <1>7, <1>9, <1>10, UpdateStep
<1>12. Py!Begin("clear", d, <<>>)
  BY <1>1, StmtNow
<1>13. Py!Running /\ d \in Py!Live
  BY <1>1, PyNow
<1> QED BY <1>1, <1>11, <1>12, <1>13 DEF Py!Clear, Py!Empty

-----------------------------------------------------------------------------
(* Calls.                                                                    *)

(* The three kinds of names. *)
LEMMA NamesApart ==
  /\ Callers \subseteq Names /\ Callees \subseteq Names /\ Params \subseteq Names
  /\ \A c \in Callers : c \notin Params /\ c \notin Callees
  /\ \A c \in Callees : c \notin Params
  /\ \A x \in Names : x \in Callers \/ x \in Callees \/ x \in Params
BY MapsAssumption DEF Names

(* f(d, e): the parameters hold the objects of the arguments. *)
LEMMA CallStep == ASSUME RInv, Call PROVE Py!Call
<1>1. run.dst = NoName /\ trap = "none" /\ ~ inCall /\ Callees \cup Params # {}
  BY DEF Call, Ready
<1>2. PICK arg \in [Params -> Live] :
        /\ \A p \in Params : (p \in SetNames) = (arg[p] \in SetNames)
        /\ loc' = [x \in Names |-> IF x \in Params THEN loc[arg[x]]
                                   ELSE IF x \in Callees THEN 0 ELSE loc[x]]
        /\ Begin("call", NoName, arg)
  BY DEF Call
<1>3. inCall' = TRUE /\ UNCHANGED <<mem, run, out, trap>>
  BY DEF Call
<1>4. IInv /\ loc \in [Names -> Nat]
  BY DEF RInv, IInv, TypeOK
<1>5. \A x \in Params : arg[x] \in Callers /\ Bound(arg[x]) /\ arg[x] \in Live
  BY <1>1, <1>2 DEF Live, Scope
<1>6. \A x \in Callees \cup Params : loc[x] = 0
  BY <1>1, <1>4 DEF IInv, OneOwner, Bound
<1>7. \A c \in Callers : loc'[c] = loc[c]
  BY <1>2, NamesApart
<1>8. \A x \in Params : loc'[x] = loc[arg[x]] /\ loc'[x] # 0
  BY <1>2, <1>5, NamesApart DEF Bound
<1>9. \A x \in Callees : loc'[x] = 0
  BY <1>2, NamesApart
<1>10. PyBound' = PyBound \cup Params
  <2>1. \A x \in Names : (loc'[x] # 0 \/ x = run'.dst) <=> (loc[x] # 0 \/ x = run.dst \/ x \in Params)
    BY <1>1, <1>3, <1>6, <1>7, <1>8, <1>9, NamesApart
  <2> QED BY <2>1, BoundNow, NamesApart
<1>11. PICK l : l = loc'
  OBVIOUS
<1>12. \A c, e \in Callers : l[c] # 0 /\ l[c] = l[e] => c = e
  BY <1>4, <1>7, <1>11, CallersApart
<1>13. ASSUME NEW x \in Names
       PROVE  /\ OwnsIn(l, NoName, x) <=> x \notin Params
              /\ RefsIn(l, NoName)[x] = IF x \in Params THEN arg[x] ELSE x
  <2>1. CASE x \notin Params
    BY <2>1 DEF OwnsIn, RefsIn
  <2>2. CASE x \in Params
    <3>1. arg[x] \in Callers /\ l[arg[x]] = l[x] /\ l[arg[x]] # 0
      BY <1>5, <1>7, <1>8, <1>11, <2>2
    <3>2. ~ OwnsIn(l, NoName, x)
      BY <2>2, <3>1, MapsAssumption DEF OwnsIn
    <3>3. PICK c \in Callers : c = arg[x]
      BY <3>1
    <3>4. l[c] = l[x]
      BY <3>1, <3>3
    <3>5. RefsIn(l, NoName)[x] = c
      BY <1>12, <3>2, <3>4, RefIs
    <3> QED BY <2>2, <3>2, <3>3, <3>5
  <2> QED BY <2>1, <2>2
<1>14. PyRef' = [x \in Names |-> IF x \in Params THEN arg[x] ELSE x]
  <2>1. PyRef' = RefsIn(l, NoName)
    BY <1>1, <1>3, <1>11, RefNow
  <2>2. RefsIn(l, NoName) = [x \in Names |-> RefsIn(l, NoName)[x]]
    BY DEF RefsIn
  <2> QED BY <1>13, <2>1, <2>2
<1>15. PyObj' = PyObj
  <2>1. ASSUME NEW x \in Names PROVE PyObj'[x] = PyObj[x]
    <3>1. x # run.dst /\ x # run'.dst
      BY <1>1, <1>3, NamesApart, MapsAssumption
    <3>2. PyObj'[x] = IF l[x] # 0 /\ x \notin Params THEN Spelled(mem, l[x]) ELSE <<>>
      BY <1>1, <1>3, <1>11, <1>13, <3>1, ObjForm
    <3>3. CASE x \in Callers
      <4>1. x \notin Params /\ l[x] = loc[x] /\ Owner(x)
        BY <1>7, <1>11, <3>3, NamesApart DEF Owner
      <4> QED BY <3>1, <3>2, <4>1, ObjForm DEF Bound, Contents, Spelled
    <3>4. CASE x \notin Callers
      <4>1. loc[x] = 0 /\ (x \in Params \/ l[x] = 0)
        BY <1>6, <1>9, <1>11, <3>4, NamesApart
      <4> QED BY <3>1, <3>2, <4>1, ObjForm DEF Bound
    <3> QED BY <3>3, <3>4
  <2> QED BY <2>1, ObjForm
<1>16. PyExc' = PyExc
  BY <1>3 DEF PyExc
<1>17. Py!Begin("call", NoName, arg)
  BY <1>2, StmtNow
<1>18. Py!Running /\ Py!Live = Live /\ Py!Names = Names
  BY <1>1, PyNow
<1> QED BY <1>1, <1>2, <1>3, <1>10, <1>14, <1>15, <1>16, <1>17, <1>18 DEF Py!Call

(* The callee's locals go: hold says what the callers' names hold then. *)
LEMMA LeaveStep ==
  ASSUME RInv, run.dst = NoName, UNCHANGED <<mem, run, out, trap>>, inCall' = FALSE,
         \A y \in Names : y \notin Callers => loc'[y] = 0,
         NEW hold, \A y \in Callers : hold[y] = IF loc'[y] # 0 THEN Spelled(mem, loc'[y]) ELSE <<>>
  PROVE  Py!Leave(hold) /\ PyBound' = {y \in Callers : loc'[y] # 0}
<1>1. run'.dst = NoName /\ \A x \in Names : x # run'.dst
  BY MapsAssumption
<1>2. PyBound' = {y \in Callers : loc'[y] # 0}
  BY <1>1, BoundNow, NamesApart
<1>3. \A x \in Names : OwnsIn(loc', NoName, x)
  <2>1. ASSUME NEW x \in Names PROVE OwnsIn(loc', NoName, x)
    <3>1. CASE x \notin Params
      BY <3>1 DEF OwnsIn
    <3>2. CASE x \in Params
      <4>1. loc'[x] = 0
        BY <3>2, NamesApart
      <4> QED BY <4>1 DEF OwnsIn
    <3> QED BY <3>1, <3>2
  <2> QED BY <2>1
<1>4. PyRef' = [x \in Names |-> x]
  <2>1. PyRef' = RefsIn(loc', NoName)
    BY <1>1, RefNow
  <2> QED BY <1>3, <2>1 DEF RefsIn
<1>5. PyObj' = [x \in Names |-> IF x \in Callers THEN hold[x] ELSE <<>>]
  <2>1. \A x \in Names : PyObj'[x] = IF loc'[x] # 0 THEN Spelled(mem, loc'[x]) ELSE <<>>
    BY <1>1, <1>3, ObjForm
  <2>2. \A x \in Names : PyObj'[x] = IF x \in Callers THEN hold[x] ELSE <<>>
    BY <2>1
  <2> QED BY <2>2, ObjForm
<1>6. PyExc' = PyExc
  BY DEF PyExc
<1> QED BY <1>2, <1>4, <1>5, <1>6 DEF Py!Leave, Py!Empty, Py!Names, Names

(* What a name that is no parameter holds. *)
LEMMA OwnObject ==
  ASSUME run.dst = NoName, NEW x \in Names, x \notin Params
  PROVE  PyObj[x] = IF loc[x] # 0 THEN Spelled(mem, loc[x]) ELSE <<>>
<1>1. x # run.dst /\ Owner(x)
  BY MapsAssumption DEF Owner
<1> QED BY <1>1, ObjForm DEF Bound, Contents, Spelled

(* The call ends; what it did to its parameters, it did to the caller's. *)
LEMMA ReturnStep == ASSUME RInv, Return PROVE Py!Return
<1>1. /\ run.dst = NoName /\ trap = "none" /\ inCall /\ inCall' = FALSE
      /\ UNCHANGED <<mem, run, out, trap>>
      /\ loc' = [y \in Names |-> IF y \in Callers THEN loc[y] ELSE 0]
      /\ Begin("return", NoName, <<>>)
  BY DEF Return, Ready
<1>2. \A y \in Names : loc'[y] = IF y \in Callers THEN loc[y] ELSE 0
  BY <1>1
<1>3. \A y \in Callers : PyObj[y] = IF loc'[y] # 0 THEN Spelled(mem, loc'[y]) ELSE <<>>
  BY <1>1, <1>2, OwnObject, NamesApart
<1>4. PICK hold : hold = PyObj
  OBVIOUS
<1>5. Py!Leave(hold) /\ PyBound' = {y \in Callers : loc'[y] # 0}
  BY <1>1, <1>2, <1>3, <1>4, LeaveStep
<1>6. PyBound' = PyBound \cap Callers
  BY <1>1, <1>2, <1>5, BoundNow, NamesApart
<1>7. Py!Begin("return", NoName, <<>>)
  BY <1>1, StmtNow
<1>8. Py!Running
  BY <1>1, PyNow
<1> QED BY <1>1, <1>4, <1>5, <1>6, <1>7, <1>8 DEF Py!Return

(* return r: the object of r goes to the caller's x. *)
LEMMA ReturnMapStep == ASSUME RInv, ReturnMap PROVE Py!ReturnMap
<1>1. /\ run.dst = NoName /\ trap = "none" /\ inCall /\ inCall' = FALSE
      /\ UNCHANGED <<mem, run, out, trap>>
  BY DEF ReturnMap, Ready
<1>2. PICK x \in Callers, r \in Callees :
        /\ Bound(r) /\ (x \in SetNames) = (r \in SetNames)
        /\ loc' = [y \in Names |-> IF y = x THEN loc[r] ELSE IF y \in Callers THEN loc[y] ELSE 0]
        /\ Begin("return", x, <<r>>)
  BY DEF ReturnMap
<1>3. \A y \in Names : loc'[y] = IF y = x THEN loc[r] ELSE IF y \in Callers THEN loc[y] ELSE 0
  BY <1>2
<1>4. loc[r] # 0
  BY <1>2 DEF Bound
<1>5. PICK hold : hold = [PyObj EXCEPT ![x] = PyObj[r]]
  OBVIOUS
<1>6. \A y \in Callers : hold[y] = IF y = x THEN PyObj[r] ELSE PyObj[y]
  BY <1>5, ObjForm, NamesApart
<1>7. \A y \in Callers : hold[y] = IF loc'[y] # 0 THEN Spelled(mem, loc'[y]) ELSE <<>>
  <2>1. PyObj[r] = Spelled(mem, loc[r])
    BY <1>1, <1>4, OwnObject, NamesApart
  <2>2. \A y \in Callers : PyObj[y] = IF loc[y] # 0 THEN Spelled(mem, loc[y]) ELSE <<>>
    BY <1>1, OwnObject, NamesApart
  <2> QED BY <1>3, <1>4, <1>6, <2>1, <2>2, NamesApart
<1>8. Py!Leave(hold) /\ PyBound' = {y \in Callers : loc'[y] # 0}
  BY <1>1, <1>3, <1>7, LeaveStep, NamesApart
<1>9. PyBound' = (PyBound \cap Callers) \cup {x}
  BY <1>1, <1>3, <1>4, <1>8, BoundNow, NamesApart
<1>10. r \in Callees \cap PyBound
  BY <1>1, <1>4, BoundNow, NamesApart
<1>11. Py!Begin("return", x, <<r>>)
  BY <1>2, StmtNow
<1>12. Py!Running
  BY <1>1, PyNow
<1> QED BY <1>1, <1>2, <1>5, <1>8, <1>9, <1>10, <1>11, <1>12 DEF Py!ReturnMap

-----------------------------------------------------------------------------
(* The refinement.                                                           *)

(* A step that the Python program does not see. *)
LEMMA Stutters ==
  ASSUME PyBound' = PyBound, PyRef' = PyRef, PyObj' = PyObj, UNCHANGED <<inCall, out, trap, stmt>>
  PROVE  UNCHANGED Py!vars
<1>1. PyExc' = PyExc
  BY DEF PyExc
<1>2. PyStmt' = PyStmt
  BY DEF PyStmt, PyEntry
<1> QED BY <1>1, <1>2 DEF Py!vars

(* Strings, lists and structs come from the same heap, and Python's dicts    *)
(* and sets do not notice.                                                   *)
LEMMA ForeignStep == ASSUME RInv, ForeignAlloc PROVE Py!OutOfMemory \/ UNCHANGED Py!vars
<1>1. /\ run.dst = NoName /\ trap = "none" /\ IInv
      /\ Good(mem, hp, Records, foreign) /\ hp \in Nat /\ mem \in [Page -> Word]
  BY DEF ForeignAlloc, Ready, RInv, IInv, TypeOK
<1>2. PICK bytes \in ForeignBytes :
        \/ /\ mem' = [a \in Page |-> IF a \in hp .. (alloc(hp, bytes) - 1) THEN Foreign ELSE mem[a]]
           /\ UNCHANGED <<loc, inCall, run, out, trap, stmt>>
        \/ Abort("oob")
  BY DEF ForeignAlloc
<1>3. CASE /\ mem' = [a \in Page |-> IF a \in hp .. (alloc(hp, bytes) - 1) THEN Foreign ELSE mem[a]]
           /\ UNCHANGED <<loc, inCall, run, out, trap, stmt>>
  <2>1. \A b \in Page : b < hp => mem'[b] = mem[b]
    BY <1>1, <1>3, HeapAssumption DEF Page
  <2>2. \A p \in Records : Copied(mem, p, mem', p)
    BY <1>1, <2>1, AboveCopied
  <2>3. run'.dst = NoName /\ loc' = loc
    BY <1>1, <1>3
  <2>4. PyBound' = PyBound /\ PyRef' = PyRef /\ PyObj' = PyObj
    BY <1>1, <2>2, <2>3, Unmoved
  <2> QED BY <1>3, <2>4, Stutters
<1>4. CASE Abort("oob")
  BY <1>1, <1>4, OutStep DEF Abort
<1> QED BY <1>2, <1>3, <1>4

(* The loop of a statement runs in one step of Python. *)
LEMMA RunSetSeen ==
  ASSUME trap = "none", NEW k, NEW v, NEW next, RunSet(k, v, next),
         PyBound' = PyBound /\ PyRef' = PyRef /\ PyObj' = PyObj
  PROVE  Py!OutOfMemory \/ UNCHANGED Py!vars
<1>1. CASE UNCHANGED <<loc, inCall, out, trap, foreign, stmt>>
  BY <1>1, Stutters
<1>2. CASE Abort("oob") /\ UNCHANGED stmt
  <2>1. PyExc = "none" /\ PyExc' = "MemoryError" /\ UNCHANGED <<inCall, out>>
    BY <1>2 DEF PyExc, Abort
  <2> QED BY <2>1 DEF Py!OutOfMemory, Py!Running, Py!Raise
<1> QED BY <1>1, <1>2 DEF RunSet

(* A loop in progress is invisible: its object has been whole since it        *)
(* began.                                                                     *)
LEMMA RunStepSeen == ASSUME RInv, RunStep PROVE Py!OutOfMemory \/ UNCHANGED Py!vars
<1>1. CASE RunPut
  <2>1. trap = "none" /\ RunSet(Head(run.todo).k, Head(run.todo).v, [run EXCEPT !.todo = Tail(@)])
    BY <1>1 DEF RunPut, Running
  <2> QED BY <1>1, <2>1, PutStutters, RunSetSeen
<1>2. CASE WalkInsert
  <2>1. trap = "none" /\ RunSet(WalkKey, WalkVal, [run EXCEPT !.i = @ + 1])
    BY <1>2 DEF WalkInsert, Walking, Running
  <2> QED BY <1>2, <2>1, InsertStutters, RunSetSeen
<1>3. CASE WalkStart
  <2>1. UNCHANGED <<inCall, out, trap, stmt>>
    BY <1>3 DEF WalkStart
  <2> QED BY <1>3, <2>1, WalkMovesOn, Stutters
<1>4. CASE WalkSkip
  <2>1. UNCHANGED <<inCall, out, trap, stmt>>
    BY <1>4 DEF WalkSkip
  <2> QED BY <1>4, <2>1, WalkMovesOn, Stutters
<1>5. CASE WalkEnd
  <2>1. UNCHANGED <<inCall, out, trap, stmt>>
    BY <1>5 DEF WalkEnd
  <2> QED BY <1>5, <2>1, EndStutters, Stutters
<1>6. CASE RunDone
  <2>1. UNCHANGED <<inCall, out, trap, stmt>>
    BY <1>6 DEF RunDone
  <2> QED BY <1>6, <2>1, DoneStutters, Stutters
<1> QED BY <1>1, <1>2, <1>3, <1>4, <1>5, <1>6 DEF RunStep

(* Nothing is bound at first, here and there. *)
LEMMA StartsAsPython == Init => Py!Init
<1> SUFFICES ASSUME Init PROVE Py!Init
  OBVIOUS
<1>1. /\ \A x \in Names : loc[x] = 0
      /\ run.dst = NoName /\ trap = "none" /\ inCall = FALSE /\ out = Zero
      /\ stmt = [op |-> "none", x |-> NoName, args |-> <<>>]
  BY DEF Init, IdleRun, Stmt
<1>2. \A x \in Names : x # run.dst
  BY <1>1, MapsAssumption
<1>3. PyBound = {}
  BY <1>1, <1>2 DEF PyBound, Bound
<1>4. PyObj = [x \in Names |-> <<>>]
  <2>1. \A x \in Names : PyObj[x] = <<>>
    BY <1>1, <1>2, ObjForm DEF Bound
  <2> QED BY <2>1, ObjForm
<1>5. PyRef = [x \in Names |-> x]
  <2>1. \A x \in Names : Owner(x)
    BY <1>1, NamesApart DEF Owner, Bound
  <2> QED BY <2>1 DEF PyRef
<1>6. PyExc = "none" /\ PyStmt = stmt
  BY <1>1 DEF PyExc, PyStmt
<1> QED BY <1>1, <1>3, <1>4, <1>5, <1>6 DEF Py!Init, Py!Empty, Py!Names, Names

(* Every step is a step of the Python program, or one it does not see. *)
LEMMA StepsAsPython == ASSUME RInv, ~ NestedSetDefault, [Next]_vars PROVE [Py!Next]_Py!vars
<1>1. ASSUME NEW x \in Names, BindLit(x) \/ SetOp(x) \/ DictUpdate(x) PROVE Py!Next
  <2>1. Py!Display(x) \/ Py!Algebra(x) \/ Py!Merge(x) \/ Py!OutOfMemory
    BY <1>1, DisplayStep, AlgebraStep, MergeStep
  <2> QED BY <2>1 DEF Py!Next, Py!Names, Names
<1>2. ASSUME NEW x \in Names, DictSet(x) \/ SetDefault(x) \/ DictSetOfSetDefault(x) PROVE Py!Next
  <2>1. Py!Store(x) \/ Py!SetDefault(x) \/ Py!StoreSetDefault(x) \/ Py!OutOfMemory
    BY <1>2, StoreStep, SetDefaultStep, StoreSetDefaultStep
  <2> QED BY <2>1 DEF Py!Next, Py!Names, Names
<1>3. ASSUME NEW x \in Names, Pop(x) \/ PopOr(x) \/ Clear(x) \/ Get(x) PROVE Py!Next
  <2>1. Py!Pop(x) \/ Py!PopOr(x) \/ Py!Clear(x) \/ Py!Get(x)
    BY <1>3, PopStep, PopOrStep, ClearStep, GetStep
  <2> QED BY <2>1 DEF Py!Next, Py!Names, Names
<1>4. CASE RunStep
  BY <1>4, RunStepSeen DEF Py!Next
<1>5. CASE Call \/ ReturnMap \/ Return
  BY <1>5, CallStep, ReturnMapStep, ReturnStep DEF Py!Next
<1>6. CASE ForeignAlloc
  BY <1>6, ForeignStep DEF Py!Next
<1>7. CASE UNCHANGED vars
  <2>1. UNCHANGED <<mem, loc, run>> /\ UNCHANGED <<inCall, out, trap, stmt>>
    BY <1>7 DEF vars
  <2> QED BY <2>1, SameState, Stutters
<1> QED BY <1>1, <1>2, <1>3, <1>4, <1>5, <1>6, <1>7 DEF Next, Halted

(* Whatever the heap looks like by then - full records that move, holes that *)
(* a pop filled, two parameters on one record, a map walked into itself -    *)
(* every statement the backend emits for a dict or a set has the effect, the *)
(* result and the exception Python gives it.  The two conditions exclude the *)
(* two statements that go wrong: a set operation whose worst-case size is    *)
(* zero, and a setdefault nested in a store to the same dict that moves it.  *)
THEOREM MapsImplementPython ==
  ASSUME ~ EmptyAlgebra, ~ NestedSetDefault PROVE Spec => ImplementsPython
<1>1. Init => Py!Init
  BY StartsAsPython
<1>2. RInv /\ [Next]_vars => [Py!Next]_Py!vars
  BY StepsAsPython
<1> QED BY <1>1, <1>2, RInvHolds, PTL DEF Spec, Py!Spec, ImplementsPython
=============================================================================
