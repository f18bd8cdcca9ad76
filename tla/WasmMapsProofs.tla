--------------------------- MODULE WasmMapsProofs ---------------------------
(***************************************************************************)
(* For every page size, name set, key set and workload: the heap of an     *)
(* emitted module stays a set of separate, well-formed records.            *)
(*                                                                         *)
(* Good(m, h, R, F) collects what a statement relies on: R are the bases   *)
(* of the reachable records, F the words of strings, lists and structs.    *)
(* One lemma per heap operation shows what it does to Good; the invariant  *)
(* IInv says Good of the current state and adds who holds which pointer.   *)
(***************************************************************************)
EXTENDS WasmMaps, FiniteSetTheorems, TLAPS

WellFormed(m, h, p) ==
  /\ p \in Page
  /\ Cap(m, p) \in Nat \ {0}
  /\ Count(m, p) \in 0 .. Cap(m, p)
  /\ p + 2 * Count(m, p) < PageWords
  /\ p + 2 * Cap(m, p) < h

Apart(m, p, q) == p + 2 * Cap(m, p) < q \/ q + 2 * Cap(m, q) < p

Clear_of(m, p, a) == a < p \/ a > p + 2 * Cap(m, p)

Good(m, h, R, F) ==
  /\ m \in [Page -> Word]
  /\ h \in Nat /\ h >= HeapBase
  /\ F \subseteq Page
  /\ \A p \in R : WellFormed(m, h, p)
  /\ \A p, q \in R : p # q => Apart(m, p, q)
  /\ \A p \in R, a \in F : Clear_of(m, p, a)
  /\ \A a \in F : a < h /\ m[a] = Foreign

-----------------------------------------------------------------------------
(* A scan that finds its key stops at a live entry. *)
LEMMA ScanInSlots ==
  ASSUME NEW m, NEW p, NEW k, dict_has(m, p, k)
  PROVE  scan(m, p, k) \in Slots(m, p)
BY DEF dict_has, scan

(* A map region of cap entries takes 1 + 2 * cap words. *)
LEMMA AllocWords ==
  ASSUME NEW h \in Nat, NEW cap \in Nat
  PROVE  alloc(h, region_bytes(cap)) = h + 1 + 2 * cap
BY DEF alloc, region_bytes

(* What the helpers store is a word. *)
LEMMA KeyWord ==
  ASSUME NEW w \in Word, NEW k \in Word
  PROVE  store_key(w, k) \in Word
BY DEF store_key, Word, W

(* A key that was stored compares equal to itself. *)
LEMMA StoredKey ==
  ASSUME NEW w, NEW k \in Word
  PROVE  same_key(store_key(w, k), k)
BY DEF same_key, store_key, KeyOf, Word, W

(* A header is a word whose halves are the count and the capacity. *)
LEMMA HeaderWord ==
  ASSUME NEW c \in Int, NEW d \in Int
  PROVE  W(c, d) \in Word /\ W(c, d).lo = c /\ W(c, d).hi = d
BY DEF Word, W

(* Fewer records, fewer obligations. *)
LEMMA GoodSubset ==
  ASSUME NEW m, NEW h, NEW R, NEW F, Good(m, h, R, F), NEW Q \in SUBSET R
  PROVE  Good(m, h, Q, F)
BY DEF Good

(* The one argument behind every in-place statement: if a new memory differs *)
(* from a Good one only inside the record at p, keeps its capacity and a     *)
(* count that fits, it is Good.                                              *)
LEMMA GoodInPlace ==
  ASSUME NEW m, NEW h, NEW R, NEW F, Good(m, h, R, F), NEW p \in R,
         NEW n \in [Page -> Word],
         \A b \in Page : ~ Clear_of(m, p, b) \/ n[b] = m[b],
         Cap(n, p) = Cap(m, p),
         Count(n, p) \in 0 .. Cap(m, p),
         p + 2 * Count(n, p) < PageWords
  PROVE  /\ Good(n, h, R, F)
         /\ \A q \in R : q # p => n[q] = m[q]
<1>1. \A q \in R : q \in Page /\ WellFormed(m, h, q) /\ q \in Nat
  BY HeapAssumption DEF Good, WellFormed, Page
<1>2. ASSUME NEW q \in R, q # p PROVE n[q] = m[q]
  <2>1. Clear_of(m, p, q)
    BY <1>1, <1>2 DEF Good, Apart, Clear_of, WellFormed
  <2> QED BY <1>1, <2>1
<1>3. \A q \in R : Cap(n, q) = Cap(m, q)
  BY <1>2 DEF Cap
<1>4. \A q \in R : WellFormed(n, h, q)
  BY <1>1, <1>2, <1>3 DEF WellFormed, Count
<1>5. \A q, r \in R : q # r => Apart(n, q, r)
  BY <1>3 DEF Good, Apart
<1>6. \A q \in R, a \in F : Clear_of(n, q, a)
  BY <1>3 DEF Good, Clear_of
<1>7. \A a \in F : a < h /\ n[a] = Foreign
  BY DEF Good
<1> QED BY <1>2, <1>4, <1>5, <1>6, <1>7 DEF Good

(* Where the entries of a record live. *)
LEMMA EntryAddrs ==
  ASSUME NEW m, NEW h, NEW R, NEW F, Good(m, h, R, F), NEW p \in R, NEW i \in Slots(m, p)
  PROVE  /\ i \in Nat /\ i < Count(m, p)
         /\ p \in Nat \ {0} /\ p \in Page /\ p < h
         /\ KeyAddr(p, i) \in Page /\ ~ Clear_of(m, p, KeyAddr(p, i))
         /\ ValAddr(p, i) \in Page /\ ~ Clear_of(m, p, ValAddr(p, i))
         /\ KeyAddr(p, i) # p /\ ValAddr(p, i) # p
         /\ m[KeyAddr(p, i)] \in Word /\ m[ValAddr(p, i)] \in Word
<1>1. WellFormed(m, h, p) /\ m \in [Page -> Word] /\ h \in Nat
  BY DEF Good
<1>2. p \in Nat \ {0} /\ p \in Page /\ p < h
  BY <1>1, HeapAssumption DEF WellFormed, Page
<1>3. i \in Nat /\ i < Count(m, p)
  BY <1>1 DEF Slots, WellFormed
<1>4. /\ p + 1 + 2 * i \in Page /\ p + 2 + 2 * i \in Page
      /\ p + 2 + 2 * i <= p + 2 * Cap(m, p)
  BY <1>1, <1>2, <1>3, HeapAssumption DEF WellFormed, Page
<1>5. Cap(m, p) \in Nat
  BY <1>1 DEF WellFormed
<1>6. /\ ~ Clear_of(m, p, p + 1 + 2 * i) /\ ~ Clear_of(m, p, p + 2 + 2 * i)
      /\ p + 1 + 2 * i # p /\ p + 2 + 2 * i # p
  BY <1>2, <1>3, <1>4, <1>5 DEF Clear_of
<1> QED BY <1>1, <1>2, <1>3, <1>4, <1>6 DEF KeyAddr, ValAddr

(* The values a record gives are words. *)
LEMMA GetWord ==
  ASSUME NEW m, NEW h, NEW R, NEW F, Good(m, h, R, F), NEW p \in R, NEW k, dict_has(m, p, k)
  PROVE  dict_get(m, p, k) \in Word
BY ScanInSlots, EntryAddrs DEF dict_get

-----------------------------------------------------------------------------
(* A memory that differs from a Good one only past the bump pointer.         *)
LEMMA GoodAbove ==
  ASSUME NEW m, NEW h, NEW R, NEW F, Good(m, h, R, F),
         NEW n \in [Page -> Word], NEW h2 \in Nat, h <= h2,
         \A a \in Page : a < h => n[a] = m[a]
  PROVE  /\ Good(n, h2, R, F)
         /\ \A q \in R : q < h /\ q \in Page /\ n[q] = m[q]
<1>1. m \in [Page -> Word] /\ h \in Nat /\ h >= HeapBase /\ F \subseteq Page
  BY DEF Good
<1>2. \A q \in R : q \in Page /\ q \in Nat /\ WellFormed(m, h, q) /\ q < h
  BY <1>1, HeapAssumption DEF Good, WellFormed, Page
<1>3. \A q \in R : n[q] = m[q]
  BY <1>2
<1>4. \A q \in R : WellFormed(n, h2, q)
  BY <1>1, <1>2, <1>3 DEF WellFormed, Cap, Count
<1>5. \A q, r \in R : q # r => Apart(n, q, r)
  BY <1>3 DEF Good, Apart, Cap
<1>6. \A q \in R, a \in F : Clear_of(n, q, a)
  BY <1>3 DEF Good, Clear_of, Cap
<1>7. ASSUME NEW a \in F PROVE a < h2 /\ n[a] = Foreign
  <2>1. a \in Page /\ a \in Int /\ a < h /\ m[a] = Foreign
    BY HeapAssumption DEF Good, Page
  <2> QED BY <1>1, <2>1
<1>8. h2 >= HeapBase
  BY <1>1, HeapAssumption
<1> QED BY <1>1, <1>2, <1>3, <1>4, <1>5, <1>6, <1>7, <1>8 DEF Good

(* A well-formed record above everything reachable joins the records. *)
LEMMA GoodJoin ==
  ASSUME NEW m, NEW h, NEW R, NEW F, Good(m, h, R, F),
         NEW p \in Nat, WellFormed(m, h, p),
         \A q \in R : q + 2 * Cap(m, q) < p,
         \A a \in F : a < p
  PROVE  Good(m, h, R \cup {p}, F)
<1>1. \A q \in R : Apart(m, q, p) /\ Apart(m, p, q)
  BY DEF Apart
<1>2. \A a \in F : Clear_of(m, p, a)
  BY DEF Clear_of
<1> QED BY <1>1, <1>2 DEF Good

(* A fresh region with an empty header joins the records. *)
LEMMA GoodNew ==
  ASSUME NEW m, NEW h, NEW R, NEW F, Good(m, h, R, F),
         NEW cap \in Nat \ {0}, h \in Page
  PROVE  /\ Good([m EXCEPT ![h] = W(0, cap)], alloc(h, region_bytes(cap)), R \cup {h}, F)
         /\ h \notin R
         /\ \A q \in R : [m EXCEPT ![h] = W(0, cap)][q] = m[q]
<1>1. m \in [Page -> Word] /\ h \in Nat
  BY DEF Good
<1>2. PICK n : n = [m EXCEPT ![h] = W(0, cap)]
  OBVIOUS
<1>3. PICK h2 : h2 = alloc(h, region_bytes(cap))
  OBVIOUS
<1>4. h2 = h + 1 + 2 * cap
  BY <1>1, <1>3, AllocWords
<1>5. n \in [Page -> Word] /\ n[h] = W(0, cap) /\ \A a \in Page : a # h => n[a] = m[a]
  BY <1>1, <1>2, HeaderWord
<1>6. \A a \in Page : a < h => n[a] = m[a]
  BY <1>1, <1>5, HeapAssumption DEF Page
<1>7. h2 \in Nat /\ h <= h2
  BY <1>1, <1>4
<1>8. Good(n, h2, R, F) /\ \A q \in R : q < h /\ q \in Page /\ n[q] = m[q]
  BY <1>5, <1>6, <1>7, GoodAbove
<1>9. Count(n, h) = 0 /\ Cap(n, h) = cap
  BY <1>5, HeaderWord DEF Count, Cap
<1>10. WellFormed(n, h2, h)
  BY <1>1, <1>4, <1>9, HeapAssumption DEF WellFormed, Page
<1>11. \A q \in R : q + 2 * Cap(n, q) < h
  BY <1>8 DEF Good, WellFormed, Cap
<1>12. \A a \in F : a < h
  BY DEF Good
<1>13. Good(n, h2, R \cup {h}, F)
  BY <1>1, <1>8, <1>10, <1>11, <1>12, GoodJoin
<1>14. h \notin R
  BY <1>1, <1>8
<1> QED BY <1>2, <1>3, <1>8, <1>13, <1>14

(* Bytes for a string, list or struct: the records keep clear of them. *)
LEMMA GoodForeign ==
  ASSUME NEW m, NEW h, NEW R, NEW F, Good(m, h, R, F), NEW b \in Nat,
         NEW n, NEW h2, h2 = alloc(h, b), h2 <= PageWords,
         n = [a \in Page |-> IF a \in h .. (h2 - 1) THEN Foreign ELSE m[a]]
  PROVE  /\ Good(n, h2, R, F \cup (h .. (h2 - 1)))
         /\ \A q \in R : n[q] = m[q]
<1>1. m \in [Page -> Word] /\ h \in Nat /\ h >= HeapBase /\ F \subseteq Page
  BY DEF Good
<1>2. h2 \in Nat /\ h2 >= h
  BY <1>1 DEF alloc
<1>3. (h .. (h2 - 1)) \subseteq Page
  BY <1>1, <1>2, HeapAssumption DEF Page
<1>4. n \in [Page -> Word]
  BY <1>1 DEF Foreign, W, Word
<1>5. \A a \in Page : a < h => n[a] = m[a]
  BY <1>1, HeapAssumption DEF Page
<1>6. Good(n, h2, R, F) /\ \A q \in R : q < h /\ q \in Page /\ n[q] = m[q]
  BY <1>2, <1>4, <1>5, GoodAbove
<1>7. ASSUME NEW q \in R, NEW a \in h .. (h2 - 1) PROVE Clear_of(n, q, a)
  <2>1. q + 2 * Cap(m, q) < h /\ q \in Int /\ Cap(m, q) \in Int
    BY HeapAssumption DEF Good, WellFormed, Page
  <2>2. Cap(n, q) = Cap(m, q)
    BY <1>6 DEF Cap
  <2> QED BY <1>1, <1>2, <2>1, <2>2 DEF Clear_of
<1>8. \A a \in h .. (h2 - 1) : a < h2 /\ n[a] = Foreign
  BY <1>1, <1>2, <1>3
<1>9. \A q \in R : WellFormed(n, h2, q)
  BY <1>6 DEF Good
<1> QED BY <1>3, <1>6, <1>7, <1>8, <1>9 DEF Good

-----------------------------------------------------------------------------
(* A full record, and a page with room for the copy of its entries. *)
CanGrow(m, h, p) == Count(m, p) >= Cap(m, p) /\ h + 2 * Cap(m, p) < PageWords

HasRoom(m, p) == Count(m, p) < Cap(m, p)

(* Appending an entry to a record with a free slot. *)
LEMMA GoodAppend ==
  ASSUME NEW m, NEW h, NEW R, NEW F, Good(m, h, R, F), NEW p \in R,
         NEW k \in Word, NEW v \in Word,
         HasRoom(m, p), ValAddr(p, Count(m, p)) < PageWords,
         NEW n, n = append_entry(m, p, Count(m, p), k, v)
  PROVE  /\ Good(n, h, R, F)
         /\ \A q \in R : q # p => n[q] = m[q]
         /\ Cap(n, p) = Cap(m, p) /\ Count(n, p) = Count(m, p) + 1
         /\ dict_has(n, p, k)
<1>1. m \in [Page -> Word] /\ WellFormed(m, h, p) /\ h \in Nat
  BY DEF Good
<1>2. PICK c : c = Count(m, p)
  OBVIOUS
<1>3. PICK d : d = Cap(m, p)
  OBVIOUS
<1>4. p \in Nat \ {0} /\ p \in Page /\ c \in Nat /\ d \in Nat /\ c < d /\ p + 2 + 2 * c < PageWords
  BY <1>1, <1>2, <1>3, HeapAssumption DEF WellFormed, Page, ValAddr, HasRoom
<1>5. p + 1 + 2 * c \in Page /\ p + 2 + 2 * c \in Page
  BY <1>4, HeapAssumption DEF Page
<1>7. store_key(m[p + 1 + 2 * c], k) \in Word
  BY <1>1, <1>5, KeyWord
<1>8. W(c + 1, d) \in Word /\ W(c + 1, d).lo = c + 1 /\ W(c + 1, d).hi = d
  BY <1>4, HeaderWord
<1>9. n = [[[m EXCEPT ![p + 1 + 2 * c] = store_key(m[p + 1 + 2 * c], k)]
                 EXCEPT ![p + 2 + 2 * c] = v] EXCEPT ![p] = W(c + 1, d)]
  BY <1>1, <1>2, <1>3, <1>5 DEF append_entry, KeyAddr, ValAddr
<1>10. /\ n \in [Page -> Word]
       /\ n[p] = W(c + 1, d)
       /\ \A b \in Page : b \notin {p, p + 1 + 2 * c, p + 2 + 2 * c} => n[b] = m[b]
  BY <1>1, <1>4, <1>5, <1>7, <1>8, <1>9
<1>11. Cap(n, p) = d /\ Count(n, p) = c + 1
  BY <1>8, <1>10 DEF Cap, Count
<1>12. \A b \in Page : ~ Clear_of(m, p, b) \/ n[b] = m[b]
  BY <1>3, <1>4, <1>10 DEF Clear_of
<1>13. Cap(n, p) = Cap(m, p) /\ Count(n, p) \in 0 .. Cap(m, p) /\ p + 2 * Count(n, p) < PageWords
  BY <1>3, <1>4, <1>11
<1>14. dict_has(n, p, k)
  <2>1. n[p + 1 + 2 * c] = store_key(m[p + 1 + 2 * c], k)
    BY <1>1, <1>4, <1>5, <1>7, <1>8, <1>9
  <2>2. same_key(n[KeyAddr(p, c)], k)
    BY <2>1, StoredKey DEF KeyAddr
  <2>3. c \in Slots(n, p)
    BY <1>4, <1>11 DEF Slots
  <2> QED BY <2>2, <2>3 DEF dict_has
<1> QED BY <1>2, <1>10, <1>11, <1>12, <1>13, <1>14, GoodInPlace

(* Growing a full record: the copy has twice the room and the same entries.  *)
LEMMA GoodGrow ==
  ASSUME NEW m, NEW h, NEW R, NEW F, Good(m, h, R, F), NEW p \in R,
         CanGrow(m, h, p)
  PROVE  /\ Good(grow(m, h, p), alloc(h, region_bytes(2 * Cap(m, p))), R \cup {h}, F)
         /\ h \notin R /\ h \in Page
         /\ \A q \in R : grow(m, h, p)[q] = m[q]
         /\ Count(grow(m, h, p), h) = Count(m, p)
         /\ HasRoom(grow(m, h, p), h)
<1> DEFINE n == grow(m, h, p)
           h2 == alloc(h, region_bytes(2 * Cap(m, p)))
<1>1. m \in [Page -> Word] /\ WellFormed(m, h, p) /\ h \in Nat /\ h >= HeapBase
  BY DEF Good
<1>2. PICK c : c = Cap(m, p)
  OBVIOUS
<1>3. p \in Nat \ {0} /\ p \in Page /\ c \in Nat \ {0} /\ Count(m, p) = c /\ p + 2 * c < h
      /\ h + 2 * c < PageWords
  BY <1>1, <1>2, HeapAssumption DEF WellFormed, Page, CanGrow
<1>4. n = [a \in Page |-> IF a \in h .. (h + 2 * c)
                          THEN IF a = h THEN W(c, 2 * c) ELSE m[p + (a - h)] ELSE m[a]]
  BY <1>2, <1>3 DEF grow
<1> HIDE DEF n
<1>5. h \in Page /\ W(c, 2 * c) \in Word /\ W(c, 2 * c).lo = c /\ W(c, 2 * c).hi = 2 * c
  BY <1>1, <1>2, <1>3, HeaderWord, HeapAssumption DEF Page
<1>6. \A a \in h .. (h + 2 * c) : p + (a - h) \in Page
  BY <1>1, <1>2, <1>3, HeapAssumption DEF Page
<1>7. n \in [Page -> Word]
  BY <1>1, <1>4, <1>5, <1>6
<1>8. \A a \in Page : a < h => n[a] = m[a]
  BY <1>1, <1>4, HeapAssumption DEF Page
<1>9. n[h] = W(c, 2 * c)
  BY <1>1, <1>3, <1>4, <1>5
<1>10. Cap(n, h) = 2 * c /\ Count(n, h) = c
  BY <1>5, <1>9 DEF Cap, Count
<1>11. h2 = h + 1 + 4 * c
  <2>1. 2 * c \in Nat
    BY <1>3
  <2>2. h2 = h + 1 + 2 * (2 * c)
    BY <1>1, <1>2, <2>1, AllocWords
  <2> QED BY <1>1, <1>3, <2>2
<1> HIDE DEF h2
<1>12. Good(n, h2, R, F) /\ \A q \in R : q < h /\ q \in Page /\ n[q] = m[q]
  BY <1>1, <1>3, <1>7, <1>8, <1>11, GoodAbove
<1>13. WellFormed(n, h2, h)
  BY <1>1, <1>2, <1>3, <1>5, <1>10, <1>11 DEF WellFormed
<1>14. \A q \in R : q + 2 * Cap(n, q) < h
  BY <1>12 DEF Good, WellFormed, Cap
<1>15. \A a \in F : a < h
  BY DEF Good
<1>16. Good(n, h2, R \cup {h}, F)
  BY <1>1, <1>12, <1>13, <1>14, <1>15, GoodJoin
<1>17. h \notin R
  BY <1>1, <1>12
<1>18. Count(n, h) = Count(m, p) /\ HasRoom(n, h)
  BY <1>3, <1>10 DEF HasRoom
<1> QED BY <1>5, <1>12, <1>16, <1>17, <1>18 DEF n, h2

(* dict_set keeps the heap Good whatever it finds: the key, a free slot, or  *)
(* a full record.  No count goes down, and only p or fresh memory comes back.*)
LEMMA GoodSet ==
  ASSUME NEW m, NEW h, NEW R, NEW F, Good(m, h, R, F), NEW p \in R,
         NEW k \in Word, NEW v \in Word,
         dict_set(m, h, p, k, v).ok
  PROVE  LET s == dict_set(m, h, p, k, v) IN
         /\ Good(s.mem, s.hp, R \cup {s.ptr}, F)
         /\ s.ptr = p \/ s.ptr \notin R
         /\ s.ptr \in Page
         /\ \A q \in R : Count(m, q) <= Count(s.mem, q)
         /\ dict_has(s.mem, s.ptr, k)
<1> DEFINE s == dict_set(m, h, p, k, v)
<1> SUFFICES /\ Good(s.mem, s.hp, R \cup {s.ptr}, F)
             /\ s.ptr = p \/ s.ptr \notin R
             /\ s.ptr \in Page
             /\ \A q \in R : Count(m, q) <= Count(s.mem, q)
             /\ dict_has(s.mem, s.ptr, k)
         /\ dict_has(s.mem, s.ptr, k)
  OBVIOUS
<1> HIDE DEF s
<1>1. m \in [Page -> Word] /\ WellFormed(m, h, p) /\ h \in Nat /\ p \in Page /\ p \in R
  BY DEF Good, WellFormed
<1>2. \A q \in R : Count(m, q) \in Int
  BY DEF Good, WellFormed
<1>3. CASE dict_has(m, p, k)
  <2>1. PICK i \in Slots(m, p) : i = scan(m, p, k)
    BY <1>3, ScanInSlots
  <2>2. PICK n : n = [m EXCEPT ![ValAddr(p, i)] = v]
    OBVIOUS
  <2>3. s.mem = n /\ s.hp = h /\ s.ptr = p
    BY <1>3, <2>1, <2>2 DEF dict_set, s
  <2>4. /\ ValAddr(p, i) \in Page /\ ~ Clear_of(m, p, ValAddr(p, i)) /\ ValAddr(p, i) # p
    BY EntryAddrs
  <2>5. n \in [Page -> Word] /\ n[p] = m[p]
        /\ \A b \in Page : ~ Clear_of(m, p, b) \/ n[b] = m[b]
    BY <1>1, <2>2, <2>4
  <2>6. Cap(n, p) = Cap(m, p) /\ Count(n, p) = Count(m, p)
    BY <2>5 DEF Cap, Count
  <2>7. Count(n, p) \in 0 .. Cap(m, p) /\ p + 2 * Count(n, p) < PageWords
    BY <1>1, <2>6 DEF WellFormed
  <2>8. Good(n, h, R, F) /\ \A q \in R : q # p => n[q] = m[q]
    BY <2>5, <2>6, <2>7, GoodInPlace
  <2>9. \A q \in R : n[q] = m[q]
    BY <2>5, <2>8
  <2>10. R \cup {p} = R
    BY <1>1
  <2>11. \A q \in R : Count(m, q) <= Count(n, q)
    BY <1>2, <2>9 DEF Count
  <2>12. dict_has(n, p, k)
    <3>1. same_key(m[KeyAddr(p, i)], k) /\ i \in Int
      BY <1>3, <2>1 DEF dict_has, scan, Slots
    <3>2. KeyAddr(p, i) \in Page /\ p \in Int
      BY EntryAddrs
    <3>3. KeyAddr(p, i) # ValAddr(p, i)
      BY <3>1, <3>2 DEF KeyAddr, ValAddr
    <3>4. n[KeyAddr(p, i)] = m[KeyAddr(p, i)]
      BY <1>1, <2>2, <3>2, <3>3
    <3>5. i \in Slots(n, p)
      BY <2>6 DEF Slots
    <3> QED BY <3>1, <3>4, <3>5 DEF dict_has
  <2> QED BY <1>1, <2>3, <2>8, <2>10, <2>11, <2>12
<1>4. CASE ~ dict_has(m, p, k) /\ ~ (Count(m, p) >= Cap(m, p))
  <2>1. PICK n : n = append_entry(m, p, Count(m, p), k, v)
    OBVIOUS
  <2>2. s.mem = n /\ s.hp = h /\ s.ptr = p /\ ValAddr(p, Count(m, p)) < PageWords
    BY <1>4, <2>1 DEF dict_set, s
  <2>3. HasRoom(m, p)
    BY <1>1, <1>4 DEF WellFormed, HasRoom
  <2>4. /\ Good(n, h, R, F)
        /\ \A q \in R : q # p => n[q] = m[q]
        /\ Count(n, p) = Count(m, p) + 1
        /\ dict_has(n, p, k)
    BY <2>1, <2>2, <2>3, GoodAppend
  <2>5. \A q \in R : Count(m, q) <= Count(n, q)
    BY <1>2, <2>4 DEF Count
  <2>6. R \cup {p} = R
    BY <1>1
  <2> QED BY <1>1, <2>2, <2>4, <2>5, <2>6
<1>5. CASE ~ dict_has(m, p, k) /\ Count(m, p) >= Cap(m, p)
  <2>1. PICK g : g = grow(m, h, p)
    OBVIOUS
  <2>2. PICK h2 : h2 = alloc(h, region_bytes(2 * Cap(m, p)))
    OBVIOUS
  <2>3. PICK n : n = append_entry(g, h, Count(m, p), k, v)
    OBVIOUS
  <2>4. /\ s.mem = n /\ s.hp = h2 /\ s.ptr = h
        /\ h + 2 * Cap(m, p) < PageWords /\ ValAddr(h, Count(m, p)) < PageWords
    BY <1>5, <2>1, <2>2, <2>3 DEF dict_set, s
  <2>5. CanGrow(m, h, p)
    BY <1>5, <2>4 DEF CanGrow
  <2>6. /\ Good(g, h2, R \cup {h}, F)
        /\ h \notin R /\ h \in Page
        /\ \A q \in R : g[q] = m[q]
        /\ Count(g, h) = Count(m, p)
        /\ HasRoom(g, h)
    <3>1. Good(grow(m, h, p), alloc(h, region_bytes(2 * Cap(m, p))), R \cup {h}, F)
      BY <2>5, GoodGrow
    <3>2. /\ h \notin R /\ h \in Page
          /\ \A q \in R : grow(m, h, p)[q] = m[q]
          /\ Count(grow(m, h, p), h) = Count(m, p)
          /\ HasRoom(grow(m, h, p), h)
      BY <2>5, <3>1, GoodGrow
    <3> QED BY <2>1, <2>2, <3>1, <3>2
  <2>7. /\ Good(n, h2, R \cup {h}, F)
        /\ \A q \in R \cup {h} : q # h => n[q] = g[q]
        /\ dict_has(n, h, k)
    BY <2>3, <2>4, <2>6, GoodAppend
  <2>8. \A q \in R : n[q] = m[q]
    BY <2>6, <2>7
  <2>9. \A q \in R : Count(m, q) <= Count(n, q)
    BY <1>2, <2>8 DEF Count
  <2> QED BY <2>4, <2>6, <2>7, <2>9
<1> QED BY <1>3, <1>4, <1>5

(* dict_pop, when the key is there, shortens one record by an entry. *)
LEMMA GoodPop ==
  ASSUME NEW m, NEW h, NEW R, NEW F, Good(m, h, R, F), NEW p \in R,
         NEW k, dict_has(m, p, k), NEW n, n = dict_pop(m, p, k)
  PROVE  Good(n, h, R, F)
<1>1. m \in [Page -> Word] /\ WellFormed(m, h, p)
  BY DEF Good
<1>2. PICK i \in Slots(m, p) : i = scan(m, p, k)
  BY ScanInSlots
<1>3. PICK l : l = Count(m, p) - 1
  OBVIOUS
<1>4. /\ i \in Nat /\ i < Count(m, p) /\ p \in Page
      /\ KeyAddr(p, i) \in Page /\ ~ Clear_of(m, p, KeyAddr(p, i))
      /\ ValAddr(p, i) \in Page /\ ~ Clear_of(m, p, ValAddr(p, i))
  BY EntryAddrs
<1>5. l \in Slots(m, p) /\ l \in Nat /\ Count(m, p) \in Nat
  BY <1>1, <1>3, <1>4 DEF WellFormed, Slots
<1>6. /\ m[KeyAddr(p, l)] \in Word /\ m[ValAddr(p, l)] \in Word
  BY <1>5, EntryAddrs
<1>7. PICK d : d = W(l, Cap(m, p))
  OBVIOUS
<1>8. d \in Word /\ d.lo = l /\ d.hi = Cap(m, p)
  BY <1>1, <1>5, <1>7, HeaderWord DEF WellFormed
<1>9. n = [[[m EXCEPT ![KeyAddr(p, i)] = m[KeyAddr(p, l)]]
                EXCEPT ![ValAddr(p, i)] = m[ValAddr(p, l)]] EXCEPT ![p] = d]
  BY <1>2, <1>3, <1>7 DEF dict_pop
<1>10. /\ n \in [Page -> Word] /\ n[p] = d
       /\ \A b \in Page : b \notin {p, KeyAddr(p, i), ValAddr(p, i)} => n[b] = m[b]
  BY <1>1, <1>4, <1>6, <1>8, <1>9
<1>11. ~ Clear_of(m, p, p)
  BY <1>1, HeapAssumption DEF Clear_of, WellFormed, Page
<1>12. \A b \in Page : ~ Clear_of(m, p, b) \/ n[b] = m[b]
  BY <1>4, <1>10, <1>11
<1>13. Cap(n, p) = Cap(m, p) /\ Count(n, p) = l
  BY <1>8, <1>10 DEF Cap, Count
<1>14. Count(n, p) \in 0 .. Cap(m, p) /\ p + 2 * Count(n, p) < PageWords
  BY <1>1, <1>3, <1>4, <1>5, <1>13, HeapAssumption DEF WellFormed, Page
<1> QED BY <1>10, <1>12, <1>13, <1>14, GoodInPlace

(* clear() leaves a record empty. *)
LEMMA GoodClear ==
  ASSUME NEW m, NEW h, NEW R, NEW F, Good(m, h, R, F), NEW p \in R
  PROVE  Good([m EXCEPT ![p] = W(0, Cap(m, p))], h, R, F)
<1>1. m \in [Page -> Word] /\ WellFormed(m, h, p) /\ p \in Page
  BY DEF Good, WellFormed
<1>2. PICK n : n = [m EXCEPT ![p] = W(0, Cap(m, p))]
  OBVIOUS
<1>3. W(0, Cap(m, p)) \in Word /\ W(0, Cap(m, p)).lo = 0 /\ W(0, Cap(m, p)).hi = Cap(m, p)
  BY <1>1, HeaderWord DEF WellFormed
<1>4. /\ n \in [Page -> Word] /\ n[p] = W(0, Cap(m, p))
      /\ \A b \in Page : b # p => n[b] = m[b]
  BY <1>1, <1>2, <1>3
<1>5. ~ Clear_of(m, p, p)
  BY <1>1, HeapAssumption DEF Clear_of, WellFormed, Page
<1>6. Cap(n, p) = Cap(m, p) /\ Count(n, p) = 0
  BY <1>3, <1>4 DEF Cap, Count
<1>7. Count(n, p) \in 0 .. Cap(m, p) /\ p + 2 * Count(n, p) < PageWords
  BY <1>1, <1>6, HeapAssumption DEF WellFormed, Page
<1>8. \A b \in Page : ~ Clear_of(m, p, b) \/ n[b] = m[b]
  BY <1>4, <1>5
<1>9. Good(n, h, R, F)
  BY <1>4, <1>6, <1>7, <1>8, GoodInPlace
<1> QED BY <1>2, <1>9

(* Whether it traps or not, dict_set leaves the bump pointer no lower. *)
LEMMA SetPointer ==
  ASSUME NEW m, NEW h, NEW R, NEW F, Good(m, h, R, F), NEW p \in R, NEW k, NEW v
  PROVE  dict_set(m, h, p, k, v).hp \in Nat /\ h <= dict_set(m, h, p, k, v).hp
<1>1. h \in Nat /\ Cap(m, p) \in Nat
  BY DEF Good, WellFormed
<1>2. 2 * Cap(m, p) \in Nat
  BY <1>1
<1>3. alloc(h, region_bytes(2 * Cap(m, p))) = h + 1 + 2 * (2 * Cap(m, p))
  BY <1>1, <1>2, AllocWords
<1>4. alloc(h, region_bytes(2 * Cap(m, p))) \in Nat /\ h <= alloc(h, region_bytes(2 * Cap(m, p)))
  BY <1>1, <1>2, <1>3
<1>5. dict_set(m, h, p, k, v).hp \in {h, alloc(h, region_bytes(2 * Cap(m, p)))}
  BY DEF dict_set
<1> QED BY <1>1, <1>4, <1>5

-----------------------------------------------------------------------------
(* The inductive invariant.  RunOK is what the loop in progress relies on:   *)
(* nobody but its target holds the accumulator, every map it has still to    *)
(* walk is bound, and the bound it read is no more than the count is now.    *)

RunOK ==
  run.dst # NoName =>
    /\ run.dst \in Scope
    /\ \A x \in Names : loc[x] = run.r => x = run.dst
    /\ \A j \in DOMAIN run.todo : run.todo[j].kind = "walk" => Bound(run.todo[j].src)
    /\ run.n # -1 => /\ run.todo # <<>> /\ Head(run.todo).kind = "walk"
                     /\ run.n <= Count(mem, loc[Head(run.todo).src])

IInv == TypeOK /\ Good(mem, hp, Records, foreign) /\ OneOwner /\ RunOK

Traps == {"none", "unreachable", "oob"}

(* A statement that moves no pointer. *)
LEMMA KeepPointers ==
  ASSUME IInv, UNCHANGED <<loc, inCall, run>>,
         Good(mem', hp', Records, foreign'),
         run.dst = NoName \/ \A q \in Records : Count(mem, q) <= Count(mem', q),
         out' \in Word, trap' \in Traps
  PROVE  IInv'
<1>1. Records' = Records
  BY DEF Records, Bound
<1>2. Good(mem', hp', Records', foreign')
  BY <1>1
<1>3. TypeOK'
  BY <1>2 DEF IInv, TypeOK, Traps, Good
<1>4. OneOwner'
  BY DEF IInv, OneOwner, Bound
<1>5. RunOK'
  <2>1. CASE run.dst = NoName
    BY <2>1 DEF RunOK
  <2>2. CASE run.dst # NoName
    <3>1. ASSUME run.n # -1 PROVE run.n <= Count(mem', loc[Head(run.todo).src])
      <4>1. run.todo # <<>> /\ Head(run.todo).kind = "walk" /\ Bound(Head(run.todo).src)
            /\ Head(run.todo).src \in Names
            /\ run.n <= Count(mem, loc[Head(run.todo).src]) /\ run.n \in Int
        BY <2>2, <3>1 DEF IInv, RunOK, TypeOK, Entry, Put
      <4>2. loc[Head(run.todo).src] \in Records
        BY <4>1 DEF Records
      <4>3. Count(mem, loc[Head(run.todo).src]) <= Count(mem', loc[Head(run.todo).src])
        BY <2>2, <4>2
      <4>4. Count(mem, loc[Head(run.todo).src]) \in Int /\ Count(mem', loc[Head(run.todo).src]) \in Int
        BY <4>2 DEF IInv, Good, WellFormed
      <4> QED BY <4>1, <4>3, <4>4
    <3> QED BY <2>2, <3>1 DEF IInv, RunOK, Bound, Scope
  <2> QED BY <2>1, <2>2
<1> QED BY <1>2, <1>3, <1>4, <1>5 DEF IInv

(* A statement that stores into x, which the program can name now, either    *)
(* the record x has already or one nobody holds.                             *)
LEMMA MovePointer ==
  ASSUME IInv, NEW x \in Scope, NEW p \in Nat \ {0},
         run.dst = NoName, loc' = [loc EXCEPT ![x] = p], UNCHANGED <<inCall, run>>,
         Good(mem', hp', Records \cup {p}, foreign'),
         \A y \in Names : loc[y] = p => y = x,
         out' \in Word, trap' \in Traps
  PROVE  IInv'
<1>1. loc \in [Names -> Nat] /\ x \in Names
  BY DEF IInv, TypeOK, Scope, Names
<1>2. \A y \in Names : loc'[y] = IF y = x THEN p ELSE loc[y]
  BY <1>1
<1>3. Records' \subseteq Records \cup {p}
  BY <1>2 DEF Records, Bound
<1>4. Good(mem', hp', Records', foreign')
  BY <1>3, GoodSubset
<1>5. TypeOK'
  BY <1>1, <1>4 DEF IInv, TypeOK, Traps, Good
<1>6. OneOwner'
  <2>1. ASSUME NEW y \in Names, NEW z \in Names, loc'[y] # 0, loc'[y] = loc'[z], y # z
        PROVE  \/ y \in Params /\ z \in Params \cup Callers
               \/ z \in Params /\ y \in Callers
    BY <1>2, <2>1 DEF IInv, OneOwner, Bound
  <2>2. ASSUME ~ inCall PROVE \A y \in Callees \cup Params : loc'[y] = 0
    <3>1. x \in Callers
      BY <2>2 DEF Scope
    <3> QED BY <1>2, <2>2, <3>1, MapsAssumption DEF IInv, OneOwner, Bound, Names
  <2> QED BY <2>1, <2>2 DEF OneOwner, Bound
<1>7. RunOK'
  BY DEF RunOK
<1> QED BY <1>4, <1>5, <1>6, <1>7 DEF IInv

(* A step of a loop: the accumulator may move to memory nobody holds. *)
LEMMA MoveRun ==
  ASSUME IInv, NEW r \in Nat, run.dst # NoName,
         run' \in [dst : Names \cup {NoName}, r : Nat, i : Nat, n : Nat \cup {-1}, todo : Seq(Entry)],
         run'.dst = run.dst, run'.r = r, UNCHANGED <<loc, inCall>>,
         Good(mem', hp', Records \cup {r}, foreign'),
         r = run.r \/ r \notin Records, r # 0,
         \A q \in Records : Count(mem, q) <= Count(mem', q),
         \A j \in DOMAIN run'.todo : run'.todo[j].kind = "walk" => Bound(run'.todo[j].src),
         run'.n # -1 => /\ run'.todo # <<>> /\ Head(run'.todo).kind = "walk"
                        /\ run'.n <= Count(mem, loc[Head(run'.todo).src]),
         out' \in Word, trap' \in Traps
  PROVE  IInv'
<1>1. Records' \subseteq Records \cup {r}
  BY DEF Records, Bound
<1>2. Good(mem', hp', Records', foreign')
  BY <1>1, GoodSubset
<1>3. TypeOK'
  BY <1>2 DEF IInv, TypeOK, Traps, Good
<1>4. OneOwner'
  BY DEF IInv, OneOwner, Bound
<1>5. \A x \in Names : loc[x] = r => x = run.dst
  BY DEF IInv, RunOK, Records, Bound
<1>6. ASSUME run'.n # -1 PROVE run'.n <= Count(mem', loc[Head(run'.todo).src])
  <2>1. run'.todo # <<>> /\ Head(run'.todo).kind = "walk" /\ Bound(Head(run'.todo).src)
        /\ Head(run'.todo).src \in Names
        /\ run'.n <= Count(mem, loc[Head(run'.todo).src]) /\ run'.n \in Int
    BY <1>6 DEF Entry, Put
  <2>2. loc[Head(run'.todo).src] \in Records
    BY <2>1 DEF Records
  <2>3. Count(mem, loc[Head(run'.todo).src]) <= Count(mem', loc[Head(run'.todo).src])
    BY <2>2
  <2>4. \A q \in Records : Count(mem, q) \in Int /\ Count(mem', q) \in Int
    <3>1. \A q \in Records : Count(mem, q) \in Int
      BY DEF IInv, Good, WellFormed
    <3>2. \A q \in Records \cup {r} : Count(mem', q) \in Int
      BY DEF Good, WellFormed
    <3> QED BY <3>1, <3>2
  <2> QED BY <2>1, <2>2, <2>3, <2>4
<1>7. RunOK'
  BY <1>5, <1>6 DEF IInv, RunOK, Bound, Scope
<1> QED BY <1>2, <1>3, <1>4, <1>7 DEF IInv

(* A trap changes nothing but the bump pointer. *)
LEMMA AbortSafe ==
  ASSUME IInv, NEW why \in Traps, Abort(why), hp' \in Nat, hp <= hp'
  PROVE  IInv'
<1>1. Good(mem', hp', Records, foreign)
  <2>1. Good(mem, hp, Records, foreign) /\ mem \in [Page -> Word] /\ mem' = mem
    BY DEF IInv, Good, Abort
  <2> QED BY <2>1, GoodAbove
<1>2. \A q \in Records : Count(mem, q) <= Count(mem', q)
  BY DEF Abort, IInv, Good, WellFormed
<1> QED BY <1>1, <1>2, KeepPointers DEF Abort, IInv, TypeOK

-----------------------------------------------------------------------------
(* One lemma per kind of statement. *)

(* What a bound local or the running loop points at is a reachable record. *)
LEMMA HeldIsRecord ==
  ASSUME IInv
  PROVE  /\ \A x \in Names : Bound(x) => loc[x] \in Records
         /\ run.dst # NoName => run.r \in Records
         /\ \A q \in Records : q \in Nat \ {0} /\ q \in Page
<1>1. \A q \in Records : q \in Page
  BY DEF IInv, Good, WellFormed
<1> QED BY <1>1, HeapAssumption DEF Records, Page

(* The result of a dict_set stored back into the local it started from. *)
LEMMA StoreBackSafe ==
  ASSUME IInv, run.dst = NoName, NEW d \in Scope, loc[d] \notin {0},
         \A y \in Names : loc[y] = loc[d] => y = d,
         NEW m, NEW h, NEW R, Records \subseteq R, Good(m, h, R, foreign), hp <= h,
         NEW b \in R, b = loc[d] \/ b \notin Records,
         NEW k \in Word, NEW v \in Word, NEW result,
         NEW s, s = dict_set(m, h, b, k, v), s.ok => result \in Word,
         StoreBack(d, s, result)
  PROVE  IInv'
<1>1. CASE s.ok
  <2>1. /\ Good(s.mem, s.hp, R \cup {s.ptr}, foreign)
        /\ s.ptr = b \/ s.ptr \notin R
        /\ s.ptr \in Page
    <3>1. dict_set(m, h, b, k, v).ok
      BY <1>1
    <3> QED BY <3>1, GoodSet
  <2>2. /\ mem' = s.mem /\ hp' = s.hp /\ loc' = [loc EXCEPT ![d] = s.ptr]
        /\ out' = result /\ UNCHANGED <<inCall, run, trap, foreign>>
    BY <1>1 DEF StoreBack
  <2>3. Records \cup {s.ptr} \subseteq R \cup {s.ptr}
    OBVIOUS
  <2>4. Good(s.mem, s.hp, Records \cup {s.ptr}, foreign)
    BY <2>1, <2>3, GoodSubset
  <2>5. s.ptr \in Nat \ {0}
    BY <2>1, HeapAssumption DEF Page
  <2>6. s.ptr = loc[d] \/ s.ptr \notin Records
    BY <2>1
  <2>7. \A y \in Names : loc[y] = s.ptr => y = d
    BY <2>5, <2>6, HeldIsRecord DEF Bound
  <2>8. trap' \in Traps
    BY <2>2 DEF IInv, TypeOK, Traps
  <2> QED BY <1>1, <2>2, <2>4, <2>5, <2>7, <2>8, MovePointer
<1>2. CASE ~ s.ok
  <2>1. Abort("oob") /\ hp' = s.hp
    BY <1>2 DEF StoreBack
  <2>2. hp' \in Nat /\ h <= hp' /\ h \in Nat /\ hp \in Nat
    BY <2>1, SetPointer DEF Good, IInv
  <2>3. hp <= hp'
    BY <2>2
  <2> QED BY <2>1, <2>2, <2>3, AbortSafe DEF Traps
<1> QED BY <1>1, <1>2

(* A receiver that is no parameter shares its record with nobody. *)
LEMMA ReceiverAlone ==
  ASSUME IInv, NEW d \in Live \ Params
  PROVE  d \in Scope /\ d \in Names /\ loc[d] \notin {0} /\ loc[d] \in Records
         /\ \A y \in Names : loc[y] = loc[d] => y = d
<1>1. d \in Scope /\ d \in Names /\ loc[d] # 0
  BY DEF Live, Scope, Names, Bound
<1>2. ASSUME NEW y \in Names, loc[y] = loc[d], y # d PROVE FALSE
  <2>1. y \in Params /\ d \in Callers
    BY <1>1, <1>2 DEF IInv, OneOwner, Bound
  <2>2. ~ inCall
    BY <1>1, <2>1, MapsAssumption DEF Scope
  <2>3. loc[y] = 0
    BY <2>1, <2>2 DEF IInv, OneOwner, Bound
  <2> QED BY <1>1, <1>2, <2>3
<1> QED BY <1>1, <1>2, HeldIsRecord DEF Bound

(* emit_map_alloc: a region at the bump pointer, then its loop, or a trap. *)
LEMMA NewMapSafe ==
  ASSUME IInv, run.dst = NoName, NEW x \in Scope, NEW cap \in Nat \ {0}, NEW todo \in Seq(Entry),
         \A j \in DOMAIN todo : todo[j].kind = "walk" => Bound(todo[j].src),
         NewMap(x, cap, todo)
  PROVE  IInv'
<1>1. hp' = alloc(hp, region_bytes(cap)) /\ hp \in Nat /\ Good(mem, hp, Records, foreign)
  BY DEF NewMap, IInv, TypeOK
<1>2. hp' \in Nat /\ hp <= hp'
  BY <1>1, AllocWords
<1>3. CASE hp \in Page
  <2>1. /\ mem' = [mem EXCEPT ![hp] = W(0, cap)] /\ run' = Start(x, hp, todo)
        /\ UNCHANGED <<loc, inCall, out, trap, foreign>>
    BY <1>3 DEF NewMap
  <2>2. Good(mem', hp', Records \cup {hp}, foreign) /\ hp \notin Records
    BY <1>1, <1>3, <2>1, GoodNew
  <2>3. hp # 0
    BY <1>3, HeapAssumption DEF Page
  <2>4. Records' \subseteq Records \cup {hp}
    BY <2>1 DEF Records, Bound, Start
  <2>5. Good(mem', hp', Records', foreign')
    BY <2>1, <2>2, <2>4, GoodSubset
  <2>6. x \in Names /\ run'.dst = x /\ run'.r = hp /\ run'.n = -1 /\ run'.todo = todo
    BY <2>1 DEF Start, Scope, Names
  <2>7. TypeOK'
    BY <1>1, <1>2, <2>1, <2>2, <2>6 DEF IInv, TypeOK, Good, Start
  <2>8. OneOwner'
    BY <2>1 DEF IInv, OneOwner, Bound
  <2>9. \A y \in Names : loc[y] # hp
    BY <2>2, <2>3, HeldIsRecord DEF Bound
  <2>10. RunOK'
    BY <2>1, <2>6, <2>9 DEF RunOK, Bound, Scope
  <2> QED BY <2>5, <2>7, <2>8, <2>10 DEF IInv
<1>4. CASE hp \notin Page
  <2>1. Abort("oob")
    BY <1>4 DEF NewMap
  <2> QED BY <1>2, <2>1, AbortSafe DEF Traps
<1> QED BY <1>3, <1>4

(* __wasm_dict_pop moves no record and no pointer. *)
LEMMA TakeOutSafe ==
  ASSUME IInv, run.dst = NoName, NEW d \in Live, NEW k, dict_has(mem, loc[d], k),
         TakeOut(d, k, dict_get(mem, loc[d], k))
  PROVE  IInv'
<1>1. loc[d] \in Records /\ Good(mem, hp, Records, foreign)
  BY HeldIsRecord DEF Live, Scope, Names, IInv
<1>2. /\ mem' = dict_pop(mem, loc[d], k) /\ out' = dict_get(mem, loc[d], k)
      /\ UNCHANGED <<hp, loc, inCall, run, trap, foreign>>
  BY DEF TakeOut
<1>3. Good(mem', hp', Records, foreign')
  BY <1>1, <1>2, GoodPop
<1>4. out' \in Word
  BY <1>1, <1>2, GetWord
<1> QED BY <1>2, <1>3, <1>4, KeepPointers DEF IInv, TypeOK, Traps

(* A statement that only computes a value. *)
LEMMA ReadSafe ==
  ASSUME IInv, UNCHANGED <<mem, hp, loc, inCall, run, trap, foreign>>, out' \in Word
  PROVE  IInv'
<1>1. Good(mem', hp', Records, foreign')
  BY DEF IInv
<1>2. \A q \in Records : Count(mem, q) <= Count(mem', q)
  BY DEF IInv, Good, WellFormed
<1> QED BY <1>1, <1>2, KeepPointers DEF IInv, TypeOK, Traps

(* The explicit entries of a display are finitely many. *)
LEMMA ExplicitNat ==
  ASSUME NEW todo \in Seq(Entry)
  PROVE  Explicit(todo) \in Nat
<1>1. IsFiniteSet(1 .. Len(todo))
  BY FS_Interval
<1>2. {j \in DOMAIN todo : todo[j].kind = "put"} \subseteq 1 .. Len(todo)
  OBVIOUS
<1>3. IsFiniteSet({j \in DOMAIN todo : todo[j].kind = "put"})
  BY <1>1, <1>2, FS_Subset
<1> QED BY <1>3, FS_CardinalityType DEF Explicit

-----------------------------------------------------------------------------
(* One lemma per action. *)

(* The keys and values of a program are words of the heap. *)
LEMMA KeysAreWords == Keys \subseteq Word /\ Vals \subseteq Word /\ Zero \in Vals /\ Zero \in Word
BY HeapAssumption DEF Zero, W, Word

(* The to-do lists of one and of two walks. *)
LEMMA ShortSeqs ==
  ASSUME NEW S, NEW a \in S, NEW b \in S
  PROVE  /\ <<a>> \in Seq(S) /\ DOMAIN <<a>> = {1} /\ <<a>>[1] = a
         /\ <<a, b>> \in Seq(S) /\ DOMAIN <<a, b>> = {1, 2} /\ <<a, b>>[1] = a /\ <<a, b>>[2] = b
OBVIOUS

(* What a display, a set operation or an update puts on its to-do list. *)
LEMMA PutWalkEntry ==
  /\ \A V \in SUBSET Vals : \A w \in Put(Keys, V) : w \in Entry /\ w.kind = "put"
  /\ \A y \in Names, g \in Names \cup {NoName}, t \in BOOLEAN :
       Walk(y, g, t) \in Entry /\ Walk(y, g, t).kind = "walk" /\ Walk(y, g, t).src = y
BY DEF Entry, Put, Walk

(* emit_dict_lit, emit_set_lit, emit_dict_merge: at least Slack > 0 slots. *)
LEMMA BindLitSafe == ASSUME IInv, NEW x \in Names, BindLit(x) PROVE IInv'
<1>1. run.dst = NoName /\ x \in Scope
  BY DEF BindLit, Ready
<1>2. PICK len \in 0 .. MaxItems : \E todo \in [1 .. len -> EntriesOf(x)] :
        NewMap(x, Explicit(todo) + Slack, todo)
  BY DEF BindLit
<1>3. PICK todo \in [1 .. len -> EntriesOf(x)] : NewMap(x, Explicit(todo) + Slack, todo)
  BY <1>2
<1>4. \A w \in EntriesOf(x) : w \in Entry /\ (w.kind = "walk" => Bound(w.src))
  <2>1. Dicts \subseteq Names /\ \A e \in Dicts : Bound(e)
    BY DEF Dicts, Live, Scope, Names
  <2>2. SUFFICES ASSUME NEW w \in EntriesOf(x)
                 PROVE  w \in Entry /\ (w.kind = "walk" => Bound(w.src))
    OBVIOUS
  <2>3. \/ w \in Put(Keys, {Zero}) \cup Put(Keys, Vals)
        \/ w \in {Walk(e, NoName, TRUE) : e \in Dicts}
    BY <2>2 DEF EntriesOf
  <2>4. CASE w \in Put(Keys, {Zero}) \cup Put(Keys, Vals)
    <3>1. {Zero} \in SUBSET Vals /\ Vals \in SUBSET Vals
      BY KeysAreWords
    <3>2. w \in Entry /\ w.kind = "put"
      BY <2>4, <3>1, PutWalkEntry
    <3> QED BY <3>2
  <2>5. CASE w \in {Walk(e, NoName, TRUE) : e \in Dicts}
    <3>1. PICK e \in Dicts : w = Walk(e, NoName, TRUE)
      BY <2>5
    <3>2. e \in Names /\ Bound(e) /\ NoName \in Names \cup {NoName} /\ TRUE \in BOOLEAN
      BY <2>1
    <3>3. Walk(e, NoName, TRUE) \in Entry /\ Walk(e, NoName, TRUE).src = e
      BY <3>2, PutWalkEntry
    <3> QED BY <3>1, <3>2, <3>3
  <2> QED BY <2>3, <2>4, <2>5
<1>5. todo \in Seq(Entry) /\ DOMAIN todo = 1 .. len
  BY <1>4, MapsAssumption
<1>6. \A j \in DOMAIN todo : todo[j].kind = "walk" => Bound(todo[j].src)
  BY <1>4, <1>5
<1>7. Explicit(todo) + Slack \in Nat \ {0}
  BY <1>5, ExplicitNat, MapsAssumption
<1> QED BY <1>1, <1>3, <1>5, <1>6, <1>7, NewMapSafe

(* emit_set_op: a slot at least, because EmptyAlgebra is FALSE. *)
LEMMA SetOpSafe == ASSUME IInv, ~ EmptyAlgebra, NEW x \in Names, SetOp(x) PROVE IInv'
<1>1. run.dst = NoName /\ x \in Scope
  BY DEF SetOp, Ready
<1>2. PICK op \in {"union", "intersection", "difference", "symdiff"}, a \in Sets, b \in Sets :
        AlgebraCap(op, a, b) > 0 /\ NewMap(x, AlgebraCap(op, a, b), WalksOf(op, a, b))
  BY DEF SetOp
<1>3. a \in Names /\ b \in Names /\ Bound(a) /\ Bound(b)
  BY DEF Sets, Live, Scope, Names
<1>4. Count(mem, loc[a]) \in Nat /\ Count(mem, loc[b]) \in Nat
  BY <1>3, HeldIsRecord DEF IInv, Good, WellFormed
<1>5. AlgebraCap(op, a, b) \in Nat \ {0}
  BY <1>2, <1>4 DEF AlgebraCap
<1>6. \A g \in {a, b, NoName}, y \in {a, b}, t \in BOOLEAN :
        Walk(y, g, t) \in Entry /\ Walk(y, g, t).src = y
  BY <1>3, PutWalkEntry
<1>7. \E u \in Entry, w \in Entry :
        /\ u.src \in {a, b} /\ w.src \in {a, b}
        /\ WalksOf(op, a, b) = <<u>> \/ WalksOf(op, a, b) = <<u, w>>
  BY <1>6 DEF WalksOf
<1>8. /\ WalksOf(op, a, b) \in Seq(Entry)
      /\ \A j \in DOMAIN WalksOf(op, a, b) : WalksOf(op, a, b)[j].src \in {a, b}
  <2>1. PICK u \in Entry, w \in Entry :
          /\ u.src \in {a, b} /\ w.src \in {a, b}
          /\ WalksOf(op, a, b) = <<u>> \/ WalksOf(op, a, b) = <<u, w>>
    BY <1>7
  <2>2. CASE WalksOf(op, a, b) = <<u>>
    BY <2>1, <2>2, ShortSeqs
  <2>3. CASE WalksOf(op, a, b) = <<u, w>>
    BY <2>1, <2>3, ShortSeqs
  <2> QED BY <2>1, <2>2, <2>3
<1>9. \A j \in DOMAIN WalksOf(op, a, b) :
        WalksOf(op, a, b)[j].kind = "walk" => Bound(WalksOf(op, a, b)[j].src)
  BY <1>3, <1>8
<1> QED BY <1>1, <1>2, <1>5, <1>8, <1>9, NewMapSafe

(* emit_dict_update: the loop starts on the receiver's own record. *)
LEMMA DictUpdateSafe == ASSUME IInv, NEW d \in Names, DictUpdate(d) PROVE IInv'
<1>1. d \in Live \ Params /\ run.dst = NoName /\ UNCHANGED <<mem, hp, loc, inCall, out, trap, foreign>>
  BY DEF DictUpdate, Ready, Dicts
<1>2. PICK e \in Dicts : run' = Start(d, loc[d], <<Walk(e, NoName, TRUE)>>)
  BY DEF DictUpdate
<1>3. e \in Names /\ Bound(e) /\ d \in Scope /\ loc[d] \in Records /\ loc[d] \in Nat
      /\ \A y \in Names : loc[y] = loc[d] => y = d
  BY <1>1, ReceiverAlone, HeldIsRecord DEF Dicts, Live, Scope, Names
<1>4. run'.dst = d /\ run'.r = loc[d] /\ run'.n = -1 /\ run'.i = 0
      /\ run'.todo = <<Walk(e, NoName, TRUE)>>
  BY <1>2 DEF Start
<1>5. Walk(e, NoName, TRUE) \in Entry /\ Walk(e, NoName, TRUE).src = e
      /\ <<Walk(e, NoName, TRUE)>> \in Seq(Entry)
  BY <1>3, PutWalkEntry, ShortSeqs
<1>6. Records' \subseteq Records
  BY <1>1, <1>3, <1>4 DEF Records, Bound
<1>7. Good(mem', hp', Records', foreign')
  BY <1>1, <1>6, GoodSubset DEF IInv
<1>8. run' \in [dst : Names \cup {NoName}, r : Nat, i : Nat, n : Nat \cup {-1}, todo : Seq(Entry)]
  BY <1>2, <1>3, <1>5 DEF Start
<1>9. TypeOK'
  BY <1>1, <1>8 DEF IInv, TypeOK
<1>10. OneOwner'
  BY <1>1 DEF IInv, OneOwner, Bound
<1>11. RunOK'
  <2>1. \A j \in DOMAIN run'.todo : run'.todo[j].src = e
    <3>1. PICK w : w = Walk(e, NoName, TRUE)
      OBVIOUS
    <3>2. DOMAIN <<w>> = {1} /\ <<w>>[1] = w
      OBVIOUS
    <3> QED BY <1>4, <1>5, <3>1, <3>2
  <2> QED BY <1>1, <1>3, <1>4, <2>1 DEF RunOK, Bound, Scope
<1> QED BY <1>7, <1>9, <1>10, <1>11 DEF IInv

(* emit_dict_set, emit_set_add: the receiver alone holds its record. *)
LEMMA DictSetSafe == ASSUME IInv, NEW d \in Names, DictSet(d) PROVE IInv'
<1>1. d \in Live \ Params /\ run.dst = NoName
  BY DEF DictSet, Ready
<1>2. PICK k \in Keys, v \in IF d \in SetNames THEN {Zero} ELSE Vals :
        StoreBack(d, dict_set(mem, hp, loc[d], k, v), Zero)
  BY DEF DictSet
<1>3. k \in Word /\ v \in Word /\ Zero \in Word
  BY KeysAreWords
<1>4. Good(mem, hp, Records, foreign) /\ hp <= hp
  BY DEF IInv, Good
<1> QED BY <1>1, <1>2, <1>3, <1>4, ReceiverAlone, StoreBackSafe

(* After a dict_set the new memory is Good and gives words, key or no key. *)
LEMMA SetThenGet ==
  ASSUME NEW m, NEW h, NEW R, NEW F, Good(m, h, R, F), NEW p \in R,
         NEW k \in Word, NEW v \in Word, dict_set(m, h, p, k, v).ok
  PROVE  LET s == dict_set(m, h, p, k, v) IN dict_get(s.mem, s.ptr, k) \in Word
<1> DEFINE s == dict_set(m, h, p, k, v)
<1>1. Good(s.mem, s.hp, R \cup {s.ptr}, F) /\ dict_has(s.mem, s.ptr, k)
  BY GoodSet
<1> HIDE DEF s
<1>2. s.ptr \in R \cup {s.ptr}
  OBVIOUS
<1>3. dict_get(s.mem, s.ptr, k) \in Word
  BY <1>1, <1>2, GetWord
<1> QED BY <1>3 DEF s

(* emit_dict_set_default: a hit reads, a miss inserts. *)
LEMMA SetDefaultSafe == ASSUME IInv, NEW d \in Names, SetDefault(d) PROVE IInv'
<1>1. d \in Live \ Params /\ run.dst = NoName
  BY DEF SetDefault, Ready, Dicts
<1>2. PICK k \in Keys, v \in Vals :
        \/ /\ dict_has(mem, loc[d], k)
           /\ out' = dict_get(mem, loc[d], k)
           /\ UNCHANGED <<mem, hp, loc, inCall, run, trap, foreign>>
        \/ /\ ~ dict_has(mem, loc[d], k)
           /\ StoreBack(d, dict_set(mem, hp, loc[d], k, v),
                        dict_get(dict_set(mem, hp, loc[d], k, v).mem,
                                 dict_set(mem, hp, loc[d], k, v).ptr, k))
  BY DEF SetDefault
<1>3. k \in Word /\ v \in Word
  BY KeysAreWords
<1>4. Good(mem, hp, Records, foreign) /\ hp <= hp /\ Records \subseteq Records
  BY DEF IInv, Good
<1>5. loc[d] \in Records /\ d \in Scope /\ loc[d] \notin {0}
      /\ \A y \in Names : loc[y] = loc[d] => y = d
  BY <1>1, ReceiverAlone
<1>6. CASE /\ dict_has(mem, loc[d], k)
           /\ out' = dict_get(mem, loc[d], k)
           /\ UNCHANGED <<mem, hp, loc, inCall, run, trap, foreign>>
  BY <1>4, <1>5, <1>6, GetWord, ReadSafe
<1>7. CASE StoreBack(d, dict_set(mem, hp, loc[d], k, v),
                     dict_get(dict_set(mem, hp, loc[d], k, v).mem,
                              dict_set(mem, hp, loc[d], k, v).ptr, k))
  <2>1. PICK s : s = dict_set(mem, hp, loc[d], k, v)
    OBVIOUS
  <2>2. s.ok => dict_get(s.mem, s.ptr, k) \in Word
    BY <1>3, <1>4, <1>5, <2>1, SetThenGet
  <2> QED BY <1>1, <1>3, <1>4, <1>5, <1>7, <2>1, <2>2, StoreBackSafe
<1> QED BY <1>2, <1>6, <1>7

(* The nested store works on two records at most, both well formed: it loses *)
(* an entry if the outer one moved, never a word of another value.           *)
LEMMA DictSetOfSetDefaultSafe ==
  ASSUME IInv, NEW d \in Names, DictSetOfSetDefault(d) PROVE IInv'
<1>1. d \in Live \ Params /\ run.dst = NoName
  BY DEF DictSetOfSetDefault, Ready, Dicts
<1> DEFINE base == loc[d]
           first(j, v) == dict_set(mem, hp, base, j, v)
<1>2. PICK k \in Keys, j \in Keys, v \in Vals :
        \/ dict_has(mem, base, j) /\ StoreBack(d, dict_set(mem, hp, base, k, dict_get(mem, base, j)), Zero)
        \/ first(j, v).ok /\ StoreBack(d, dict_set(first(j, v).mem, first(j, v).hp, base, k, v), Zero)
        \/ hp' = first(j, v).hp /\ Abort("oob")
  BY DEF DictSetOfSetDefault
<1>3. k \in Word /\ j \in Word /\ v \in Word /\ Zero \in Word
  BY KeysAreWords
<1>4. Good(mem, hp, Records, foreign) /\ hp <= hp /\ Records \subseteq Records
  BY DEF IInv, Good
<1>5. base \in Records /\ d \in Scope /\ loc[d] \notin {0}
      /\ \A y \in Names : loc[y] = loc[d] => y = d
  BY <1>1, ReceiverAlone
<1>6. CASE dict_has(mem, base, j) /\ StoreBack(d, dict_set(mem, hp, base, k, dict_get(mem, base, j)), Zero)
  <2>1. dict_get(mem, base, j) \in Word
    BY <1>4, <1>5, <1>6, GetWord
  <2> QED BY <1>1, <1>3, <1>4, <1>5, <1>6, <2>1, StoreBackSafe
<1>7. CASE first(j, v).ok /\ StoreBack(d, dict_set(first(j, v).mem, first(j, v).hp, base, k, v), Zero)
  <2>1. PICK s : s = first(j, v)
    OBVIOUS
  <2>2. Good(s.mem, s.hp, Records \cup {s.ptr}, foreign)
    BY <1>3, <1>4, <1>5, <1>7, <2>1, GoodSet
  <2>3. hp <= s.hp
    BY <1>4, <1>5, <2>1, SetPointer
  <2>4. Records \subseteq Records \cup {s.ptr} /\ base \in Records \cup {s.ptr}
    BY <1>5
  <2> QED BY <1>1, <1>3, <1>5, <1>7, <2>1, <2>2, <2>3, <2>4, StoreBackSafe
<1>8. CASE hp' = first(j, v).hp /\ Abort("oob")
  BY <1>4, <1>5, <1>8, SetPointer, AbortSafe DEF Traps
<1> QED BY <1>2, <1>6, <1>7, <1>8

(* emit_dict_pop, emit_dict_del, emit_set_remove, emit_list_mutate. *)
LEMMA ShrinkSafe ==
  ASSUME IInv, NEW d \in Names, Pop(d) \/ PopOr(d) \/ Clear(d) PROVE IInv'
<1>1. run.dst = NoName /\ d \in Live
  BY DEF Pop, PopOr, Clear, Ready
<1>2. CASE Pop(d)
  <2>1. PICK k \in Keys :
          \/ dict_has(mem, loc[d], k) /\ TakeOut(d, k, dict_get(mem, loc[d], k))
          \/ hp' = hp /\ Abort("unreachable")
    BY <1>2 DEF Pop
  <2>2. hp \in Nat /\ hp <= hp
    BY DEF IInv, TypeOK
  <2>3. CASE hp' = hp /\ Abort("unreachable")
    BY <2>2, <2>3, AbortSafe DEF Traps
  <2> QED BY <1>1, <2>1, <2>3, TakeOutSafe
<1>3. CASE PopOr(d)
  <2>1. PICK k \in Keys, v \in IF d \in SetNames THEN {Zero} ELSE Vals :
          \/ dict_has(mem, loc[d], k) /\ TakeOut(d, k, dict_get(mem, loc[d], k))
          \/ /\ out' = v
             /\ UNCHANGED <<mem, hp, loc, inCall, run, trap, foreign>>
    BY <1>3 DEF PopOr
  <2>2. v \in Word
    BY KeysAreWords
  <2> QED BY <1>1, <2>1, <2>2, TakeOutSafe, ReadSafe
<1>4. CASE Clear(d)
  <2>1. /\ mem' = [mem EXCEPT ![loc[d]] = W(0, Cap(mem, loc[d]))] /\ out' = Zero
        /\ UNCHANGED <<hp, loc, inCall, run, trap, foreign>>
    BY <1>4 DEF Clear
  <2>2. loc[d] \in Records /\ Good(mem, hp, Records, foreign)
    BY <1>1, HeldIsRecord DEF Live, Scope, Names, IInv
  <2>3. Good(mem', hp', Records, foreign')
    BY <2>1, <2>2, GoodClear
  <2> QED BY <1>1, <2>1, <2>3, KeysAreWords, KeepPointers DEF IInv, TypeOK, Traps
<1> QED BY <1>2, <1>3, <1>4

(* emit_dict_get reads or traps. *)
LEMMA GetSafe == ASSUME IInv, NEW d \in Names, Get(d) PROVE IInv'
<1>1. loc[d] \in Records /\ Good(mem, hp, Records, foreign)
  BY HeldIsRecord DEF Get, Dicts, Live, Scope, Names, IInv
<1>2. PICK k \in Keys :
        \/ /\ dict_has(mem, loc[d], k)
           /\ out' = dict_get(mem, loc[d], k)
           /\ UNCHANGED <<mem, hp, loc, inCall, run, trap, foreign>>
        \/ hp' = hp /\ Abort("unreachable")
  BY DEF Get
<1>3. CASE /\ dict_has(mem, loc[d], k)
           /\ out' = dict_get(mem, loc[d], k)
           /\ UNCHANGED <<mem, hp, loc, inCall, run, trap, foreign>>
  BY <1>1, <1>3, GetWord, ReadSafe
<1>4. CASE hp' = hp /\ Abort("unreachable")
  <2>1. hp \in Nat /\ hp <= hp
    BY DEF IInv, TypeOK
  <2> QED BY <1>4, <2>1, AbortSafe DEF Traps
<1> QED BY <1>2, <1>3, <1>4

(* __alloc for a string, list or struct: past every record, or a trap. *)
LEMMA ForeignSafe == ASSUME IInv, ForeignAlloc PROVE IInv'
<1>1. run.dst = NoName /\ Good(mem, hp, Records, foreign) /\ hp \in Nat /\ PageWords \in Nat
  BY HeapAssumption DEF ForeignAlloc, Ready, IInv, TypeOK
<1>2. PICK bytes \in ForeignBytes :
        /\ hp' = alloc(hp, bytes)
        /\ \/ /\ alloc(hp, bytes) <= PageWords
              /\ mem' = [a \in Page |-> IF a \in hp .. (alloc(hp, bytes) - 1) THEN Foreign ELSE mem[a]]
              /\ foreign' = foreign \cup (hp .. (alloc(hp, bytes) - 1))
              /\ UNCHANGED <<loc, inCall, run, out, trap>>
           \/ /\ alloc(hp, bytes) > PageWords
              /\ Abort("oob")
  BY DEF ForeignAlloc
<1>3. bytes \in Nat
  BY MapsAssumption
<1>4. alloc(hp, bytes) \in Nat /\ hp <= alloc(hp, bytes)
  BY <1>1, <1>3 DEF alloc
<1>5. CASE alloc(hp, bytes) <= PageWords
  <2>1. /\ mem' = [a \in Page |-> IF a \in hp .. (hp' - 1) THEN Foreign ELSE mem[a]]
        /\ foreign' = foreign \cup (hp .. (hp' - 1))
        /\ UNCHANGED <<loc, inCall, run, out, trap>> /\ hp' <= PageWords
    BY <1>1, <1>2, <1>4, <1>5
  <2>2. Good(mem', hp', Records, foreign')
    BY <1>1, <1>2, <1>3, <2>1, GoodForeign
  <2> QED BY <1>1, <2>1, <2>2, KeepPointers DEF IInv, TypeOK, Traps
<1>6. CASE Abort("oob")
  BY <1>2, <1>4, <1>6, AbortSafe DEF Traps
<1> QED BY <1>2, <1>5, <1>6

(* Passing maps to the callee and back only renames pointers. *)
LEMMA CallSafe == ASSUME IInv, Call \/ ReturnMap \/ Return PROVE IInv'
<1>1. run.dst = NoName /\ UNCHANGED <<mem, hp, run, out, trap, foreign>>
  BY DEF Call, ReturnMap, Return, Ready
<1>2. /\ loc' \in [Names -> Nat] /\ inCall' \in BOOLEAN
      /\ \A x \in Names : loc'[x] # 0 => \E y \in Names : loc[y] = loc'[x]
      /\ OneOwner'
  <2>1. loc \in [Names -> Nat]
    BY DEF IInv, TypeOK
  <2>2. CASE Call
    <3>1. PICK arg \in [Params -> Live] :
            loc' = [x \in Names |-> IF x \in Params THEN loc[arg[x]]
                                    ELSE IF x \in Callees THEN 0 ELSE loc[x]]
      BY <2>2 DEF Call
    <3>2. inCall' = TRUE /\ ~ inCall
      BY <2>2 DEF Call
    <3>3. \A x \in Params : arg[x] \in Callers /\ arg[x] \in Names
      BY <3>2 DEF Live, Scope, Names
    <3>4. \A x \in Names : /\ x \in Params => loc'[x] = loc[arg[x]]
                           /\ x \in Callees => loc'[x] = 0
                           /\ x \in Callers => loc'[x] = loc[x]
      BY <3>1, MapsAssumption
    <3>5. \A x, y \in Callers : loc[x] # 0 /\ loc[x] = loc[y] => x = y
      BY MapsAssumption DEF IInv, OneOwner, Bound, Names
    <3>6. OneOwner'
      BY <3>2, <3>3, <3>4, <3>5 DEF OneOwner, Bound, Names
    <3>7. loc' \in [Names -> Nat]
      BY <2>1, <3>1, <3>3
    <3>8. \A x \in Names : loc'[x] # 0 => \E y \in Names : loc[y] = loc'[x]
      BY <3>3, <3>4 DEF Names
    <3> QED BY <3>2, <3>6, <3>7, <3>8
  <2>3. CASE Return
    <3>1. loc' = [y \in Names |-> IF y \in Callers THEN loc[y] ELSE 0] /\ inCall' = FALSE
      BY <2>3 DEF Return
    <3>2. OneOwner'
      BY <3>1, MapsAssumption DEF IInv, OneOwner, Bound, Names
    <3> QED BY <2>1, <3>1, <3>2
  <2>4. CASE ReturnMap
    <3>1. PICK x \in Callers, r \in Callees :
            loc' = [y \in Names |-> IF y = x THEN loc[r] ELSE IF y \in Callers THEN loc[y] ELSE 0]
            /\ Bound(r)
      BY <2>4 DEF ReturnMap
    <3>2. inCall' = FALSE
      BY <2>4 DEF ReturnMap
    <3>3. \A y \in Callers : loc[y] # loc[r]
      BY <3>1, MapsAssumption DEF IInv, OneOwner, Bound, Names
    <3>4. OneOwner'
      BY <3>1, <3>2, <3>3, MapsAssumption DEF IInv, OneOwner, Bound, Names
    <3>5. loc' \in [Names -> Nat]
      BY <2>1, <3>1 DEF Names
    <3>6. \A y \in Names : loc'[y] # 0 => \E z \in Names : loc[z] = loc'[y]
      BY <3>1 DEF Names
    <3> QED BY <3>2, <3>4, <3>5, <3>6
  <2> QED BY <2>2, <2>3, <2>4
<1>3. Records' \subseteq Records
  BY <1>1, <1>2 DEF Records, Bound
<1>4. Good(mem', hp', Records', foreign')
  BY <1>1, <1>3, GoodSubset DEF IInv
<1>5. TypeOK'
  BY <1>1, <1>2 DEF IInv, TypeOK
<1>6. RunOK'
  BY <1>1 DEF RunOK
<1> QED BY <1>2, <1>4, <1>5, <1>6 DEF IInv

-----------------------------------------------------------------------------
(* The steps of a loop. *)

RunType == [dst : Names \cup {NoName}, r : Nat, i : Nat, n : Nat \cup {-1}, todo : Seq(Entry)]

(* One dict_set of a loop: the accumulator may move, no local points at it. *)
LEMMA RunSetSafe ==
  ASSUME IInv, run.dst # NoName, NEW k \in Word, NEW v \in Word, NEW next \in RunType,
         next.dst = run.dst,
         \A j \in DOMAIN next.todo : next.todo[j].kind = "walk" => Bound(next.todo[j].src),
         next.n # -1 => /\ next.todo # <<>> /\ Head(next.todo).kind = "walk"
                        /\ next.n <= Count(mem, loc[Head(next.todo).src]),
         RunSet(k, v, next)
  PROVE  IInv'
<1>1. Good(mem, hp, Records, foreign) /\ run.r \in Records /\ hp \in Nat
  BY HeldIsRecord DEF IInv, TypeOK
<1>2. PICK s : s = dict_set(mem, hp, run.r, k, v)
  OBVIOUS
<1>3. CASE s.ok
  <2>1. /\ mem' = s.mem /\ hp' = s.hp /\ run' = [next EXCEPT !.r = s.ptr]
        /\ UNCHANGED <<loc, inCall, out, trap, foreign>>
    BY <1>2, <1>3 DEF RunSet
  <2>2. /\ Good(s.mem, s.hp, Records \cup {s.ptr}, foreign)
        /\ s.ptr = run.r \/ s.ptr \notin Records
        /\ s.ptr \in Page
        /\ \A q \in Records : Count(mem, q) <= Count(s.mem, q)
    BY <1>1, <1>2, <1>3, GoodSet
  <2>3. s.ptr \in Nat /\ s.ptr # 0
    BY <2>2, HeapAssumption DEF Page
  <2>4. /\ run' \in RunType /\ run'.dst = run.dst /\ run'.r = s.ptr
        /\ run'.n = next.n /\ run'.todo = next.todo
    BY <2>1, <2>3 DEF RunType
  <2>5. out' \in Word /\ trap' \in Traps
    BY <2>1 DEF IInv, TypeOK, Traps
  <2> QED BY <2>1, <2>2, <2>3, <2>4, <2>5, MoveRun DEF RunType
<1>4. CASE ~ s.ok
  <2>1. Abort("oob") /\ hp' = s.hp
    BY <1>2, <1>4 DEF RunSet
  <2> QED BY <1>1, <1>2, <2>1, SetPointer, AbortSafe DEF Traps
<1> QED BY <1>3, <1>4

(* A step that only advances the loop's own locals. *)
LEMMA RunMoves ==
  ASSUME IInv, run.dst # NoName, run' \in RunType, run'.dst = run.dst, run'.r = run.r,
         UNCHANGED <<mem, hp, loc, inCall, out, trap, foreign>>,
         \A j \in DOMAIN run'.todo : run'.todo[j].kind = "walk" => Bound(run'.todo[j].src),
         run'.n # -1 => /\ run'.todo # <<>> /\ Head(run'.todo).kind = "walk"
                        /\ run'.n <= Count(mem, loc[Head(run'.todo).src])
  PROVE  IInv'
<1>1. run.r \in Records /\ run.r \in Nat /\ run.r # 0
  BY HeldIsRecord
<1>2. Records \cup {run.r} = Records
  BY <1>1
<1>3. Good(mem', hp', Records \cup {run.r}, foreign')
  BY <1>2 DEF IInv
<1>4. \A q \in Records : Count(mem, q) <= Count(mem', q)
  BY DEF IInv, Good, WellFormed
<1>5. out' \in Word /\ trap' \in Traps
  BY DEF IInv, TypeOK, Traps
<1> QED BY <1>1, <1>3, <1>4, <1>5, MoveRun DEF RunType

(* Every step of a loop; the sources of its walks stay bound and never shrink. *)
LEMMA RunStepSafe == ASSUME IInv, RunStep PROVE IInv'
<1>1. run \in RunType /\ run.dst # NoName /\ run.dst \in Names
  BY DEF IInv, TypeOK, RunType, RunStep, RunPut, WalkStart, WalkInsert, WalkSkip, WalkEnd,
         RunDone, Walking, Running
<1>2. /\ run.dst \in Scope
      /\ \A x \in Names : loc[x] = run.r => x = run.dst
      /\ \A j \in DOMAIN run.todo : run.todo[j].kind = "walk" => Bound(run.todo[j].src)
      /\ run.n # -1 => /\ run.todo # <<>> /\ Head(run.todo).kind = "walk"
                       /\ run.n <= Count(mem, loc[Head(run.todo).src])
  BY <1>1 DEF IInv, RunOK
<1>3. run.todo # <<>> =>
        /\ Tail(run.todo) \in Seq(Entry) /\ Head(run.todo) \in Entry
        /\ \A j \in DOMAIN Tail(run.todo) :
             Tail(run.todo)[j].kind = "walk" => Bound(Tail(run.todo)[j].src)
  BY <1>1, <1>2 DEF RunType
<1>4. CASE RunPut
  <2> DEFINE next == [run EXCEPT !.todo = Tail(@)]
  <2>1. run.todo # <<>> /\ Head(run.todo).kind = "put" /\ RunSet(Head(run.todo).k, Head(run.todo).v, next)
    BY <1>4 DEF RunPut
  <2>2. Head(run.todo).k \in Word /\ Head(run.todo).v \in Word
    BY <1>3, <2>1, KeysAreWords DEF Entry, Put
  <2>3. next \in RunType /\ next.dst = run.dst /\ next.n = run.n /\ next.todo = Tail(run.todo)
    BY <1>1, <1>3, <2>1 DEF RunType
  <2>4. run.n = -1
    BY <1>2, <2>1
  <2> HIDE DEF next
  <2>5. \A j \in DOMAIN next.todo : next.todo[j].kind = "walk" => Bound(next.todo[j].src)
    BY <1>3, <2>1, <2>3
  <2>6. next.n = -1 /\ next.dst = run.dst /\ next \in RunType
    BY <2>3, <2>4
  <2>7. RunSet(Head(run.todo).k, Head(run.todo).v, next)
    BY <2>1
  <2> QED BY <1>1, <2>2, <2>5, <2>6, <2>7, RunSetSafe
<1>5. CASE WalkStart
  <2>1. /\ run.todo # <<>> /\ Head(run.todo).kind = "walk"
        /\ run' = [run EXCEPT !.i = 0, !.n = Count(mem, loc[Head(run.todo).src])]
        /\ UNCHANGED <<mem, hp, loc, inCall, out, trap, foreign>>
    BY <1>5 DEF WalkStart, Walking
  <2>2. Head(run.todo).src \in Names /\ Bound(Head(run.todo).src)
    BY <1>1, <1>2, <1>3, <2>1 DEF Entry, Put, RunType
  <2>3. Count(mem, loc[Head(run.todo).src]) \in Nat
    BY <2>2, HeldIsRecord DEF IInv, Good, WellFormed
  <2>4. run' \in RunType /\ run'.dst = run.dst /\ run'.r = run.r /\ run'.todo = run.todo
        /\ run'.n = Count(mem, loc[Head(run.todo).src])
    BY <1>1, <2>1, <2>3 DEF RunType
  <2>5. run'.n <= Count(mem, loc[Head(run'.todo).src])
    BY <2>3, <2>4
  <2> QED BY <1>1, <1>2, <2>1, <2>4, <2>5, RunMoves
<1>6. CASE WalkInsert
  <2> DEFINE next == [run EXCEPT !.i = @ + 1]
  <2>1. /\ run.todo # <<>> /\ Head(run.todo).kind = "walk" /\ run.n # -1 /\ run.i < run.n
        /\ RunSet(WalkKey, WalkVal, next)
    BY <1>6 DEF WalkInsert, Walking
  <2>2. Head(run.todo).src \in Names /\ Bound(Head(run.todo).src)
    BY <1>1, <1>2, <1>3, <2>1 DEF Entry, Put, RunType
  <2>3. PICK p \in Records : p = loc[Head(run.todo).src]
    BY <2>2, HeldIsRecord
  <2>4. Good(mem, hp, Records, foreign) /\ Count(mem, p) \in Nat
    BY <2>3 DEF IInv, Good, WellFormed
  <2>5. run.i \in Slots(mem, p)
    BY <1>1, <1>2, <2>1, <2>3, <2>4 DEF Slots, RunType
  <2>6. mem[KeyAddr(p, run.i)] \in Word /\ mem[ValAddr(p, run.i)] \in Word
    BY <2>4, <2>5, EntryAddrs
  <2>7. WalkKey \in Word /\ WalkVal \in Word
    BY <2>3, <2>6, KeysAreWords DEF WalkKey, WalkVal, load_key, W, Word
  <2>8. next \in RunType /\ next.dst = run.dst /\ next.n = run.n /\ next.todo = run.todo
    BY <1>1 DEF RunType
  <2> HIDE DEF next
  <2> QED BY <1>1, <1>2, <2>1, <2>7, <2>8, RunSetSafe
<1>7. CASE WalkSkip
  <2>1. run' = [run EXCEPT !.i = @ + 1] /\ UNCHANGED <<mem, hp, loc, inCall, out, trap, foreign>>
    BY <1>7 DEF WalkSkip
  <2>2. run' \in RunType /\ run'.dst = run.dst /\ run'.r = run.r /\ run'.n = run.n /\ run'.todo = run.todo
    BY <1>1, <2>1 DEF RunType
  <2> QED BY <1>1, <1>2, <2>1, <2>2, RunMoves
<1>8. CASE WalkEnd
  <2>1. /\ run' = [run EXCEPT !.todo = Tail(@), !.i = 0, !.n = -1] /\ run.todo # <<>>
        /\ UNCHANGED <<mem, hp, loc, inCall, out, trap, foreign>>
    BY <1>8 DEF WalkEnd, Walking
  <2>2. /\ run' \in RunType /\ run'.dst = run.dst /\ run'.r = run.r
        /\ run'.n = -1 /\ run'.todo = Tail(run.todo)
    BY <1>1, <1>3, <2>1 DEF RunType
  <2> QED BY <1>1, <1>3, <2>1, <2>2, RunMoves
<1>9. CASE RunDone
  <2>1. /\ loc' = [loc EXCEPT ![run.dst] = run.r] /\ run' = IdleRun
        /\ UNCHANGED <<mem, hp, inCall, out, trap, foreign>>
    BY <1>9 DEF RunDone
  <2>2. loc \in [Names -> Nat] /\ run.r \in Records /\ run.r \in Nat
    BY <1>1, HeldIsRecord DEF IInv, TypeOK
  <2>3. \A y \in Names : loc'[y] = IF y = run.dst THEN run.r ELSE loc[y]
    BY <1>1, <2>1, <2>2
  <2>4. run'.dst = NoName
    BY <2>1 DEF IdleRun
  <2>5. Records' \subseteq Records
    BY <2>2, <2>3, <2>4 DEF Records, Bound
  <2>6. Good(mem', hp', Records', foreign')
    BY <2>1, <2>5, GoodSubset DEF IInv
  <2>7. run' \in RunType
    <3>1. <<>> \in Seq(Entry)
      OBVIOUS
    <3> QED BY <2>1, <3>1 DEF IdleRun, RunType
  <2>8. TypeOK'
    BY <2>1, <2>2, <2>7 DEF IInv, TypeOK, RunType
  <2>9. ASSUME NEW y \in Names, NEW z \in Names, loc'[y] # 0, loc'[y] = loc'[z], y # z
        PROVE  \/ y \in Params /\ z \in Params \cup Callers
               \/ z \in Params /\ y \in Callers
    BY <1>2, <2>3, <2>9 DEF IInv, OneOwner, Bound
  <2>10. ASSUME ~ inCall PROVE \A y \in Callees \cup Params : loc'[y] = 0
    <3>1. run.dst \in Callers
      BY <1>2, <2>10 DEF Scope
    <3> QED BY <2>3, <2>10, <3>1, MapsAssumption DEF IInv, OneOwner, Bound, Names
  <2>11. OneOwner'
    BY <2>1, <2>9, <2>10 DEF OneOwner, Bound
  <2>12. RunOK'
    BY <2>4 DEF RunOK
  <2> QED BY <2>6, <2>8, <2>11, <2>12 DEF IInv
<1> QED BY <1>4, <1>5, <1>6, <1>7, <1>8, <1>9 DEF RunStep

-----------------------------------------------------------------------------
(* An instance starts with an empty heap and no record. *)
LEMMA IInvInit == Init => IInv
<1> SUFFICES ASSUME Init PROVE IInv
  OBVIOUS
<1>1. Zero \in Word /\ <<>> \in Seq(Entry) /\ HeapBase \in Nat
  BY KeysAreWords, HeapAssumption
<1>2. TypeOK
  BY <1>1 DEF Init, TypeOK, IdleRun
<1>3. Records = {} /\ run.dst = NoName
  BY DEF Init, Records, Bound, IdleRun
<1>4. Good(mem, hp, Records, foreign)
  BY <1>1, <1>2, <1>3 DEF Good, TypeOK, Init
<1>5. OneOwner /\ RunOK
  BY <1>3 DEF Init, OneOwner, RunOK, Bound, Names
<1> QED BY <1>2, <1>4, <1>5 DEF IInv

(* Every statement, call, return and loop step preserves the invariant. *)
LEMMA IInvNext == ~ EmptyAlgebra /\ IInv /\ [Next]_vars => IInv'
<1> SUFFICES ASSUME ~ EmptyAlgebra, IInv, [Next]_vars PROVE IInv'
  OBVIOUS
<1>1. ASSUME NEW x \in Names, BindLit(x) \/ SetOp(x) \/ DictUpdate(x) \/ DictSet(x)
      PROVE  IInv'
  BY <1>1, BindLitSafe, SetOpSafe, DictUpdateSafe, DictSetSafe
<1>2. ASSUME NEW x \in Names, SetDefault(x) \/ DictSetOfSetDefault(x) PROVE IInv'
  BY <1>2, SetDefaultSafe, DictSetOfSetDefaultSafe
<1>3. ASSUME NEW x \in Names, Pop(x) \/ PopOr(x) \/ Clear(x) \/ Get(x) PROVE IInv'
  BY <1>3, ShrinkSafe, GetSafe
<1>4. CASE RunStep
  BY <1>4, RunStepSafe
<1>5. CASE Call \/ ReturnMap \/ Return
  BY <1>5, CallSafe
<1>6. CASE ForeignAlloc
  BY <1>6, ForeignSafe
<1>7. CASE UNCHANGED vars
  <2>1. out' \in Word
    BY <1>7 DEF vars, IInv, TypeOK
  <2> QED BY <1>7, <2>1, ReadSafe DEF vars
<1> QED BY <1>1, <1>2, <1>3, <1>4, <1>5, <1>6, <1>7 DEF Next, Halted

(* The inductive invariant holds in every behaviour of the emitted module. *)
LEMMA IInvHolds == ASSUME ~ EmptyAlgebra PROVE Spec => []IInv
<1>1. Init => IInv
  BY IInvInit
<1>2. IInv /\ [Next]_vars => IInv'
  BY IInvNext
<1> QED BY <1>1, <1>2, PTL DEF Spec

(* Every variable keeps its type; in particular no walk and no lookup reads  *)
(* outside the page.                                                         *)
THEOREM TypeCorrect == ASSUME ~ EmptyAlgebra PROVE Spec => []TypeOK
<1>1. IInv => TypeOK
  BY DEF IInv
<1> QED BY <1>1, IInvHolds, PTL

(* dict_set's stores and memory.copy stay in the record they are for: every  *)
(* record a program can reach lies below the bump pointer with its header    *)
(* and its entries in the page.                                              *)
THEOREM RecordsStayInside == ASSUME ~ EmptyAlgebra PROVE Spec => []RecordsInside
<1>1. IInv => RecordsInside
  BY HeapAssumption DEF IInv, RecordsInside, Good, WellFormed
<1> QED BY <1>1, IInvHolds, PTL

(* Growth and $__alloc never hand out a word twice: no dict or set overlaps  *)
(* another, or a string, list or struct.                                     *)
THEOREM RecordsStayApart == ASSUME ~ EmptyAlgebra PROVE Spec => []RecordsApart
<1>1. IInv => RecordsApart
  <2> SUFFICES ASSUME IInv PROVE RecordsApart
    OBVIOUS
  <2>1. /\ \A p \in Records : p \in Int /\ Cap(mem, p) \in Int
        /\ \A a \in foreign : a \in Int
        /\ \A p, q \in Records : p # q => Apart(mem, p, q)
        /\ \A p \in Records, a \in foreign : Clear_of(mem, p, a)
    BY DEF IInv, Good, WellFormed, Page
  <2> QED BY <2>1 DEF RecordsApart, Region, Apart, Clear_of
<1> QED BY <1>1, IInvHolds, PTL

(* No statement on a dict or set writes into a string, list or struct. *)
THEOREM ForeignStaysIntact == ASSUME ~ EmptyAlgebra PROVE Spec => []ForeignIntact
<1>1. IInv => ForeignIntact
  BY DEF IInv, Good, ForeignIntact
<1> QED BY <1>1, IInvHolds, PTL

(* Growth moves a record only when one local holds it: the refusals of       *)
(* refuse_heap_param_growth and emit_heap_ret suffice for that.              *)
THEOREM OneOwnerAlways == ASSUME ~ EmptyAlgebra PROVE Spec => []OneOwner
<1>1. IInv => OneOwner
  BY DEF IInv
<1> QED BY <1>1, IInvHolds, PTL
=============================================================================
