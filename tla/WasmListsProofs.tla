--------------------------- MODULE WasmListsProofs ---------------------------
(***************************************************************************)
(* Proofs about WasmLists, for every page, slack, set of values, number of *)
(* lists passed and operands: each reachable list keeps its elements in    *)
(* the words it reserved, no two lists share a word, x.sort() orders the   *)
(* one list it names, stably, and every statement is the one of PyLists,   *)
(* through every name of a list.                                           *)
(*                                                                         *)
(* A statement may evaluate operands that pop lists before it writes its   *)
(* own, so the invariant is about the words e[p] a list had when the       *)
(* statement began: InPlace says that a helper stays within them.          *)
(***************************************************************************)
EXTENDS WasmListsRefine, FiniteSetTheorems, SequenceTheorems, WellFoundedInduction, TLAPS

(* The words past the header that the record at p holds or has reserved. *)
Top(m, p) == IF Cap(m, p) >= Count(m, p) THEN Cap(m, p) ELSE Count(m, p)

IsList(m, p) ==
  /\ p \in Page /\ Count(m, p) \in Nat /\ Cap(m, p) \in Nat
  /\ p + Count(m, p) < PageWords
  /\ \A j \in 1 .. Count(m, p) : m[p + j] \in Vals
  /\ Cap(m, p) # 0 => Count(m, p) <= Cap(m, p)

(* Word i of the dict's entries: keys and values in turn. *)
Entry(i) == Table[((i - 1) \div 2) + 1][((i - 1) % 2) + 1]

IsDict(m, d) ==
  /\ d \in Page /\ d + 2 * Len(Table) < PageWords
  /\ m[d] = W(Len(Table), Len(Table) + 1)
  /\ \A i \in 1 .. 2 * Len(Table) : m[d + i] \in Vals /\ m[d + i] = Entry(i)

DictEnd(d) == d + 2 * (Len(Table) + 1)

(* The records R and the dict at d, none of which reaches into another. *)
Heap(m, h, d, R, e) ==
  /\ m \in [Page -> Word] /\ h \in Nat /\ IsDict(m, d) /\ DictEnd(d) < h
  /\ \A p \in R : /\ IsList(m, p) /\ e[p] \in Nat /\ Top(m, p) <= e[p]
                  /\ DictEnd(d) < p /\ p + e[p] < h
  /\ \A p, q \in R : p # q => p + e[p] < q \/ q + e[q] < p

(* n is m after a statement changed the list at p within its n words. *)
InPlace(m, p, n, e) ==
  /\ n \in [Page -> Word]
  /\ \A a \in Page : a < p \/ p + e < a => n[a] = m[a]
  /\ IsList(n, p) /\ Cap(n, p) = Cap(m, p) /\ Count(n, p) <= e

-----------------------------------------------------------------------------
(* Arithmetic, least elements and induction.                                 *)

LEMMA Constants ==
  /\ HeapBase \in Nat \ {0} /\ PageWords \in Nat /\ Vals \subseteq Word /\ Zero \in Vals
  /\ ListSlack \in Nat \ {0} /\ Idx \subseteq Int /\ Len(Table) \in Nat
  /\ \A a \in Page : a \in Nat /\ a > 0 /\ a < PageWords
  BY HeapAssumption, ListsAssumption DEF Page

LEMMA Least ==
  ASSUME NEW T \in SUBSET Nat, T # {}
  PROVE  \E n \in T : \A m \in T : n <= m
<1>1. PICK n \in T : \A m \in T : <<m, n>> \notin OpToRel(<, Nat)
  BY WFMin, NatLessThanWellFounded, Zenon
<1>2. ASSUME NEW m \in T, m < n PROVE FALSE
  <2>1. <<m, n>> \in Nat \X Nat /\ <<m, n>>[1] < <<m, n>>[2]
    BY <1>2
  <2>2. <<m, n>> \in OpToRel(<, Nat)
    BY <2>1, Zenon DEF OpToRel
  <2> QED BY <1>1, <2>2
<1> QED BY <1>2

LEMMA Greatest ==
  ASSUME NEW n \in Nat, NEW T \in SUBSET (0 .. n), T # {}
  PROVE  \E i \in T : \A j \in T : j <= i
<1> DEFINE D == {n - i : i \in T}
<1>1. D \in SUBSET Nat /\ D # {}
  <2>1. \A i \in T : i \in 0 .. n /\ n - i \in Nat
    OBVIOUS
  <2> QED BY <2>1
<1>2. PICK d \in D : \A c \in D : d <= c
  BY <1>1, Least
<1>3. PICK i \in T : d = n - i
  OBVIOUS
<1>4. ASSUME NEW j \in T PROVE j <= i
  <2>1. n - j \in D
    OBVIOUS
  <2>2. n - i <= n - j
    BY <1>2, <1>3, <2>1
  <2>3. i \in 0 .. n /\ j \in 0 .. n
    OBVIOUS
  <2> QED BY <2>2, <2>3
<1> QED BY <1>4

LEMMA Induction ==
  ASSUME NEW S, 0 \in S, \A n \in Nat : n \in S => n + 1 \in S
  PROVE  Nat \subseteq S
<1> SUFFICES ASSUME ~ (Nat \subseteq S) PROVE FALSE
  OBVIOUS
<1>1. PICK n \in Nat \ S : \A m \in Nat \ S : n <= m
  BY Least
<1>2. n - 1 \in Nat /\ n - 1 \in S
  BY <1>1
<1> QED BY <1>1, <1>2

(* Max and Min of two numbers. *)
LEMMA MaxOfTwo ==
  ASSUME NEW a \in Int, NEW b \in Int
  PROVE  Max({a, b}) = IF a >= b THEN a ELSE b
  BY DEF Max

LEMMA MinOfTwo ==
  ASSUME NEW a \in Int, NEW b \in Int
  PROVE  Min({a, b}) = IF a <= b THEN a ELSE b
  BY DEF Min

(* A clamped index is a position of the list, or its end. *)
LEMMA ClampRange ==
  ASSUME NEW n \in Nat, NEW i \in Int
  PROVE  Clamp(n, i) \in 0 .. n
<1>1. Normal(n, i) \in Int
  BY DEF Normal
<1>2. Min({n, Normal(n, i)}) \in Int /\ Min({n, Normal(n, i)}) <= n
  BY <1>1, MinOfTwo
<1>3. 0 \in Int /\ Max({0, Min({n, Normal(n, i)})})
                      = IF 0 >= Min({n, Normal(n, i)}) THEN 0 ELSE Min({n, Normal(n, i)})
  BY <1>2, MaxOfTwo
<1> QED BY <1>2, <1>3 DEF Clamp

-----------------------------------------------------------------------------
(* The heap under changes of memory.                                         *)

(* A statement within the words of one list leaves the others alone. *)
LEMMA InPlaceHeap ==
  ASSUME NEW m, NEW h, NEW d, NEW R, NEW e, Heap(m, h, d, R, e),
         NEW p \in R, NEW n, InPlace(m, p, n, e[p])
  PROVE  /\ Heap(n, h, d, R, e)
         /\ \A a \in Page : a >= h => n[a] = m[a]
         /\ \A q \in R : q # p => \A a \in q .. q + e[q] : a \in Page => n[a] = m[a]
<1>1. /\ p \in Page /\ e[p] \in Nat /\ DictEnd(d) < p /\ p + e[p] < h /\ d \in Page /\ h \in Nat
      /\ n \in [Page -> Word] /\ \A a \in Page : a < p \/ p + e[p] < a => n[a] = m[a]
  BY DEF Heap, InPlace, IsList, IsDict
<1>2. ASSUME NEW q \in R, q # p, NEW a \in q .. q + e[q], a \in Page PROVE n[a] = m[a]
  <2>1. p + e[p] < q \/ q + e[q] < p
    BY <1>2 DEF Heap
  <2>2. q \in Page /\ e[q] \in Nat
    BY DEF Heap, IsList
  <2> QED BY <1>1, <1>2, <2>1, <2>2, Constants
<1>3. ASSUME NEW a \in Page, a >= h PROVE n[a] = m[a]
  BY <1>1, <1>3, Constants
<1>4. IsDict(n, d)
  <2>1. \A a \in d .. DictEnd(d) : a \in Page => n[a] = m[a]
    BY <1>1, Constants DEF DictEnd
  <2>2. IsDict(m, d)
    BY DEF Heap
  <2>3. d \in d .. DictEnd(d) /\ \A i \in 1 .. 2 * Len(Table) : d + i \in d .. DictEnd(d) /\ d + i \in Page
    BY <1>1, <2>2, Constants DEF DictEnd, IsDict, Page
  <2> QED BY <2>1, <2>2, <2>3 DEF IsDict
<1>5. ASSUME NEW q \in R PROVE IsList(n, q) /\ Top(n, q) <= e[q]
  <2>1. CASE q = p
    <3>1. IsList(n, p) /\ Cap(n, p) = Cap(m, p) /\ Count(n, p) <= e[p]
      BY DEF InPlace
    <3>2. Cap(m, p) <= e[p]
      BY DEF Heap, Top, IsList
    <3> QED BY <2>1, <3>1, <3>2 DEF Top
  <2>2. CASE q # p
    <3>1. IsList(m, q) /\ e[q] \in Nat /\ Top(m, q) <= e[q]
      BY DEF Heap
    <3>2. Count(m, q) <= e[q]
      BY <3>1 DEF Top, IsList
    <3>3. \A j \in 0 .. Count(m, q) : q + j \in q .. q + e[q] /\ q + j \in Page
      BY <3>1, <3>2, Constants DEF IsList, Page
    <3>4. \A j \in 0 .. Count(m, q) : n[q + j] = m[q + j]
      BY <1>2, <2>2, <3>3
    <3>5. n[q] = m[q]
      BY <1>2, <2>2, <3>1, Constants DEF IsList
    <3> QED BY <3>1, <3>4, <3>5 DEF IsList, Top, Count, Cap
  <2> QED BY <2>1, <2>2
<1> QED BY <1>1, <1>2, <1>3, <1>4, <1>5 DEF Heap

(* Writes above the heap pointer touch no record. *)
LEMMA AboveHeap ==
  ASSUME NEW m, NEW h, NEW d, NEW R, NEW e, Heap(m, h, d, R, e),
         NEW n \in [Page -> Word], \A a \in Page : a < h => n[a] = m[a]
  PROVE  Heap(n, h, d, R, e)
<1>1. h \in Nat /\ IsDict(m, d) /\ DictEnd(d) < h
  BY DEF Heap
<1>2. IsDict(n, d)
  <2>1. n[d] = m[d] /\ \A i \in 1 .. 2 * Len(Table) : n[d + i] = m[d + i]
    BY <1>1, Constants DEF IsDict, DictEnd, Page
  <2> QED BY <1>1, <2>1 DEF IsDict
<1>3. ASSUME NEW q \in R PROVE IsList(n, q) /\ Top(n, q) = Top(m, q)
  <2>1. IsList(m, q) /\ e[q] \in Nat /\ Top(m, q) <= e[q] /\ q + e[q] < h
    BY DEF Heap
  <2>2. Count(m, q) <= e[q]
    BY <2>1 DEF Top, IsList
  <2>3. n[q] = m[q] /\ \A j \in 1 .. Count(m, q) : n[q + j] = m[q + j]
    BY <1>1, <2>1, <2>2, Constants DEF IsList, Page
  <2> QED BY <2>1, <2>3 DEF IsList, Top, Count, Cap
<1> QED BY <1>2, <1>3 DEF Heap

-----------------------------------------------------------------------------
(* The helpers that change a list in place.                                  *)

(* A word of the list set to a value. *)
LEMMA StoreInPlace ==
  ASSUME NEW m \in [Page -> Word], NEW p, IsList(m, p), NEW e \in Nat, Top(m, p) <= e,
         NEW j \in 1 .. e, p + j \in Page, NEW v \in Vals
  PROVE  LET n == [m EXCEPT ![p + j] = v]
         IN  InPlace(m, p, n, e) /\ Count(n, p) = Count(m, p) /\ n[p + j] = v
<1> DEFINE n == [m EXCEPT ![p + j] = v]
<1>1. p \in Page /\ p \in Nat /\ p + j # p /\ v \in Word
  BY Constants DEF IsList
<1>2. n \in [Page -> Word] /\ n[p] = m[p] /\ \A a \in Page : n[a] = IF a = p + j THEN v ELSE m[a]
  BY <1>1
<1> HIDE DEF n
<1>3. Count(m, p) \in Nat /\ Count(m, p) <= e /\ \A k \in 1 .. Count(m, p) : p + k \in Page
  BY <1>1, Constants DEF Top, IsList, Page
<1>4. IsList(n, p)
  BY <1>1, <1>2, <1>3 DEF IsList, Count, Cap
<1>5. \A a \in Page : a < p \/ p + e < a => n[a] = m[a]
  BY <1>1, <1>2, Constants
<1>6. InPlace(m, p, n, e) /\ Count(n, p) = Count(m, p) /\ n[p + j] = v
  BY <1>2, <1>3, <1>4, <1>5 DEF InPlace, Count, Cap
<1> QED BY <1>6 DEF n

(* The count set to a number of words that hold values. *)
LEMMA CountInPlace ==
  ASSUME NEW m \in [Page -> Word], NEW p, IsList(m, p), NEW e \in Nat, NEW k \in Nat,
         k <= e, p + k < PageWords, Cap(m, p) # 0 => k <= Cap(m, p),
         \A j \in 1 .. k : m[p + j] \in Vals
  PROVE  LET n == set_count(m, p, k)
         IN  /\ InPlace(m, p, n, e) /\ Count(n, p) = k
             /\ \A a \in Page : a # p => n[a] = m[a]
<1> DEFINE n == set_count(m, p, k)
<1>1. p \in Page /\ p \in Nat /\ Cap(m, p) \in Nat
  BY Constants DEF IsList
<1>2. W(k, Cap(m, p)) \in Word
  BY <1>1 DEF W, Word
<1>3. n \in [Page -> Word] /\ n[p] = W(k, Cap(m, p)) /\ \A a \in Page : a # p => n[a] = m[a]
  BY <1>1, <1>2 DEF set_count
<1> HIDE DEF n
<1>4. Count(n, p) = k /\ Cap(n, p) = Cap(m, p)
  BY <1>3 DEF Count, Cap, W
<1>5. \A j \in 1 .. k : p + j \in Page /\ p + j # p
  BY <1>1, Constants DEF Page
<1>6. IsList(n, p)
  BY <1>1, <1>3, <1>4, <1>5 DEF IsList
<1>7. InPlace(m, p, n, e)
  BY <1>1, <1>3, <1>4, <1>6, Constants DEF InPlace
<1> QED BY <1>3, <1>4, <1>7 DEF n

(* What a pop leaves: a shorter list, and values in the words it had. *)
Shorter(m, p, n, e) ==
  /\ InPlace(m, p, n, e) /\ Count(n, p) = Count(m, p) - 1
  /\ \A j \in 1 .. Count(m, p) : n[p + j] \in Vals

(* close_slot: del, remove and pop(i). *)
LEMMA CloseInPlace ==
  ASSUME NEW m \in [Page -> Word], NEW p, IsList(m, p), NEW e \in Nat, Top(m, p) <= e,
         NEW s \in 0 .. Count(m, p) - 1
  PROVE  Shorter(m, p, close_slot(m, p, s), e)
<1> DEFINE n == close_slot(m, p, s)
           c == Count(m, p)
<1>1. p \in Page /\ p \in Nat /\ Cap(m, p) \in Nat /\ c \in Nat /\ c >= 1 /\ c <= e /\ p + c < PageWords
  BY Constants DEF IsList, Top
<1>2. W(c - 1, Cap(m, p)) \in Word
  BY <1>1 DEF W, Word
<1>3. \A a \in Page : n[a] = IF a = p THEN W(c - 1, Cap(m, p))
                             ELSE IF a \in (p + 1 + s) .. (p + c - 1) THEN m[a + 1] ELSE m[a]
  BY DEF close_slot
<1>4. DOMAIN n = Page /\ n = [a \in Page |-> n[a]]
  BY DEF close_slot
<1> HIDE DEF n
<1>5. \A a \in Page : a \in (p + 1 + s) .. (p + c - 1) => a + 1 \in Page
  BY <1>1, Constants DEF Page
<1>6. n \in [Page -> Word]
  BY <1>2, <1>3, <1>4, <1>5
<1>7. Count(n, p) = c - 1 /\ Cap(n, p) = Cap(m, p)
  BY <1>1, <1>3 DEF Count, Cap, W
<1>8. ASSUME NEW j \in 1 .. c PROVE n[p + j] \in Vals
  <2>1. p + j \in Page /\ p + j # p
    BY <1>1, Constants DEF Page
  <2>2. m[p + j] \in Vals
    BY DEF IsList
  <2>3. ASSUME p + j \in (p + 1 + s) .. (p + c - 1) PROVE m[p + j + 1] \in Vals
    <3>1. j + 1 \in 1 .. c /\ p + j + 1 = p + (j + 1)
      BY <1>1, <2>3
    <3> QED BY <3>1 DEF IsList
  <2> QED BY <1>3, <2>1, <2>2, <2>3
<1>9. \A a \in Page : a < p \/ p + e < a => n[a] = m[a]
  BY <1>1, <1>3, Constants
<1>10. IsList(n, p)
  <2>1. Cap(m, p) # 0 => c <= Cap(m, p)
    BY DEF IsList
  <2> HIDE DEF c
  <2>2. c - 1 \in Nat /\ p + (c - 1) < PageWords /\ \A j \in 1 .. c - 1 : n[p + j] \in Vals
    BY <1>1, <1>8, Constants
  <2>3. Cap(m, p) # 0 => c - 1 <= Cap(m, p)
    BY <1>1, <2>1
  <2> QED BY <1>1, <1>7, <2>2, <2>3 DEF IsList
<1> HIDE DEF c
<1>11. InPlace(m, p, n, e)
  BY <1>1, <1>6, <1>7, <1>9, <1>10 DEF InPlace
<1> QED BY <1>7, <1>8, <1>11 DEF Shorter, n, c

(* list_insert, when the guard found room. *)
LEMMA InsertInPlace ==
  ASSUME NEW m \in [Page -> Word], NEW p, IsList(m, p), NEW e \in Nat, Top(m, p) <= e,
         Count(m, p) < Cap(m, p), p + 1 + Count(m, p) \in Page, NEW i \in Int, NEW v \in Vals
  PROVE  InPlace(m, p, list_insert(m, p, i, v), e)
<1> DEFINE n == list_insert(m, p, i, v)
           c == Count(m, p)
           k == Clamp(c, i)
           slot == p + 1 + k
<1>1. p \in Page /\ p \in Nat /\ Cap(m, p) \in Nat /\ c \in Nat /\ c + 1 <= e
      /\ p + c + 1 < PageWords /\ v \in Word /\ Cap(m, p) # 0 /\ Cap(m, p) <= e
  BY Constants DEF IsList, Top
<1>2. k \in 0 .. c
  BY <1>1, ClampRange
<1>3. W(c + 1, Cap(m, p)) \in Word
  BY <1>1 DEF W, Word
<1>4. /\ DOMAIN n = Page /\ n = [a \in Page |-> n[a]]
      /\ \A a \in Page : n[a] = IF a = p THEN W(c + 1, Cap(m, p))
                               ELSE IF a = slot THEN v
                               ELSE IF a \in (slot + 1) .. (p + c + 1) THEN m[a - 1] ELSE m[a]
  <2>1. DOMAIN n = Page /\ n = [a \in Page |-> n[a]]
    BY DEF list_insert
  <2> HIDE DEF k
  <2>2. p # slot /\ p \notin (slot + 1) .. (p + c + 1) /\ slot \notin (slot + 1) .. (p + c + 1)
    BY <1>1, <1>2
  <2>3. ASSUME NEW a \in Page
        PROVE  n[a] = IF a = p THEN W(c + 1, Cap(m, p))
                      ELSE IF a = slot THEN v
                      ELSE IF a \in (slot + 1) .. (p + c + 1) THEN m[a - 1] ELSE m[a]
    <3>1. n[a] = CASE a = p                            -> W(c + 1, Cap(m, p))
                   [] a = slot                         -> v
                   [] a \in (slot + 1) .. (p + c + 1) -> m[a - 1]
                   [] OTHER                            -> m[a]
      BY DEF list_insert, k
    <3>2. CASE a = p
      BY <2>2, <3>1, <3>2
    <3>3. CASE a = slot
      BY <2>2, <3>1, <3>3
    <3>4. CASE a # p /\ a # slot
      BY <3>1, <3>4
    <3> QED BY <3>2, <3>3, <3>4
  <2> QED BY <2>1, <2>3
<1>5. \A j \in 1 .. c : m[p + j] \in Vals
  BY DEF IsList
<1>6. c + 1 <= Cap(m, p)
  BY <1>1
<1> HIDE DEF n, k, c
<1>7. \A a \in Page : a \in (slot + 1) .. (p + c + 1) => a - 1 \in Page
  BY <1>1, <1>2, Constants DEF Page
<1>8. n \in [Page -> Word]
  BY <1>1, <1>3, <1>4, <1>7
<1>9. Count(n, p) = c + 1 /\ Cap(n, p) = Cap(m, p)
  BY <1>1, <1>4 DEF Count, Cap, W
<1>10. ASSUME NEW j \in 1 .. c + 1 PROVE n[p + j] \in Vals
  <2>1. p + j \in Page /\ p + j # p
    BY <1>1, Constants DEF Page
  <2>2. CASE j = k + 1
    <3>1. p + j = slot
      BY <1>1, <1>2, <2>2
    <3> QED BY <1>4, <2>1, <3>1
  <2>3. CASE j <= k
    <3>1. n[p + j] = m[p + j]
      BY <1>1, <1>2, <1>4, <2>1, <2>3
    <3> QED BY <1>1, <1>2, <1>5, <2>3, <3>1
  <2>4. CASE j > k + 1
    <3>1. n[p + j] = m[p + j - 1] /\ p + j - 1 = p + (j - 1) /\ j - 1 \in 1 .. c
      BY <1>1, <1>2, <1>4, <2>1, <2>4
    <3> QED BY <1>5, <3>1
  <2> QED BY <1>2, <2>2, <2>3, <2>4
<1>11. ASSUME NEW a \in Page, a < p \/ p + e < a PROVE n[a] = m[a]
  <2>1. a # p /\ a # slot /\ a \notin (slot + 1) .. (p + c + 1)
    BY <1>1, <1>2, <1>11, Constants
  <2> QED BY <1>4, <2>1
<1>12. IsList(n, p)
  BY <1>1, <1>6, <1>9, <1>10 DEF IsList
<1>13. InPlace(m, p, n, e)
  BY <1>1, <1>8, <1>9, <1>11, <1>12 DEF InPlace
<1> QED BY <1>13 DEF n

(* Every element rewritten: reverse and sort. *)
LEMMA PutInPlace ==
  ASSUME NEW m \in [Page -> Word], NEW p, IsList(m, p), NEW e \in Nat, Top(m, p) <= e,
         NEW f, \A j \in 1 .. Count(m, p) : f[j] \in Vals
  PROVE  InPlace(m, p, put_elems(m, p, Count(m, p), f), e)
<1> DEFINE c == Count(m, p)
           n == put_elems(m, p, c, f)
<1>1. p \in Page /\ p \in Nat /\ c \in Nat /\ c <= e /\ p + c < PageWords
  BY Constants DEF IsList, Top
<1>2. n = [a \in Page |-> IF a \in (p + 1) .. (p + c) THEN f[a - p] ELSE m[a]]
  BY DEF put_elems
<1> HIDE DEF n
<1>3. \A a \in Page : a \in (p + 1) .. (p + c) => a - p \in 1 .. c
  BY <1>1, Constants
<1>4. n \in [Page -> Word]
  BY <1>2, <1>3, Constants
<1>5. n[p] = m[p]
  BY <1>1, <1>2
<1>6. ASSUME NEW j \in 1 .. c PROVE n[p + j] \in Vals
  <2>1. p + j \in Page /\ p + j \in (p + 1) .. (p + c) /\ (p + j) - p = j
    BY <1>1, Constants DEF Page
  <2> QED BY <1>2, <2>1
<1>7. \A a \in Page : a < p \/ p + e < a => n[a] = m[a]
  BY <1>1, <1>2, Constants
<1>8. IsList(n, p) /\ Cap(n, p) = Cap(m, p) /\ Count(n, p) = c
  BY <1>1, <1>5, <1>6 DEF IsList, Count, Cap
<1>9. InPlace(m, p, n, e)
  BY <1>1, <1>4, <1>7, <1>8 DEF InPlace
<1> QED BY <1>9 DEF n

-----------------------------------------------------------------------------
(* Operands.                                                                 *)

(* The two pops, on the list at p. *)
LEMMA PopInPlace ==
  ASSUME NEW m \in [Page -> Word], NEW p, IsList(m, p), NEW e \in Nat, Top(m, p) <= e
  PROVE  /\ list_pop(m, p).ok \in BOOLEAN /\ list_pop(m, p).val \in Vals
         /\ list_pop(m, p).ok => Shorter(m, p, list_pop(m, p).mem, e)
         /\ ~ list_pop(m, p).ok => list_pop(m, p).mem = m
<1> DEFINE c == Count(m, p)
<1>1. c \in Nat /\ Cap(m, p) \in Nat /\ c <= e /\ p + c < PageWords /\ p \in Nat
      /\ (Cap(m, p) # 0 => c <= Cap(m, p)) /\ \A j \in 1 .. c : m[p + j] \in Vals
  BY Constants DEF IsList, Top
<1>2. CASE c = 0
  <2>1. list_pop(m, p).mem = m /\ list_pop(m, p).val = Zero
    BY <1>1, <1>2 DEF list_pop
  <2>2. list_pop(m, p).ok = (c > 0)
    BY DEF list_pop
  <2>3. (c > 0) = FALSE
    BY <1>1, <1>2
  <2>4. list_pop(m, p).ok = FALSE
    BY <2>2, <2>3
  <2> QED BY <2>1, <2>4, Constants
<1>3. ASSUME c > 0
      PROVE  /\ list_pop(m, p).ok = TRUE /\ list_pop(m, p).val = m[p + c]
             /\ list_pop(m, p).mem = set_count(m, p, c - 1)
  BY <1>3 DEF list_pop
<1> HIDE DEF c
<1>4. ASSUME c > 0 PROVE list_pop(m, p).val \in Vals
  BY <1>1, <1>3, <1>4
<1>5. ASSUME c > 0 PROVE Shorter(m, p, set_count(m, p, c - 1), e)
  <2> DEFINE n == set_count(m, p, c - 1)
  <2>1. c - 1 \in Nat /\ c - 1 <= e /\ p + (c - 1) < PageWords /\ (Cap(m, p) # 0 => c - 1 <= Cap(m, p))
        /\ \A j \in 1 .. c - 1 : m[p + j] \in Vals
    BY <1>1, <1>5, Constants
  <2>2. InPlace(m, p, n, e) /\ Count(n, p) = c - 1 /\ \A a \in Page : a # p => n[a] = m[a]
    BY <2>1, CountInPlace
  <2> HIDE DEF n
  <2>3. \A j \in 1 .. c : p + j \in Page /\ p + j # p
    BY <1>1, Constants DEF Page, IsList
  <2>4. \A j \in 1 .. c : n[p + j] \in Vals
    BY <1>1, <2>2, <2>3
  <2> QED BY <2>2, <2>4 DEF Shorter, n, c
<1>6. c = 0 \/ c > 0
  BY <1>1
<1> QED BY <1>2, <1>3, <1>4, <1>5, <1>6

LEMMA PopIdxInPlace ==
  ASSUME NEW m \in [Page -> Word], NEW p, IsList(m, p), NEW e \in Nat, Top(m, p) <= e,
         NEW i \in Int
  PROVE  /\ list_pop_idx(m, p, i).ok \in BOOLEAN /\ list_pop_idx(m, p, i).val \in Vals
         /\ list_pop_idx(m, p, i).ok => Shorter(m, p, list_pop_idx(m, p, i).mem, e)
         /\ ~ list_pop_idx(m, p, i).ok => list_pop_idx(m, p, i).mem = m
<1> DEFINE s == Normal(Count(m, p), i)
           r == list_pop_idx(m, p, i)
<1>1. Count(m, p) \in Nat /\ p \in Nat
  BY Constants DEF IsList
<1>2. CASE InBounds(Count(m, p), i)
  <2>1. s \in 0 .. Count(m, p) - 1
    BY <1>2 DEF InBounds
  <2>2. r.ok = TRUE /\ r.mem = close_slot(m, p, s) /\ r.val = m[p + 1 + s]
    BY <1>2 DEF list_pop_idx
  <2> HIDE DEF r, s
  <2>3. s + 1 \in 1 .. Count(m, p) /\ p + 1 + s = p + (s + 1)
    BY <1>1, <2>1
  <2>4. m[p + 1 + s] \in Vals
    BY <2>3 DEF IsList
  <2>5. Shorter(m, p, r.mem, e)
    BY <2>1, <2>2, CloseInPlace
  <2> QED BY <2>2, <2>4, <2>5 DEF r
<1>3. CASE ~ InBounds(Count(m, p), i)
  <2>1. r.ok = FALSE /\ r.mem = m /\ r.val = Zero
    BY <1>3 DEF list_pop_idx
  <2> QED BY <2>1, Constants
<1> QED BY <1>2, <1>3

(* What evaluating an operand leaves of every list: its capacity, no more    *)
(* elements, and values in the words it had.                                 *)
Evaluated(m, n, R) ==
  \A q \in R : /\ Cap(n, q) = Cap(m, q) /\ Count(n, q) <= Count(m, q)
               /\ \A j \in 1 .. Count(m, q) : n[q + j] \in Vals

LEMMA EvalHeap ==
  ASSUME loc \in [Names -> Nat], NEW m, NEW h, NEW d, NEW e, Heap(m, h, d, Lists, e),
         NEW o \in Operands
  PROVE  /\ eval(m, o).ok \in BOOLEAN /\ eval(m, o).val \in Vals
         /\ Heap(eval(m, o).mem, h, d, Lists, e)
         /\ \A a \in Page : a >= h => eval(m, o).mem[a] = m[a]
         /\ Evaluated(m, eval(m, o).mem, Lists)
<1> DEFINE r == eval(m, o)
<1>1. m \in [Page -> Word]
  BY DEF Heap
<1>2. Evaluated(m, m, Lists)
  BY DEF Evaluated, Heap, IsList
<1>3. ASSUME NEW y \in Live, Shorter(m, loc[y], r.mem, e[loc[y]])
      PROVE  /\ Heap(r.mem, h, d, Lists, e) /\ Evaluated(m, r.mem, Lists)
             /\ \A a \in Page : a >= h => r.mem[a] = m[a]
  <2> DEFINE p == loc[y]
             n == r.mem
  <2>1. p \in Lists
    BY DEF Lists
  <2> HIDE DEF p, n
  <2>2. InPlace(m, p, n, e[p]) /\ Count(n, p) = Count(m, p) - 1
        /\ \A j \in 1 .. Count(m, p) : n[p + j] \in Vals
    BY <1>3 DEF Shorter, p, n
  <2>3. /\ Heap(n, h, d, Lists, e) /\ \A a \in Page : a >= h => n[a] = m[a]
        /\ \A q \in Lists : q # p => \A a \in q .. q + e[q] : a \in Page => n[a] = m[a]
    BY <2>1, <2>2, InPlaceHeap
  <2>4. ASSUME NEW q \in Lists
        PROVE  /\ Cap(n, q) = Cap(m, q) /\ Count(n, q) <= Count(m, q)
               /\ \A j \in 1 .. Count(m, q) : n[q + j] \in Vals
    <3>1. IsList(m, q) /\ e[q] \in Nat /\ Top(m, q) <= e[q]
      BY DEF Heap
    <3>2. Count(m, q) \in Nat /\ Count(m, q) <= e[q] /\ q \in Nat
      BY <3>1, Constants DEF IsList, Top
    <3>3. CASE q = p
      BY <2>2, <3>2, <3>3 DEF InPlace
    <3>4. CASE q # p
      <4>1. \A j \in 1 .. Count(m, q) : q + j \in q .. q + e[q] /\ q + j \in Page
        BY <3>1, <3>2, Constants DEF IsList, Page
      <4>2. q \in q .. q + e[q] /\ q \in Page
        BY <3>1, <3>2 DEF IsList
      <4>3. n[q] = m[q] /\ \A j \in 1 .. Count(m, q) : n[q + j] = m[q + j]
        BY <2>3, <3>4, <4>1, <4>2
      <4> QED BY <3>1, <3>2, <4>3 DEF IsList, Count, Cap
    <3> QED BY <3>3, <3>4
  <2> QED BY <2>3, <2>4 DEF Evaluated, n
<1>4. CASE \E v \in Vals : o = Const(v)
  <2>1. PICK v \in Vals : o = Const(v)
    BY <1>4
  <2>2. r = [ok |-> TRUE, mem |-> m, val |-> v]
    BY <2>1 DEF eval, Const
  <2> QED BY <1>2, <2>2
<1>5. CASE \E y \in Live : o = PopLast(y)
  <2>1. PICK y \in Live : o = PopLast(y)
    BY <1>5
  <2>2. r = list_pop(m, loc[y])
    BY <2>1 DEF eval, PopLast
  <2>3. IsList(m, loc[y]) /\ e[loc[y]] \in Nat /\ Top(m, loc[y]) <= e[loc[y]]
    BY DEF Heap, Lists
  <2> HIDE DEF r
  <2>4. /\ r.ok \in BOOLEAN /\ r.val \in Vals
        /\ r.ok => Shorter(m, loc[y], r.mem, e[loc[y]])
        /\ ~ r.ok => r.mem = m
    BY <1>1, <2>2, <2>3, PopInPlace
  <2> QED BY <1>2, <1>3, <2>4 DEF r
<1>6. CASE \E y \in Live, i \in Idx : o = PopAt(y, i)
  <2>1. PICK y \in Live, i \in Idx : o = PopAt(y, i)
    BY <1>6
  <2>2. r = list_pop_idx(m, loc[y], i)
    BY <2>1 DEF eval, PopAt
  <2>3. IsList(m, loc[y]) /\ e[loc[y]] \in Nat /\ Top(m, loc[y]) <= e[loc[y]] /\ i \in Int
    BY Constants DEF Heap, Lists
  <2> HIDE DEF r
  <2>4. /\ r.ok \in BOOLEAN /\ r.val \in Vals
        /\ r.ok => Shorter(m, loc[y], r.mem, e[loc[y]])
        /\ ~ r.ok => r.mem = m
    BY <1>1, <2>2, <2>3, PopIdxInPlace
  <2> QED BY <1>2, <1>3, <2>4 DEF r
<1> QED BY <1>4, <1>5, <1>6 DEF Operands

-----------------------------------------------------------------------------
(* Recursive functions: the one the definition describes exists, and its     *)
(* values are in the sets T[i] when each step goes from one to the next.     *)

IsRun(f, a, n, base, G) == f = [i \in a .. n |-> IF i = a THEN base ELSE G[i][f[i - 1]]]
Valued(f, a, n, T)      == \A i \in a .. n : f[i] \in T[i]
Steps(G, a, n, T)       == \A i \in (a + 1) .. n : \A x \in T[i - 1] : G[i][x] \in T[i]

LEMMA Along ==
  ASSUME NEW a \in Nat, NEW n \in Nat, NEW T, NEW f, f[a] \in T[a],
         \A i \in (a + 1) .. n : f[i - 1] \in T[i - 1] => f[i] \in T[i]
  PROVE  Valued(f, a, n, T)
<1> DEFINE S == {k \in Nat : a + k <= n => f[a + k] \in T[a + k]}
<1>1. 0 \in S
  OBVIOUS
<1>2. ASSUME NEW k \in Nat, k \in S PROVE k + 1 \in S
  <2>1. ASSUME a + (k + 1) <= n PROVE f[a + (k + 1)] \in T[a + (k + 1)]
    <3>1. f[a + k] \in T[a + k]
      BY <1>2, <2>1
    <3>2. a + (k + 1) \in (a + 1) .. n /\ (a + (k + 1)) - 1 = a + k
      BY <2>1
    <3> QED BY <3>1, <3>2
  <2> QED BY <2>1
<1> HIDE DEF S
<1>3. Nat \subseteq S
  BY <1>1, <1>2, Induction
<1>4. ASSUME NEW i \in a .. n PROVE f[i] \in T[i]
  <2>1. i - a \in Nat /\ a + (i - a) = i
    OBVIOUS
  <2>2. i - a \in S
    BY <1>3, <2>1
  <2> QED BY <2>1, <2>2 DEF S
<1> QED BY <1>4 DEF Valued

LEMMA Exists ==
  ASSUME NEW a \in Nat, NEW n \in Nat, NEW base, NEW G
  PROVE  \E f : IsRun(f, a, n, base, G)
<1> DEFINE Is(f, m) == f = [i \in a .. m |-> IF i = a THEN base ELSE G[i][f[i - 1]]]
           S == {k \in Nat : \E f : Is(f, k)}
<1>1. 0 \in S
  <2> DEFINE f == [i \in a .. 0 |-> base]
  <2>1. Is(f, 0)
    <3>1. \A i \in a .. 0 : i = a
      OBVIOUS
    <3> QED BY <3>1
  <2> QED BY <2>1
<1>2. ASSUME NEW k \in Nat, k \in S PROVE k + 1 \in S
  <2>1. PICK f : Is(f, k)
    BY <1>2
  <2> DEFINE g == [i \in a .. k + 1 |-> IF i = a THEN base
                                        ELSE IF i = k + 1 THEN G[i][f[k]] ELSE f[i]]
  <2>2. ASSUME NEW i \in a .. k + 1 PROVE g[i] = IF i = a THEN base ELSE G[i][g[i - 1]]
    <3>1. CASE i = a
      BY <3>1
    <3>2. ASSUME i # a PROVE g[i - 1] = f[i - 1]
      <4>1. i - 1 \in a .. k /\ i - 1 # k + 1
        BY <3>2
      <4>2. i - 1 = a => f[i - 1] = base
        BY <2>1, <4>1
      <4> QED BY <4>1, <4>2
    <3>3. CASE i # a /\ i = k + 1
      <4>1. i - 1 = k /\ g[i] = G[i][f[k]]
        BY <3>3
      <4> QED BY <3>2, <3>3, <4>1
    <3>4. CASE i # a /\ i # k + 1
      <4>1. i \in a .. k /\ g[i] = f[i]
        BY <3>4
      <4>2. f[i] = G[i][f[i - 1]]
        BY <2>1, <3>4, <4>1
      <4> QED BY <3>2, <3>4, <4>1, <4>2
    <3> QED BY <3>1, <3>3, <3>4
  <2>3. g = [i \in a .. k + 1 |-> g[i]]
    OBVIOUS
  <2> HIDE DEF g
  <2>4. Is(g, k + 1)
    BY <2>2, <2>3
  <2> QED BY <2>4
<1> HIDE DEF S
<1>3. n \in S
  BY <1>1, <1>2, Induction
<1> QED BY <1>3 DEF S, IsRun

LEMMA Recursion ==
  ASSUME NEW a \in Nat, NEW n \in Nat, NEW T, NEW base \in T[a], NEW G, Steps(G, a, n, T)
  PROVE  \E f : IsRun(f, a, n, base, G) /\ Valued(f, a, n, T)
<1>1. PICK f : IsRun(f, a, n, base, G)
  BY Exists
<1>2. Valued(f, a, n, T)
  <2>1. CASE a > n
    BY <2>1 DEF Valued
  <2>2. CASE a <= n
    <3>1. f[a] \in T[a]
      <4>1. a \in a .. n
        BY <2>2
      <4> QED BY <1>1, <4>1 DEF IsRun
    <3>2. ASSUME NEW i \in (a + 1) .. n, f[i - 1] \in T[i - 1] PROVE f[i] \in T[i]
      <4>1. i \in a .. n /\ i # a
        OBVIOUS
      <4>2. f[i] = G[i][f[i - 1]]
        BY <1>1, <4>1 DEF IsRun
      <4> QED BY <3>2, <4>2 DEF Steps
    <3> QED BY <3>1, <3>2, Along
  <2> QED BY <2>1, <2>2
<1> QED BY <1>1, <1>2

-----------------------------------------------------------------------------
(* The values the list helpers produce.                                      *)

IsSorting(f, s, desc) ==
  f = [i \in 0 .. Len(s) |->
        IF i = 0 THEN <<>>
        ELSE LET done == f[i - 1]
                 hole == Max({0} \cup {j \in DOMAIN done : ~ should_shift(desc, done[j], s[i])})
             IN  InsertAt(done, hole + 1, s[i])]

(* One element sinks into a sequence. *)
Sunk(s, desc, i, done) ==
  InsertAt(done, Max({0} \cup {j \in DOMAIN done : ~ should_shift(desc, done[j], s[i])}) + 1, s[i])

(* v sank to place k + 1 of the sequence done, in front of those that shift. *)
SinksTo(t, done, v, desc, k) ==
  /\ Len(t) = Len(done) + 1 /\ t[k + 1] = v
  /\ \A j \in 1 .. k : t[j] = done[j]
  /\ \A j \in (k + 1) .. Len(done) : t[j + 1] = done[j] /\ should_shift(desc, done[j], v)
  /\ k # 0 => ~ should_shift(desc, done[k], v)

LEMMA SinksThere ==
  ASSUME NEW V, NEW s \in Seq(V), NEW desc, NEW i \in 1 .. Len(s), NEW done \in Seq(V)
  PROVE  /\ Sunk(s, desc, i, done) \in Seq(V)
         /\ \E k \in 0 .. Len(done) : SinksTo(Sunk(s, desc, i, done), done, s[i], desc, k)
<1> DEFINE H == {0} \cup {j \in DOMAIN done : ~ should_shift(desc, done[j], s[i])}
           k == Max(H)
           n == Len(done)
<1>1. n \in Nat /\ DOMAIN done = 1 .. n
  OBVIOUS
<1>2. H \in SUBSET (0 .. n) /\ H # {}
  BY <1>1
<1>3. k \in 0 .. n /\ k \in H /\ \A j \in H : j <= k
  <2> HIDE DEF H
  <2>1. \E x \in H : \A y \in H : y <= x
    BY <1>1, <1>2, Greatest
  <2>2. Max(H) \in H /\ \A y \in H : y <= Max(H)
    BY <2>1, Zenon DEF Max
  <2> QED BY <1>2, <2>2
<1>4. k # 0 => ~ should_shift(desc, done[k], s[i])
  BY <1>3
<1>5. ASSUME NEW j \in (k + 1) .. n PROVE should_shift(desc, done[j], s[i])
  <2>1. j \in 1 .. n /\ ~ (j <= k)
    BY <1>3
  <2>2. j \notin H
    BY <1>3, <2>1
  <2> QED BY <1>1, <2>1, <2>2
<1> HIDE DEF k
<1> DEFINE left == SubSeq(done, 1, k)
           right == SubSeq(done, k + 1, n)
<1>6. left \in Seq(V) /\ Len(left) = k /\ \A j \in 1 .. k : left[j] = done[j]
  <2>1. (k + 1) - 1 = k /\ k \in Int /\ 1 \in Int /\ \A j \in 1 .. k : done[j] \in V
    BY <1>1, <1>3
  <2>2. left \in Seq(V) /\ Len(left) = IF 1 <= k THEN k - 1 + 1 ELSE 0
    BY <2>1, SubSeqProperties
  <2>3. \A j \in 1 .. k - 1 + 1 : left[j] = done[1 + j - 1]
    BY <2>1, SubSeqProperties
  <2>4. k - 1 + 1 = k /\ \A j \in 1 .. k : 1 + j - 1 = j
    BY <1>3
  <2>5. Len(left) = k
    BY <1>3, <2>2
  <2> QED BY <2>2, <2>3, <2>4, <2>5
<1>7. right \in Seq(V) /\ Len(right) = n - k /\ \A j \in 1 .. n - k : right[j] = done[k + j]
  <2>1. k + 1 \in Int /\ n \in Int /\ \A j \in k + 1 .. n : done[j] \in V
    BY <1>1, <1>3
  <2>2. right \in Seq(V) /\ Len(right) = IF k + 1 <= n THEN n - (k + 1) + 1 ELSE 0
    BY <2>1, SubSeqProperties
  <2>3. \A j \in 1 .. n - (k + 1) + 1 : right[j] = done[(k + 1) + j - 1]
    BY <2>1, SubSeqProperties
  <2>4. n - (k + 1) + 1 = n - k /\ \A j \in 1 .. n - k : (k + 1) + j - 1 = k + j
    BY <1>1, <1>3
  <2>5. k \in Nat /\ n \in Nat /\ k <= n
    BY <1>1, <1>3
  <2>6. Len(right) = n - k
    <3> HIDE DEF right, n
    <3>1. CASE k + 1 <= n
      BY <2>2, <2>5, <3>1
    <3>2. CASE ~ (k + 1 <= n)
      <4>1. n - k = 0
        BY <2>5, <3>2
      <4> QED BY <2>2, <2>5, <3>2, <4>1
    <3> QED BY <3>1, <3>2
  <2> HIDE DEF right, n
  <2> QED BY <2>2, <2>3, <2>4, <2>6
<1>8. Sunk(s, desc, i, done) = left \o <<s[i]>> \o right
  <2>1. (k + 1) - 1 = k
    BY <1>3
  <2>2. Sunk(s, desc, i, done) = SubSeq(done, 1, (k + 1) - 1) \o <<s[i]>> \o right
    BY DEF Sunk, InsertAt, k
  <2> QED BY <2>1, <2>2
<1>9. <<s[i]>> \in Seq(V) /\ Len(<<s[i]>>) = 1 /\ <<s[i]>>[1] = s[i]
  OBVIOUS
<1> HIDE DEF left, right, n, H
<1> DEFINE low == left \o <<s[i]>>
<1>10. low \in Seq(V) /\ Len(low) = k + 1 /\ low[k + 1] = s[i] /\ \A j \in 1 .. k : low[j] = done[j]
  <2>1. /\ low \in Seq(V) /\ Len(low) = k + 1
        /\ \A j \in 1 .. k + 1 : low[j] = IF j <= k THEN left[j] ELSE <<s[i]>>[j - k]
    BY <1>6, <1>9, ConcatProperties
  <2>2. k \in Nat /\ (k + 1) - k = 1
    BY <1>1, <1>3
  <2>3. low[k + 1] = s[i]
    BY <1>9, <2>1, <2>2
  <2> HIDE DEF low
  <2>4. \A j \in 1 .. k : low[j] = done[j]
    BY <1>6, <2>1, <2>2
  <2> QED BY <2>1, <2>3, <2>4
<1>11. Sunk(s, desc, i, done) = low \o right
  BY <1>8
<1> HIDE DEF low
<1> DEFINE t == low \o right
<1>12. t \in Seq(V) /\ Len(t) = n + 1
  <2>1. t \in Seq(V) /\ Len(t) = Len(low) + Len(right)
    BY <1>7, <1>10, ConcatProperties
  <2>2. (k + 1) + (n - k) = n + 1
    BY <1>1, <1>3
  <2> QED BY <1>7, <1>10, <2>1, <2>2
<1>13. \A j \in 1 .. n + 1 : t[j] = IF j <= k + 1 THEN low[j] ELSE right[j - (k + 1)]
  <2>1. \A j \in 1 .. Len(low) + Len(right) :
          t[j] = IF j <= Len(low) THEN low[j] ELSE right[j - Len(low)]
    BY <1>7, <1>10, ConcatProperties
  <2>2. Len(low) + Len(right) = n + 1
    BY <1>1, <1>3, <1>7, <1>10
  <2> QED BY <1>10, <2>1, <2>2
<1> HIDE DEF t
<1>14. t[k + 1] = s[i] /\ \A j \in 1 .. k : t[j] = done[j]
  BY <1>1, <1>3, <1>10, <1>13
<1>15. ASSUME NEW j \in (k + 1) .. n PROVE t[j + 1] = done[j]
  <2>1. j + 1 \in 1 .. n + 1 /\ ~ (j + 1 <= k + 1) /\ (j + 1) - (k + 1) = j - k
    BY <1>1, <1>3
  <2>2. j - k \in 1 .. n - k /\ k + (j - k) = j
    BY <1>1, <1>3
  <2>3. t[j + 1] = right[j - k]
    BY <1>13, <2>1
  <2> QED BY <1>7, <2>2, <2>3
<1>16. SinksTo(t, done, s[i], desc, k)
  BY <1>4, <1>5, <1>12, <1>14, <1>15 DEF SinksTo, n
<1>17. Sunk(s, desc, i, done) = t
  BY <1>11 DEF t
<1> QED BY <1>3, <1>12, <1>16, <1>17 DEF n

(* The sort is the run that its definition describes. *)
LEMMA SortRuns ==
  ASSUME NEW V, NEW s \in Seq(V), NEW desc
  PROVE  \E f : IsSorting(f, s, desc) /\ insertion_sort(s, desc) = f[Len(s)]
<1> DEFINE n == Len(s)
           T == [i \in 0 .. n |-> {t \in Seq(V) : Len(t) = i}]
           G == [i \in 1 .. n |-> [x \in Seq(V) |-> Sunk(s, desc, i, x)]]
<1>1. n \in Nat /\ 0 \in Nat
  OBVIOUS
<1>2. \E f : IsSorting(f, s, desc)
  <2>1. <<>> \in T[0]
    OBVIOUS
  <2>2. ASSUME NEW i \in (0 + 1) .. n, NEW x \in T[i - 1] PROVE G[i][x] \in T[i]
    <3>1. i \in 1 .. n /\ i \in 0 .. n /\ i - 1 \in 0 .. n /\ x \in Seq(V) /\ Len(x) = i - 1
      OBVIOUS
    <3>2. G[i][x] = Sunk(s, desc, i, x)
      BY <3>1
    <3>3. G[i][x] \in Seq(V) /\ Len(G[i][x]) = Len(x) + 1
      BY <3>1, <3>2, SinksThere DEF SinksTo
    <3> QED BY <3>1, <3>3
  <2> HIDE DEF T, G
  <2>3. Steps(G, 0, n, T)
    BY <2>2 DEF Steps
  <2>4. PICK f : IsRun(f, 0, n, <<>>, G) /\ Valued(f, 0, n, T)
    BY <1>1, <2>1, <2>3, Recursion
  <2>5. /\ f = [i \in 0 .. n |-> IF i = 0 THEN <<>> ELSE G[i][f[i - 1]]]
        /\ \A i \in 0 .. n : f[i] \in T[i]
    BY <2>4 DEF IsRun, Valued
  <2>6. ASSUME NEW i \in 0 .. n PROVE f[i] = IF i = 0 THEN <<>> ELSE Sunk(s, desc, i, f[i - 1])
    <3>1. CASE i = 0
      BY <2>5, <3>1
    <3>2. CASE i # 0
      <4>1. i \in 1 .. n /\ i - 1 \in 0 .. n
        BY <3>2
      <4>2. f[i] = G[i][f[i - 1]] /\ f[i - 1] \in Seq(V)
        BY <2>5, <3>2, <4>1 DEF T
      <4> QED BY <3>2, <4>1, <4>2 DEF G
    <3> QED BY <3>1, <3>2
  <2>7. f = [i \in 0 .. n |-> f[i]]
    BY <2>5
  <2>8. f = [i \in 0 .. n |-> IF i = 0 THEN <<>> ELSE Sunk(s, desc, i, f[i - 1])]
    BY <2>6, <2>7
  <2> QED BY <2>8 DEF IsSorting, Sunk
<1> DEFINE f == CHOOSE f : IsSorting(f, s, desc)
<1>3. insertion_sort(s, desc) = f[n]
  BY Zenon DEF insertion_sort, IsSorting
<1>4. IsSorting(f, s, desc)
  BY <1>2, Zenon
<1> QED BY <1>3, <1>4, Zenon

(* Sorting keeps the length and the values. *)
LEMMA SortSeqs ==
  ASSUME NEW V, NEW s \in Seq(V), NEW desc
  PROVE  insertion_sort(s, desc) \in Seq(V) /\ Len(insertion_sort(s, desc)) = Len(s)
<1> DEFINE n == Len(s)
           T == [i \in 0 .. n |-> {t \in Seq(V) : Len(t) = i}]
<1>1. n \in Nat /\ 0 \in Nat
  OBVIOUS
<1>2. PICK f : IsSorting(f, s, desc) /\ insertion_sort(s, desc) = f[n]
  BY SortRuns
<1>3. f = [i \in 0 .. n |-> IF i = 0 THEN <<>> ELSE Sunk(s, desc, i, f[i - 1])]
  BY <1>2 DEF IsSorting, Sunk
<1>4. f[0] \in T[0]
  BY <1>1, <1>3
<1>5. ASSUME NEW i \in (0 + 1) .. n, f[i - 1] \in T[i - 1] PROVE f[i] \in T[i]
  <2>1. i \in 1 .. n /\ i \in 0 .. n /\ i - 1 \in 0 .. n /\ f[i - 1] \in Seq(V) /\ Len(f[i - 1]) = i - 1
    BY <1>5
  <2>2. PICK done : done = f[i - 1]
    OBVIOUS
  <2>3. f[i] = Sunk(s, desc, i, done)
    BY <1>3, <2>1, <2>2
  <2>4. f[i] \in Seq(V) /\ \E k \in 0 .. Len(done) : SinksTo(f[i], done, s[i], desc, k)
    BY <2>1, <2>2, <2>3, SinksThere
  <2>5. Len(f[i]) = Len(done) + 1
    BY <2>4 DEF SinksTo
  <2> QED BY <2>1, <2>2, <2>4, <2>5
<1>6. f[n] \in T[n]
  <2> HIDE DEF T
  <2>1. \A i \in 0 .. n : f[i] \in T[i]
    BY <1>1, <1>4, <1>5, Along DEF Valued
  <2> QED BY <1>1, <2>1
<1> QED BY <1>1, <1>2, <1>6

(* The places 1 .. n of t are the places 1 .. n of s in another order p: in  *)
(* the order of the sort, and as they were in s where the order is silent.   *)
Arranges(p, t, s, desc, n) ==
  /\ Len(t) = n
  /\ p \in [1 .. n -> 1 .. n]
  /\ \A i \in 1 .. n : \E j \in 1 .. n : p[j] = i
  /\ \A j \in 1 .. n : t[j] = s[p[j]]
  /\ \A j, k \in 1 .. n : j < k => /\ p[j] # p[k]
                                   /\ ~ should_shift(desc, t[j], t[k])
                                   /\ t[j].lo = t[k].lo => p[j] < p[k]

LEMMA SinkArranges ==
  ASSUME NEW V, \A v \in V : v.lo \in Int, NEW s \in Seq(V), NEW desc \in BOOLEAN,
         NEW n \in Nat, n + 1 <= Len(s), NEW done \in Seq(V), NEW p, Arranges(p, done, s, desc, n),
         NEW t \in Seq(V), NEW k \in 0 .. n, SinksTo(t, done, s[n + 1], desc, k)
  PROVE  \E q : Arranges(q, t, s, desc, n + 1)
<1> DEFINE from(j) == IF j <= k THEN p[j] ELSE IF j = k + 1 THEN n + 1 ELSE p[j - 1]
<1>1. PICK q : q = [j \in 1 .. n + 1 |-> from(j)]
  OBVIOUS
<1>2. /\ Len(done) = n /\ p \in [1 .. n -> 1 .. n]
      /\ \A i \in 1 .. n : \E j \in 1 .. n : p[j] = i
      /\ \A j \in 1 .. n : done[j] = s[p[j]] /\ done[j] \in V /\ p[j] \in 1 .. n
  <2>1. /\ Len(done) = n /\ p \in [1 .. n -> 1 .. n]
        /\ \A i \in 1 .. n : \E j \in 1 .. n : p[j] = i
        /\ \A j \in 1 .. n : done[j] = s[p[j]]
    BY DEF Arranges
  <2>2. \A j \in 1 .. n : done[j] \in V
    BY <2>1
  <2>3. \A j \in 1 .. n : p[j] \in 1 .. n
    BY <2>1
  <2> QED BY <2>1, <2>2, <2>3
<1>3. s[n + 1] \in V
  OBVIOUS
(* The places of t, in terms of those of done. *)
<1>4. \A j \in 1 .. k : j \in 1 .. n /\ q[j] = p[j] /\ t[j] = done[j]
  <2>1. ASSUME NEW j \in 1 .. k PROVE j \in 1 .. n /\ q[j] = p[j]
    <3>1. j \in 1 .. n + 1 /\ j <= k
      OBVIOUS
    <3> QED BY <1>1, <3>1
  <2> QED BY <1>2, <2>1 DEF SinksTo
<1>5. q[k + 1] = n + 1 /\ t[k + 1] = s[n + 1]
  BY <1>1 DEF SinksTo
<1>6. \A j \in k + 1 .. n : q[j + 1] = p[j] /\ t[j + 1] = done[j] /\ should_shift(desc, done[j], s[n + 1])
  <2>1. ASSUME NEW j \in k + 1 .. n PROVE q[j + 1] = p[j]
    <3>1. j + 1 \in 1 .. n + 1 /\ ~ (j + 1 <= k) /\ j + 1 # k + 1 /\ (j + 1) - 1 = j
      OBVIOUS
    <3> QED BY <1>1, <3>1
  <2> QED BY <1>2, <2>1 DEF SinksTo
<1>7. \A j \in 1 .. k : ~ should_shift(desc, done[j], s[n + 1])
  <2>1. CASE k = 0
    BY <2>1
  <2>2. CASE k # 0
    <3>1. k \in 1 .. n /\ ~ should_shift(desc, done[k], s[n + 1])
      BY <2>2 DEF SinksTo
    <3>2. ASSUME NEW j \in 1 .. k, j # k PROVE ~ should_shift(desc, done[j], s[n + 1])
      <4>1. j \in 1 .. n /\ j < k /\ ~ should_shift(desc, done[j], done[k])
        BY <3>1, <3>2 DEF Arranges
      <4>2. done[j].lo \in Int /\ done[k].lo \in Int /\ s[n + 1].lo \in Int
        BY <1>2, <1>3, <3>1, <4>1
      <4>3. CASE desc = TRUE
        BY <3>1, <4>1, <4>2, <4>3 DEF should_shift
      <4>4. CASE desc = FALSE
        BY <3>1, <4>1, <4>2, <4>4 DEF should_shift
      <4> QED BY <4>3, <4>4
    <3> QED BY <3>1, <3>2
  <2> QED BY <2>1, <2>2
(* Every place of t is one of these. *)
<1>8. \A j \in 1 .. n + 1 : \/ j \in 1 .. k
                            \/ j = k + 1
                            \/ j - 1 \in k + 1 .. n /\ (j - 1) + 1 = j
  OBVIOUS
<1>9. q \in [1 .. n + 1 -> 1 .. n + 1]
  <2>1. ASSUME NEW j \in 1 .. n + 1 PROVE q[j] \in 1 .. n + 1
    <3>1. CASE j \in 1 .. k
      <4>1. j \in 1 .. n /\ q[j] = p[j]
        BY <1>4, <3>1
      <4>2. p[j] \in 1 .. n
        BY <1>2, <4>1
      <4> QED BY <4>1, <4>2
    <3>2. CASE j = k + 1
      BY <1>5, <3>2
    <3>3. CASE j - 1 \in k + 1 .. n /\ (j - 1) + 1 = j
      <4>1. q[j] = p[j - 1] /\ j - 1 \in 1 .. n
        BY <1>6, <3>3
      <4> QED BY <1>2, <4>1
    <3> QED BY <1>8, <3>1, <3>2, <3>3
  <2> QED BY <1>1, <2>1
<1>10. ASSUME NEW i \in 1 .. n + 1 PROVE \E j \in 1 .. n + 1 : q[j] = i
  <2>1. CASE i = n + 1
    <3>1. k + 1 \in 1 .. n + 1
      OBVIOUS
    <3> QED BY <1>5, <2>1, <3>1
  <2>2. CASE i # n + 1
    <3>1. PICK j \in 1 .. n : p[j] = i
      <4>1. i \in 1 .. n
        BY <2>2
      <4> QED BY <1>2, <4>1
    <3>2. CASE j <= k
      <4>1. q[j] = i /\ j \in 1 .. n + 1
        BY <1>4, <3>1, <3>2
      <4> QED BY <4>1
    <3>3. CASE ~ (j <= k)
      <4>1. j \in k + 1 .. n /\ j + 1 \in 1 .. n + 1
        BY <3>3
      <4>2. q[j + 1] = i
        BY <1>6, <3>1, <4>1
      <4> QED BY <4>1, <4>2
    <3> QED BY <3>2, <3>3
  <2> QED BY <2>1, <2>2
<1>11. ASSUME NEW j \in 1 .. n + 1 PROVE t[j] = s[q[j]]
  <2>1. CASE j \in 1 .. k
    BY <1>2, <1>4, <2>1
  <2>2. CASE j = k + 1
    BY <1>5, <2>2
  <2>3. CASE j - 1 \in k + 1 .. n /\ (j - 1) + 1 = j
    <3>1. PICK i \in k + 1 .. n : i = j - 1 /\ i + 1 = j
      BY <2>3
    <3>2. q[i + 1] = p[i] /\ t[i + 1] = done[i]
      BY <1>6
    <3>3. i \in 1 .. n /\ i + 1 = j
      BY <3>1
    <3>4. done[i] = s[p[i]]
      BY <1>2, <3>3
    <3> QED BY <3>2, <3>3, <3>4
  <2> QED BY <1>8, <2>1, <2>2, <2>3
<1>12. ASSUME NEW j \in 1 .. n, NEW l \in 1 .. n, j < l
       PROVE  /\ p[j] # p[l] /\ ~ should_shift(desc, done[j], done[l])
              /\ done[j].lo = done[l].lo => p[j] < p[l]
  BY <1>12 DEF Arranges
<1>13. ASSUME NEW j \in 1 .. n PROVE p[j] # n + 1 /\ p[j] < n + 1
  <2>1. p[j] \in 1 .. n
    BY <1>2
  <2> QED BY <2>1
<1>14. ASSUME NEW j \in 1 .. n + 1, NEW l \in 1 .. n + 1, j < l
       PROVE  /\ q[j] # q[l] /\ ~ should_shift(desc, t[j], t[l])
              /\ t[j].lo = t[l].lo => q[j] < q[l]
  <2>1. CASE j \in 1 .. k /\ l \in 1 .. k
    BY <1>4, <1>12, <1>14, <2>1
  <2>2. CASE j \in 1 .. k /\ l = k + 1
    <3>1. j \in 1 .. n /\ q[j] = p[j] /\ t[j] = done[j] /\ q[l] = n + 1 /\ t[l] = s[n + 1]
      BY <1>4, <1>5, <2>2
    <3>2. ~ should_shift(desc, done[j], s[n + 1])
      BY <1>7, <2>2
    <3> QED BY <1>13, <3>1, <3>2
  <2>3. CASE j \in 1 .. k /\ l - 1 \in k + 1 .. n /\ (l - 1) + 1 = l
    <3>1. /\ j \in 1 .. n /\ q[j] = p[j] /\ t[j] = done[j]
          /\ l - 1 \in 1 .. n /\ q[l] = p[l - 1] /\ t[l] = done[l - 1] /\ j < l - 1
      BY <1>4, <1>6, <2>3
    <3> QED BY <1>12, <3>1
  <2>4. CASE j = k + 1 /\ l - 1 \in k + 1 .. n /\ (l - 1) + 1 = l
    <3>1. /\ q[j] = n + 1 /\ t[j] = s[n + 1]
          /\ l - 1 \in 1 .. n /\ q[l] = p[l - 1] /\ t[l] = done[l - 1]
          /\ should_shift(desc, done[l - 1], s[n + 1])
      BY <1>5, <1>6, <2>4
    <3>2. done[l - 1].lo \in Int /\ s[n + 1].lo \in Int
      BY <1>2, <1>3, <3>1
    <3>3. ~ should_shift(desc, s[n + 1], done[l - 1]) /\ s[n + 1].lo # done[l - 1].lo
      BY <3>1, <3>2 DEF should_shift
    <3> QED BY <1>13, <3>1, <3>3
  <2>5. CASE j - 1 \in k + 1 .. n /\ (j - 1) + 1 = j /\ l - 1 \in k + 1 .. n /\ (l - 1) + 1 = l
    <3>1. PICK i \in k + 1 .. n : i = j - 1 /\ i + 1 = j
      BY <2>5
    <3>2. PICK h \in k + 1 .. n : h = l - 1 /\ h + 1 = l
      BY <2>5
    <3>3. i \in 1 .. n /\ h \in 1 .. n /\ i < h
      BY <1>14, <3>1, <3>2
    <3>4. q[i + 1] = p[i] /\ t[i + 1] = done[i] /\ q[h + 1] = p[h] /\ t[h + 1] = done[h]
      BY <1>6
    <3>5. q[j] = p[i] /\ t[j] = done[i] /\ q[l] = p[h] /\ t[l] = done[h]
      BY <3>1, <3>2, <3>4
    <3> QED BY <1>12, <3>3, <3>5
  <2>6. ~ (j = k + 1 /\ l \in 1 .. k) /\ ~ (j = k + 1 /\ l = k + 1)
        /\ ~ (j - 1 \in k + 1 .. n /\ (l \in 1 .. k \/ l = k + 1))
    BY <1>14
  <2> QED BY <1>8, <2>1, <2>2, <2>3, <2>4, <2>5, <2>6
<1>15. Len(t) = n + 1
  BY <1>2 DEF SinksTo
<1>16. Arranges(q, t, s, desc, n + 1)
  BY <1>9, <1>10, <1>11, <1>14, <1>15 DEF Arranges
<1> QED BY <1>16

(* The insertion sort of the emitted module is a stable sort in both         *)
(* directions, whatever the values, as Python's is: the result holds the     *)
(* elements of s, each as often, in order, equal keys as they were in s.     *)
THEOREM SortIsStable ==
  ASSUME NEW V, \A v \in V : v.lo \in Int, NEW s \in Seq(V), NEW desc \in BOOLEAN
  PROVE  \E p : Arranges(p, insertion_sort(s, desc), s, desc, Len(s))
<1> DEFINE n == Len(s)
           T == [i \in 0 .. n |-> {t \in Seq(V) : Len(t) = i /\ \E p : Arranges(p, t, s, desc, i)}]
<1>1. n \in Nat /\ 0 \in Nat
  OBVIOUS
<1>2. PICK f : IsSorting(f, s, desc) /\ insertion_sort(s, desc) = f[n]
  BY SortRuns
<1>3. f = [i \in 0 .. n |-> IF i = 0 THEN <<>> ELSE Sunk(s, desc, i, f[i - 1])]
  BY <1>2 DEF IsSorting, Sunk
<1>4. f[0] \in T[0]
  <2>1. f[0] = <<>>
    BY <1>1, <1>3
  <2>2. PICK p : p = [i \in 1 .. 0 |-> 1]
    OBVIOUS
  <2>3. \A i \in 1 .. 0 : FALSE
    OBVIOUS
  <2>4. p \in [1 .. 0 -> 1 .. 0]
    BY <2>2, <2>3
  <2>5. Arranges(p, <<>>, s, desc, 0)
    BY <2>3, <2>4 DEF Arranges
  <2> QED BY <1>1, <2>1, <2>5
<1>5. ASSUME NEW i \in (0 + 1) .. n, f[i - 1] \in T[i - 1] PROVE f[i] \in T[i]
  <2>1. PICK j \in Nat : j = i - 1 /\ i = j + 1 /\ j + 1 <= n
    OBVIOUS
  <2>2. i \in 1 .. n /\ i \in 0 .. n /\ j \in 0 .. n
    BY <2>1
  <2>3. PICK done : done = f[j]
    OBVIOUS
  <2>4. done \in Seq(V) /\ Len(done) = j /\ \E p : Arranges(p, done, s, desc, j)
    BY <1>5, <2>1, <2>2, <2>3
  <2>5. f[i] = Sunk(s, desc, i, done)
    BY <1>3, <2>1, <2>2, <2>3
  <2>6. /\ f[i] \in Seq(V)
        /\ \E k \in 0 .. j : SinksTo(f[i], done, s[i], desc, k)
    BY <2>2, <2>4, <2>5, SinksThere
  <2>7. Len(f[i]) = i
    BY <2>1, <2>4, <2>6 DEF SinksTo
  <2>8. PICK t : t = f[i]
    OBVIOUS
  <2>9. PICK k \in 0 .. j : SinksTo(t, done, s[j + 1], desc, k)
    BY <2>1, <2>6, <2>8
  <2>10. PICK p : Arranges(p, done, s, desc, j)
    BY <2>4
  <2>11. \E q : Arranges(q, t, s, desc, j + 1)
    BY <2>1, <2>4, <2>6, <2>8, <2>9, <2>10, SinkArranges
  <2> QED BY <2>1, <2>2, <2>6, <2>7, <2>8, <2>11
<1>6. f[n] \in T[n]
  <2> HIDE DEF T
  <2>1. \A i \in 0 .. n : f[i] \in T[i]
    BY <1>1, <1>4, <1>5, Along DEF Valued
  <2> QED BY <1>1, <2>1
<1> QED BY <1>1, <1>2, <1>6

(* The sequences read from a list or from the dict hold values. *)
LEMMA ListSeqs ==
  ASSUME NEW m, NEW p, IsList(m, p)
  PROVE  /\ elems(m, p) \in Seq(Vals) /\ Len(elems(m, p)) = Count(m, p)
         /\ \A desc : list_sorted(m, p, desc) \in Seq(Vals) /\ Len(list_sorted(m, p, desc)) = Count(m, p)
         /\ list_reversed(m, p) \in Seq(Vals)
         /\ \A j \in 1 .. Count(m, p) : m[p + Count(m, p) + 1 - j] \in Vals
         /\ \A lo \in Int, hi \in Int : list_slice(m, p, lo, hi) \in Seq(Vals)
<1> DEFINE n == Count(m, p)
<1>1. n \in Nat /\ p \in Nat /\ \A j \in 1 .. n : m[p + j] \in Vals
  BY Constants DEF IsList
<1>2. elems(m, p) \in Seq(Vals) /\ Len(elems(m, p)) = n /\ elems(m, p) = [i \in 1 .. n |-> m[p + i]]
  BY <1>1 DEF elems
<1>3. ASSUME NEW j \in 1 .. n PROVE m[p + n + 1 - j] \in Vals
  <2>1. n + 1 - j \in 1 .. n /\ p + n + 1 - j = p + (n + 1 - j)
    BY <1>1
  <2> QED BY <1>1, <2>1
<1>4. list_reversed(m, p) \in Seq(Vals)
  BY <1>1, <1>3 DEF list_reversed
<1>5. ASSUME NEW lo \in Int, NEW hi \in Int PROVE list_slice(m, p, lo, hi) \in Seq(Vals)
  <2> DEFINE l == Clamp(n, lo)
             u == Max({l, Clamp(n, hi)})
  <2>1. l \in 0 .. n /\ Clamp(n, hi) \in 0 .. n
    BY <1>1, ClampRange
  <2>2. u \in 0 .. n
    <3>1. l \in Int /\ Clamp(n, hi) \in Int
      BY <1>1, <2>1
    <3>2. u = IF l >= Clamp(n, hi) THEN l ELSE Clamp(n, hi)
      BY <3>1, MaxOfTwo
    <3> QED BY <2>1, <3>2
  <2>3. list_slice(m, p, lo, hi) = SubSeq(elems(m, p), l + 1, u)
    BY DEF list_slice, slice_bounds
  <2> HIDE DEF l, u
  <2>4. \A j \in l + 1 .. u : elems(m, p)[j] \in Vals
    BY <1>1, <1>2, <2>1, <2>2
  <2>5. l + 1 \in Int /\ u \in Int
    BY <1>1, <2>1, <2>2
  <2> QED BY <2>3, <2>4, <2>5, SubSeqProperties
<1> QED BY <1>2, <1>3, <1>4, <1>5, SortSeqs DEF list_sorted

LEMMA DictSeqs ==
  ASSUME NEW m, NEW d, IsDict(m, d)
  PROVE  /\ keys_to_list(m, d) \in Seq(Vals)
         /\ values_to_list(m, d) \in Seq(Vals)
<1>1. Count(m, d) = Len(Table) /\ Len(Table) \in Nat /\ d \in Nat
  BY Constants DEF IsDict, Count, W
<1>2. ASSUME NEW i \in 1 .. Len(Table)
      PROVE  m[KeyAddr(d, i - 1)] \in Vals /\ m[ValAddr(d, i - 1)] \in Vals
  <2>1. KeyAddr(d, i - 1) = d + (2 * i - 1) /\ ValAddr(d, i - 1) = d + 2 * i
    BY <1>1 DEF KeyAddr, ValAddr
  <2>2. 2 * i - 1 \in 1 .. 2 * Len(Table) /\ 2 * i \in 1 .. 2 * Len(Table)
    BY <1>1
  <2> QED BY <2>1, <2>2 DEF IsDict
<1> QED BY <1>1, <1>2 DEF keys_to_list, values_to_list

(* The reading helpers give words. *)
LEMMA SumIsInt ==
  ASSUME NEW m, NEW p, IsList(m, p)
  PROVE  list_sum(m, p) \in Int
<1> DEFINE n == Count(m, p)
           T == [i \in 0 .. n |-> Int]
           G == [i \in 1 .. n |-> [x \in Int |-> x + m[p + i].lo]]
           Is(f) == f = [i \in 0 .. n |-> IF i = 0 THEN 0 ELSE f[i - 1] + m[p + i].lo]
<1>1. n \in Nat /\ 0 \in Nat /\ \A i \in 1 .. n : m[p + i].lo \in Int
  BY Constants DEF IsList, Word
<1>2. 0 \in T[0] /\ Steps(G, 0, n, T)
  BY <1>1 DEF Steps
<1>3. \E f : Is(f)
  <2> HIDE DEF T, G, n
  <2>1. PICK f : IsRun(f, 0, n, 0, G) /\ Valued(f, 0, n, T)
    BY <1>1, <1>2, Recursion
  <2>2. f = [i \in 0 .. n |-> f[i]]
    BY <2>1 DEF IsRun
  <2>3. ASSUME NEW i \in 0 .. n PROVE f[i] = IF i = 0 THEN 0 ELSE f[i - 1] + m[p + i].lo
    <3>1. CASE i = 0
      BY <2>1, <3>1 DEF IsRun
    <3>2. CASE i # 0
      <4>1. i \in 1 .. n /\ i - 1 \in 0 .. n
        BY <1>1, <3>2
      <4>2. f[i] = G[i][f[i - 1]] /\ f[i - 1] \in Int
        BY <2>1, <3>2, <4>1 DEF IsRun, Valued, T
      <4> QED BY <3>2, <4>1, <4>2 DEF G
    <3> QED BY <3>1, <3>2
  <2> QED BY <2>2, <2>3
<1> DEFINE f == CHOOSE f : Is(f)
<1>4. list_sum(m, p) = f[n]
  BY Zenon DEF list_sum
<1>5. Is(f)
  BY <1>3, Zenon
<1> HIDE DEF f
<1>6. f[0] \in T[0] /\ \A i \in (0 + 1) .. n : f[i - 1] \in T[i - 1] => f[i] \in T[i]
  BY <1>1, <1>5
<1>7. f[n] \in T[n]
  <2> HIDE DEF T, n
  <2>1. Valued(f, 0, n, T)
    BY <1>1, <1>6, Along
  <2> QED BY <1>1, <2>1 DEF Valued
<1> QED BY <1>1, <1>4, <1>7

(* min and max: the run of the best element so far. *)
LEMMA ExtremumRuns ==
  ASSUME NEW m, NEW p, IsList(m, p), Count(m, p) # 0, NEW is_max
  PROVE  \E f : /\ list_minmax(m, p, is_max) = f[Count(m, p)] /\ f[1] = m[p + 1]
                /\ f[Count(m, p)] \in Vals
                /\ \A i \in 2 .. Count(m, p) :
                     f[i] = IF should_shift(is_max, f[i - 1], m[p + i]) THEN m[p + i] ELSE f[i - 1]
<1> DEFINE n == Count(m, p)
           better(w, acc) == IF is_max THEN w.lo > acc.lo ELSE w.lo < acc.lo
           Next1(i, x) == IF i = 1 \/ better(m[p + i], x) THEN m[p + i] ELSE x
           T == [i \in 1 .. n |-> Vals]
           G == [i \in 2 .. n |-> [x \in Vals |-> Next1(i, x)]]
           Is(f) == f = [i \in 1 .. n |-> IF i = 1 \/ better(m[p + i], f[i - 1]) THEN m[p + i] ELSE f[i - 1]]
<1>1. n \in Nat /\ n >= 1 /\ 1 \in Nat /\ \A i \in 1 .. n : m[p + i] \in Vals /\ m[p + i].lo \in Int
  BY Constants DEF IsList, Word
<1>2. ASSUME NEW w \in Vals, NEW acc \in Vals PROVE better(w, acc) = should_shift(is_max, acc, w)
  <2>1. w.lo \in Int /\ acc.lo \in Int
    BY Constants DEF Word
  <2>2. (w.lo > acc.lo) = (acc.lo < w.lo) /\ (w.lo < acc.lo) = (acc.lo > w.lo)
    BY <2>1
  <2> QED BY <2>2 DEF should_shift
<1> HIDE DEF better
<1>3. m[p + 1] \in T[1] /\ Steps(G, 1, n, T)
  BY <1>1 DEF Steps
<1>4. \E f : Is(f)
  <2> HIDE DEF T, G, n
  <2>1. PICK f : IsRun(f, 1, n, m[p + 1], G) /\ Valued(f, 1, n, T)
    BY <1>1, <1>3, Recursion
  <2>2. f = [i \in 1 .. n |-> f[i]]
    BY <2>1 DEF IsRun
  <2>3. ASSUME NEW i \in 1 .. n
        PROVE  f[i] = IF i = 1 \/ better(m[p + i], f[i - 1]) THEN m[p + i] ELSE f[i - 1]
    <3>1. CASE i = 1
      BY <2>1, <3>1 DEF IsRun
    <3>2. CASE i # 1
      <4>1. i \in 2 .. n /\ i - 1 \in 1 .. n
        BY <1>1, <3>2
      <4>2. f[i] = G[i][f[i - 1]] /\ f[i - 1] \in Vals
        BY <2>1, <3>2, <4>1 DEF IsRun, Valued, T
      <4> QED BY <3>2, <4>1, <4>2 DEF G
    <3> QED BY <3>1, <3>2
  <2> QED BY <2>2, <2>3
<1> DEFINE f == CHOOSE f : Is(f)
<1>5. list_minmax(m, p, is_max) = f[n]
  BY Zenon DEF list_minmax, better
<1>6. Is(f)
  BY <1>4, Zenon
<1> HIDE DEF f, n
<1>7. f[1] = m[p + 1] /\ \A i \in 2 .. n : f[i] = IF better(m[p + i], f[i - 1]) THEN m[p + i] ELSE f[i - 1]
  BY <1>1, <1>6
<1>8. Valued(f, 1, n, T)
  <2>1. f[1] \in T[1] /\ \A i \in (1 + 1) .. n : f[i - 1] \in T[i - 1] => f[i] \in T[i]
    BY <1>1, <1>7
  <2> HIDE DEF T
  <2> QED BY <1>1, <2>1, Along
<1>9. ASSUME NEW i \in 2 .. n
      PROVE  f[i] = IF should_shift(is_max, f[i - 1], m[p + i]) THEN m[p + i] ELSE f[i - 1]
  <2>1. i \in 1 .. n /\ i - 1 \in 1 .. n
    BY <1>1
  <2>2. f[i - 1] \in Vals /\ m[p + i] \in Vals
    BY <1>1, <1>8, <2>1 DEF Valued
  <2> QED BY <1>2, <1>7, <2>2
<1>10. f[n] \in Vals
  <2>1. n \in 1 .. n
    BY <1>1
  <2> QED BY <1>8, <2>1 DEF Valued
<1> QED BY <1>5, <1>7, <1>9, <1>10 DEF n

LEMMA ExtremumIsValue ==
  ASSUME NEW m, NEW p, IsList(m, p), Count(m, p) # 0, NEW is_max
  PROVE  list_minmax(m, p, is_max) \in Vals
  BY ExtremumRuns

LEMMA FirstSlotRange ==
  ASSUME NEW m, NEW p, IsList(m, p), NEW v, list_contains(m, p, v)
  PROVE  first_slot(m, p, v) \in 0 .. Count(m, p) - 1
<1> DEFINE H == {i \in Slots(m, p) : m[p + 1 + i] = v}
<1>1. Count(m, p) \in Nat
  BY DEF IsList
<1>2. H \in SUBSET Nat /\ H # {}
  BY <1>1 DEF Slots, list_contains
<1>3. Min(H) \in H
  <2> HIDE DEF H
  <2>1. \E x \in H : \A y \in H : x <= y
    BY <1>2, Least
  <2> QED BY <2>1, Zenon DEF Min
<1> QED BY <1>1, <1>3 DEF first_slot, Slots

LEMMA CountIsInt ==
  ASSUME NEW m, NEW p, IsList(m, p), NEW v
  PROVE  list_count(m, p, v) \in Int
<1> DEFINE H == {i \in Slots(m, p) : m[p + 1 + i] = v}
<1>1. Count(m, p) - 1 \in Int /\ 0 \in Int
  BY DEF IsList
<1>2. IsFiniteSet(0 .. Count(m, p) - 1)
  BY <1>1, FS_Interval
<1>3. H \in SUBSET (0 .. Count(m, p) - 1)
  BY DEF Slots
<1>4. IsFiniteSet(H)
  BY <1>2, <1>3, FS_Subset, Zenon
<1>5. Cardinality(H) \in Nat
  BY <1>4, FS_CardinalityType
<1> QED BY <1>5 DEF list_count

-----------------------------------------------------------------------------
(* New records at the heap pointer.                                          *)

ZeroFrom(m, h) == \A a \in Page : a >= h => m[a] = Zero

(* A heap between statements: no list has reserved more than it says. *)
Tidy(m, h, d, R) == Heap(m, h, d, R, [p \in R |-> Top(m, p)]) /\ ZeroFrom(m, h)

LEMMA Settled ==
  ASSUME NEW m, NEW h, NEW d, NEW R, NEW e, Heap(m, h, d, R, e), ZeroFrom(m, h),
         NEW Q \in SUBSET R
  PROVE  Tidy(m, h, d, Q)
<1> DEFINE t == [p \in Q |-> Top(m, p)]
<1>1. ASSUME NEW p \in Q
      PROVE  IsList(m, p) /\ t[p] \in Nat /\ t[p] = Top(m, p) /\ DictEnd(d) < p /\ p + t[p] < h
             /\ t[p] <= e[p] /\ p \in Nat /\ e[p] \in Nat
  <2>1. IsList(m, p) /\ e[p] \in Nat /\ Top(m, p) <= e[p] /\ DictEnd(d) < p /\ p + e[p] < h /\ h \in Nat
    BY DEF Heap
  <2>2. Top(m, p) \in Nat /\ p \in Nat
    BY <2>1, Constants DEF Top, IsList
  <2> QED BY <2>1, <2>2
<1> HIDE DEF t
<1>2. ASSUME NEW p \in Q, NEW q \in Q, p # q PROVE p + t[p] < q \/ q + t[q] < p
  <2>1. p + e[p] < q \/ q + e[q] < p
    BY <1>2 DEF Heap
  <2> QED BY <1>1, <2>1
<1>3. Heap(m, h, d, Q, t)
  BY <1>1, <1>2 DEF Heap
<1> QED BY <1>3 DEF Tidy, t

LEMMA Extended ==
  ASSUME NEW m, NEW h, NEW d, NEW R, NEW e, Heap(m, h, d, R, e),
         NEW n \in [Page -> Word], \A a \in Page : a < h => n[a] = m[a],
         IsList(n, h), NEW g \in Nat, h + Top(n, h) < g, ZeroFrom(n, g)
  PROVE  Tidy(n, g, d, R \cup {h})
<1>1. Heap(n, h, d, R, e)
  BY AboveHeap
<1>2. h \in Nat /\ DictEnd(d) < h /\ IsDict(n, d)
  BY <1>1 DEF Heap
<1>3. Top(n, h) \in Nat
  BY DEF Top, IsList
<1>4. h < g /\ d \in Nat /\ DictEnd(d) \in Nat
  BY <1>2, <1>3, Constants DEF DictEnd, IsDict
<1> DEFINE f == [p \in R \cup {h} |-> IF p = h THEN Top(n, h) ELSE e[p]]
<1>5. ASSUME NEW p \in R
      PROVE  IsList(n, p) /\ f[p] = e[p] /\ e[p] \in Nat /\ Top(n, p) <= e[p] /\ DictEnd(d) < p
             /\ p + e[p] < h /\ p \in Nat /\ p # h
  <2>1. IsList(n, p) /\ e[p] \in Nat /\ Top(n, p) <= e[p] /\ DictEnd(d) < p /\ p + e[p] < h
    BY <1>1 DEF Heap
  <2>2. p \in Nat /\ p # h
    BY <1>2, <2>1, Constants DEF IsList
  <2> QED BY <2>1, <2>2
<1>6. f[h] = Top(n, h)
  OBVIOUS
<1> HIDE DEF f
<1>7. ASSUME NEW p \in R \cup {h}
      PROVE  IsList(n, p) /\ f[p] \in Nat /\ Top(n, p) <= f[p] /\ DictEnd(d) < p /\ p + f[p] < g
  BY <1>2, <1>3, <1>4, <1>5, <1>6
<1>8. ASSUME NEW p \in R \cup {h}, NEW q \in R \cup {h}, p # q
      PROVE  p + f[p] < q \/ q + f[q] < p
  <2>1. CASE p \in R /\ q \in R
    <3>1. p + e[p] < q \/ q + e[q] < p
      BY <1>1, <1>8, <2>1 DEF Heap
    <3> QED BY <1>5, <2>1, <3>1
  <2>2. CASE p = h \/ q = h
    BY <1>5, <1>8, <2>2
  <2> QED BY <2>1, <2>2
<1>9. Heap(n, g, d, R \cup {h}, f)
  BY <1>2, <1>4, <1>7, <1>8 DEF Heap
<1> QED BY <1>9, Settled

LEMMA NewHeap ==
  ASSUME NEW m, NEW h, NEW d, NEW R, NEW e, Heap(m, h, d, R, e), ZeroFrom(m, h),
         NEW s \in Seq(Vals), h + Len(s) < PageWords
  PROVE  /\ new_list(m, h, s).ptr = h
         /\ Tidy(new_list(m, h, s).mem, new_list(m, h, s).hp, d, R \cup {h})
<1> DEFINE k == Len(s)
           n == put_elems(set_count(m, h, k), h, k, s)
           g == alloc(h, list_bytes(k))
<1>1. k \in Nat /\ h \in Nat /\ DictEnd(d) < h /\ d \in Page /\ m \in [Page -> Word]
      /\ \A j \in 1 .. k : s[j] \in Vals /\ s[j] \in Word
  BY Constants DEF Heap, IsDict
<1>2. new_list(m, h, s).ptr = h /\ new_list(m, h, s).mem = n /\ new_list(m, h, s).hp = g
  BY DEF new_list
<1> HIDE DEF k
<1>3. g = h + k + 1
  BY <1>1 DEF alloc, list_bytes
<1>4. h \in Page
  BY <1>1, Constants DEF DictEnd, Page, k
<1>5. Cap(m, h) = 0
  BY <1>1, <1>4 DEF ZeroFrom, Cap, Zero, W
<1>6. set_count(m, h, k) = [m EXCEPT ![h] = W(k, 0)] /\ W(k, 0) \in Word
  BY <1>1, <1>5 DEF set_count, W, Word
<1>7. /\ n \in [Page -> Word]
      /\ \A a \in Page : n[a] = IF a \in (h + 1) .. (h + k) THEN s[a - h] ELSE IF a = h THEN W(k, 0) ELSE m[a]
  <2>1. \A a \in Page : a \in (h + 1) .. (h + k) => a - h \in 1 .. k
    BY <1>1, Constants
  <2> QED BY <1>1, <1>6, <2>1 DEF put_elems
<1> HIDE DEF n, g
<1>8. Count(n, h) = k /\ Cap(n, h) = 0
  BY <1>1, <1>4, <1>7 DEF Count, Cap, W
<1>9. IsList(n, h)
  <2>1. ASSUME NEW j \in 1 .. k PROVE n[h + j] \in Vals
    <3>1. h + j \in Page /\ h + j \in (h + 1) .. (h + k) /\ (h + j) - h = j
      BY <1>1, <1>4, Constants DEF Page, k
    <3> QED BY <1>1, <1>7, <3>1
  <2> QED BY <1>1, <1>4, <1>8, <2>1 DEF IsList, k
<1>10. Top(n, h) = k
  BY <1>1, <1>8 DEF Top
<1>11. \A a \in Page : a < h => n[a] = m[a]
  BY <1>1, <1>7, Constants
<1>12. ZeroFrom(n, g)
  <2>1. ASSUME NEW a \in Page, a >= g PROVE n[a] = Zero
    <3>1. a >= h /\ a \notin (h + 1) .. (h + k) /\ a # h
      BY <1>1, <1>3, <2>1, Constants
    <3> QED BY <1>7, <3>1 DEF ZeroFrom
  <2> QED BY <2>1 DEF ZeroFrom
<1>13. g \in Nat /\ h + Top(n, h) < g
  BY <1>1, <1>3, <1>10
<1>14. Tidy(n, g, d, R \cup {h})
  BY <1>7, <1>9, <1>11, <1>12, <1>13, Extended
<1> QED BY <1>2, <1>14

-----------------------------------------------------------------------------
(* A literal fills its record while its elements are evaluated.              *)

Why == {"none", "unreachable", "capacity", "oob"}

(* After j of the len elements. *)
Filling(n, h, d, e, len, j) ==
  /\ Heap(n, h, d, Lists, e)
  /\ h \in Page /\ h + j < PageWords
  /\ n[h] = W(len, len + ListSlack)
  /\ \A i \in 1 .. j : n[h + i] \in Vals
  /\ \A a \in Page : a > h + j => n[a] = Zero

Fillings(h, d, e, len, j) ==
  {r \in [why : Why, mem : [Page -> Word]] : r.why = "none" => Filling(r.mem, h, d, e, len, j)}

(* The step of Fill that stores element j. *)
Stored(p, es, j, r) ==
  LET e == eval(r.mem, es[j]) IN
  IF r.why # "none" THEN r
  ELSE IF ~ e.ok THEN [why |-> "unreachable", mem |-> r.mem]
  ELSE IF p + j \notin Page THEN [why |-> "oob", mem |-> e.mem]
  ELSE [why |-> "none", mem |-> [e.mem EXCEPT ![p + j] = e.val]]

LEMMA StoredFills ==
  ASSUME loc \in [Names -> Nat], NEW h, NEW d, NEW e, NEW len \in Nat, NEW j \in 1 .. len,
         NEW es, es[j] \in Operands, NEW r \in Fillings(h, d, e, len, j - 1)
  PROVE  Stored(h, es, j, r) \in Fillings(h, d, e, len, j)
<1> DEFINE x == eval(r.mem, es[j])
<1>1. CASE r.why # "none"
  <2>1. Stored(h, es, j, r) = r
    BY <1>1 DEF Stored
  <2> QED BY <1>1, <2>1 DEF Fillings
<1>2. CASE r.why = "none"
  <2>1. Filling(r.mem, h, d, e, len, j - 1) /\ r.mem \in [Page -> Word]
    BY <1>2 DEF Fillings
  <2>2. /\ x.ok \in BOOLEAN /\ x.val \in Vals
        /\ Heap(x.mem, h, d, Lists, e)
        /\ \A a \in Page : a >= h => x.mem[a] = r.mem[a]
    BY <2>1, EvalHeap DEF Filling
  <2> HIDE DEF x
  <2>3. h \in Nat /\ h \in Page /\ x.mem \in [Page -> Word] /\ x.val \in Word
    BY <2>1, <2>2, Constants DEF Filling, Heap
  <2>4. CASE ~ x.ok
    <3>1. Stored(h, es, j, r) = [why |-> "unreachable", mem |-> r.mem]
      BY <1>2, <2>4 DEF Stored, x
    <3> QED BY <2>1, <3>1 DEF Fillings, Why
  <2>5. CASE x.ok /\ h + j \notin Page
    <3>1. Stored(h, es, j, r) = [why |-> "oob", mem |-> x.mem]
      BY <1>2, <2>5 DEF Stored, x
    <3> QED BY <2>3, <3>1 DEF Fillings, Why
  <2>6. CASE x.ok /\ h + j \in Page
    <3> DEFINE n == [x.mem EXCEPT ![h + j] = x.val]
    <3>1. Stored(h, es, j, r) = [why |-> "none", mem |-> n]
      BY <1>2, <2>6 DEF Stored, x
    <3>2. n \in [Page -> Word] /\ \A a \in Page : n[a] = IF a = h + j THEN x.val ELSE x.mem[a]
      BY <2>3, <2>6
    <3> HIDE DEF n
    <3>3. \A a \in Page : a < h => n[a] = x.mem[a]
      BY <2>3, <3>2, Constants
    <3>4. Heap(n, h, d, Lists, e)
      BY <2>2, <3>2, <3>3, AboveHeap
    <3>5. h + j < PageWords /\ h + j \in Nat
      BY <2>6, Constants
    <3>6. n[h] = W(len, len + ListSlack)
      <4>1. h # h + j /\ h >= h
        BY <2>3
      <4> QED BY <2>1, <2>2, <2>3, <3>2, <4>1 DEF Filling
    <3>7. ASSUME NEW i \in 1 .. j PROVE n[h + i] \in Vals
      <4>1. h + i \in Page /\ h + i >= h
        BY <2>3, <3>5, Constants DEF Page
      <4>2. CASE i = j
        BY <2>2, <3>2, <4>1, <4>2
      <4>3. CASE i # j
        <5>1. h + i # h + j /\ i \in 1 .. j - 1
          BY <2>3, <4>3
        <5> QED BY <2>1, <2>2, <3>2, <4>1, <5>1 DEF Filling
      <4> QED BY <4>2, <4>3
    <3>8. ASSUME NEW a \in Page, a > h + j PROVE n[a] = Zero
      <4>1. a > h + (j - 1) /\ a >= h /\ a # h + j
        BY <2>3, <3>8, Constants
      <4> QED BY <2>1, <2>2, <3>2, <4>1 DEF Filling
    <3>9. Filling(n, h, d, e, len, j)
      BY <2>3, <3>4, <3>5, <3>6, <3>7, <3>8 DEF Filling
    <3> QED BY <3>1, <3>2, <3>9 DEF Fillings, Why
  <2> QED BY <2>2, <2>4, <2>5, <2>6
<1> QED BY <1>1, <1>2

Header(m, p, len) ==
  IF p \notin Page THEN [why |-> "oob", mem |-> m]
  ELSE [why |-> "none", mem |-> [m EXCEPT ![p] = W(len, len + ListSlack)]]

IsFill(f, m, p, es) ==
  f = [j \in 0 .. Len(es) |->
        IF j = 0
        THEN IF p \notin Page THEN [why |-> "oob", mem |-> m]
             ELSE [why |-> "none", mem |-> [m EXCEPT ![p] = W(Len(es), Len(es) + ListSlack)]]
        ELSE LET r == f[j - 1]
                 e == eval(r.mem, es[j])
             IN  IF r.why # "none" THEN r
                 ELSE IF ~ e.ok THEN [why |-> "unreachable", mem |-> r.mem]
                 ELSE IF p + j \notin Page THEN [why |-> "oob", mem |-> e.mem]
                 ELSE [why |-> "none", mem |-> [e.mem EXCEPT ![p + j] = e.val]]]

LEMMA HeaderFills ==
  ASSUME NEW m, NEW h, NEW d, NEW e, Heap(m, h, d, Lists, e), ZeroFrom(m, h), NEW len \in Nat
  PROVE  Header(m, h, len) \in Fillings(h, d, e, len, 0)
<1>1. m \in [Page -> Word] /\ h \in Nat
  BY DEF Heap
<1>2. CASE h \notin Page
  BY <1>1, <1>2 DEF Header, Fillings, Why
<1>3. CASE h \in Page
  <2> DEFINE n == [m EXCEPT ![h] = W(len, len + ListSlack)]
  <2>1. Header(m, h, len) = [why |-> "none", mem |-> n]
    BY <1>3 DEF Header
  <2>2. W(len, len + ListSlack) \in Word
    BY Constants DEF W, Word
  <2>3. n \in [Page -> Word] /\ n[h] = W(len, len + ListSlack) /\ \A a \in Page : a # h => n[a] = m[a]
    BY <1>1, <1>3, <2>2
  <2> HIDE DEF n
  <2>4. \A a \in Page : a < h => n[a] = m[a]
    BY <1>1, <2>3, Constants
  <2>5. Heap(n, h, d, Lists, e)
    BY <2>3, <2>4, AboveHeap
  <2>6. \A a \in Page : a > h + 0 => n[a] = Zero
    BY <1>1, <2>3, Constants DEF ZeroFrom
  <2>7. h + 0 < PageWords
    BY <1>1, <1>3, Constants
  <2>8. Filling(n, h, d, e, len, 0)
    BY <1>3, <2>3, <2>5, <2>6, <2>7 DEF Filling
  <2> QED BY <2>1, <2>3, <2>8 DEF Fillings, Why
<1> QED BY <1>2, <1>3

(* A literal is the run of its stores. *)
LEMMA FillRuns ==
  ASSUME loc \in [Names -> Nat], NEW m, NEW h, NEW d, NEW e, Heap(m, h, d, Lists, e),
         ZeroFrom(m, h), NEW len \in Nat, NEW es \in [1 .. len -> Operands]
  PROVE  \E f : /\ Fill(m, h, es) = f[len] /\ f[0] = Header(m, h, len)
                /\ \A j \in 1 .. len : f[j] = Stored(h, es, j, f[j - 1])
                /\ \A j \in 0 .. len : f[j] \in Fillings(h, d, e, len, j)
<1> DEFINE T == [j \in 0 .. len |-> Fillings(h, d, e, len, j)]
           G == [j \in 1 .. len |-> [r \in Fillings(h, d, e, len, j - 1) |-> Stored(h, es, j, r)]]
<1>1. len \in Nat /\ 0 \in Nat /\ Len(es) = len /\ \A j \in 1 .. len : es[j] \in Operands
  <2>1. es \in Seq(Operands)
    OBVIOUS
  <2> QED BY <2>1
<1>2. Header(m, h, len) \in T[0]
  BY <1>1, HeaderFills
<1>3. ASSUME NEW j \in (0 + 1) .. len, NEW r \in T[j - 1]
      PROVE  j \in 1 .. len /\ r \in Fillings(h, d, e, len, j - 1) /\ Stored(h, es, j, r) \in T[j]
  <2>1. j \in 1 .. len /\ j \in 0 .. len /\ j - 1 \in 0 .. len
    OBVIOUS
  <2>2. r \in Fillings(h, d, e, len, j - 1)
    BY <2>1
  <2>3. Stored(h, es, j, r) \in Fillings(h, d, e, len, j)
    BY <1>1, <2>1, <2>2, StoredFills
  <2> QED BY <2>1, <2>2, <2>3
<1>4. Steps(G, 0, len, T)
  <2> HIDE DEF T
  <2>1. ASSUME NEW j \in (0 + 1) .. len, NEW r \in T[j - 1] PROVE G[j][r] \in T[j]
    BY <1>3, <2>1
  <2> QED BY <2>1 DEF Steps
<1>5. \E f : IsFill(f, m, h, es)
  <2> HIDE DEF T, G
  <2>1. PICK f : IsRun(f, 0, len, Header(m, h, len), G) /\ Valued(f, 0, len, T)
    BY <1>1, <1>2, <1>4, Recursion
  <2>2. f = [j \in 0 .. len |-> f[j]]
    BY <2>1 DEF IsRun
  <2>3. ASSUME NEW j \in 0 .. len
        PROVE  f[j] = IF j = 0 THEN Header(m, h, len) ELSE Stored(h, es, j, f[j - 1])
    <3>1. CASE j = 0
      BY <2>1, <3>1 DEF IsRun
    <3>2. CASE j # 0
      <4>1. j \in 1 .. len /\ j - 1 \in 0 .. len
        BY <3>2
      <4>2. f[j] = G[j][f[j - 1]] /\ f[j - 1] \in Fillings(h, d, e, len, j - 1)
        BY <2>1, <3>2, <4>1 DEF IsRun, Valued, T
      <4> QED BY <3>2, <4>1, <4>2 DEF G
    <3> QED BY <3>1, <3>2
  <2>4. f = [j \in 0 .. len |-> IF j = 0 THEN Header(m, h, len) ELSE Stored(h, es, j, f[j - 1])]
    BY <2>2, <2>3
  <2> QED BY <1>1, <2>4 DEF IsFill, Header, Stored
<1> DEFINE f == CHOOSE f : IsFill(f, m, h, es)
<1>6. Fill(m, h, es) = f[Len(es)]
  BY Zenon DEF Fill, IsFill
<1>7. IsFill(f, m, h, es)
  BY <1>5, Zenon
<1> HIDE DEF f
<1>8. f = [j \in 0 .. len |-> IF j = 0 THEN Header(m, h, len) ELSE Stored(h, es, j, f[j - 1])]
  BY <1>1, <1>7 DEF IsFill, Header, Stored
<1>9. f[0] = Header(m, h, len) /\ \A j \in 1 .. len : f[j] = Stored(h, es, j, f[j - 1])
  <2>1. 0 \in 0 .. len /\ \A j \in 1 .. len : j \in 0 .. len /\ j # 0
    OBVIOUS
  <2> QED BY <1>8, <2>1
<1>10. Valued(f, 0, len, T)
  <2> HIDE DEF T
  <2>1. ASSUME NEW j \in (0 + 1) .. len, f[j - 1] \in T[j - 1] PROVE f[j] \in T[j]
    <3>1. Stored(h, es, j, f[j - 1]) \in T[j] /\ j \in 1 .. len
      BY <1>3, <2>1
    <3> QED BY <1>9, <3>1
  <2>2. f[0] \in T[0]
    BY <1>2, <1>9
  <2> QED BY <1>1, <2>1, <2>2, Along
<1>11. \A j \in 0 .. len : f[j] \in Fillings(h, d, e, len, j)
  BY <1>10 DEF Valued
<1> QED BY <1>1, <1>6, <1>9, <1>11

LEMMA FillFills ==
  ASSUME loc \in [Names -> Nat], NEW m, NEW h, NEW d, NEW e, Heap(m, h, d, Lists, e),
         ZeroFrom(m, h), NEW len \in Nat, NEW es \in [1 .. len -> Operands]
  PROVE  Fill(m, h, es) \in Fillings(h, d, e, len, len)
<1>1. PICK f : /\ Fill(m, h, es) = f[len]
               /\ \A j \in 0 .. len : f[j] \in Fillings(h, d, e, len, j)
  BY FillRuns
<1>2. len \in 0 .. len
  OBVIOUS
<1> QED BY <1>1, <1>2

(* The heap after a literal. *)
LEMMA LiteralHeap ==
  ASSUME loc \in [Names -> Nat], NEW m, NEW h, NEW d, NEW e, Heap(m, h, d, Lists, e),
         ZeroFrom(m, h), NEW len \in Nat, NEW es \in [1 .. len -> Operands],
         Fill(m, h, es).why = "none"
  PROVE  Tidy(Fill(m, h, es).mem, alloc(h, literal_bytes(len)), d, Lists \cup {h})
<1> DEFINE n == Fill(m, h, es).mem
           g == alloc(h, literal_bytes(len))
<1>1. Filling(n, h, d, e, len, len) /\ n \in [Page -> Word]
  BY FillFills DEF Fillings
<1>2. h \in Nat /\ h \in Page
  BY <1>1 DEF Filling, Heap
<1>3. g = h + len + ListSlack + 1
  BY <1>2, Constants DEF alloc, literal_bytes, list_bytes
<1> HIDE DEF n, g
<1>4. Count(n, h) = len /\ Cap(n, h) = len + ListSlack
  BY <1>1 DEF Filling, Count, Cap, W
<1>5. IsList(n, h)
  <2>1. h + len < PageWords /\ \A i \in 1 .. len : n[h + i] \in Vals
    BY <1>1 DEF Filling
  <2>2. len + ListSlack \in Nat /\ len <= len + ListSlack
    BY Constants
  <2> QED BY <1>2, <1>4, <2>1, <2>2 DEF IsList
<1>6. Top(n, h) = len + ListSlack
  BY <1>4, Constants DEF Top
<1>7. ZeroFrom(n, g)
  <2>1. ASSUME NEW a \in Page, a >= g PROVE n[a] = Zero
    <3>1. a > h + len
      BY <1>2, <1>3, <2>1, Constants
    <3> QED BY <1>1, <3>1 DEF Filling
  <2> QED BY <2>1 DEF ZeroFrom
<1>8. g \in Nat /\ h + Top(n, h) < g
  BY <1>2, <1>3, <1>6, Constants
<1>9. Heap(n, h, d, Lists, e) /\ \A a \in Page : a < h => n[a] = n[a]
  BY <1>1 DEF Filling
<1>10. Tidy(n, g, d, Lists \cup {h})
  BY <1>1, <1>5, <1>7, <1>8, <1>9, Extended
<1> QED BY <1>10 DEF n, g

-----------------------------------------------------------------------------
(* The invariant: between statements the heap is tidy.                       *)

LInv == ListsTypeOK /\ Tidy(mem, hp, dct, Lists)

Reach == [p \in Lists |-> Top(mem, p)]

(* What LInv gives for a live list and for the heap. *)
LEMMA InvFacts ==
  ASSUME LInv
  PROVE  /\ mem \in [Page -> Word] /\ loc \in [Names -> Nat] /\ hp \in Nat
         /\ Heap(mem, hp, dct, Lists, Reach) /\ ZeroFrom(mem, hp)
         /\ \A x \in Names : Bound(x) => /\ loc[x] \in Lists /\ IsList(mem, loc[x]) /\ loc[x] \in Nat
                                        /\ Reach[loc[x]] \in Nat /\ Top(mem, loc[x]) <= Reach[loc[x]]
                                        /\ Count(mem, loc[x]) <= Reach[loc[x]]
                                        /\ Cap(mem, loc[x]) <= Reach[loc[x]]
                                        /\ loc[x] + Reach[loc[x]] < hp
<1>1. /\ mem \in [Page -> Word] /\ loc \in [Names -> Nat] /\ hp \in Nat
      /\ Heap(mem, hp, dct, Lists, Reach) /\ ZeroFrom(mem, hp)
  BY DEF LInv, ListsTypeOK, Tidy, Reach
<1>2. ASSUME NEW x \in Names, Bound(x)
      PROVE  /\ loc[x] \in Lists /\ IsList(mem, loc[x]) /\ loc[x] \in Nat
             /\ Reach[loc[x]] \in Nat /\ Top(mem, loc[x]) <= Reach[loc[x]]
             /\ Count(mem, loc[x]) <= Reach[loc[x]]
             /\ Cap(mem, loc[x]) <= Reach[loc[x]]
             /\ loc[x] + Reach[loc[x]] < hp
  <2>1. loc[x] \in Lists
    BY <1>2 DEF Lists, Live
  <2>2. IsList(mem, loc[x]) /\ Reach[loc[x]] \in Nat /\ Top(mem, loc[x]) <= Reach[loc[x]]
        /\ loc[x] + Reach[loc[x]] < hp
    BY <1>1, <2>1 DEF Heap
  <2>3. Count(mem, loc[x]) \in Nat /\ Cap(mem, loc[x]) \in Nat /\ loc[x] \in Nat
    BY <1>1, <1>2, <2>2 DEF IsList
  <2> HIDE DEF Reach
  <2> QED BY <2>1, <2>2, <2>3 DEF Top
<1> QED BY <1>1, <1>2

LEMMA AbortStep ==
  ASSUME LInv, NEW why \in Why, Abort(why)
  PROVE  LInv'
<1>1. Lists' = Lists
  BY DEF Abort, Lists, Live, Bound
<1> QED BY <1>1 DEF Abort, LInv, ListsTypeOK, Tidy, ZeroFrom, Why

LEMMA RewriteStep ==
  ASSUME LInv, NEW n, NEW v \in Word, NEW e, Heap(n, hp, dct, Lists, e), ZeroFrom(n, hp),
         Rewrite(n, v)
  PROVE  LInv'
<1>1. Lists' = Lists /\ mem' = n /\ hp' = hp /\ dct' = dct /\ loc' = loc /\ trap' = trap /\ out' = v
  BY DEF Rewrite, Lists, Live, Bound
<1>2. Tidy(n, hp, dct, Lists)
  BY Settled
<1>3. n \in [Page -> Word]
  BY DEF Heap
<1>4. Tidy(mem', hp', dct', Lists')
  BY <1>1, <1>2
<1>5. ListsTypeOK'
  BY <1>1, <1>3 DEF LInv, ListsTypeOK
<1> QED BY <1>4, <1>5 DEF LInv

(* The same, for a change of one list of a heap n that operands left. *)
LEMMA InPlaceStep ==
  ASSUME LInv, NEW n, NEW e, Heap(n, hp, dct, Lists, e), ZeroFrom(n, hp),
         NEW p \in Lists, NEW g, InPlace(n, p, g, e[p]), NEW v \in Word, Rewrite(g, v)
  PROVE  LInv'
<1>1. Heap(g, hp, dct, Lists, e) /\ \A a \in Page : a >= hp => g[a] = n[a]
  BY InPlaceHeap
<1>2. ZeroFrom(g, hp)
  BY <1>1 DEF ZeroFrom
<1> QED BY <1>1, <1>2, RewriteStep

LEMMA BoundStep ==
  ASSUME LInv, NEW x \in Names, NEW n, NEW g, NEW b \in Nat, Tidy(n, g, dct, Lists \cup {b}),
         mem' = n, hp' = g, loc' = [loc EXCEPT ![x] = b], UNCHANGED <<dct, out, trap>>
  PROVE  LInv'
<1>1. loc \in [Names -> Nat] /\ loc' \in [Names -> Nat] /\ \A y \in Names : loc'[y] = b \/ loc'[y] = loc[y]
  BY InvFacts
<1>2. Lists' \subseteq Lists \cup {b}
  BY <1>1 DEF Lists, Live, Bound
<1>3. Heap(n, g, dct, Lists \cup {b}, [p \in Lists \cup {b} |-> Top(n, p)]) /\ ZeroFrom(n, g)
  BY DEF Tidy
<1>4. Tidy(n, g, dct, Lists')
  BY <1>2, <1>3, Settled
<1>5. n \in [Page -> Word] /\ g \in Nat
  BY <1>3 DEF Heap
<1>6. ListsTypeOK'
  BY <1>1, <1>5 DEF LInv, ListsTypeOK
<1> QED BY <1>4, <1>6 DEF LInv

(* What an operand leaves of the heap the statement began with. *)
LEMMA OperandFacts ==
  ASSUME LInv, NEW o \in Operands
  PROVE  /\ eval(mem, o).val \in Vals
         /\ Heap(eval(mem, o).mem, hp, dct, Lists, Reach) /\ ZeroFrom(eval(mem, o).mem, hp)
         /\ Evaluated(mem, eval(mem, o).mem, Lists)
<1> DEFINE n == eval(mem, o).mem
<1>1. loc \in [Names -> Nat] /\ Heap(mem, hp, dct, Lists, Reach) /\ ZeroFrom(mem, hp)
  BY InvFacts
<1>2. /\ eval(mem, o).val \in Vals /\ Heap(n, hp, dct, Lists, Reach)
      /\ \A a \in Page : a >= hp => n[a] = mem[a]
      /\ Evaluated(mem, n, Lists)
  BY <1>1, EvalHeap
<1> HIDE DEF n
<1>3. ZeroFrom(n, hp)
  BY <1>1, <1>2 DEF ZeroFrom
<1> QED BY <1>2, <1>3 DEF n

LEMMA AppendStep ==
  ASSUME LInv, NEW x \in Names, ListAppend(x)
  PROVE  LInv'
<1> DEFINE p == loc[x]
           c == Count(mem, p)
           slot == p + 1 + c
<1>1. PICK o \in Operands :
        \/ full(mem, p) /\ Abort("capacity")
        \/ ~ full(mem, p) /\ ~ eval(mem, o).ok /\ Abort("unreachable")
        \/ ~ full(mem, p) /\ eval(mem, o).ok /\ slot \notin Page /\ Abort("oob")
        \/ /\ ~ full(mem, p) /\ eval(mem, o).ok /\ slot \in Page
           /\ LET m == [eval(mem, o).mem EXCEPT ![slot] = eval(mem, o).val] IN
              Rewrite(set_count(m, p, Count(m, p) + 1), Zero)
  BY DEF ListAppend
<1>2. CASE Abort("capacity") \/ Abort("unreachable") \/ Abort("oob")
  BY <1>2, AbortStep DEF Why
<1> DEFINE n == eval(mem, o).mem
           v == eval(mem, o).val
           m == [n EXCEPT ![slot] = v]
           k == Count(m, p) + 1
<1>3. CASE ~ full(mem, p) /\ slot \in Page /\ Rewrite(set_count(m, p, k), Zero)
  <2>1. /\ p \in Lists /\ p \in Nat /\ Reach[p] \in Nat /\ Cap(mem, p) <= Reach[p]
        /\ IsList(mem, p) /\ loc \in [Names -> Nat] /\ c \in Nat /\ Cap(mem, p) \in Nat
    <3>1. Bound(x)
      BY DEF ListAppend
    <3>2. p \in Lists /\ p \in Nat /\ Reach[p] \in Nat /\ Cap(mem, p) <= Reach[p]
          /\ IsList(mem, p) /\ loc \in [Names -> Nat]
      BY <3>1, InvFacts
    <3> QED BY <3>2 DEF IsList
  <2>2. c < Cap(mem, p)
    BY <1>3, <2>1 DEF full
  <2>3. v \in Vals /\ Heap(n, hp, dct, Lists, Reach) /\ ZeroFrom(n, hp) /\ Evaluated(mem, n, Lists)
    BY OperandFacts
  <2> HIDE DEF n, v, p
  <2>4. IsList(n, p) /\ Top(n, p) <= Reach[p] /\ n \in [Page -> Word]
    BY <2>1, <2>3 DEF Heap
  <2>5. Cap(n, p) = Cap(mem, p) /\ Count(n, p) <= c /\ \A j \in 1 .. c : n[p + j] \in Vals
    BY <2>1, <2>3 DEF Evaluated
  <2> HIDE DEF c
  <2>6. slot = p + (c + 1) /\ c + 1 \in 1 .. Reach[p]
    BY <2>1, <2>2
  <2>7. InPlace(n, p, m, Reach[p]) /\ Count(m, p) = Count(n, p) /\ m[slot] = v
    <3>1. p + (c + 1) \in Page
      BY <1>3, <2>6
    <3> HIDE DEF slot
    <3> QED BY <2>1, <2>3, <2>4, <2>6, <3>1, StoreInPlace
  <2>8. \A a \in Page : a # slot => m[a] = n[a]
    BY <2>4
  <2> HIDE DEF m
  <2>9. Heap(m, hp, dct, Lists, Reach) /\ ZeroFrom(m, hp)
    <3>1. Heap(m, hp, dct, Lists, Reach) /\ \A a \in Page : a >= hp => m[a] = n[a]
      BY <2>1, <2>3, <2>7, InPlaceHeap
    <3> QED BY <2>3, <3>1 DEF ZeroFrom
  <2>10. m \in [Page -> Word] /\ IsList(m, p) /\ Cap(m, p) = Cap(mem, p)
    BY <2>5, <2>7 DEF InPlace
  <2>11. Count(n, p) \in Nat /\ k \in Nat /\ k = Count(n, p) + 1
    BY <2>4, <2>7 DEF IsList
  <2> HIDE DEF k
  <2>12. k <= Reach[p] /\ p + k < PageWords /\ k <= Cap(mem, p)
    BY <1>3, <2>1, <2>2, <2>5, <2>6, <2>11, Constants
  <2>13. ASSUME NEW j \in 1 .. k PROVE m[p + j] \in Vals
    <3>1. CASE j = c + 1
      BY <2>3, <2>6, <2>7, <3>1
    <3>2. CASE j # c + 1
      <4>1. j \in 1 .. c /\ p + j # slot
        BY <2>1, <2>5, <2>6, <2>11, <3>2
      <4>2. p + j \in Page
        BY <1>3, <2>1, <2>4, <2>6, <4>1, Constants DEF IsList, Page
      <4> QED BY <2>5, <2>8, <4>1, <4>2
    <3> QED BY <3>1, <3>2
  <2>14. InPlace(m, p, set_count(m, p, k), Reach[p])
    BY <2>1, <2>10, <2>11, <2>12, <2>13, CountInPlace
  <2>15. Zero \in Word
    BY Constants
  <2>16. Rewrite(set_count(m, p, k), Zero)
    BY <1>3
  <2> QED BY <2>1, <2>9, <2>14, <2>15, <2>16, InPlaceStep
<1> QED BY <1>1, <1>2, <1>3

LEMMA InsertStep ==
  ASSUME LInv, NEW x \in Names, Insert(x)
  PROVE  LInv'
<1> DEFINE p == loc[x]
<1>1. PICK i \in Idx, o \in Operands :
        \/ ~ eval(mem, o).ok /\ Abort("unreachable")
        \/ eval(mem, o).ok /\ full(eval(mem, o).mem, p) /\ Abort("capacity")
        \/ /\ eval(mem, o).ok /\ ~ full(eval(mem, o).mem, p)
           /\ \/ p + 1 + Count(eval(mem, o).mem, p) \notin Page /\ Abort("oob")
              \/ /\ p + 1 + Count(eval(mem, o).mem, p) \in Page
                 /\ Rewrite(list_insert(eval(mem, o).mem, p, i, eval(mem, o).val), Zero)
  BY DEF Insert
<1>2. CASE Abort("capacity") \/ Abort("unreachable") \/ Abort("oob")
  BY <1>2, AbortStep DEF Why
<1> DEFINE n == eval(mem, o).mem
           v == eval(mem, o).val
<1>3. CASE ~ full(n, p) /\ p + 1 + Count(n, p) \in Page /\ Rewrite(list_insert(n, p, i, v), Zero)
  <2>1. p \in Lists /\ Reach[p] \in Nat
    BY InvFacts DEF Insert
  <2>2. v \in Vals /\ Heap(n, hp, dct, Lists, Reach) /\ ZeroFrom(n, hp)
    BY OperandFacts
  <2> HIDE DEF n, v, p
  <2>3. IsList(n, p) /\ Top(n, p) <= Reach[p] /\ n \in [Page -> Word]
    BY <2>1, <2>2 DEF Heap
  <2>4. Count(n, p) < Cap(n, p)
    BY <1>3, <2>3 DEF full, IsList
  <2>5. InPlace(n, p, list_insert(n, p, i, v), Reach[p])
    BY <1>3, <2>1, <2>2, <2>3, <2>4, Constants, InsertInPlace
  <2>6. Zero \in Word
    BY Constants
  <2> QED BY <1>3, <2>1, <2>2, <2>5, <2>6, InPlaceStep
<1> QED BY <1>1, <1>2, <1>3

LEMMA SetItemStep ==
  ASSUME LInv, NEW x \in Names, SetItem(x)
  PROVE  LInv'
<1> DEFINE p == loc[x]
           c == Count(mem, p)
<1>1. PICK i \in Idx, o \in Operands :
        \/ Abort("unreachable")
        \/ /\ InBounds(c, i)
           /\ Rewrite([eval(mem, o).mem EXCEPT ![p + 1 + Normal(c, i)] = eval(mem, o).val], Zero)
  BY DEF SetItem
<1>2. CASE Abort("unreachable")
  BY <1>2, AbortStep DEF Why
<1> DEFINE n == eval(mem, o).mem
           v == eval(mem, o).val
           s == Normal(c, i)
<1>3. CASE InBounds(c, i) /\ Rewrite([n EXCEPT ![p + 1 + s] = v], Zero)
  <2>1. p \in Lists /\ p \in Nat /\ Reach[p] \in Nat /\ c <= Reach[p] /\ IsList(mem, p)
    BY InvFacts DEF SetItem
  <2>2. v \in Vals /\ Heap(n, hp, dct, Lists, Reach) /\ ZeroFrom(n, hp)
    BY OperandFacts
  <2>3. s \in 0 .. c - 1
    BY <1>3 DEF InBounds
  <2> HIDE DEF n, v, p, s
  <2>4. IsList(n, p) /\ Top(n, p) <= Reach[p] /\ n \in [Page -> Word]
    BY <2>1, <2>2 DEF Heap
  <2>5. c \in Nat /\ p + c < PageWords /\ p \in Page
    BY <2>1 DEF IsList
  <2>6. p + 1 + s = p + (s + 1) /\ s + 1 \in 1 .. Reach[p] /\ p + (s + 1) \in Page
    BY <2>1, <2>3, <2>5, Constants DEF Page
  <2>7. InPlace(n, p, [n EXCEPT ![p + (s + 1)] = v], Reach[p])
    BY <2>1, <2>2, <2>4, <2>6, StoreInPlace
  <2>8. Zero \in Word /\ Rewrite([n EXCEPT ![p + (s + 1)] = v], Zero)
    BY <1>3, <2>6, Constants
  <2> QED BY <2>1, <2>2, <2>7, <2>8, InPlaceStep
<1> QED BY <1>1, <1>2, <1>3

LEMMA LiteralStep ==
  ASSUME LInv, NEW x \in Names, BindLit(x)
  PROVE  LInv'
<1>1. PICK len \in 0 .. MaxLit : \E es \in [1 .. len -> Operands] :
        LET r == Fill(mem, hp, es) IN
          \/ r.why # "none" /\ Abort(r.why)
          \/ /\ r.why = "none"
             /\ mem' = r.mem
             /\ hp' = alloc(hp, literal_bytes(len))
             /\ loc' = [loc EXCEPT ![x] = hp]
             /\ UNCHANGED <<dct, out, trap>>
  BY DEF BindLit
<1>2. PICK es \in [1 .. len -> Operands] :
          \/ Fill(mem, hp, es).why # "none" /\ Abort(Fill(mem, hp, es).why)
          \/ /\ Fill(mem, hp, es).why = "none"
             /\ mem' = Fill(mem, hp, es).mem
             /\ hp' = alloc(hp, literal_bytes(len))
             /\ loc' = [loc EXCEPT ![x] = hp]
             /\ UNCHANGED <<dct, out, trap>>
  BY <1>1
<1>3. len \in Nat /\ loc \in [Names -> Nat] /\ hp \in Nat
      /\ Heap(mem, hp, dct, Lists, Reach) /\ ZeroFrom(mem, hp)
  BY InvFacts
<1>4. CASE Fill(mem, hp, es).why # "none" /\ Abort(Fill(mem, hp, es).why)
  <2>1. Fill(mem, hp, es).why \in Why
    BY <1>3, FillFills DEF Fillings
  <2> QED BY <1>4, <2>1, AbortStep
<1>5. CASE /\ Fill(mem, hp, es).why = "none"
           /\ mem' = Fill(mem, hp, es).mem
           /\ hp' = alloc(hp, literal_bytes(len))
           /\ loc' = [loc EXCEPT ![x] = hp]
           /\ UNCHANGED <<dct, out, trap>>
  <2>1. Tidy(Fill(mem, hp, es).mem, alloc(hp, literal_bytes(len)), dct, Lists \cup {hp})
    BY <1>3, <1>5, LiteralHeap
  <2> QED BY <1>3, <1>5, <2>1, BoundStep
<1> QED BY <1>2, <1>4, <1>5

LEMMA AliasStep ==
  ASSUME LInv, NEW x \in Names, BindAlias(x)
  PROVE  LInv'
<1>1. PICK y \in Live : loc' = [loc EXCEPT ![x] = loc[y]]
  BY DEF BindAlias
<1>2. loc[y] \in Nat /\ loc[y] \in Lists
  BY InvFacts DEF Live
<1>3. Lists \cup {loc[y]} = Lists
  BY <1>2
<1>4. Tidy(mem, hp, dct, Lists \cup {loc[y]})
  BY <1>3 DEF LInv
<1> QED BY <1>1, <1>2, <1>4, BoundStep DEF BindAlias

LEMMA NewStep ==
  ASSUME LInv, NEW x \in Names, NEW s \in Seq(Vals), BindNew(x, s)
  PROVE  LInv'
<1> DEFINE r == new_list(mem, hp, s)
<1>1. CASE ~ r.ok /\ Abort("oob")
  BY <1>1, AbortStep DEF Why
<1>2. CASE /\ r.ok
           /\ mem' = r.mem /\ hp' = r.hp
           /\ loc' = [loc EXCEPT ![x] = r.ptr]
           /\ UNCHANGED <<dct, out, trap>>
  <2>1. hp + Len(s) < PageWords
    BY <1>2 DEF new_list
  <2>2. hp \in Nat /\ Heap(mem, hp, dct, Lists, Reach) /\ ZeroFrom(mem, hp)
    BY InvFacts
  <2>3. r.ptr = hp /\ Tidy(r.mem, r.hp, dct, Lists \cup {hp})
    BY <2>1, <2>2, NewHeap
  <2> QED BY <1>2, <2>2, <2>3, BoundStep
<1> QED BY <1>1, <1>2 DEF BindNew

LEMMA HelperStep ==
  ASSUME LInv, NEW x \in Names, BindHelper(x)
  PROVE  LInv'
<1>1. ASSUME NEW y \in Live PROVE IsList(mem, loc[y])
  BY InvFacts DEF Live
<1>2. IsDict(mem, dct)
  BY InvFacts DEF Heap
<1>3. ASSUME NEW y \in Live, NEW desc \in BOOLEAN, BindNew(x, list_sorted(mem, loc[y], desc))
      PROVE  LInv'
  <2>1. list_sorted(mem, loc[y], desc) \in Seq(Vals)
    BY <1>1, ListSeqs
  <2> QED BY <1>3, <2>1, NewStep
<1>4. ASSUME NEW y \in Live, BindNew(x, list_reversed(mem, loc[y]))
      PROVE  LInv'
  <2>1. list_reversed(mem, loc[y]) \in Seq(Vals)
    BY <1>1, ListSeqs
  <2> QED BY <1>4, <2>1, NewStep
<1>5. ASSUME NEW y \in Live, NEW z \in Live, BindNew(x, list_concat(mem, loc[y], loc[z]))
      PROVE  LInv'
  <2>1. elems(mem, loc[y]) \in Seq(Vals) /\ elems(mem, loc[z]) \in Seq(Vals)
    BY <1>1, ListSeqs
  <2>2. list_concat(mem, loc[y], loc[z]) \in Seq(Vals)
    BY <2>1, ConcatProperties DEF list_concat
  <2> QED BY <1>5, <2>2, NewStep
<1>6. ASSUME NEW y \in Live, NEW lo \in Idx, NEW hi \in Idx, BindNew(x, list_slice(mem, loc[y], lo, hi))
      PROVE  LInv'
  <2>1. lo \in Int /\ hi \in Int
    BY Constants
  <2>2. list_slice(mem, loc[y], lo, hi) \in Seq(Vals)
    BY <1>1, <2>1, ListSeqs
  <2> QED BY <1>6, <2>2, NewStep
<1>7. ASSUME BindNew(x, keys_to_list(mem, dct)) \/ BindNew(x, values_to_list(mem, dct))
      PROVE  LInv'
  BY <1>2, <1>7, DictSeqs, NewStep
<1> QED BY <1>3, <1>4, <1>5, <1>6, <1>7 DEF BindHelper

(* The statements that change one list and evaluate nothing. *)
LEMMA LocalStep ==
  ASSUME LInv, NEW x \in Names, Bound(x), NEW g, InPlace(mem, loc[x], g, Reach[loc[x]]), Rewrite(g, Zero)
  PROVE  LInv'
<1>1. loc[x] \in Lists /\ Heap(mem, hp, dct, Lists, Reach) /\ ZeroFrom(mem, hp) /\ Zero \in Word
  BY InvFacts, Constants
<1> QED BY <1>1, InPlaceStep

LEMMA DelStep ==
  ASSUME LInv, NEW x \in Names, DelItem(x)
  PROVE  LInv'
<1> DEFINE p == loc[x]
           c == Count(mem, p)
<1>1. PICK i \in Idx : \/ Abort("unreachable")
                       \/ InBounds(c, i) /\ Rewrite(close_slot(mem, p, Normal(c, i)), Zero)
  BY DEF DelItem
<1>2. CASE Abort("unreachable")
  BY <1>2, AbortStep DEF Why
<1>3. CASE InBounds(c, i) /\ Rewrite(close_slot(mem, p, Normal(c, i)), Zero)
  <2>1. Bound(x) /\ IsList(mem, p) /\ Reach[p] \in Nat /\ Top(mem, p) <= Reach[p] /\ mem \in [Page -> Word]
    BY InvFacts DEF DelItem
  <2>2. Normal(c, i) \in 0 .. c - 1
    BY <1>3 DEF InBounds
  <2>3. InPlace(mem, p, close_slot(mem, p, Normal(c, i)), Reach[p])
    BY <2>1, <2>2, CloseInPlace DEF Shorter
  <2> QED BY <1>3, <2>1, <2>3, LocalStep
<1> QED BY <1>1, <1>2, <1>3

LEMMA RemoveStep ==
  ASSUME LInv, NEW x \in Names, ListRemove(x)
  PROVE  LInv'
<1> DEFINE p == loc[x]
           c == Count(mem, p)
<1>1. PICK v \in Vals : \/ Abort("unreachable")
                        \/ /\ list_contains(mem, p, v)
                           /\ Rewrite(close_slot(mem, p, first_slot(mem, p, v)), Zero)
  BY DEF ListRemove
<1>2. CASE Abort("unreachable")
  BY <1>2, AbortStep DEF Why
<1>3. CASE list_contains(mem, p, v) /\ Rewrite(close_slot(mem, p, first_slot(mem, p, v)), Zero)
  <2>1. Bound(x) /\ IsList(mem, p) /\ Reach[p] \in Nat /\ Top(mem, p) <= Reach[p] /\ mem \in [Page -> Word]
    BY InvFacts DEF ListRemove
  <2>2. first_slot(mem, p, v) \in 0 .. c - 1
    BY <1>3, <2>1, FirstSlotRange
  <2>3. InPlace(mem, p, close_slot(mem, p, first_slot(mem, p, v)), Reach[p])
    BY <2>1, <2>2, CloseInPlace DEF Shorter
  <2> QED BY <1>3, <2>1, <2>3, LocalStep
<1> QED BY <1>1, <1>2, <1>3

LEMMA RearrangeStep ==
  ASSUME LInv, NEW x \in Names, Rearrange(x)
  PROVE  LInv'
<1> DEFINE p == loc[x]
           c == Count(mem, p)
<1>1. Bound(x) /\ IsList(mem, p) /\ Reach[p] \in Nat /\ Top(mem, p) <= Reach[p] /\ mem \in [Page -> Word]
  BY InvFacts DEF Rearrange
<1>2. CASE Rewrite(list_reverse(mem, p), Zero)
  <2> DEFINE f == [i \in 1 .. c |-> mem[p + c + 1 - i]]
  <2>1. \A j \in 1 .. c : f[j] \in Vals
    BY <1>1, ListSeqs
  <2>2. InPlace(mem, p, put_elems(mem, p, c, f), Reach[p])
    <3> HIDE DEF f
    <3> QED BY <1>1, <2>1, PutInPlace
  <2>3. list_reverse(mem, p) = put_elems(mem, p, c, f)
    BY DEF list_reverse
  <2> QED BY <1>1, <1>2, <2>2, <2>3, LocalStep
<1>3. ASSUME NEW desc \in BOOLEAN, Rewrite(list_sort(mem, p, desc), Zero) PROVE LInv'
  <2> DEFINE f == insertion_sort(elems(mem, p), desc)
  <2>1. f \in Seq(Vals) /\ Len(f) = c
    BY <1>1, ListSeqs DEF list_sorted
  <2>2. InPlace(mem, p, put_elems(mem, p, c, f), Reach[p])
    <3> HIDE DEF f
    <3>1. \A j \in 1 .. c : f[j] \in Vals
      BY <2>1
    <3> QED BY <1>1, <3>1, PutInPlace
  <2>3. list_sort(mem, p, desc) = put_elems(mem, p, c, f)
    BY DEF list_sort
  <2> QED BY <1>1, <1>3, <2>2, <2>3, LocalStep
<1>4. CASE Rewrite(set_count(mem, p, 0), Zero)
  <2>1. p + 0 < PageWords /\ 0 <= Reach[p]
    BY <1>1, Constants DEF IsList
  <2>2. InPlace(mem, p, set_count(mem, p, 0), Reach[p])
    <3>1. Cap(mem, p) # 0 => 0 <= Cap(mem, p)
      BY <1>1 DEF IsList
    <3>2. \A j \in 1 .. 0 : mem[p + j] \in Vals
      OBVIOUS
    <3> QED BY <1>1, <2>1, <3>1, <3>2, CountInPlace
  <2> QED BY <1>1, <1>4, <2>2, LocalStep
<1> QED BY <1>2, <1>3, <1>4 DEF Rearrange

LEMMA PopStep ==
  ASSUME LInv, NEW x \in Names, PopValue(x)
  PROVE  LInv'
<1>1. x \in Live
  BY DEF PopValue, Live
<1>2. PICK o \in {PopLast(x)} \cup {PopAt(x, i) : i \in Idx} :
        \/ Abort("unreachable")
        \/ Rewrite(eval(mem, o).mem, eval(mem, o).val)
  BY DEF PopValue
<1>3. o \in Operands
  BY <1>1, <1>2 DEF Operands
<1>4. CASE Abort("unreachable")
  BY <1>4, AbortStep DEF Why
<1>5. CASE Rewrite(eval(mem, o).mem, eval(mem, o).val)
  <2>1. eval(mem, o).val \in Word
    BY <1>3, OperandFacts, Constants
  <2>2. Heap(eval(mem, o).mem, hp, dct, Lists, Reach) /\ ZeroFrom(eval(mem, o).mem, hp)
    BY <1>3, OperandFacts
  <2> QED BY <1>5, <2>1, <2>2, RewriteStep
<1> QED BY <1>2, <1>4, <1>5

(* The statements that only read. *)
LEMMA ReadStep ==
  ASSUME LInv, NEW v \in Word, Rewrite(mem, v)
  PROVE  LInv'
<1>1. Heap(mem, hp, dct, Lists, Reach) /\ ZeroFrom(mem, hp)
  BY InvFacts
<1> QED BY <1>1, RewriteStep

LEMMA ReadingSteps ==
  ASSUME LInv, NEW x \in Names, GetItem(x) \/ Extremum(x) \/ Total(x) \/ Query(x) \/ Length(x)
  PROVE  LInv'
<1> DEFINE p == loc[x]
           c == Count(mem, p)
<1>1. Bound(x)
  BY DEF GetItem, Extremum, Total, Query, Length
<1>2. IsList(mem, p) /\ c \in Nat /\ p \in Nat /\ mem \in [Page -> Word]
  BY <1>1, InvFacts DEF IsList
<1>3. ASSUME NEW k \in Int PROVE W(k, 0) \in Word
  BY DEF W, Word
<1>4. CASE Abort("unreachable")
  BY <1>4, AbortStep DEF Why
<1>5. ASSUME NEW i \in Idx, InBounds(c, i), Rewrite(mem, mem[p + 1 + Normal(c, i)])
      PROVE  LInv'
  <2> DEFINE s == Normal(c, i)
  <2>1. s \in 0 .. c - 1
    BY <1>5 DEF InBounds
  <2> HIDE DEF s
  <2>2. s + 1 \in 1 .. c /\ p + 1 + s = p + (s + 1)
    BY <1>2, <2>1
  <2>3. mem[p + 1 + s] \in Word
    BY <1>2, <2>2, Constants DEF IsList
  <2> QED BY <1>5, <2>3, ReadStep DEF s
<1>6. ASSUME NEW b \in BOOLEAN, c # 0, Rewrite(mem, list_minmax(mem, p, b)) PROVE LInv'
  <2>1. list_minmax(mem, p, b) \in Word
    BY <1>2, <1>6, ExtremumIsValue, Constants
  <2> QED BY <1>6, <2>1, ReadStep
<1>7. CASE Rewrite(mem, W(list_sum(mem, p), 0))
  BY <1>2, <1>3, <1>7, SumIsInt, ReadStep
<1>8. ASSUME NEW v \in Vals, list_contains(mem, p, v), Rewrite(mem, W(first_slot(mem, p, v), 0))
      PROVE  LInv'
  <2>1. first_slot(mem, p, v) \in Int
    BY <1>2, <1>8, FirstSlotRange
  <2> QED BY <1>3, <1>8, <2>1, ReadStep
<1>9. ASSUME NEW v \in Vals, Rewrite(mem, W(list_count(mem, p, v), 0)) PROVE LInv'
  BY <1>2, <1>3, <1>9, CountIsInt, ReadStep
<1>10. ASSUME NEW v \in Vals, Rewrite(mem, W(IF list_contains(mem, p, v) THEN 1 ELSE 0, 0))
       PROVE  LInv'
  <2>1. (IF list_contains(mem, p, v) THEN 1 ELSE 0) \in Int
    OBVIOUS
  <2> QED BY <1>3, <1>10, <2>1, ReadStep
<1>11. CASE Rewrite(mem, W(c, 0))
  BY <1>2, <1>3, <1>11, ReadStep
<1>12. CASE GetItem(x)
  BY <1>4, <1>5, <1>12 DEF GetItem
<1>13. CASE Extremum(x)
  BY <1>4, <1>6, <1>13 DEF Extremum
<1>14. CASE Total(x)
  BY <1>7, <1>14 DEF Total
<1>15. CASE Query(x)
  BY <1>4, <1>8, <1>9, <1>10, <1>15 DEF Query
<1>16. CASE Length(x)
  BY <1>11, <1>16 DEF Length
<1> QED BY <1>12, <1>13, <1>14, <1>15, <1>16

LEMMA GetOrStep ==
  ASSUME LInv, GetOr
  PROVE  LInv'
<1>1. PICK k \in Vals, o \in Operands :
        \/ dict_has(mem, dct, k) /\ Rewrite(mem, dict_get(mem, dct, k))
        \/ Rewrite(eval(mem, o).mem, eval(mem, o).val)
        \/ Abort("unreachable")
  BY DEF GetOr
<1>2. CASE Abort("unreachable")
  BY <1>2, AbortStep DEF Why
<1>3. CASE Rewrite(eval(mem, o).mem, eval(mem, o).val)
  <2>1. eval(mem, o).val \in Word
    BY OperandFacts, Constants
  <2>2. Heap(eval(mem, o).mem, hp, dct, Lists, Reach) /\ ZeroFrom(eval(mem, o).mem, hp)
    BY OperandFacts
  <2> QED BY <1>3, <2>1, <2>2, RewriteStep
<1>4. CASE dict_has(mem, dct, k) /\ Rewrite(mem, dict_get(mem, dct, k))
  <2>1. IsDict(mem, dct)
    BY InvFacts DEF Heap
  <2>2. Count(mem, dct) = Len(Table) /\ Len(Table) \in Nat /\ dct \in Nat
    BY <2>1, Constants DEF IsDict, Count, W
  <2> DEFINE i == scan(mem, dct, k)
  <2>3. i \in Slots(mem, dct)
    BY <1>4 DEF dict_has, scan
  <2> HIDE DEF i
  <2>4. i \in 0 .. Len(Table) - 1
    BY <2>2, <2>3 DEF Slots
  <2>5. ValAddr(dct, i) = dct + (2 * i + 2) /\ 2 * i + 2 \in 1 .. 2 * Len(Table)
    BY <2>2, <2>4 DEF ValAddr
  <2>6. mem[ValAddr(dct, i)] \in Word
    BY <2>1, <2>5, Constants DEF IsDict
  <2> QED BY <1>4, <2>6, ReadStep DEF dict_get, i
<1> QED BY <1>1, <1>2, <1>3, <1>4

LEMMA NextInv == ASSUME LInv, [Next]_vars PROVE LInv'
<1>1. CASE UNCHANGED vars
  <2>1. Lists' = Lists
    BY <1>1 DEF vars, Lists, Live, Bound
  <2> QED BY <1>1, <2>1 DEF vars, LInv, ListsTypeOK, Tidy
<1>2. ASSUME NEW x \in Names, \/ BindLit(x) \/ BindAlias(x) \/ BindHelper(x)
                              \/ ListAppend(x) \/ Insert(x) \/ SetItem(x)
      PROVE  LInv'
  BY <1>2, LiteralStep, AliasStep, HelperStep, AppendStep, InsertStep, SetItemStep
<1>3. ASSUME NEW x \in Names, \/ DelItem(x) \/ ListRemove(x) \/ Rearrange(x) \/ PopValue(x)
                              \/ GetItem(x) \/ Extremum(x) \/ Total(x) \/ Query(x) \/ Length(x)
      PROVE  LInv'
  BY <1>3, DelStep, RemoveStep, RearrangeStep, PopStep, ReadingSteps
<1>4. CASE GetOr
  BY <1>4, GetOrStep
<1>5. CASE Halted
  BY <1>1, <1>5 DEF Halted
<1> QED BY <1>1, <1>2, <1>3, <1>4, <1>5 DEF Next

-----------------------------------------------------------------------------
(* What a caller passes.                                                     *)

LEMMA OrderFacts ==
  /\ Len(Order) \in Nat /\ DOMAIN Order = 1 .. Len(Order)
  /\ \A i \in DOMAIN Order : Order[i] \in Params
  /\ \A x \in Params : \E i \in DOMAIN Order : Order[i] = x
<1> DEFINE n == Cardinality(Params)
           F == [1 .. n -> Params]
<1>1. IsFiniteSet(Params)
  BY ListsAssumption
<1>2. n \in Nat /\ ExistsBijection(1 .. n, Params)
  BY <1>1, FS_CardinalityType
<1>3. \E f \in F : IsInjective(f)
  BY <1>2 DEF ExistsBijection, Bijection, Injection
<1>4. Order \in F /\ IsInjective(Order)
  <2>1. Order = CHOOSE f \in F : IsInjective(f)
    BY DEF Order, SetToSeq
  <2> HIDE DEF F
  <2> QED BY <1>3, <2>1, Zenon
<1>5. Order \in Injection(1 .. n, Params)
  BY <1>4 DEF Injection
<1>6. IsFiniteSet(1 .. n) /\ Cardinality(1 .. n) = n
  <2>1. 1 \in Int /\ n \in Int
    BY <1>2
  <2>2. IsFiniteSet(1 .. n) /\ Cardinality(1 .. n) = IF 1 > n THEN 0 ELSE n - 1 + 1
    BY <2>1, FS_Interval
  <2> HIDE DEF n
  <2> QED BY <1>2, <2>2
<1>7. Order \in Surjection(1 .. n, Params)
  BY <1>1, <1>5, <1>6, FS_Injection
<1> HIDE DEF n
<1>8. Len(Order) = n
  BY <1>2, <1>4
<1> QED BY <1>2, <1>4, <1>7, <1>8 DEF Surjection

(* The words of the list passed in position i, its spare slots among them. *)
Extent0(given, room, i) == Len(given[Order[i]]) + room[Order[i]]

IsStarts(at, given, room, same) ==
  at = [i \in 1 .. Len(Order) + 1 |->
         IF i = 1 THEN FirstFree
         ELSE IF same /\ i > 2 THEN at[i - 1]
         ELSE at[i - 1] + 1 + Len(given[Order[i - 1]]) + room[Order[i - 1]]]

LEMMA PassedLengths ==
  ASSUME NEW given \in [Params -> Given], NEW room \in [Params -> Spare], NEW i \in 1 .. Len(Order)
  PROVE  /\ Order[i] \in Params /\ given[Order[i]] \in Seq(Vals) /\ room[Order[i]] \in Nat
         /\ Len(given[Order[i]]) \in Nat /\ Extent0(given, room, i) \in Nat
<1>1. Order[i] \in Params
  BY OrderFacts
<1>2. given[Order[i]] \in Seq(Vals) /\ room[Order[i]] \in Nat
  BY <1>1, ListsAssumption
<1>3. Len(given[Order[i]]) \in Nat
  BY <1>2
<1> QED BY <1>1, <1>2, <1>3 DEF Extent0

LEMMA StartsFacts ==
  ASSUME NEW given \in [Params -> Given], NEW room \in [Params -> Spare], NEW same \in BOOLEAN
  PROVE  LET at == Starts(given, room, same)
         IN  /\ at[1] = FirstFree /\ at[1] <= at[Len(Order) + 1]
             /\ \A i \in 1 .. Len(Order) + 1 : at[i] \in Nat
             /\ \A i \in Records(same) : \A j \in (i + 1) .. (Len(Order) + 1) :
                  at[i] + Extent0(given, room, i) < at[j]
<1> DEFINE n == Len(Order)
           Go(i, x) == IF same /\ i > 2 THEN x ELSE x + 1 + Len(given[Order[i - 1]]) + room[Order[i - 1]]
           T == [i \in 1 .. n + 1 |-> Nat]
           G == [i \in 2 .. n + 1 |-> [x \in Nat |-> Go(i, x)]]
           at == Starts(given, room, same)
<1>1. n \in Nat /\ 1 \in Nat /\ n + 1 \in Nat
  BY OrderFacts
<1>2. FirstFree \in Nat
  BY Constants DEF FirstFree
<1>3. ASSUME NEW i \in 2 .. n + 1, NEW x \in Nat
      PROVE  /\ Go(i, x) \in Nat /\ x <= Go(i, x)
             /\ ~ (same /\ i > 2) => Go(i, x) = x + 1 + Extent0(given, room, i - 1)
  <2>1. i - 1 \in 1 .. n
    BY <1>1
  <2>2. Len(given[Order[i - 1]]) \in Nat /\ room[Order[i - 1]] \in Nat
    BY <2>1, PassedLengths
  <2>3. CASE same /\ i > 2
    BY <2>3
  <2>4. CASE ~ (same /\ i > 2)
    <3>1. Go(i, x) = x + 1 + Len(given[Order[i - 1]]) + room[Order[i - 1]]
      BY <2>4
    <3>2. Extent0(given, room, i - 1) = Len(given[Order[i - 1]]) + room[Order[i - 1]]
      BY DEF Extent0
    <3>3. Extent0(given, room, i - 1) \in Nat
      BY <2>1, PassedLengths
    <3> DEFINE L == Len(given[Order[i - 1]])
               r == room[Order[i - 1]]
    <3>4. Go(i, x) = x + 1 + Extent0(given, room, i - 1)
      <4>1. L \in Nat /\ r \in Nat /\ Go(i, x) = x + 1 + L + r /\ Extent0(given, room, i - 1) = L + r
        BY <2>2, <3>1, <3>2
      <4> HIDE DEF L, r, Go
      <4> QED BY <4>1
    <3> HIDE DEF Go
    <3> QED BY <3>3, <3>4
  <2> QED BY <2>3, <2>4
<1> HIDE DEF n, Go
<1>4. FirstFree \in T[1] /\ Steps(G, 1, n + 1, T)
  BY <1>1, <1>2, <1>3 DEF Steps
<1>5. \E f : IsStarts(f, given, room, same)
  <2> HIDE DEF T, G
  <2>1. PICK f : IsRun(f, 1, n + 1, FirstFree, G) /\ Valued(f, 1, n + 1, T)
    BY <1>1, <1>4, Recursion
  <2>2. f = [i \in 1 .. n + 1 |-> f[i]]
    BY <2>1 DEF IsRun
  <2>3. ASSUME NEW i \in 1 .. n + 1 PROVE f[i] = IF i = 1 THEN FirstFree ELSE Go(i, f[i - 1])
    <3>1. CASE i = 1
      BY <2>1, <3>1 DEF IsRun
    <3>2. CASE i # 1
      <4>1. i \in 2 .. n + 1 /\ i - 1 \in 1 .. n + 1
        BY <1>1, <3>2
      <4>2. f[i] = G[i][f[i - 1]] /\ f[i - 1] \in Nat
        BY <2>1, <3>2, <4>1 DEF IsRun, Valued, T
      <4> QED BY <3>2, <4>1, <4>2 DEF G
    <3> QED BY <3>1, <3>2
  <2>4. f = [i \in 1 .. n + 1 |-> IF i = 1 THEN FirstFree ELSE Go(i, f[i - 1])]
    BY <2>2, <2>3
  <2> QED BY <2>4, Zenon DEF IsStarts, Go, n
<1>6. at = CHOOSE f : IsStarts(f, given, room, same)
  BY Zenon DEF Starts, IsStarts
<1>7. IsStarts(at, given, room, same)
  BY <1>5, <1>6, Zenon
<1> HIDE DEF at
<1>8. at = [i \in 1 .. n + 1 |-> IF i = 1 THEN FirstFree ELSE Go(i, at[i - 1])]
  BY <1>7, Zenon DEF IsStarts, Go, n
<1>9. at[1] = FirstFree /\ \A i \in 2 .. n + 1 : at[i] = Go(i, at[i - 1])
  BY <1>1, <1>8
<1>10. Valued(at, 1, n + 1, T)
  <2>1. at[1] \in T[1]
    BY <1>1, <1>2, <1>9
  <2>2. ASSUME NEW i \in (1 + 1) .. n + 1, at[i - 1] \in T[i - 1] PROVE at[i] \in T[i]
    BY <1>1, <1>3, <1>9, <2>2
  <2> HIDE DEF T
  <2> QED BY <1>1, <2>1, <2>2, Along
<1>11. \A i \in 1 .. n + 1 : at[i] \in Nat
  BY <1>10 DEF Valued
(* From a start on, the starts lie above anything that start lies above. *)
<1>12. ASSUME NEW b \in Int, NEW k \in 1 .. n + 1, b <= at[k]
       PROVE  \A j \in k .. n + 1 : b <= at[j]
  <2> DEFINE U == [j \in k .. n + 1 |-> {x \in Nat : b <= x}]
  <2>1. at[k] \in U[k]
    BY <1>11, <1>12
  <2>2. ASSUME NEW j \in (k + 1) .. n + 1, at[j - 1] \in U[j - 1] PROVE at[j] \in U[j]
    <3>1. j \in 2 .. n + 1 /\ j \in k .. n + 1 /\ j - 1 \in k .. n + 1
      BY <1>1
    <3>2. at[j - 1] \in Nat /\ b <= at[j - 1]
      BY <2>2, <3>1
    <3>3. at[j] = Go(j, at[j - 1]) /\ at[j] \in Nat /\ at[j - 1] <= at[j]
      BY <1>3, <1>9, <3>1, <3>2
    <3> QED BY <3>1, <3>2, <3>3
  <2>3. Valued(at, k, n + 1, U)
    <3> HIDE DEF U
    <3>1. k \in Nat
      BY <1>1
    <3> QED BY <1>1, <2>1, <2>2, <3>1, Along
  <2> QED BY <2>3 DEF Valued
<1>13. at[1] <= at[n + 1]
  BY <1>1, <1>11, <1>12
<1>14. ASSUME NEW i \in Records(same), NEW j \in (i + 1) .. (n + 1)
       PROVE  at[i] + Extent0(given, room, i) < at[j]
  <2>1. i \in 1 .. n /\ (same => i = 1)
    BY OrderFacts DEF Records, n
  <2>2. i + 1 \in 2 .. n + 1 /\ i + 1 \in 1 .. n + 1 /\ i \in 1 .. n + 1
        /\ (i + 1) - 1 = i /\ ~ (same /\ i + 1 > 2)
    BY <1>1, <2>1
  <2>3. at[i + 1] = Go(i + 1, at[i]) /\ at[i] \in Nat
    BY <1>9, <1>11, <2>2
  <2>4. at[i + 1] = at[i] + 1 + Extent0(given, room, i)
    BY <1>3, <2>2, <2>3
  <2>5. Extent0(given, room, i) \in Nat
    BY <2>1, PassedLengths DEF n
  <2>6. at[i] + 1 + Extent0(given, room, i) <= at[j]
    BY <1>12, <2>2, <2>3, <2>4, <2>5
  <2>7. at[j] \in Nat
    BY <1>1, <1>11, <2>1
  <2> QED BY <2>3, <2>5, <2>6, <2>7
<1> QED BY <1>9, <1>11, <1>13, <1>14 DEF at, n

(* The words of the dict a caller passes. *)
LEMMA DictWords ==
  LET m == DictAt(Blank, HeapBase) IN
  /\ HeapBase \in Page => m[HeapBase] = W(Len(Table), Len(Table) + 1)
  /\ \A i \in 1 .. 2 * Len(Table) : HeapBase + i \in Page => m[HeapBase + i] \in Vals /\ m[HeapBase + i] = Entry(i)
  /\ \A a \in Page : a > HeapBase + 2 * Len(Table) => m[a] = Zero
  /\ \A a \in Page : m[a] \in Word
<1> DEFINE m == DictAt(Blank, HeapBase)
           d == HeapBase
           k == Len(Table)
           entry(a) == Table[((a - d - 1) \div 2) + 1][((a - d - 1) % 2) + 1]
<1>1. d \in Nat /\ k \in Nat
  BY Constants
<1>2. \A a \in Page : m[a] = IF a = d THEN W(k, k + 1)
                            ELSE IF a \in (d + 1) .. (d + 2 * k) THEN entry(a) ELSE Zero
  BY <1>1 DEF DictAt, Blank
<1> HIDE DEF m, d
<1>3. ASSUME NEW a \in (d + 1) .. (d + 2 * k) PROVE entry(a) \in Vals
  <2> DEFINE i == ((a - d - 1) \div 2) + 1
             j == ((a - d - 1) % 2) + 1
  <2>1. i \in 1 .. k /\ (j = 1 \/ j = 2)
    <3>1. a - d - 1 \in Nat /\ a - d - 1 < 2 * k
      BY <1>1
    <3> DEFINE b == a - d - 1
    <3> HIDE DEF b
    <3>2. (b \div 2) + 1 \in 1 .. k /\ ((b % 2) + 1 = 1 \/ (b % 2) + 1 = 2)
      BY <1>1, <3>1 DEF b
    <3> QED BY <3>2 DEF b
  <2>2. Table[i] \in Vals \X Vals
    BY <2>1, ListsAssumption
  <2> HIDE DEF i, j
  <2>3. Table[i][1] \in Vals /\ Table[i][2] \in Vals
    BY <2>2
  <2>4. Table[i][j] \in Vals
    BY <2>1, <2>3
  <2> QED BY <2>4 DEF i, j
<1>8. \A i \in 1 .. 2 * k : (d + i) - d - 1 = i - 1
  BY <1>1
<1>9. \A i \in 1 .. 2 * k : entry(d + i) = Entry(i)
  BY <1>8 DEF Entry
<1> HIDE DEF k, entry
<1>4. W(k, k + 1) \in Word
  BY <1>1 DEF W, Word
<1>5. \A i \in 1 .. 2 * k : d + i \in (d + 1) .. (d + 2 * k) /\ d + i # d
  BY <1>1
<1>6. \A a \in Page : a > d + 2 * k => a # d /\ a \notin (d + 1) .. (d + 2 * k)
  BY <1>1, Constants
<1>7. /\ d \in Page => m[d] = W(k, k + 1)
      /\ \A i \in 1 .. 2 * k : d + i \in Page => m[d + i] \in Vals /\ m[d + i] = Entry(i)
      /\ \A a \in Page : a > d + 2 * k => m[a] = Zero
      /\ \A a \in Page : m[a] \in Word
  BY <1>2, <1>3, <1>4, <1>5, <1>6, <1>9, Constants
<1> QED BY <1>7 DEF m, d, k

(* The heap with the dict and the lists on it is tidy. *)
LEMMA PassedHeap ==
  ASSUME NEW given \in [Params -> Given], NEW room \in [Params -> Spare], NEW same \in BOOLEAN,
         Starts(given, room, same)[Len(Order) + 1] <= PageWords
  PROVE  LET at == Starts(given, room, same)
         IN  /\ at[Len(Order) + 1] \in Nat
             /\ Tidy(Passed(given, room, same), at[Len(Order) + 1], HeapBase, {at[i] : i \in Records(same)})
<1> DEFINE n == Len(Order)
           at == Starts(given, room, same)
           len(i) == Len(given[Order[i]])
           ext(i) == Extent0(given, room, i)
           h == at[n + 1]
           m == Passed(given, room, same)
           here(a) == {i \in Records(same) : a \in at[i] .. (at[i] + len(i))}
           word(a, i) == LET s == given[Order[i]]  r == room[Order[i]] IN
                         IF a = at[i] THEN W(Len(s), IF r = 0 THEN 0 ELSE Len(s) + r) ELSE s[a - at[i]]
           R == {at[i] : i \in Records(same)}
           d == HeapBase
<1>1. /\ n \in Nat /\ at[1] = FirstFree /\ at[1] <= h /\ h \in Nat
      /\ \A i \in 1 .. n + 1 : at[i] \in Nat
      /\ \A i \in Records(same) : \A j \in (i + 1) .. (n + 1) : at[i] + ext(i) < at[j]
  <2>1. n \in Nat
    BY OrderFacts
  <2>2. /\ at[1] = FirstFree /\ at[1] <= h /\ \A i \in 1 .. n + 1 : at[i] \in Nat
        /\ \A i \in Records(same) : \A j \in (i + 1) .. (n + 1) : at[i] + ext(i) < at[j]
    BY StartsFacts
  <2> HIDE DEF n, at, ext
  <2> QED BY <2>1, <2>2
<1>2. h <= PageWords
  OBVIOUS
<1>3. m = [a \in Page |-> IF here(a) = {} THEN DictAt(Blank, d)[a] ELSE word(a, CHOOSE i \in here(a) : TRUE)]
  BY Zenon DEF Passed
<1>4. ASSUME NEW i \in Records(same)
      PROVE  /\ i \in 1 .. n /\ len(i) \in Nat /\ ext(i) \in Nat /\ len(i) <= ext(i)
             /\ given[Order[i]] \in Seq(Vals) /\ room[Order[i]] \in Nat
             /\ ext(i) = len(i) + room[Order[i]]
  <2>1. i \in 1 .. n
    BY OrderFacts DEF Records
  <2> QED BY <2>1, PassedLengths DEF Extent0
<1>5. FirstFree = HeapBase + 3 + 2 * Len(Table) /\ DictEnd(d) + 1 = FirstFree /\ d \in Nat /\ d > 0
      /\ Len(Table) \in Nat
  BY Constants DEF FirstFree, DictEnd
<1> HIDE DEF n, at, ext, len, h, m, here, word, d
<1>6. ASSUME NEW i \in Records(same)
      PROVE  at[i] \in Nat /\ FirstFree <= at[i] /\ at[i] + ext(i) < h
  <2>1. at[i] \in Nat
    BY <1>1, <1>4
  <2>2. FirstFree <= at[i]
    <3>1. CASE i = 1
      BY <1>1, <1>5, <3>1
    <3>2. CASE i # 1
      <4>1. ~ same
        BY <3>2 DEF Records
      <4>2. 1 \in Records(same) /\ i \in (1 + 1) .. (n + 1)
        BY <1>1, <1>4, <3>2, <4>1, OrderFacts DEF Records, n
      <4>3. at[1] + ext(1) < at[i] /\ ext(1) \in Nat
        BY <1>1, <1>4, <4>2
      <4> QED BY <1>1, <1>5, <2>1, <4>3
    <3> QED BY <3>1, <3>2
  <2>3. n + 1 \in (i + 1) .. (n + 1)
    BY <1>1, <1>4
  <2>4. at[i] + ext(i) < at[n + 1]
    BY <1>1, <2>3
  <2> QED BY <2>1, <2>2, <2>4 DEF h
<1>7. ASSUME NEW i \in Records(same), NEW j \in Records(same), i # j
      PROVE  at[i] + ext(i) < at[j] \/ at[j] + ext(j) < at[i]
  <2>1. i \in 1 .. n /\ j \in 1 .. n
    BY <1>4
  <2>2. j \in (i + 1) .. (n + 1) \/ i \in (j + 1) .. (n + 1)
    BY <1>1, <1>7, <2>1
  <2> QED BY <1>1, <2>2
<1>8. ASSUME NEW i \in Records(same), NEW a \in at[i] .. (at[i] + len(i))
      PROVE  a \in Page /\ m[a] = word(a, i)
  <2>1. a \in Nat /\ at[i] <= a /\ a <= at[i] + len(i)
    BY <1>4, <1>6
  <2>2. a \in Page
    <3>1. at[i] \in Nat /\ FirstFree <= at[i] /\ at[i] + ext(i) < h /\ len(i) \in Nat /\ ext(i) \in Nat
          /\ len(i) <= ext(i) /\ h \in Nat /\ FirstFree \in Nat /\ HeapBase \in Nat /\ HeapBase <= FirstFree
      BY <1>1, <1>4, <1>5, <1>6, Constants
    <3>2. a < h /\ HeapBase <= a
      BY <2>1, <3>1
    <3> QED BY <1>2, <2>1, <3>1, <3>2, Constants DEF Page
  <2>3. i \in here(a)
    BY <2>1 DEF here
  <2>4. ASSUME NEW j \in here(a) PROVE j = i
    <3>1. j \in Records(same) /\ at[j] <= a /\ a <= at[j] + len(j)
      BY <1>4, <1>6, <2>1, <2>4 DEF here
    <3>2. j \in Nat /\ i \in Nat /\ at[i] \in Nat /\ at[j] \in Nat /\ len(i) \in Nat /\ ext(i) \in Nat
          /\ len(j) \in Nat /\ ext(j) \in Nat /\ len(i) <= ext(i) /\ len(j) <= ext(j)
      BY <1>4, <1>6, <3>1
    <3>3. ~ (at[i] + ext(i) < at[j] \/ at[j] + ext(j) < at[i])
      BY <2>1, <3>1, <3>2
    <3> QED BY <1>7, <3>1, <3>3
  <2>5. (CHOOSE j \in here(a) : TRUE) = i
    <3>1. (CHOOSE j \in here(a) : TRUE) \in here(a)
      BY <2>3
    <3> QED BY <2>4, <3>1
  <2>6. here(a) # {}
    BY <2>3
  <2> QED BY <1>3, <2>2, <2>5, <2>6
<1>9. ASSUME NEW a \in Page, a < FirstFree \/ a >= h PROVE m[a] = DictAt(Blank, d)[a]
  <2>1. ASSUME NEW i \in here(a) PROVE FALSE
    <3>1. i \in Records(same) /\ at[i] <= a /\ a <= at[i] + len(i)
      BY <1>4, <1>6, <2>1, Constants DEF here
    <3> QED BY <1>1, <1>4, <1>6, <1>9, <3>1, Constants, <1>5
  <2>2. here(a) = {}
    BY <2>1
  <2> QED BY <1>3, <2>2
<1>10. m \in [Page -> Word]
  <2>1. ASSUME NEW a \in Page PROVE DictAt(Blank, d)[a] \in Word
    BY DictWords DEF d
  <2>2. ASSUME NEW a \in Page, NEW i \in here(a) PROVE word(a, i) \in Word
    <3>1. i \in Records(same) /\ at[i] <= a /\ a <= at[i] + len(i)
      BY <1>4, <1>6, <2>2, Constants DEF here
    <3>2. CASE a = at[i]
      <4>1. word(a, i) = W(len(i), IF room[Order[i]] = 0 THEN 0 ELSE len(i) + room[Order[i]])
        BY <3>2 DEF word, len
      <4> QED BY <1>4, <3>1, <4>1 DEF W, Word
    <3>3. CASE a # at[i]
      <4>1. word(a, i) = given[Order[i]][a - at[i]]
        BY <3>3 DEF word
      <4>2. a - at[i] \in 1 .. len(i)
        BY <1>4, <1>6, <3>1, <3>3, Constants
      <4>3. given[Order[i]][a - at[i]] \in Vals
        BY <1>4, <3>1, <4>2 DEF len
      <4> QED BY <4>1, <4>3, Constants
    <3> QED BY <3>2, <3>3
  <2>3. ASSUME NEW a \in Page, here(a) # {} PROVE (CHOOSE i \in here(a) : TRUE) \in here(a)
    BY <2>3
  <2> QED BY <1>3, <2>1, <2>2, <2>3
<1>11. ASSUME NEW i \in Records(same)
       PROVE  IsList(m, at[i]) /\ Top(m, at[i]) <= ext(i)
  <2> DEFINE p == at[i]
  <2>1. p \in p .. (p + len(i)) /\ \A j \in 1 .. len(i) : p + j \in p .. (p + len(i)) /\ (p + j) - p = j /\ p + j # p
    BY <1>4, <1>6
  <2>2. p \in Page /\ m[p] = word(p, i)
    BY <1>8, <2>1
  <2>3. Count(m, p) = len(i) /\ Cap(m, p) = IF room[Order[i]] = 0 THEN 0 ELSE len(i) + room[Order[i]]
    BY <2>2 DEF word, Count, Cap, W, len
  <2>4. ASSUME NEW j \in 1 .. len(i) PROVE m[p + j] \in Vals
    <3>1. m[p + j] = word(p + j, i)
      BY <1>8, <2>1
    <3>2. m[p + j] = given[Order[i]][j]
      BY <2>1, <3>1 DEF word
    <3> QED BY <1>4, <3>2 DEF len
  <2>5. p + len(i) < PageWords
    BY <1>1, <1>2, <1>4, <1>6, Constants
  <2> HIDE DEF p
  <2>6. IsList(m, p)
    BY <1>4, <2>2, <2>3, <2>4, <2>5 DEF IsList
  <2>7. Top(m, p) <= ext(i)
    BY <1>4, <2>3 DEF Top
  <2> QED BY <2>6, <2>7 DEF p
<1>12. IsDict(m, d)
  <2>1. \A i \in 0 .. 2 * Len(Table) : d + i \in Page /\ d + i < FirstFree
    BY <1>1, <1>2, <1>5, Constants DEF Page, d
  <2>2. \A i \in 0 .. 2 * Len(Table) : m[d + i] = DictAt(Blank, d)[d + i]
    BY <1>9, <2>1
  <2>3. 0 \in 0 .. 2 * Len(Table) /\ d + 0 = d /\ 2 * Len(Table) \in 0 .. 2 * Len(Table)
    BY <1>5
  <2>4. m[d] = W(Len(Table), Len(Table) + 1)
    BY <2>1, <2>2, <2>3, DictWords DEF d
  <2>5. \A i \in 1 .. 2 * Len(Table) : m[d + i] \in Vals /\ m[d + i] = Entry(i)
    BY <2>1, <2>2, DictWords DEF d
  <2>6. d \in Page /\ d + 2 * Len(Table) < PageWords
    BY <2>1, <2>3, Constants
  <2> QED BY <2>4, <2>5, <2>6 DEF IsDict
<1>13. ZeroFrom(m, h)
  <2>1. ASSUME NEW a \in Page, a >= h PROVE m[a] = Zero
    <3>1. a > d + 2 * Len(Table)
      BY <1>1, <1>5, <2>1, Constants DEF d
    <3> QED BY <1>9, <2>1, <3>1, DictWords DEF d
  <2> QED BY <2>1 DEF ZeroFrom
<1> DEFINE t == [p \in R |-> Top(m, p)]
<1>14. ASSUME NEW i \in Records(same)
       PROVE  /\ IsList(m, at[i]) /\ t[at[i]] = Top(m, at[i]) /\ t[at[i]] \in Nat /\ t[at[i]] <= ext(i)
              /\ DictEnd(d) < at[i] /\ at[i] + t[at[i]] < h
  <2>1. t[at[i]] = Top(m, at[i])
    OBVIOUS
  <2>2. Top(m, at[i]) \in Nat
    BY <1>11 DEF Top, IsList
  <2>3. DictEnd(d) < at[i]
    BY <1>5, <1>6 DEF DictEnd
  <2> HIDE DEF t
  <2> QED BY <1>1, <1>4, <1>6, <1>11, <2>1, <2>2, <2>3
<1>15. Heap(m, h, d, R, t)
  <2>1. ASSUME NEW p \in R
        PROVE  IsList(m, p) /\ t[p] \in Nat /\ Top(m, p) <= t[p] /\ DictEnd(d) < p /\ p + t[p] < h
    <3>1. PICK i \in Records(same) : p = at[i]
      OBVIOUS
    <3> HIDE DEF t
    <3> QED BY <1>14, <3>1
  <2>2. ASSUME NEW p \in R, NEW q \in R, p # q PROVE p + t[p] < q \/ q + t[q] < p
    <3>1. PICK i \in Records(same) : p = at[i]
      OBVIOUS
    <3>2. PICK j \in Records(same) : q = at[j]
      OBVIOUS
    <3> HIDE DEF t
    <3>3. at[i] + ext(i) < at[j] \/ at[j] + ext(j) < at[i]
      BY <1>7, <2>2, <3>1, <3>2
    <3>4. /\ at[i] \in Nat /\ ext(i) \in Nat /\ t[at[i]] \in Nat /\ t[at[i]] <= ext(i)
          /\ at[j] \in Nat /\ ext(j) \in Nat /\ t[at[j]] \in Nat /\ t[at[j]] <= ext(j)
      BY <1>4, <1>6, <1>14
    <3>5. at[i] + t[at[i]] < at[j] \/ at[j] + t[at[j]] < at[i]
      BY <3>3, <3>4
    <3> QED BY <3>1, <3>2, <3>5
  <2>3. DictEnd(d) < h
    BY <1>1, <1>5 DEF DictEnd
  <2> HIDE DEF t, R
  <2> QED BY <1>1, <1>10, <1>12, <2>1, <2>2, <2>3 DEF Heap
<1> QED BY <1>1, <1>13, <1>15 DEF Tidy, at, h, m, n, d

LEMMA InitInv == Init => LInv
<1> SUFFICES ASSUME Init PROVE LInv
  OBVIOUS
<1>1. PICK given \in [Params -> Given], room \in [Params -> Spare], same \in BOOLEAN :
        LET at == Starts(given, room, same) IN
        /\ hp = at[Len(Order) + 1] /\ hp <= PageWords
        /\ mem = Passed(given, room, same)
        /\ loc = [x \in Names |-> IF x \notin Params THEN 0
                                  ELSE at[IF same THEN 1 ELSE CHOOSE i \in DOMAIN Order : Order[i] = x]]
  BY DEF Init
<1> DEFINE at == Starts(given, room, same)
           R == {at[i] : i \in Records(same)}
           pos(x) == IF same THEN 1 ELSE CHOOSE i \in DOMAIN Order : Order[i] = x
<1>2. /\ hp = at[Len(Order) + 1] /\ hp <= PageWords /\ mem = Passed(given, room, same)
      /\ loc = [x \in Names |-> IF x \notin Params THEN 0 ELSE at[pos(x)]]
  BY <1>1
<1>3. hp \in Nat /\ Tidy(mem, hp, dct, R)
  <2>1. dct = HeapBase /\ at[Len(Order) + 1] <= PageWords
    BY <1>2 DEF Init
  <2>2. at[Len(Order) + 1] \in Nat /\ Tidy(Passed(given, room, same), at[Len(Order) + 1], HeapBase, R)
    BY <2>1, PassedHeap
  <2> HIDE DEF at, R
  <2> QED BY <1>2, <2>1, <2>2
<1>4. \A i \in 1 .. Len(Order) + 1 : at[i] \in Nat
  BY StartsFacts
<1>5. ASSUME NEW x \in Params PROVE pos(x) \in Records(same) /\ pos(x) \in 1 .. Len(Order) + 1
  <2>1. PICK i \in DOMAIN Order : Order[i] = x
    BY OrderFacts
  <2>2. Len(Order) \in Nat /\ DOMAIN Order = 1 .. Len(Order) /\ 1 \in 1 .. Len(Order)
    BY <2>1, OrderFacts
  <2>3. CASE same
    <3>1. pos(x) = 1
      BY <2>3
    <3> QED BY <2>2, <2>3, <3>1 DEF Records
  <2>4. CASE ~ same
    <3>1. pos(x) \in DOMAIN Order
      BY <2>1, <2>4
    <3> HIDE DEF pos
    <3> QED BY <2>2, <2>4, <3>1 DEF Records
  <2> QED BY <2>3, <2>4
<1> HIDE DEF at, pos
<1>6. loc \in [Names -> Nat]
  BY <1>2, <1>4, <1>5
<1>7. Lists \in SUBSET R
  BY <1>2, <1>5 DEF Lists, Live, Bound
<1> HIDE DEF R
<1>8. Tidy(mem, hp, dct, Lists)
  <2>1. Heap(mem, hp, dct, R, [p \in R |-> Top(mem, p)]) /\ ZeroFrom(mem, hp)
    BY <1>3 DEF Tidy
  <2> QED BY <1>7, <2>1, Settled
<1>9. mem \in [Page -> Word]
  BY <1>8 DEF Tidy, Heap
<1>10. ListsTypeOK
  BY <1>3, <1>6, <1>9, Constants DEF ListsTypeOK, Init
<1> QED BY <1>8, <1>10 DEF LInv

-----------------------------------------------------------------------------
(* Theorems.                                                                 *)

(* The heap stays tidy: the emitted list helpers and literals, whatever      *)
(* operands they evaluate, keep every list within the words it reserved.     *)
THEOREM ListHeapTidy == Spec => []LInv
<1>1. Init => LInv
  BY InitInv
<1>2. LInv /\ [Next]_vars => LInv'
  BY NextInv
<1> QED BY <1>1, <1>2, PTL DEF Spec

LEMMA InvInside == LInv => ListsInside
<1> SUFFICES ASSUME LInv PROVE ListsInside
  OBVIOUS
<1>1. ListsTypeOK
  BY DEF LInv
<1>2. \A p \in Lists : IsList(mem, p)
  BY InvFacts DEF Heap
<1> QED BY <1>1, <1>2, Constants DEF ListsInside, IsList

(* Lists stay inside their reservation and the page: an append that passed   *)
(* the capacity guard never writes another record's words.                   *)
THEOREM ListsStayInside == Spec => []ListsInside
  BY ListHeapTidy, InvInside, PTL

LEMMA InvApart == LInv => ListsApart
<1> SUFFICES ASSUME LInv PROVE ListsApart
  OBVIOUS
<1>1. Heap(mem, hp, dct, Lists, Reach) /\ hp \in Nat
  BY InvFacts
<1>2. dct \in Nat /\ Cap(mem, dct) = Len(Table) + 1 /\ Len(Table) \in Nat
  BY <1>1, Constants DEF Heap, IsDict, Cap, W
<1>3. DictEnd(dct) = dct + 2 * Cap(mem, dct)
  BY <1>2 DEF DictEnd
<1>4. ASSUME NEW p \in Lists
      PROVE  /\ Extent(p) = p .. (p + Top(mem, p)) /\ p \in Nat /\ Top(mem, p) \in Nat
             /\ Reach[p] = Top(mem, p) /\ DictEnd(dct) < p /\ p + Top(mem, p) < hp
  <2>1. IsList(mem, p) /\ DictEnd(dct) < p /\ p + Reach[p] < hp /\ Reach[p] = Top(mem, p)
    BY <1>1 DEF Heap, Reach
  <2>2. Count(mem, p) \in Nat /\ Cap(mem, p) \in Nat /\ p \in Nat
    BY <2>1, Constants DEF IsList
  <2>3. Max({Count(mem, p), Cap(mem, p)}) = IF Count(mem, p) >= Cap(mem, p) THEN Count(mem, p) ELSE Cap(mem, p)
    BY <2>2, MaxOfTwo
  <2>4. Max({Count(mem, p), Cap(mem, p)}) = Top(mem, p) /\ Top(mem, p) \in Nat
    BY <2>2, <2>3 DEF Top
  <2> QED BY <2>1, <2>2, <2>4 DEF Extent
<1> HIDE DEF Extent
<1>5. ASSUME NEW p \in Lists, NEW q \in Lists, p # q PROVE Extent(p) \cap Extent(q) = {}
  <2>1. p + Reach[p] < q \/ q + Reach[q] < p
    BY <1>1, <1>5 DEF Heap
  <2> QED BY <1>4, <2>1
<1>6. ASSUME NEW p \in Lists
      PROVE  /\ Extent(p) \cap (dct .. (dct + 2 * Cap(mem, dct))) = {}
             /\ \A a \in Extent(p) : a < hp
  BY <1>1, <1>2, <1>3, <1>4
<1> QED BY <1>5, <1>6 DEF ListsApart

(* No list shares a word with another or with the dict, and allocation       *)
(* continues above them all, though aliases, pops of other lists in the      *)
(* operands and in-place growth go on.                                       *)
THEOREM ListsStayApart == Spec => []ListsApart
  BY ListHeapTidy, InvApart, PTL

-----------------------------------------------------------------------------
(* x.sort(reverse=d) orders the list x names, for every name that holds it,  *)
(* and leaves every other list as it was.                                    *)
SortDone(x, desc) ==
  stmt' = [op |-> "sort", x |-> x, args |-> <<desc>>] =>
    /\ UNCHANGED <<loc, hp, trap>>
    /\ \E p : Arranges(p, elems(mem', loc[x]), elems(mem, loc[x]), desc, Count(mem, loc[x]))
    /\ \A q \in Lists \ {loc[x]} : elems(mem', q) = elems(mem, q)

(* The elements that put_elems leaves behind. *)
LEMMA PutElems ==
  ASSUME NEW m \in [Page -> Word], NEW p, IsList(m, p),
         NEW f \in Seq(Vals), Len(f) = Count(m, p)
  PROVE  elems(put_elems(m, p, Count(m, p), f), p) = f
<1>1. PICK c \in Nat : c = Count(m, p)
  BY DEF IsList
<1>2. PICK n : n = put_elems(m, p, c, f)
  OBVIOUS
<1>3. n = [a \in Page |-> IF a \in (p + 1) .. (p + c) THEN f[a - p] ELSE m[a]]
  BY <1>2 DEF put_elems
<1>4. p \in Page /\ p \in Nat /\ p + c < PageWords
  BY <1>1, Constants DEF IsList
<1>5. n[p] = m[p]
  BY <1>3, <1>4
<1>6. Count(n, p) = c
  BY <1>1, <1>5 DEF Count
<1>7. ASSUME NEW j \in 1 .. c PROVE n[p + j] = f[j]
  <2>1. p + j \in Page /\ p + j \in (p + 1) .. (p + c) /\ (p + j) - p = j
    BY <1>4, Constants DEF Page
  <2> QED BY <1>3, <2>1
<1>8. elems(n, p) = [j \in 1 .. c |-> f[j]]
  BY <1>6, <1>7 DEF elems
<1>9. f = [j \in 1 .. c |-> f[j]]
  BY <1>1
<1> QED BY <1>1, <1>2, <1>8, <1>9

(* What a sort statement does to the list its name holds and to the others. *)
LEMMA SortStep ==
  ASSUME LInv, NEW x \in Names, NEW desc \in BOOLEAN, Bound(x),
         Rewrite(list_sort(mem, loc[x], desc), Zero)
  PROVE  SortDone(x, desc)
<1>1. PICK b : b = loc[x]
  OBVIOUS
<1>2. PICK c : c = Count(mem, b)
  OBVIOUS
<1>3. PICK s : s = elems(mem, b)
  OBVIOUS
<1>4. PICK f : f = insertion_sort(s, desc)
  OBVIOUS
<1>5. /\ b \in Lists /\ IsList(mem, b) /\ Reach[b] \in Nat /\ Top(mem, b) <= Reach[b]
      /\ mem \in [Page -> Word] /\ Heap(mem, hp, dct, Lists, Reach)
  BY <1>1, InvFacts
<1>6. s \in Seq(Vals) /\ Len(s) = c /\ f \in Seq(Vals) /\ Len(f) = c
  BY <1>2, <1>3, <1>4, <1>5, ListSeqs DEF list_sorted
<1>7. PICK n : n = put_elems(mem, b, c, f)
  OBVIOUS
<1>8. mem' = n /\ UNCHANGED <<loc, hp, trap>>
  <2>1. list_sort(mem, b, desc) = n
    BY <1>2, <1>3, <1>4, <1>7 DEF list_sort
  <2> QED BY <1>1, <2>1 DEF Rewrite
<1>9. InPlace(mem, b, n, Reach[b])
  <2>1. \A j \in 1 .. c : f[j] \in Vals
    BY <1>6
  <2> QED BY <1>2, <1>5, <1>7, <2>1, PutInPlace
<1>10. elems(n, b) = f
  BY <1>2, <1>5, <1>6, <1>7, PutElems
<1>11. \E p : Arranges(p, f, s, desc, c)
  <2>1. \A v \in Vals : v.lo \in Int
    BY Constants DEF Word
  <2> QED BY <1>4, <1>6, <2>1, SortIsStable
<1>12. ASSUME NEW q \in Lists, q # b PROVE elems(n, q) = elems(mem, q)
  <2>1. \A a \in q .. q + Reach[q] : a \in Page => n[a] = mem[a]
    BY <1>5, <1>9, <1>12, InPlaceHeap
  <2>2. PICK k \in Nat : k = Count(mem, q)
    BY <1>5 DEF Heap, IsList
  <2>3. q \in Page /\ q \in Nat /\ q + k < PageWords /\ k <= Reach[q] /\ Reach[q] \in Nat
    <3>1. IsList(mem, q) /\ Reach[q] \in Nat /\ Top(mem, q) <= Reach[q]
      BY <1>5 DEF Heap
    <3> QED BY <2>2, <3>1, Constants DEF IsList, Top
  <2>4. n[q] = mem[q]
    BY <2>1, <2>3
  <2>5. ASSUME NEW j \in 1 .. k PROVE n[q + j] = mem[q + j]
    <3>1. q + j \in q .. q + Reach[q] /\ q + j \in Page
      BY <2>3, Constants DEF Page
    <3> QED BY <2>1, <3>1
  <2>6. Count(n, q) = k
    BY <2>2, <2>4 DEF Count
  <2> QED BY <2>2, <2>5, <2>6 DEF elems
<1> QED BY <1>1, <1>2, <1>3, <1>8, <1>10, <1>11, <1>12 DEF SortDone

(* Sorting a list that other names alias, or that parameters share, is       *)
(* sorting the one record: every name that holds it sees Python's order,     *)
(* stable in both directions, and no other list changes.                     *)
THEOREM SortsInPlace ==
  Spec => [][\A x \in Names, desc \in BOOLEAN : SortDone(x, desc)]_vars
<1>1. LInv /\ [Next]_vars => [\A x \in Names, desc \in BOOLEAN : SortDone(x, desc)]_vars
  <2> SUFFICES ASSUME LInv, Next, ~ UNCHANGED vars, NEW x \in Names, NEW desc \in BOOLEAN,
                      stmt' = [op |-> "sort", x |-> x, args |-> <<desc>>]
               PROVE  SortDone(x, desc)
    BY DEF SortDone
  <2>1. stmt'.op = "sort" /\ stmt'.x = x /\ stmt'.args[1] = desc
    OBVIOUS
  <2>2. ASSUME NEW op, NEW y, NEW args, Begin(op, y, args) PROVE op = "sort" /\ y = x /\ args = <<desc>>
    BY <2>1, <2>2 DEF Begin
  <2>3. PICK y \in Names : Rearrange(y)
    <3>1. ASSUME NEW y \in Names,
                 \/ BindLit(y) \/ BindAlias(y) \/ BindHelper(y) \/ ListAppend(y) \/ Insert(y)
                 \/ SetItem(y) \/ DelItem(y) \/ ListRemove(y) \/ PopValue(y)
                 \/ GetItem(y) \/ Extremum(y) \/ Total(y) \/ Query(y) \/ Length(y)
          PROVE  FALSE
      <4>1. \E op \in {"literal", "alias", "sorted", "reversed", "concat", "slice", "keys", "values",
                       "append", "insert", "setitem", "del", "remove", "pop", "getitem", "minmax",
                       "sum", "index", "count", "in", "len"} :
              \E args : Begin(op, y, args)
        <5>1. CASE BindLit(y) \/ BindAlias(y) \/ BindHelper(y)
          BY <5>1 DEF BindLit, BindAlias, BindHelper
        <5>2. CASE ListAppend(y) \/ Insert(y) \/ SetItem(y)
          BY <5>2 DEF ListAppend, Insert, SetItem
        <5>3. CASE DelItem(y) \/ ListRemove(y) \/ PopValue(y) \/ GetItem(y)
          BY <5>3 DEF DelItem, ListRemove, PopValue, GetItem
        <5>4. CASE Extremum(y) \/ Total(y) \/ Query(y) \/ Length(y)
          BY <5>4 DEF Extremum, Total, Query, Length
        <5> QED BY <3>1, <5>1, <5>2, <5>3, <5>4
      <4> QED BY <2>2, <4>1
    <3>2. ~ GetOr
      BY <2>2 DEF GetOr
    <3>3. ~ Halted
      BY DEF Halted
    <3> QED BY <3>1, <3>2, <3>3 DEF Next
  <2>4. PICK d \in BOOLEAN : Begin("sort", y, <<d>>) /\ Rewrite(list_sort(mem, loc[y], d), Zero)
    <3>1. ~ Begin("reverse", y, <<>>) /\ ~ Begin("clear", y, <<>>)
      BY <2>2
    <3> QED BY <2>3, <3>1 DEF Rearrange
  <2>5. y = x /\ d = desc
    BY <2>2, <2>4
  <2>6. Bound(x)
    BY <2>3, <2>5 DEF Rearrange
  <2> QED BY <2>4, <2>5, <2>6, SortStep
<1> QED BY <1>1, ListHeapTidy, PTL DEF Spec

-----------------------------------------------------------------------------
(* What Python sees of a list: helpers, one by one.                          *)

LEMMA SameIndex ==
  ASSUME NEW n \in Nat, NEW i \in Int
  PROVE  Py!At(n, i) = Normal(n, i) /\ (Py!Inside(n, i) <=> InBounds(n, i))
  BY DEF Py!At, Normal, Py!Inside, InBounds

LEMMA SameBound ==
  ASSUME NEW n \in Nat, NEW i \in Int
  PROVE  Py!Bounded(n, i) = Clamp(n, i)
<1>1. CASE i < 0
  <2>1. Py!Bounded(n, i) = IF i + n >= 0 THEN i + n ELSE 0
    <3>1. Py!Bounded(n, i) = Max({i + n, 0})
      BY <1>1 DEF Py!Bounded, Py!Max, Max
    <3> QED BY <3>1, MaxOfTwo
  <2>2. Min({n, i + n}) = i + n
    BY <1>1, MinOfTwo
  <2>3. Clamp(n, i) = Max({0, i + n})
    BY <1>1, <2>2 DEF Clamp, Normal
  <2> QED BY <2>1, <2>3, MaxOfTwo
<1>2. CASE ~ (i < 0)
  <2>1. Py!Bounded(n, i) = IF i <= n THEN i ELSE n
    <3>1. Py!Bounded(n, i) = Min({i, n})
      BY <1>2 DEF Py!Bounded, Py!Min, Min
    <3> QED BY <3>1, MinOfTwo
  <2>2. Min({n, i}) = IF n <= i THEN n ELSE i
    BY <1>2, MinOfTwo
  <2>3. Clamp(n, i) = Max({0, Min({n, i})})
    BY <1>2 DEF Clamp, Normal
  <2> QED BY <1>2, <2>1, <2>2, <2>3, MaxOfTwo
<1> QED BY <1>1, <1>2

(* A part of a sequence. *)
LEMMA Cut ==
  ASSUME NEW V, NEW s \in Seq(V), NEW a \in 0 .. Len(s), NEW b \in a .. Len(s)
  PROVE  /\ SubSeq(s, a + 1, b) \in Seq(V) /\ Len(SubSeq(s, a + 1, b)) = b - a
         /\ \A j \in 1 .. b - a : SubSeq(s, a + 1, b)[j] = s[a + j]
<1>1. a + 1 \in Int /\ b \in Int /\ \A j \in a + 1 .. b : s[j] \in V
  OBVIOUS
<1>2. PICK t : t = SubSeq(s, a + 1, b)
  OBVIOUS
<1>3. /\ t \in Seq(V) /\ Len(t) = IF a + 1 <= b THEN b - (a + 1) + 1 ELSE 0
      /\ \A j \in 1 .. b - (a + 1) + 1 : t[j] = s[(a + 1) + j - 1]
  BY <1>1, <1>2, SubSeqProperties
<1>4. b - (a + 1) + 1 = b - a /\ \A j \in 1 .. b - a : (a + 1) + j - 1 = a + j
  OBVIOUS
<1>5. Len(t) = b - a
  BY <1>3
<1> QED BY <1>2, <1>3, <1>4, <1>5

LEMMA WithoutFacts ==
  ASSUME NEW V, NEW s \in Seq(V), NEW k \in 0 .. Len(s) - 1
  PROVE  /\ Py!Without(s, k) \in Seq(V) /\ Len(Py!Without(s, k)) = Len(s) - 1
         /\ \A j \in 1 .. Len(s) - 1 : Py!Without(s, k)[j] = IF j <= k THEN s[j] ELSE s[j + 1]
<1>1. PICK n \in Nat : n = Len(s)
  OBVIOUS
<1>2. PICK l : l = SubSeq(s, 1, k)
  OBVIOUS
<1>3. PICK r : r = SubSeq(s, k + 2, n)
  OBVIOUS
<1>4. k \in Nat /\ k + 1 <= n
  BY <1>1
<1>5. l \in Seq(V) /\ Len(l) = k /\ \A j \in 1 .. k : l[j] = s[j]
  <2>1. 0 \in 0 .. Len(s) /\ k \in 0 .. Len(s) /\ k - 0 = k /\ 0 + 1 = 1 /\ \A j \in 1 .. k : 0 + j = j
    OBVIOUS
  <2>2. SubSeq(s, 0 + 1, k) \in Seq(V) /\ Len(SubSeq(s, 0 + 1, k)) = k - 0
        /\ \A j \in 1 .. k - 0 : SubSeq(s, 0 + 1, k)[j] = s[0 + j]
    BY <2>1, Cut
  <2> QED BY <1>2, <2>1, <2>2
<1>6. r \in Seq(V) /\ Len(r) = n - (k + 1) /\ \A j \in 1 .. n - (k + 1) : r[j] = s[(k + 1) + j]
  <2>1. k + 1 \in 0 .. Len(s) /\ n \in k + 1 .. Len(s) /\ (k + 1) + 1 = k + 2
    BY <1>1, <1>4
  <2>2. r = SubSeq(s, (k + 1) + 1, n)
    BY <1>3, <2>1
  <2> QED BY <2>1, <2>2, Cut
<1>7. PICK t : t = l \o r
  OBVIOUS
<1>8. /\ t \in Seq(V) /\ Len(t) = Len(l) + Len(r)
      /\ \A j \in 1 .. Len(l) + Len(r) : t[j] = IF j <= Len(l) THEN l[j] ELSE r[j - Len(l)]
  BY <1>5, <1>6, <1>7, ConcatProperties
<1>9. Len(l) + Len(r) = n - 1
  BY <1>4, <1>5, <1>6
<1>10. ASSUME NEW j \in 1 .. n - 1 PROVE t[j] = IF j <= k THEN s[j] ELSE s[j + 1]
  <2>1. t[j] = IF j <= k THEN l[j] ELSE r[j - k]
    BY <1>5, <1>8, <1>9
  <2>2. CASE j <= k
    BY <1>5, <2>1, <2>2
  <2>3. CASE ~ (j <= k)
    <3>1. j - k \in 1 .. n - (k + 1) /\ (k + 1) + (j - k) = j + 1
      BY <1>4, <2>3
    <3> QED BY <1>6, <2>1, <2>3, <3>1
  <2> QED BY <2>2, <2>3
<1>11. Py!Without(s, k) = t
  BY <1>1, <1>2, <1>3, <1>7 DEF Py!Without
<1> QED BY <1>1, <1>8, <1>9, <1>10, <1>11

(* The sequence t is s with v put after its first k elements. *)
Inserted(t, s, k, v) ==
  /\ Len(t) = Len(s) + 1
  /\ \A j \in 1 .. Len(s) + 1 : t[j] = IF j <= k THEN s[j] ELSE IF j = k + 1 THEN v ELSE s[j - 1]

LEMMA WithFacts ==
  ASSUME NEW V, NEW s \in Seq(V), NEW k \in 0 .. Len(s), NEW v \in V
  PROVE  Py!With(s, k, v) \in Seq(V) /\ Inserted(Py!With(s, k, v), s, k, v)
<1>1. PICK n \in Nat : n = Len(s)
  OBVIOUS
<1>2. PICK l : l = SubSeq(s, 1, k)
  OBVIOUS
<1>3. PICK r : r = SubSeq(s, k + 1, n)
  OBVIOUS
<1>4. k \in Nat /\ k <= n
  BY <1>1
<1>5. l \in Seq(V) /\ Len(l) = k /\ \A j \in 1 .. k : l[j] = s[j]
  <2>1. 0 \in 0 .. Len(s) /\ k \in 0 .. Len(s) /\ k - 0 = k /\ 0 + 1 = 1 /\ \A j \in 1 .. k : 0 + j = j
    OBVIOUS
  <2>2. SubSeq(s, 0 + 1, k) \in Seq(V) /\ Len(SubSeq(s, 0 + 1, k)) = k - 0
        /\ \A j \in 1 .. k - 0 : SubSeq(s, 0 + 1, k)[j] = s[0 + j]
    BY <2>1, Cut
  <2> QED BY <1>2, <2>1, <2>2
<1>6. r \in Seq(V) /\ Len(r) = n - k /\ \A j \in 1 .. n - k : r[j] = s[k + j]
  <2>1. k \in 0 .. Len(s) /\ n \in k .. Len(s)
    BY <1>1, <1>4
  <2> QED BY <1>3, <2>1, Cut
<1>7. PICK u : u = l \o <<v>>
  OBVIOUS
<1>8. <<v>> \in Seq(V) /\ Len(<<v>>) = 1 /\ <<v>>[1] = v
  OBVIOUS
<1>9. u \in Seq(V) /\ Len(u) = k + 1 /\ u[k + 1] = v /\ \A j \in 1 .. k : u[j] = s[j]
  <2>1. /\ u \in Seq(V) /\ Len(u) = k + 1
        /\ \A j \in 1 .. k + 1 : u[j] = IF j <= k THEN l[j] ELSE <<v>>[j - k]
    BY <1>5, <1>7, <1>8, ConcatProperties
  <2>2. k + 1 \in 1 .. k + 1 /\ ~ (k + 1 <= k) /\ (k + 1) - k = 1
    BY <1>4
  <2>3. \A j \in 1 .. k : j \in 1 .. k + 1 /\ j <= k
    BY <1>4
  <2> QED BY <1>5, <1>8, <2>1, <2>2, <2>3
<1>10. PICK t : t = u \o r
  OBVIOUS
<1>11. /\ t \in Seq(V) /\ Len(t) = Len(u) + Len(r)
       /\ \A j \in 1 .. Len(u) + Len(r) : t[j] = IF j <= Len(u) THEN u[j] ELSE r[j - Len(u)]
  BY <1>6, <1>9, <1>10, ConcatProperties
<1>12. Len(u) + Len(r) = n + 1
  BY <1>4, <1>6, <1>9
<1>13. ASSUME NEW j \in 1 .. n + 1 PROVE t[j] = IF j <= k THEN s[j] ELSE IF j = k + 1 THEN v ELSE s[j - 1]
  <2>1. t[j] = IF j <= k + 1 THEN u[j] ELSE r[j - (k + 1)]
    BY <1>9, <1>11, <1>12
  <2>2. CASE j <= k
    <3>1. j \in 1 .. k /\ j <= k + 1
      BY <1>4, <2>2
    <3> QED BY <1>9, <2>1, <2>2, <3>1
  <2>3. CASE j = k + 1
    BY <1>4, <1>9, <2>1, <2>3
  <2>4. CASE ~ (j <= k + 1)
    <3>1. j - (k + 1) \in 1 .. n - k /\ k + (j - (k + 1)) = j - 1 /\ ~ (j <= k) /\ j # k + 1
      BY <1>4, <2>4
    <3> QED BY <1>6, <2>1, <2>4, <3>1
  <2>5. j <= k \/ j = k + 1 \/ ~ (j <= k + 1)
    BY <1>4
  <2> QED BY <2>2, <2>3, <2>4, <2>5
<1>14. Py!With(s, k, v) = t
  <2>1. Py!With(s, k, v) = l \o <<v>> \o r
    BY <1>1, <1>2, <1>3 DEF Py!With
  <2> QED BY <1>7, <1>10, <2>1
<1> QED BY <1>1, <1>11, <1>12, <1>13, <1>14 DEF Inserted

-----------------------------------------------------------------------------
(* What the list at p holds. *)
LEMMA Holds ==
  ASSUME NEW n, NEW p, NEW V, NEW t \in Seq(V), Count(n, p) = Len(t),
         \A j \in 1 .. Len(t) : n[p + j] = t[j]
  PROVE  elems(n, p) = t
<1>1. PICK c \in Nat : c = Len(t)
  OBVIOUS
<1>2. t = [j \in 1 .. c |-> t[j]]
  BY <1>1
<1>3. elems(n, p) = [j \in 1 .. c |-> n[p + j]]
  BY <1>1 DEF elems
<1> QED BY <1>1, <1>2, <1>3

LEMMA ElemFacts ==
  ASSUME NEW m, NEW p, IsList(m, p)
  PROVE  /\ elems(m, p) \in Seq(Vals) /\ Len(elems(m, p)) = Count(m, p) /\ Count(m, p) \in Nat
         /\ DOMAIN elems(m, p) = 1 .. Count(m, p)
         /\ \A j \in 1 .. Count(m, p) : elems(m, p)[j] = m[p + j] /\ m[p + j] \in Vals
         /\ p \in Nat /\ p \in Page /\ p + Count(m, p) < PageWords
         /\ \A j \in 1 .. Count(m, p) : p + j \in Page /\ p + j # p
  BY ListSeqs, Constants DEF IsList, elems, Page

LEMMA CloseSeen ==
  ASSUME NEW m \in [Page -> Word], NEW p, IsList(m, p), NEW s \in 0 .. Count(m, p) - 1
  PROVE  elems(close_slot(m, p, s), p) = Py!Without(elems(m, p), s)
<1>1. PICK c \in Nat : c = Count(m, p)
  BY ElemFacts
<1>2. PICK u : u = elems(m, p)
  OBVIOUS
<1>3. PICK t : t = Py!Without(u, s)
  OBVIOUS
<1>4. PICK n : n = close_slot(m, p, s)
  OBVIOUS
<1>5. u \in Seq(Vals) /\ Len(u) = c /\ p \in Nat /\ p \in Page /\ p + c < PageWords
      /\ \A j \in 1 .. c : u[j] = m[p + j] /\ p + j \in Page /\ p + j # p
  BY <1>1, <1>2, ElemFacts
<1>6. t \in Seq(Vals) /\ Len(t) = c - 1 /\ \A j \in 1 .. c - 1 : t[j] = IF j <= s THEN u[j] ELSE u[j + 1]
  <2>1. s \in 0 .. Len(u) - 1
    BY <1>1, <1>5
  <2> QED BY <1>3, <1>5, <2>1, WithoutFacts
<1>7. \A a \in Page : n[a] = IF a = p THEN W(c - 1, Cap(m, p))
                             ELSE IF a \in (p + 1 + s) .. (p + c - 1) THEN m[a + 1] ELSE m[a]
  BY <1>1, <1>4 DEF close_slot
<1>8. Count(n, p) = c - 1
  BY <1>5, <1>7 DEF Count, W
<1>9. ASSUME NEW j \in 1 .. c - 1 PROVE n[p + j] = t[j]
  <2>1. p + j \in Page /\ p + j # p /\ j \in 1 .. c /\ j + 1 \in 1 .. c
    BY <1>5
  <2>2. n[p + j] = IF p + j \in (p + 1 + s) .. (p + c - 1) THEN m[p + j + 1] ELSE m[p + j]
    BY <1>7, <2>1
  <2>3. (p + j \in (p + 1 + s) .. (p + c - 1)) <=> ~ (j <= s)
    BY <1>1, <1>5
  <2>4. p + j + 1 = p + (j + 1)
    BY <1>5
  <2> QED BY <1>5, <1>6, <2>1, <2>2, <2>3, <2>4
<1>10. elems(n, p) = t
  BY <1>6, <1>8, <1>9, Holds
<1> QED BY <1>2, <1>3, <1>4, <1>10

LEMMA InsertSeen ==
  ASSUME NEW m \in [Page -> Word], NEW p, IsList(m, p), p + 1 + Count(m, p) \in Page,
         NEW i \in Int, NEW v \in Vals
  PROVE  elems(list_insert(m, p, i, v), p)
           = Py!With(elems(m, p), Py!Bounded(Len(elems(m, p)), i), v)
<1>1. PICK c \in Nat : c = Count(m, p)
  BY ElemFacts
<1>2. PICK u : u = elems(m, p)
  OBVIOUS
<1>3. PICK k \in 0 .. c : k = Clamp(c, i)
  BY ClampRange
<1>4. PICK t : t = Py!With(u, k, v)
  OBVIOUS
<1>5. PICK n : n = list_insert(m, p, i, v)
  OBVIOUS
<1>6. u \in Seq(Vals) /\ Len(u) = c /\ p \in Nat /\ p \in Page /\ p + 1 + c < PageWords
      /\ \A j \in 1 .. c : u[j] = m[p + j]
  BY <1>1, <1>2, ElemFacts, Constants
<1>7. Py!Bounded(Len(u), i) = k
  BY <1>3, <1>6, SameBound
<1>8. /\ t \in Seq(Vals) /\ Len(t) = c + 1
      /\ \A j \in 1 .. c + 1 : t[j] = IF j <= k THEN u[j] ELSE IF j = k + 1 THEN v ELSE u[j - 1]
  <2>1. k \in 0 .. Len(u)
    BY <1>6
  <2>2. t \in Seq(Vals) /\ Inserted(t, u, k, v)
    BY <1>4, <1>6, <2>1, WithFacts
  <2> QED BY <1>6, <2>2 DEF Inserted
<1>9. n[p] = W(c + 1, Cap(m, p))
  BY <1>1, <1>3, <1>5, <1>6 DEF list_insert
<1>10. Count(n, p) = c + 1
  BY <1>9 DEF Count, W
<1>11. ASSUME NEW j \in 1 .. c + 1 PROVE n[p + j] = t[j]
  <2>1. p + j \in Page /\ p + j # p
    BY <1>6, Constants DEF Page
  <2>2. n[p + j] = CASE p + j = p                                   -> W(c + 1, Cap(m, p))
                     [] p + j = p + 1 + k                           -> v
                     [] p + j \in (p + 1 + k + 1) .. (p + c + 1)    -> m[p + j - 1]
                     [] OTHER                                       -> m[p + j]
    <3>1. PICK a \in Page : a = p + j
      BY <2>1
    <3>2. list_insert(m, p, i, v)[a]
            = CASE a = p                                                           -> W(Count(m, p) + 1, Cap(m, p))
                [] a = p + 1 + Clamp(Count(m, p), i)                               -> v
                [] a \in (p + 1 + Clamp(Count(m, p), i) + 1) .. (p + Count(m, p) + 1) -> m[a - 1]
                [] OTHER                                                           -> m[a]
      BY DEF list_insert
    <3> QED BY <1>1, <1>3, <1>5, <3>1, <3>2
  <2>3. CASE j <= k
    <3>1. p + j # p + 1 + k /\ p + j \notin (p + 1 + k + 1) .. (p + c + 1) /\ j \in 1 .. c
      BY <1>6, <2>3
    <3> QED BY <1>6, <1>8, <2>1, <2>2, <2>3, <3>1
  <2>4. CASE j = k + 1
    <3>1. p + j = p + 1 + k /\ p + j \notin (p + 1 + k + 1) .. (p + c + 1) /\ ~ (j <= k)
      BY <1>6, <2>4
    <3> QED BY <1>8, <2>1, <2>2, <2>4, <3>1
  <2>5. CASE j > k + 1
    <3>1. p + j # p + 1 + k /\ p + j \in (p + 1 + k + 1) .. (p + c + 1) /\ ~ (j <= k) /\ j # k + 1
          /\ j - 1 \in 1 .. c /\ p + j - 1 = p + (j - 1)
      BY <1>6, <2>5
    <3> QED BY <1>6, <1>8, <2>1, <2>2, <3>1
  <2>6. j <= k \/ j = k + 1 \/ j > k + 1
    BY <1>3
  <2> QED BY <2>3, <2>4, <2>5, <2>6
<1>12. elems(n, p) = t
  BY <1>8, <1>10, <1>11, Holds
<1> QED BY <1>2, <1>4, <1>5, <1>7, <1>12

(* One element fewer, none, one more, another one. *)
LEMMA CutSeen ==
  ASSUME NEW m \in [Page -> Word], NEW p, IsList(m, p), Count(m, p) > 0
  PROVE  elems(set_count(m, p, Count(m, p) - 1), p) = Py!Without(elems(m, p), Len(elems(m, p)) - 1)
<1>1. PICK c \in Nat : c = Count(m, p)
  BY ElemFacts
<1>2. PICK u : u = elems(m, p)
  OBVIOUS
<1>3. PICK t : t = Py!Without(u, c - 1)
  OBVIOUS
<1>4. PICK n : n = set_count(m, p, c - 1)
  OBVIOUS
<1>5. u \in Seq(Vals) /\ Len(u) = c /\ p \in Page /\ c > 0
      /\ \A j \in 1 .. c : u[j] = m[p + j] /\ p + j \in Page /\ p + j # p
  BY <1>1, <1>2, ElemFacts
<1>6. t \in Seq(Vals) /\ Len(t) = c - 1 /\ \A j \in 1 .. c - 1 : t[j] = IF j <= c - 1 THEN u[j] ELSE u[j + 1]
  <2>1. c - 1 \in 0 .. Len(u) - 1
    BY <1>5
  <2> QED BY <1>3, <1>5, <2>1, WithoutFacts
<1>7. Count(n, p) = c - 1 /\ \A a \in Page : a # p => n[a] = m[a]
  BY <1>4, <1>5 DEF set_count, Count, W
<1>8. ASSUME NEW j \in 1 .. c - 1 PROVE n[p + j] = t[j]
  BY <1>5, <1>6, <1>7
<1>9. elems(n, p) = t
  BY <1>6, <1>7, <1>8, Holds
<1> QED BY <1>1, <1>2, <1>3, <1>4, <1>5, <1>9

LEMMA ClearSeen ==
  ASSUME NEW m \in [Page -> Word], NEW p, IsList(m, p)
  PROVE  elems(set_count(m, p, 0), p) = <<>>
<1>1. Count(set_count(m, p, 0), p) = 0
  BY DEF set_count, Count, W, IsList
<1>2. <<>> \in Seq(Vals) /\ Len(<<>>) = 0 /\ \A j \in 1 .. 0 : FALSE
  OBVIOUS
<1> QED BY <1>1, <1>2, Holds

LEMMA AppendSeen ==
  ASSUME NEW m \in [Page -> Word], NEW p, IsList(m, p), p + 1 + Count(m, p) \in Page, NEW v \in Vals
  PROVE  elems(set_count([m EXCEPT ![p + 1 + Count(m, p)] = v], p, Count(m, p) + 1), p)
           = Append(elems(m, p), v)
<1>1. PICK c \in Nat : c = Count(m, p)
  BY ElemFacts
<1>2. PICK u : u = elems(m, p)
  OBVIOUS
<1>3. PICK t : t = Append(u, v)
  OBVIOUS
<1>4. PICK n : n = set_count([m EXCEPT ![p + 1 + c] = v], p, c + 1)
  OBVIOUS
<1>5. u \in Seq(Vals) /\ Len(u) = c /\ p \in Page /\ p \in Nat
      /\ \A j \in 1 .. c : u[j] = m[p + j] /\ p + j \in Page /\ p + j # p
  BY <1>1, <1>2, ElemFacts
<1>6. t \in Seq(Vals) /\ Len(t) = c + 1 /\ t[c + 1] = v /\ \A j \in 1 .. c : t[j] = u[j]
  BY <1>3, <1>5, AppendProperties
<1>7. Count(n, p) = c + 1 /\ n[p + 1 + c] = v /\ \A a \in Page : a # p /\ a # p + 1 + c => n[a] = m[a]
  <2>1. p + 1 + c \in Page /\ p + 1 + c # p
    BY <1>1, <1>5
  <2> QED BY <1>4, <1>5, <2>1 DEF set_count, Count, W
<1>8. ASSUME NEW j \in 1 .. c + 1 PROVE n[p + j] = t[j]
  <2>1. CASE j = c + 1
    <3>1. p + j = p + 1 + c
      BY <1>5, <2>1
    <3> QED BY <1>6, <1>7, <2>1, <3>1
  <2>2. CASE j \in 1 .. c
    <3>1. p + j # p + 1 + c
      BY <1>5, <2>2
    <3> QED BY <1>5, <1>6, <1>7, <2>2, <3>1
  <2> QED BY <2>1, <2>2
<1>9. elems(n, p) = t
  BY <1>6, <1>7, <1>8, Holds
<1> QED BY <1>1, <1>2, <1>3, <1>4, <1>9

(* Memory or a sequence with one place overwritten. *)
Replaced(t, s, k, v) == t = [s EXCEPT ![k] = v]

LEMMA StoreSeen ==
  ASSUME NEW m \in [Page -> Word], NEW p, IsList(m, p), NEW k \in 1 .. Count(m, p), NEW v \in Vals,
         NEW n, Replaced(n, m, p + k, v)
  PROVE  Replaced(elems(n, p), elems(m, p), k, v)
<1>1. PICK c \in Nat : c = Count(m, p)
  BY ElemFacts
<1>2. PICK u : u = elems(m, p)
  OBVIOUS
<1>3. PICK t : t = [u EXCEPT ![k] = v]
  OBVIOUS
<1>4. n = [m EXCEPT ![p + k] = v]
  BY DEF Replaced
<1>5. u \in Seq(Vals) /\ Len(u) = c /\ p \in Page /\ p \in Nat
      /\ \A j \in 1 .. c : u[j] = m[p + j] /\ p + j \in Page /\ p + j # p
  BY <1>1, <1>2, ElemFacts
<1>6. t \in Seq(Vals) /\ Len(t) = c /\ \A j \in 1 .. c : t[j] = IF j = k THEN v ELSE u[j]
  BY <1>1, <1>3, <1>5
<1>7. k \in 1 .. c
  BY <1>1
<1>8. Count(n, p) = c /\ \A j \in 1 .. c : n[p + j] = IF j = k THEN v ELSE m[p + j]
  <2>1. n[p] = m[p]
    BY <1>4, <1>5, <1>7
  <2>2. \A a \in Page : n[a] = IF a = p + k THEN v ELSE m[a]
    BY <1>4, <1>5, <1>7
  <2>3. \A j \in 1 .. c : (p + j = p + k) <=> j = k
    BY <1>5, <1>7
  <2> QED BY <1>1, <1>5, <2>1, <2>2, <2>3 DEF Count
<1>9. elems(n, p) = t
  BY <1>5, <1>6, <1>8, Holds
<1> QED BY <1>2, <1>3, <1>9 DEF Replaced

(* The words of the list read backwards. *)
LEMMA BackwardsSeen ==
  ASSUME NEW m, NEW p, IsList(m, p)
  PROVE  /\ list_reversed(m, p) = Py!Backwards(elems(m, p))
         /\ m \in [Page -> Word] => elems(list_reverse(m, p), p) = Py!Backwards(elems(m, p))
<1>1. PICK c \in Nat : c = Count(m, p)
  BY ElemFacts
<1>2. PICK u : u = elems(m, p)
  OBVIOUS
<1>3. u \in Seq(Vals) /\ Len(u) = c /\ p \in Nat /\ DOMAIN u = 1 .. c
      /\ \A j \in 1 .. c : u[j] = m[p + j]
  BY <1>1, <1>2, ElemFacts
<1>4. ASSUME NEW j \in 1 .. c PROVE m[p + c + 1 - j] = u[c + 1 - j] /\ u[c + 1 - j] \in Vals
  <2>1. c + 1 - j \in 1 .. c /\ p + c + 1 - j = p + (c + 1 - j)
    BY <1>3
  <2> QED BY <1>3, <2>1
<1>5. PICK f : f = [j \in 1 .. c |-> m[p + c + 1 - j]]
  OBVIOUS
<1>6. f = [j \in 1 .. c |-> u[c + 1 - j]]
  BY <1>4, <1>5
<1>7. f = Py!Backwards(u)
  BY <1>3, <1>6 DEF Py!Backwards
<1>8. list_reversed(m, p) = f
  BY <1>1, <1>5 DEF list_reversed
<1>9. f \in Seq(Vals) /\ Len(f) = c
  BY <1>4, <1>6
<1>10. ASSUME m \in [Page -> Word] PROVE elems(list_reverse(m, p), p) = f
  <2>1. list_reverse(m, p) = put_elems(m, p, c, f)
    BY <1>1, <1>5 DEF list_reverse
  <2> QED BY <1>1, <1>9, <1>10, <2>1, PutElems
<1> QED BY <1>2, <1>7, <1>8, <1>10

-----------------------------------------------------------------------------
(* What every list holds in memory n: the objects. *)
Seen(n) == [p \in Lists |-> elems(n, p)]

LEMMA SeenNow == PyObj = Seen(mem)
  BY DEF PyObj, Seen

(* Two memories that agree on a record. *)
LEMMA SameElems ==
  ASSUME NEW m, NEW n, NEW q, IsList(m, q), \A j \in 0 .. Count(m, q) : n[q + j] = m[q + j]
  PROVE  elems(n, q) = elems(m, q)
<1>1. PICK c \in Nat : c = Count(m, q)
  BY ElemFacts
<1>2. q \in Nat /\ q + 0 = q /\ 0 \in 0 .. c /\ \A j \in 1 .. c : j \in 0 .. c
  BY ElemFacts
<1>3. n[q] = m[q] /\ \A j \in 1 .. c : n[q + j] = m[q + j]
  BY <1>1, <1>2
<1>4. Count(n, q) = c
  BY <1>1, <1>3 DEF Count
<1> QED BY <1>1, <1>3, <1>4 DEF elems

(* A change within one list, seen from outside. *)
LEMMA InPlaceSeen ==
  ASSUME NEW m, NEW h, NEW d, NEW e, Heap(m, h, d, Lists, e),
         NEW p \in Lists, NEW n, InPlace(m, p, n, e[p])
  PROVE  Seen(n) = [Seen(m) EXCEPT ![p] = elems(n, p)]
<1>1. ASSUME NEW q \in Lists, q # p PROVE elems(n, q) = elems(m, q)
  <2>1. \A a \in q .. q + e[q] : a \in Page => n[a] = m[a]
    BY <1>1, InPlaceHeap
  <2>2. IsList(m, q) /\ e[q] \in Nat /\ Top(m, q) <= e[q]
    BY DEF Heap
  <2>3. PICK c \in Nat : c = Count(m, q)
    BY <2>2 DEF IsList
  <2>4. q \in Page /\ q \in Nat /\ q + c < PageWords /\ c <= e[q]
    BY <2>2, <2>3, Constants DEF IsList, Top
  <2>5. \A j \in 0 .. c : q + j \in q .. q + e[q] /\ q + j \in Page
    BY <2>2, <2>4, Constants DEF Page
  <2> QED BY <2>1, <2>2, <2>3, <2>5, SameElems
<1>2. \A q \in Lists : elems(n, q) = IF q = p THEN elems(n, p) ELSE elems(m, q)
  BY <1>1
<1> QED BY <1>2 DEF Seen

(* Writes above the heap pointer, seen from below. *)
LEMMA AboveSeen ==
  ASSUME NEW m, NEW h, NEW d, NEW e, Heap(m, h, d, Lists, e),
         NEW n, \A a \in Page : a < h => n[a] = m[a]
  PROVE  \A q \in Lists : elems(n, q) = elems(m, q)
<1> SUFFICES ASSUME NEW q \in Lists PROVE elems(n, q) = elems(m, q)
  OBVIOUS
<1>1. IsList(m, q) /\ e[q] \in Nat /\ Top(m, q) <= e[q] /\ q + e[q] < h /\ h \in Nat
  BY DEF Heap
<1>2. PICK c \in Nat : c = Count(m, q)
  BY <1>1 DEF IsList
<1>3. q \in Page /\ q \in Nat /\ q + c < PageWords /\ c <= e[q]
  BY <1>1, <1>2, Constants DEF IsList, Top
<1>4. \A j \in 0 .. c : q + j < h /\ q + j \in Page
  BY <1>1, <1>3, Constants DEF Page
<1> QED BY <1>1, <1>2, <1>4, SameElems

-----------------------------------------------------------------------------
(* The order of a sort. *)
LEMMA AheadStrict ==
  ASSUME NEW V, \A v \in V : v.lo \in Int, NEW s \in Seq(V), NEW desc \in BOOLEAN,
         NEW j \in 1 .. Len(s), NEW k \in 1 .. Len(s)
  PROVE  /\ ~ (Py!Ahead(s, desc, j, k) /\ Py!Ahead(s, desc, k, j))
         /\ /\ j # k /\ ~ should_shift(desc, s[j], s[k])
            /\ s[j].lo = s[k].lo => j < k
            => Py!Ahead(s, desc, j, k)
<1>1. s[j].lo \in Int /\ s[k].lo \in Int
  OBVIOUS
<1>2. CASE desc = TRUE
  BY <1>1, <1>2 DEF Py!Ahead, FromWord, should_shift
<1>3. CASE desc = FALSE
  BY <1>1, <1>3 DEF Py!Ahead, FromWord, should_shift
<1> QED BY <1>2, <1>3

LEMMA OneRanking ==
  ASSUME NEW V, \A v \in V : v.lo \in Int, NEW s \in Seq(V), NEW desc \in BOOLEAN,
         NEW p \in [DOMAIN s -> DOMAIN s], Py!Ranking(s, desc, p),
         NEW q \in [DOMAIN s -> DOMAIN s], Py!Ranking(s, desc, q)
  PROVE  p = q
<1>1. PICK n \in Nat : n = Len(s) /\ DOMAIN s = 1 .. n
  OBVIOUS
<1> DEFINE D == {i \in 1 .. n : p[i] # q[i]}
<1>2. SUFFICES ASSUME D # {} PROVE FALSE
  BY <1>1
<1>3. PICK i \in D : \A j \in D : i <= j
  <2>1. D \in SUBSET Nat
    OBVIOUS
  <2> HIDE DEF D
  <2> QED BY <1>2, <2>1, Least
<1>4. i \in 1 .. n /\ p[i] # q[i] /\ \A j \in 1 .. n : j < i => p[j] = q[j]
  BY <1>3
<1> HIDE DEF D
<1>5. p[i] \in 1 .. n /\ q[i] \in 1 .. n
  BY <1>1, <1>4
<1>6. PICK k \in 1 .. n : p[k] = q[i]
  BY <1>1, <1>5 DEF Py!Ranking
<1>7. PICK l \in 1 .. n : q[l] = p[i]
  BY <1>1, <1>5 DEF Py!Ranking
<1>8. ASSUME NEW a \in 1 .. n, NEW b \in 1 .. n, a < b
      PROVE  Py!Ahead(s, desc, p[a], p[b]) /\ Py!Ahead(s, desc, q[a], q[b])
  BY <1>1, <1>8 DEF Py!Ranking
<1>9. ~ (k < i)
  <2>1. ASSUME k < i PROVE FALSE
    <3>1. q[k] = q[i] /\ Py!Ahead(s, desc, q[k], q[i])
      BY <1>4, <1>6, <1>8, <2>1
    <3> QED BY <1>1, <1>5, <3>1, AheadStrict
  <2> QED BY <2>1
<1>10. ~ (l < i)
  <2>1. ASSUME l < i PROVE FALSE
    <3>1. p[l] = p[i] /\ Py!Ahead(s, desc, p[l], p[i])
      BY <1>4, <1>7, <1>8, <2>1
    <3> QED BY <1>1, <1>5, <3>1, AheadStrict
  <2> QED BY <2>1
<1>11. i < k /\ i < l
  BY <1>4, <1>6, <1>7, <1>9, <1>10
<1>12. Py!Ahead(s, desc, p[i], q[i]) /\ Py!Ahead(s, desc, q[i], p[i])
  BY <1>4, <1>6, <1>7, <1>8, <1>11
<1> QED BY <1>1, <1>5, <1>12, AheadStrict

(* The ranking of a sequence, what insertion_sort makes of it, and Python's  *)
(* sorted sequence.                                                          *)
LEMMA SortSeen ==
  ASSUME NEW V, \A v \in V : v.lo \in Int, NEW s \in Seq(V), NEW desc \in BOOLEAN
  PROVE  /\ insertion_sort(s, desc) = Py!InOrder(s, desc)
         /\ \E p \in [DOMAIN s -> DOMAIN s] :
              Py!Ranking(s, desc, p) /\ Py!InOrder(s, desc) = [i \in DOMAIN s |-> s[p[i]]]
<1>1. PICK n \in Nat : n = Len(s) /\ DOMAIN s = 1 .. n
  OBVIOUS
<1>2. PICK t : t = insertion_sort(s, desc)
  OBVIOUS
<1>3. t \in Seq(V) /\ Len(t) = n
  BY <1>1, <1>2, SortSeqs
<1>4. PICK p : Arranges(p, t, s, desc, n)
  BY <1>1, <1>2, SortIsStable
<1>5. /\ p \in [1 .. n -> 1 .. n]
      /\ \A i \in 1 .. n : \E j \in 1 .. n : p[j] = i
      /\ \A j \in 1 .. n : t[j] = s[p[j]]
  BY <1>4 DEF Arranges
<1>6. ASSUME NEW i \in 1 .. n, NEW j \in 1 .. n, i < j PROVE Py!Ahead(s, desc, p[i], p[j])
  <2>1. p[i] # p[j] /\ ~ should_shift(desc, t[i], t[j]) /\ (t[i].lo = t[j].lo => p[i] < p[j])
    BY <1>4, <1>6 DEF Arranges
  <2>2. t[i] = s[p[i]] /\ t[j] = s[p[j]] /\ p[i] \in 1 .. Len(s) /\ p[j] \in 1 .. Len(s)
    BY <1>1, <1>5
  <2> QED BY <2>1, <2>2, AheadStrict
<1>7. Py!Ranking(s, desc, p)
  BY <1>1, <1>5, <1>6 DEF Py!Ranking
<1> DEFINE r == CHOOSE q \in [DOMAIN s -> DOMAIN s] : Py!Ranking(s, desc, q)
<1>8. r \in [DOMAIN s -> DOMAIN s] /\ Py!Ranking(s, desc, r)
  <2>1. \E q \in [DOMAIN s -> DOMAIN s] : Py!Ranking(s, desc, q)
    BY <1>1, <1>5, <1>7
  <2> QED BY <2>1, Zenon
<1>9. Py!InOrder(s, desc) = [i \in DOMAIN s |-> s[r[i]]]
  BY Zenon DEF Py!InOrder
<1> HIDE DEF r
<1>10. r = p
  BY <1>1, <1>5, <1>7, <1>8, OneRanking
<1>11. t = [i \in 1 .. n |-> s[p[i]]]
  <2>1. t = [i \in 1 .. n |-> t[i]]
    BY <1>3
  <2> QED BY <1>5, <2>1
<1>12. p \in [DOMAIN s -> DOMAIN s] /\ Py!InOrder(s, desc) = [i \in DOMAIN s |-> s[p[i]]]
  BY <1>1, <1>5, <1>9, <1>10
<1>13. insertion_sort(s, desc) = Py!InOrder(s, desc)
  BY <1>1, <1>2, <1>11, <1>12
<1> QED BY <1>7, <1>12, <1>13

-----------------------------------------------------------------------------
(* Queries. *)
LEMMA HasSeen ==
  ASSUME NEW m, NEW p, IsList(m, p), NEW v
  PROVE  list_contains(m, p, v) <=> Py!Has(elems(m, p), v)
<1>1. PICK c \in Nat : c = Count(m, p)
  BY ElemFacts
<1>2. PICK s : s = elems(m, p)
  OBVIOUS
<1>3. DOMAIN s = 1 .. c /\ p \in Nat /\ \A j \in 1 .. c : s[j] = m[p + j]
  BY <1>1, <1>2, ElemFacts
<1>4. ASSUME NEW i \in 0 .. c - 1 PROVE i + 1 \in 1 .. c /\ p + 1 + i = p + (i + 1)
  BY <1>3
<1>5. ASSUME NEW j \in 1 .. c PROVE j - 1 \in 0 .. c - 1 /\ p + 1 + (j - 1) = p + j
  BY <1>3
<1>6. ASSUME list_contains(m, p, v) PROVE Py!Has(s, v)
  <2>1. PICK i \in 0 .. c - 1 : m[p + 1 + i] = v
    BY <1>1, <1>6 DEF list_contains, Slots
  <2>2. s[i + 1] = v /\ i + 1 \in 1 .. c
    BY <1>3, <1>4, <2>1
  <2> QED BY <1>3, <2>2 DEF Py!Has
<1>7. ASSUME Py!Has(s, v) PROVE list_contains(m, p, v)
  <2>1. PICK j \in 1 .. c : s[j] = v
    BY <1>3, <1>7 DEF Py!Has
  <2>2. m[p + 1 + (j - 1)] = v /\ j - 1 \in 0 .. c - 1
    BY <1>3, <1>5, <2>1
  <2> QED BY <1>1, <2>2 DEF list_contains, Slots
<1> QED BY <1>2, <1>6, <1>7

LEMMA FirstSeen ==
  ASSUME NEW m, NEW p, IsList(m, p), NEW v, list_contains(m, p, v)
  PROVE  first_slot(m, p, v) = Py!First(elems(m, p), v)
<1>1. PICK c \in Nat : c = Count(m, p)
  BY ElemFacts
<1>2. PICK s : s = elems(m, p)
  OBVIOUS
<1>3. Len(s) = c /\ p \in Nat /\ \A j \in 1 .. c : s[j] = m[p + j]
  BY <1>1, <1>2, ElemFacts
<1> DEFINE H == {i \in Slots(m, p) : m[p + 1 + i] = v}
<1>4. PICK k : k = Min(H)
  OBVIOUS
<1>5. k \in H /\ \A i \in H : k <= i
  <2>1. H \in SUBSET Nat /\ H # {}
    BY <1>1 DEF Slots, list_contains
  <2> HIDE DEF H
  <2>2. \E x \in H : \A y \in H : x <= y
    BY <2>1, Least
  <2> QED BY <1>4, <2>2, Zenon DEF Min
<1>6. first_slot(m, p, v) = k
  BY <1>4 DEF first_slot
<1>7. k \in 0 .. c - 1 /\ m[p + 1 + k] = v /\ \A i \in 0 .. c - 1 : m[p + 1 + i] = v => k <= i
  BY <1>1, <1>5 DEF Slots
<1> HIDE DEF H
<1>8. s[k + 1] = v
  <2>1. k + 1 \in 1 .. c /\ p + 1 + k = p + (k + 1)
    BY <1>3, <1>7
  <2> QED BY <1>3, <1>7, <2>1
<1>9. ASSUME NEW j \in 1 .. c, s[j] = v PROVE k <= j - 1
  <2>1. j - 1 \in 0 .. c - 1 /\ p + 1 + (j - 1) = p + j
    BY <1>3
  <2> QED BY <1>3, <1>7, <1>9, <2>1
<1>10. \A j \in 1 .. k : s[j] # v
  BY <1>7, <1>9
<1> DEFINE Is(i) == s[i + 1] = v /\ \A j \in 1 .. i : s[j] # v
<1>11. Is(k)
  BY <1>8, <1>10
<1>12. ASSUME NEW i \in 0 .. c - 1, Is(i) PROVE i = k
  <2>1. k <= i
    <3>1. i + 1 \in 1 .. c /\ (i + 1) - 1 = i
      OBVIOUS
    <3>2. k <= (i + 1) - 1
      BY <1>9, <1>12, <3>1
    <3> QED BY <3>1, <3>2
  <2>2. ~ (k < i)
    <3>1. ASSUME k < i PROVE FALSE
      <4>1. k + 1 \in 1 .. i
        BY <1>7, <3>1
      <4> QED BY <1>8, <1>12, <4>1
    <3> QED BY <3>1
  <2> QED BY <1>7, <2>1, <2>2
<1>13. Py!First(s, v) = CHOOSE i \in 0 .. c - 1 : Is(i)
  BY <1>3 DEF Py!First
<1> HIDE DEF Is
<1>14. (CHOOSE i \in 0 .. c - 1 : Is(i)) = k
  BY <1>7, <1>11, <1>12
<1> QED BY <1>2, <1>6, <1>13, <1>14

LEMMA CountSeen ==
  ASSUME NEW m, NEW p, IsList(m, p), NEW v
  PROVE  list_count(m, p, v) = Cardinality({k \in DOMAIN elems(m, p) : elems(m, p)[k] = v})
<1>1. PICK c \in Nat : c = Count(m, p)
  BY ElemFacts
<1>2. PICK s : s = elems(m, p)
  OBVIOUS
<1>3. DOMAIN s = 1 .. c /\ p \in Nat /\ \A j \in 1 .. c : s[j] = m[p + j]
  BY <1>1, <1>2, ElemFacts
<1> DEFINE A == {i \in 0 .. c - 1 : m[p + 1 + i] = v}
           B == {k \in 1 .. c : s[k] = v}
           f == [i \in A |-> i + 1]
<1>4. f \in Bijection(A, B)
  <2>1. ASSUME NEW i \in A PROVE f[i] \in B
    <3>1. i + 1 \in 1 .. c /\ p + 1 + i = p + (i + 1)
      BY <1>3
    <3> QED BY <1>3, <3>1
  <2>2. \A i, j \in A : f[i] = f[j] => i = j
    OBVIOUS
  <2>3. ASSUME NEW k \in B PROVE \E i \in A : f[i] = k
    <3>1. k - 1 \in 0 .. c - 1 /\ p + 1 + (k - 1) = p + k
      BY <1>3
    <3>2. k - 1 \in A
      BY <1>3, <3>1
    <3>3. f[k - 1] = k
      BY <3>2
    <3> QED BY <3>2, <3>3
  <2>4. f \in [A -> B]
    BY <2>1
  <2> HIDE DEF f
  <2>5. f \in Injection(A, B) /\ f \in Surjection(A, B)
    BY <2>2, <2>3, <2>4 DEF Injection, Surjection, IsInjective
  <2> QED BY <2>5 DEF Bijection
<1>5. IsFiniteSet(A)
  <2>1. c - 1 \in Int /\ 0 \in Int
    OBVIOUS
  <2>2. IsFiniteSet(0 .. c - 1) /\ A \in SUBSET (0 .. c - 1)
    BY <2>1, FS_Interval
  <2> QED BY <2>2, FS_Subset, Zenon
<1> HIDE DEF A, B, f
<1>6. Cardinality(A) = Cardinality(B)
  BY <1>4, <1>5, FS_Bijection DEF ExistsBijection
<1>7. list_count(m, p, v) = Cardinality(A)
  BY <1>1 DEF list_count, Slots, A
<1> QED BY <1>2, <1>3, <1>6, <1>7 DEF B

LEMMA SameCardinality == ASSUME NEW S PROVE Py!Cardinality(S) = Cardinality(S)
  BY Zenon DEF Py!Cardinality, Cardinality

(* A slice. *)
LEMMA SliceSeen ==
  ASSUME NEW m, NEW p, IsList(m, p), NEW lo \in Int, NEW hi \in Int
  PROVE  list_slice(m, p, lo, hi)
           = SubSeq(elems(m, p), Py!Bounded(Len(elems(m, p)), lo) + 1, Py!Bounded(Len(elems(m, p)), hi))
<1>1. PICK c \in Nat : c = Count(m, p)
  BY ElemFacts
<1>2. PICK s : s = elems(m, p)
  OBVIOUS
<1>3. Len(s) = c
  BY <1>1, <1>2, ElemFacts
<1>4. PICK l \in 0 .. c : l = Clamp(c, lo)
  BY ClampRange
<1>5. PICK u \in 0 .. c : u = Clamp(c, hi)
  BY ClampRange
<1>6. Py!Bounded(c, lo) = l /\ Py!Bounded(c, hi) = u
  BY <1>4, <1>5, SameBound
<1>7. list_slice(m, p, lo, hi) = SubSeq(s, l + 1, IF l >= u THEN l ELSE u)
  <2>1. Max({l, u}) = IF l >= u THEN l ELSE u
    <3>1. l \in Int /\ u \in Int
      OBVIOUS
    <3> QED BY <3>1, MaxOfTwo
  <2>2. list_slice(m, p, lo, hi) = SubSeq(s, l + 1, Max({l, u}))
    BY <1>1, <1>2, <1>4, <1>5 DEF list_slice, slice_bounds
  <2> QED BY <2>1, <2>2
<1>8. SubSeq(s, l + 1, IF l >= u THEN l ELSE u) = SubSeq(s, l + 1, u)
  <2>1. CASE l >= u
    <3>1. SubSeq(s, l + 1, l) = <<>> /\ SubSeq(s, l + 1, u) = <<>>
      <4>1. l + 1 \in Int /\ l \in Int /\ u \in Int /\ l < l + 1 /\ u < l + 1
        BY <2>1
      <4> QED BY <4>1, SubSeqEmpty
    <3> QED BY <2>1, <3>1
  <2>2. CASE ~ (l >= u)
    BY <2>2
  <2> QED BY <2>1, <2>2
<1> QED BY <1>2, <1>3, <1>6, <1>7, <1>8

(* The dict. *)
LEMMA DictFacts ==
  ASSUME NEW m, NEW d, IsDict(m, d)
  PROVE  /\ Count(m, d) = Len(Table) /\ Len(Table) \in Nat /\ DOMAIN Table = 1 .. Len(Table)
         /\ \A i \in 1 .. Len(Table) : /\ m[KeyAddr(d, i - 1)] = Table[i][1]
                                       /\ m[ValAddr(d, i - 1)] = Table[i][2]
<1>1. PICK l \in Nat : l = Len(Table)
  BY Constants
<1>2. Table \in Seq(Vals \X Vals)
  BY ListsAssumption
<1>3. Count(m, d) = l /\ d \in Nat
  BY <1>1, Constants DEF IsDict, Count, W
<1>4. ASSUME NEW i \in 1 .. l
      PROVE  m[KeyAddr(d, i - 1)] = Table[i][1] /\ m[ValAddr(d, i - 1)] = Table[i][2]
  <2>1. KeyAddr(d, i - 1) = d + (2 * i - 1) /\ ValAddr(d, i - 1) = d + 2 * i
    BY <1>3 DEF KeyAddr, ValAddr
  <2>2. 2 * i - 1 \in 1 .. 2 * l /\ 2 * i \in 1 .. 2 * l
    OBVIOUS
  <2>3. m[d + (2 * i - 1)] = Entry(2 * i - 1) /\ m[d + 2 * i] = Entry(2 * i)
    BY <1>1, <2>2 DEF IsDict
  <2>4. ((2 * i - 1) - 1) \div 2 = i - 1 /\ ((2 * i - 1) - 1) % 2 = 0
        /\ (2 * i - 1) \div 2 = i - 1 /\ (2 * i - 1) % 2 = 1
    OBVIOUS
  <2>5. Entry(2 * i - 1) = Table[i][1]
    BY <2>4 DEF Entry
  <2>6. Entry(2 * i) = Table[i][2]
    BY <2>4 DEF Entry
  <2> QED BY <2>1, <2>3, <2>5, <2>6
<1> QED BY <1>1, <1>2, <1>3, <1>4

LEMMA DictSeen ==
  ASSUME NEW m, NEW d, IsDict(m, d)
  PROVE  /\ keys_to_list(m, d) = [i \in DOMAIN Table |-> Table[i][1]]
         /\ values_to_list(m, d) = [i \in DOMAIN Table |-> Table[i][2]]
  BY DictFacts DEF keys_to_list, values_to_list

(* The places of a key in the dict. *)
Places(k) == {j \in DOMAIN Table : KeyOf(Table[j][1]) = KeyOf(k)}

LEMMA OnePlace ==
  ASSUME NEW i \in DOMAIN Table, NEW j \in DOMAIN Table, KeyOf(Table[i][1]) = KeyOf(Table[j][1])
  PROVE  i = j
  BY ListsAssumption

LEMMA LookupSeen ==
  ASSUME NEW m, NEW d, IsDict(m, d), NEW k
  PROVE  /\ dict_has(m, d, k) <=> Places(k) # {}
         /\ dict_has(m, d, k) => dict_get(m, d, k) = Table[CHOOSE j \in Places(k) : TRUE][2]
<1>1. PICK l \in Nat : l = Len(Table)
  BY Constants
<1>2. Count(m, d) = l /\ DOMAIN Table = 1 .. l
      /\ \A i \in 1 .. l : m[KeyAddr(d, i - 1)] = Table[i][1] /\ m[ValAddr(d, i - 1)] = Table[i][2]
  BY <1>1, DictFacts
<1>3. ASSUME NEW i \in 0 .. l - 1
      PROVE  i + 1 \in 1 .. l /\ m[KeyAddr(d, i)] = Table[i + 1][1] /\ m[ValAddr(d, i)] = Table[i + 1][2]
  <2>1. i + 1 \in 1 .. l /\ (i + 1) - 1 = i
    OBVIOUS
  <2> QED BY <1>2, <2>1
<1>4. ASSUME dict_has(m, d, k) PROVE Places(k) # {}
  <2>1. PICK i \in 0 .. l - 1 : KeyOf(m[KeyAddr(d, i)]) = KeyOf(k)
    BY <1>2, <1>4 DEF dict_has, Slots, same_key
  <2>2. i + 1 \in Places(k)
    BY <1>2, <1>3, <2>1 DEF Places
  <2> QED BY <2>2
<1>5. ASSUME NEW j \in Places(k)
      PROVE  /\ dict_has(m, d, k) /\ j \in 1 .. l
             /\ j - 1 \in Slots(m, d) /\ same_key(m[KeyAddr(d, j - 1)], k)
  <2>1. j \in 1 .. l /\ KeyOf(Table[j][1]) = KeyOf(k)
    BY <1>2 DEF Places
  <2>2. j - 1 \in 0 .. l - 1 /\ KeyOf(m[KeyAddr(d, j - 1)]) = KeyOf(k)
    BY <1>2, <2>1
  <2> QED BY <1>2, <2>1, <2>2 DEF dict_has, Slots, same_key
<1>6. ASSUME dict_has(m, d, k) PROVE dict_get(m, d, k) = Table[CHOOSE j \in Places(k) : TRUE][2]
  <2>1. PICK j \in Places(k) : j = CHOOSE i \in Places(k) : TRUE
    BY <1>4, <1>6
  <2>2. PICK i : i = scan(m, d, k)
    OBVIOUS
  <2>3. i \in 0 .. l - 1 /\ KeyOf(m[KeyAddr(d, i)]) = KeyOf(k)
    <3>1. i \in Slots(m, d) /\ same_key(m[KeyAddr(d, i)], k)
      BY <1>6, <2>2 DEF dict_has, scan
    <3> QED BY <1>2, <3>1 DEF Slots, same_key
  <2>4. i + 1 \in 1 .. l /\ KeyOf(Table[i + 1][1]) = KeyOf(k) /\ m[ValAddr(d, i)] = Table[i + 1][2]
    BY <1>3, <2>3
  <2>5. j \in 1 .. l /\ KeyOf(Table[j][1]) = KeyOf(k)
    BY <1>5 DEF Places
  <2>6. i + 1 = j
    <3>1. PICK a \in DOMAIN Table : a = i + 1
      BY <1>2, <2>4
    <3>2. KeyOf(Table[a][1]) = KeyOf(Table[j][1])
      BY <2>4, <2>5, <3>1
    <3> QED BY <1>2, <2>5, <3>1, <3>2, OnePlace
  <2> QED BY <2>1, <2>2, <2>4, <2>6 DEF dict_get
<1> QED BY <1>4, <1>5, <1>6

(* Two runs of one recursion agree. *)
LEMMA SameRun ==
  ASSUME NEW n \in Nat, NEW f, NEW g, f[0] = g[0],
         \A i \in 1 .. n : f[i - 1] = g[i - 1] => f[i] = g[i]
  PROVE  f[n] = g[n]
<1> DEFINE T == [i \in 0 .. n |-> {g[i]}]
<1>1. f[0] \in T[0]
  OBVIOUS
<1>2. ASSUME NEW i \in (0 + 1) .. n, f[i - 1] \in T[i - 1] PROVE f[i] \in T[i]
  <2>1. i \in 1 .. n /\ i - 1 \in 0 .. n /\ i \in 0 .. n
    OBVIOUS
  <2>2. f[i - 1] = g[i - 1]
    BY <1>2, <2>1
  <2> QED BY <2>1, <2>2
<1>3. n \in 0 .. n /\ 0 \in Nat
  OBVIOUS
<1> HIDE DEF T
<1>4. Valued(f, 0, n, T)
  BY <1>1, <1>2, <1>3, Along
<1>5. f[n] \in T[n]
  BY <1>3, <1>4 DEF Valued
<1> QED BY <1>3, <1>5 DEF T

(* The sums of the first elements. *)
Sums(f, s, n) == f = [i \in 0 .. n |-> IF i = 0 THEN 0 ELSE f[i - 1] + s[i].lo]

LEMMA SumsExist ==
  ASSUME NEW n \in Nat, NEW s, \A i \in 1 .. n : s[i].lo \in Int
  PROVE  \E f : Sums(f, s, n)
<1> DEFINE T == [i \in 0 .. n |-> Int]
           G == [i \in 1 .. n |-> [x \in Int |-> x + s[i].lo]]
<1>1. 0 \in T[0] /\ Steps(G, 0, n, T) /\ 0 \in Nat
  BY DEF Steps
<1> HIDE DEF T, G
<1>2. PICK f : IsRun(f, 0, n, 0, G) /\ Valued(f, 0, n, T)
  BY <1>1, Recursion
<1>3. f = [i \in 0 .. n |-> f[i]]
  BY <1>2 DEF IsRun
<1>4. ASSUME NEW i \in 0 .. n PROVE f[i] = IF i = 0 THEN 0 ELSE f[i - 1] + s[i].lo
  <2>1. CASE i = 0
    BY <1>2, <2>1 DEF IsRun
  <2>2. CASE i # 0
    <3>1. i \in 1 .. n /\ i - 1 \in 0 .. n
      BY <2>2
    <3>2. f[i] = G[i][f[i - 1]] /\ f[i - 1] \in Int
      BY <1>2, <2>2, <3>1 DEF IsRun, Valued, T
    <3> QED BY <2>2, <3>1, <3>2 DEF G
  <2> QED BY <2>1, <2>2
<1>5. Sums(f, s, n)
  BY <1>3, <1>4 DEF Sums
<1> QED BY <1>5

LEMMA SumSeen ==
  ASSUME NEW m, NEW p, IsList(m, p)
  PROVE  list_sum(m, p) = Py!Total(elems(m, p))
<1>1. PICK c \in Nat : c = Count(m, p)
  BY ElemFacts
<1>2. PICK s : s = elems(m, p)
  OBVIOUS
<1>3. Len(s) = c /\ \A j \in 1 .. c : s[j] = m[p + j] /\ s[j].lo \in Int
  BY <1>1, <1>2, ElemFacts, Constants DEF Word
<1> DEFINE Here(f) == f = [i \in 0 .. Count(m, p) |-> IF i = 0 THEN 0 ELSE f[i - 1] + m[p + i].lo]
           There(f) == f = [i \in 0 .. Len(s) |-> IF i = 0 THEN 0 ELSE f[i - 1] + FromWord(s[i])]
           f == CHOOSE f : Here(f)
           g == CHOOSE g : There(g)
<1>5. list_sum(m, p) = f[Count(m, p)]
  BY Zenon DEF list_sum
<1>6. Py!Total(s) = g[Len(s)]
  BY Zenon DEF Py!Total
<1>7. PICK a : Sums(a, s, c)
  BY <1>3, SumsExist
<1>8. a = [i \in 0 .. c |-> IF i = 0 THEN 0 ELSE a[i - 1] + s[i].lo]
  BY <1>7 DEF Sums
<1>9. \A i \in 0 .. c : i # 0 => m[p + i].lo = s[i].lo /\ FromWord(s[i]) = s[i].lo
  BY <1>3 DEF FromWord
<1>10. Here(a) /\ There(a)
  <2>1. Here(a)
    BY <1>1, <1>8, <1>9
  <2>2. There(a)
    BY <1>3, <1>8, <1>9
  <2> QED BY <2>1, <2>2
<1>11. Here(f) /\ There(g)
  <2>1. Here(f)
    BY <1>10, Zenon
  <2>2. There(g)
    BY <1>10, Zenon
  <2> QED BY <2>1, <2>2
<1> HIDE DEF f, g
<1>12. /\ f[0] = 0 /\ g[0] = 0
       /\ \A i \in 1 .. c : f[i] = f[i - 1] + s[i].lo /\ g[i] = g[i - 1] + s[i].lo
  BY <1>1, <1>3, <1>9, <1>11
<1>13. f[c] = g[c]
  BY <1>12, SameRun
<1> QED BY <1>1, <1>2, <1>3, <1>5, <1>6, <1>13

(* Place j holds the first of the extreme elements among the first i. *)
Extreme(s, is_max, i, j) ==
  \A k \in 1 .. i : ~ should_shift(is_max, s[j], s[k]) /\ (k < j => s[k].lo # s[j].lo)

LEMMA ExtremumSeen ==
  ASSUME NEW m, NEW p, IsList(m, p), Count(m, p) # 0, NEW is_max \in BOOLEAN
  PROVE  list_minmax(m, p, is_max) = Py!InOrder(elems(m, p), is_max)[1]
<1>1. PICK n \in Nat : n = Count(m, p)
  BY ElemFacts
<1>2. PICK s : s = elems(m, p)
  OBVIOUS
<1>3. s \in Seq(Vals) /\ DOMAIN s = 1 .. n /\ Len(s) = n /\ n >= 1
      /\ \A j \in 1 .. n : s[j] = m[p + j] /\ s[j].lo \in Int
  BY <1>1, <1>2, ElemFacts, Constants DEF Word
<1>4. PICK f : /\ list_minmax(m, p, is_max) = f[n] /\ f[1] = s[1]
               /\ \A i \in 2 .. n : f[i] = IF should_shift(is_max, f[i - 1], s[i]) THEN s[i] ELSE f[i - 1]
  BY <1>1, <1>3, ExtremumRuns
<1> DEFINE T == [i \in 1 .. n |-> {x \in Vals : \E j \in 1 .. i : x = s[j] /\ Extreme(s, is_max, i, j)}]
<1>5. f[1] \in T[1]
  <2>1. Extreme(s, is_max, 1, 1)
    BY <1>3 DEF Extreme, should_shift
  <2> QED BY <1>3, <1>4, <2>1
<1>6. ASSUME NEW i \in (1 + 1) .. n, f[i - 1] \in T[i - 1] PROVE f[i] \in T[i]
  <2>1. i \in 2 .. n /\ i \in 1 .. n /\ i - 1 \in 1 .. n
    OBVIOUS
  <2>2. PICK j \in 1 .. i - 1 : f[i - 1] = s[j] /\ Extreme(s, is_max, i - 1, j)
    BY <1>6, <2>1
  <2>3. j \in 1 .. n /\ j \in 1 .. i /\ s[j] \in Vals /\ s[i] \in Vals /\ s[j].lo \in Int /\ s[i].lo \in Int
    BY <1>3, <2>1
  <2>4. CASE should_shift(is_max, s[j], s[i])
    <3>1. f[i] = s[i]
      BY <1>4, <2>1, <2>2, <2>4
    <3>2. ASSUME NEW k \in 1 .. i
          PROVE  ~ should_shift(is_max, s[i], s[k]) /\ (k < i => s[k].lo # s[i].lo)
      <4>1. CASE k = i
        BY <2>3, <4>1 DEF should_shift
      <4>2. CASE k # i
        <5>1. k \in 1 .. i - 1 /\ s[k].lo \in Int
          BY <1>3, <4>2
        <5>2. ~ should_shift(is_max, s[j], s[k])
          BY <2>2, <5>1 DEF Extreme
        <5> QED BY <2>3, <2>4, <5>1, <5>2 DEF should_shift
      <4> QED BY <4>1, <4>2
    <3>3. Extreme(s, is_max, i, i)
      BY <3>2 DEF Extreme
    <3>4. i \in 1 .. i
      BY <2>1
    <3> QED BY <2>1, <2>3, <3>1, <3>3, <3>4
  <2>5. CASE ~ should_shift(is_max, s[j], s[i])
    <3>1. f[i] = s[j]
      BY <1>4, <2>1, <2>2, <2>5
    <3>2. ASSUME NEW k \in 1 .. i
          PROVE  ~ should_shift(is_max, s[j], s[k]) /\ (k < j => s[k].lo # s[j].lo)
      <4>1. CASE k = i
        BY <2>3, <2>5, <4>1
      <4>2. CASE k # i
        <5>1. k \in 1 .. i - 1
          BY <4>2
        <5> QED BY <2>2, <5>1 DEF Extreme
      <4> QED BY <4>1, <4>2
    <3>3. Extreme(s, is_max, i, j)
      BY <3>2 DEF Extreme
    <3> QED BY <2>1, <2>3, <3>1, <3>3
  <2> QED BY <2>4, <2>5
<1>7. f[n] \in T[n]
  <2> HIDE DEF T
  <2>1. Valued(f, 1, n, T)
    BY <1>3, <1>5, <1>6, Along
  <2> QED BY <1>3, <2>1 DEF Valued
<1>8. PICK j \in 1 .. n : f[n] = s[j] /\ Extreme(s, is_max, n, j)
  BY <1>3, <1>7
<1>9. PICK q \in [DOMAIN s -> DOMAIN s] :
        Py!Ranking(s, is_max, q) /\ Py!InOrder(s, is_max) = [i \in DOMAIN s |-> s[q[i]]]
  <2>1. \A v \in Vals : v.lo \in Int
    BY Constants DEF Word
  <2> QED BY <1>3, <2>1, SortSeen
<1>10. PICK k \in 1 .. n : q[k] = j
  BY <1>3, <1>9 DEF Py!Ranking
<1>11. k = 1
  <2>1. ASSUME k # 1 PROVE FALSE
    <3>1. 1 \in 1 .. n /\ 1 < k /\ q[1] \in 1 .. n
      BY <1>3, <2>1
    <3>2. Py!Ahead(s, is_max, q[1], j)
      BY <1>3, <1>9, <1>10, <3>1 DEF Py!Ranking
    <3>3. \/ should_shift(is_max, s[j], s[q[1]])
          \/ s[q[1]].lo = s[j].lo /\ q[1] < j
      <4>2. PICK a \in 1 .. Len(s) : a = q[1]
        BY <1>3, <3>1
      <4>3. PICK b \in 1 .. Len(s) : b = j
        BY <1>3
      <4>4. Py!Ahead(s, is_max, a, b)
        BY <3>2, <4>2, <4>3
      <4>5. should_shift(is_max, s[b], s[a]) \/ (s[a].lo = s[b].lo /\ a < b)
        <5>1. s[a].lo \in Int /\ s[b].lo \in Int
          BY <1>3
        <5>2. CASE is_max = TRUE
          BY <4>4, <5>1, <5>2 DEF Py!Ahead, FromWord, should_shift
        <5>3. CASE is_max = FALSE
          BY <4>4, <5>1, <5>3 DEF Py!Ahead, FromWord, should_shift
        <5> QED BY <5>2, <5>3
      <4> QED BY <4>2, <4>3, <4>5
    <3> QED BY <1>8, <3>1, <3>3 DEF Extreme
  <2> QED BY <2>1
<1>12. Py!InOrder(s, is_max)[1] = s[j]
  BY <1>3, <1>9, <1>10, <1>11
<1> QED BY <1>2, <1>4, <1>8, <1>12

-----------------------------------------------------------------------------
(* Operands: what the code and what Python make of one. *)
Agrees(r, q) ==
  \/ r.ok = TRUE /\ q.ok = TRUE /\ q.obj = Seen(r.mem) /\ q.val = r.val
  \/ r.ok = FALSE /\ q.ok = FALSE

(* An operand may touch the list at p only by popping it. *)
Touches(o, p) == o.kind # "const" /\ loc[o.y] = p

LEMMA PopSeen ==
  ASSUME NEW m, NEW h, NEW d, NEW e, Heap(m, h, d, Lists, e), NEW p \in Lists
  PROVE  /\ ~ list_pop(m, p).ok <=> elems(m, p) = <<>>
         /\ list_pop(m, p).ok =>
              /\ Seen(list_pop(m, p).mem)
                   = [Seen(m) EXCEPT ![p] = Py!Without(elems(m, p), Len(elems(m, p)) - 1)]
              /\ list_pop(m, p).val = elems(m, p)[Len(elems(m, p))]
<1>1. PICK c \in Nat : c = Count(m, p)
  BY ElemFacts DEF Heap
<1>2. PICK s : s = elems(m, p)
  OBVIOUS
<1>3. IsList(m, p) /\ m \in [Page -> Word] /\ e[p] \in Nat /\ Top(m, p) <= e[p]
  BY DEF Heap
<1>4. s \in Seq(Vals) /\ Len(s) = c /\ \A j \in 1 .. c : s[j] = m[p + j]
  BY <1>1, <1>2, <1>3, ElemFacts
<1>5. s = <<>> <=> c = 0
  BY <1>4
<1>6. list_pop(m, p).ok = (c > 0)
  BY <1>1 DEF list_pop
<1>7. ASSUME c > 0
      PROVE  /\ Seen(list_pop(m, p).mem) = [Seen(m) EXCEPT ![p] = Py!Without(s, Len(s) - 1)]
             /\ list_pop(m, p).val = s[Len(s)]
  <2>1. PICK n : n = set_count(m, p, c - 1)
    OBVIOUS
  <2>2. list_pop(m, p).mem = n /\ list_pop(m, p).val = m[p + c]
    BY <1>1, <1>7, <2>1 DEF list_pop
  <2>3. InPlace(m, p, n, e[p])
    <3>1. list_pop(m, p).ok
      BY <1>6, <1>7
    <3>2. Shorter(m, p, list_pop(m, p).mem, e[p])
      BY <1>3, <3>1, PopInPlace
    <3> QED BY <2>2, <3>2 DEF Shorter
  <2>4. elems(n, p) = Py!Without(s, Len(s) - 1)
    BY <1>1, <1>2, <1>3, <1>7, <2>1, CutSeen
  <2>5. Seen(n) = [Seen(m) EXCEPT ![p] = elems(n, p)]
    BY <2>3, InPlaceSeen
  <2> QED BY <1>4, <1>7, <2>2, <2>4, <2>5
<1>8. CASE c > 0
  <2>1. (c > 0) = TRUE /\ s # <<>>
    BY <1>5, <1>8
  <2>2. list_pop(m, p).ok = TRUE
    BY <1>6, <2>1
  <2> QED BY <1>2, <1>7, <1>8, <2>1, <2>2
<1>9. CASE ~ (c > 0)
  <2>1. (c > 0) = FALSE /\ s = <<>>
    BY <1>5, <1>9
  <2>2. list_pop(m, p).ok = FALSE
    BY <1>6, <2>1
  <2> QED BY <1>2, <2>1, <2>2
<1> QED BY <1>8, <1>9

LEMMA PopAtSeen ==
  ASSUME NEW m, NEW h, NEW d, NEW e, Heap(m, h, d, Lists, e), NEW p \in Lists, NEW i \in Int
  PROVE  /\ list_pop_idx(m, p, i).ok <=> Py!Inside(Len(elems(m, p)), i)
         /\ list_pop_idx(m, p, i).ok =>
              /\ Seen(list_pop_idx(m, p, i).mem)
                   = [Seen(m) EXCEPT ![p] = Py!Without(elems(m, p), Py!At(Len(elems(m, p)), i))]
              /\ list_pop_idx(m, p, i).val = elems(m, p)[Py!At(Len(elems(m, p)), i) + 1]
<1>1. PICK c \in Nat : c = Count(m, p)
  BY ElemFacts DEF Heap
<1>2. PICK s : s = elems(m, p)
  OBVIOUS
<1>3. IsList(m, p) /\ m \in [Page -> Word] /\ e[p] \in Nat /\ Top(m, p) <= e[p]
  BY DEF Heap
<1>4. s \in Seq(Vals) /\ Len(s) = c /\ p \in Nat /\ \A j \in 1 .. c : s[j] = m[p + j]
  BY <1>1, <1>2, <1>3, ElemFacts
<1>5. PICK k : k = Normal(c, i)
  OBVIOUS
<1>6. Py!At(Len(s), i) = k /\ (Py!Inside(Len(s), i) <=> InBounds(c, i))
  BY <1>4, <1>5, SameIndex
<1>7. CASE ~ InBounds(c, i)
  <2>1. list_pop_idx(m, p, i).ok = FALSE
    BY <1>1, <1>7 DEF list_pop_idx
  <2> QED BY <1>2, <1>6, <1>7, <2>1
<1>8. CASE InBounds(c, i)
  <2>1. k \in 0 .. c - 1
    BY <1>5, <1>8 DEF InBounds
  <2>2. PICK n : n = close_slot(m, p, k)
    OBVIOUS
  <2>3. list_pop_idx(m, p, i).ok = TRUE /\ list_pop_idx(m, p, i).mem = n
        /\ list_pop_idx(m, p, i).val = m[p + 1 + k]
    BY <1>1, <1>5, <1>8, <2>2 DEF list_pop_idx
  <2>4. InPlace(m, p, n, e[p])
    <3>1. Shorter(m, p, n, e[p])
      BY <1>1, <1>3, <2>1, <2>2, CloseInPlace
    <3> QED BY <3>1 DEF Shorter
  <2>5. elems(n, p) = Py!Without(s, k)
    BY <1>1, <1>2, <1>3, <2>1, <2>2, CloseSeen
  <2>6. Seen(n) = [Seen(m) EXCEPT ![p] = elems(n, p)]
    BY <2>4, InPlaceSeen
  <2>7. m[p + 1 + k] = s[k + 1]
    <3>1. k + 1 \in 1 .. c /\ p + 1 + k = p + (k + 1)
      BY <1>4, <2>1
    <3> QED BY <1>4, <3>1
  <2> QED BY <1>2, <1>6, <1>8, <2>3, <2>5, <2>6, <2>7
<1> QED BY <1>7, <1>8

LEMMA EvalSeen ==
  ASSUME loc \in [Names -> Nat], NEW m, NEW h, NEW d, NEW e, Heap(m, h, d, Lists, e),
         NEW o \in Operands
  PROVE  /\ Agrees(eval(m, o), Py!Eval(Seen(m), o))
         /\ eval(m, o).ok => \A p \in Lists : ~ Touches(o, p) => elems(eval(m, o).mem, p) = elems(m, p)
<1> DEFINE r == eval(m, o)
           q == Py!Eval(Seen(m), o)
<1>1. ASSUME NEW y \in Live PROVE loc[y] \in Lists /\ Seen(m)[loc[y]] = elems(m, loc[y])
  BY DEF Lists, Seen
<1>2. ASSUME NEW y \in Live, o.kind # "const", o.y = y, NEW t, Seen(r.mem) = [Seen(m) EXCEPT ![loc[y]] = t]
      PROVE  \A p \in Lists : ~ Touches(o, p) => elems(r.mem, p) = elems(m, p)
  <2> SUFFICES ASSUME NEW p \in Lists, ~ Touches(o, p) PROVE elems(r.mem, p) = elems(m, p)
    OBVIOUS
  <2>1. p # loc[y]
    BY <1>2 DEF Touches
  <2>2. Seen(r.mem)[p] = Seen(m)[p]
    BY <1>2, <2>1 DEF Seen
  <2> QED BY <2>2 DEF Seen
<1>3. CASE \E v \in Vals : o = Const(v)
  <2>1. PICK v \in Vals : o = Const(v)
    BY <1>3
  <2>2. r = [ok |-> TRUE, mem |-> m, val |-> v]
    BY <2>1 DEF eval, Const
  <2>3. q = [ok |-> TRUE, obj |-> Seen(m), val |-> v]
    BY <2>1 DEF Py!Eval, Const
  <2> QED BY <2>2, <2>3 DEF Agrees
<1>4. CASE \E y \in Live : o = PopLast(y)
  <2>1. PICK y \in Live : o = PopLast(y)
    BY <1>4
  <2>2. PICK p \in Lists : p = loc[y] /\ Seen(m)[p] = elems(m, p)
    BY <1>1
  <2>3. r = list_pop(m, p) /\ o.kind = "pop" /\ o.y = y
    BY <2>1, <2>2 DEF eval, PopLast
  <2>4. PICK s : s = elems(m, p)
    OBVIOUS
  <2>5. q = IF s = <<>> THEN [ok |-> FALSE]
            ELSE [ok |-> TRUE, obj |-> [Seen(m) EXCEPT ![p] = Py!Without(s, Len(s) - 1)], val |-> s[Len(s)]]
    BY <2>2, <2>3, <2>4 DEF Py!Eval
  <2>6. r.ok \in BOOLEAN
    BY <2>3 DEF list_pop
  <2> HIDE DEF r, q
  <2>7. /\ ~ r.ok <=> s = <<>>
        /\ r.ok => /\ Seen(r.mem) = [Seen(m) EXCEPT ![p] = Py!Without(s, Len(s) - 1)]
                   /\ r.val = s[Len(s)]
    BY <2>3, <2>4, PopSeen
  <2>8. Agrees(r, q)
    BY <2>5, <2>6, <2>7 DEF Agrees
  <2>9. ASSUME r.ok PROVE \A l \in Lists : ~ Touches(o, l) => elems(r.mem, l) = elems(m, l)
    BY <1>2, <2>2, <2>3, <2>7, <2>9 DEF r
  <2> QED BY <2>8, <2>9 DEF r, q
<1>5. CASE \E y \in Live, i \in Idx : o = PopAt(y, i)
  <2>1. PICK y \in Live, i \in Idx : o = PopAt(y, i)
    BY <1>5
  <2>2. PICK p \in Lists : p = loc[y] /\ Seen(m)[p] = elems(m, p)
    BY <1>1
  <2>3. r = list_pop_idx(m, p, i) /\ o.kind = "pop_at" /\ o.y = y /\ o.i = i /\ i \in Int
    BY <2>1, <2>2, Constants DEF eval, PopAt
  <2>4. PICK s : s = elems(m, p)
    OBVIOUS
  <2>5. PICK k : k = Py!At(Len(s), i)
    OBVIOUS
  <2>6. q = IF ~ Py!Inside(Len(s), i) THEN [ok |-> FALSE]
            ELSE [ok |-> TRUE, obj |-> [Seen(m) EXCEPT ![p] = Py!Without(s, k)], val |-> s[k + 1]]
    BY <2>2, <2>3, <2>4, <2>5 DEF Py!Eval
  <2>7. r.ok \in BOOLEAN
    BY <2>3 DEF list_pop_idx
  <2> HIDE DEF r, q
  <2>8. /\ r.ok <=> Py!Inside(Len(s), i)
        /\ r.ok => /\ Seen(r.mem) = [Seen(m) EXCEPT ![p] = Py!Without(s, k)]
                   /\ r.val = s[k + 1]
    BY <2>3, <2>4, <2>5, PopAtSeen
  <2>9. Agrees(r, q)
    BY <2>6, <2>7, <2>8 DEF Agrees
  <2>10. ASSUME r.ok PROVE \A l \in Lists : ~ Touches(o, l) => elems(r.mem, l) = elems(m, l)
    BY <1>2, <2>2, <2>3, <2>8, <2>10 DEF r
  <2> QED BY <2>9, <2>10 DEF r, q
<1> QED BY <1>3, <1>4, <1>5 DEF Operands

PyStored(u, o) ==
  IF ~ u.ok THEN u
  ELSE LET r == Py!Eval(u.obj, o) IN
       IF r.ok THEN [ok |-> TRUE, obj |-> r.obj, vals |-> Append(u.vals, r.val)] ELSE [ok |-> FALSE]

Objects == [Lists -> Seq(Vals)]

(* Python's run after some operands. *)
PyRuns == {[ok |-> FALSE]} \cup [ok : {TRUE}, obj : Objects, vals : Seq(Vals)]

LEMMA PyEvalFacts ==
  ASSUME NEW b \in Objects, NEW o \in Operands
  PROVE  LET r == Py!Eval(b, o) IN r.ok => r.obj \in Objects /\ r.val \in Vals
<1> DEFINE r == Py!Eval(b, o)
<1>1. ASSUME NEW y \in Live PROVE loc[y] \in Lists /\ b[loc[y]] \in Seq(Vals)
  BY DEF Lists, Objects
<1>2. CASE \E v \in Vals : o = Const(v)
  <2>1. PICK v \in Vals : o = Const(v)
    BY <1>2
  <2>2. r = [ok |-> TRUE, obj |-> b, val |-> v]
    BY <2>1 DEF Py!Eval, Const
  <2> QED BY <2>2
<1>3. CASE \E y \in Live : o = PopLast(y)
  <2>1. PICK y \in Live : o = PopLast(y)
    BY <1>3
  <2>2. PICK p \in Lists : p = loc[y] /\ b[p] \in Seq(Vals)
    BY <1>1
  <2>3. PICK s \in Seq(Vals) : s = b[p]
    BY <2>2
  <2>4. r = IF s = <<>> THEN [ok |-> FALSE]
            ELSE [ok |-> TRUE, obj |-> [b EXCEPT ![p] = Py!Without(s, Len(s) - 1)], val |-> s[Len(s)]]
    BY <2>1, <2>2, <2>3 DEF Py!Eval, PopLast
  <2> HIDE DEF r
  <2>5. ASSUME s # <<>> PROVE Py!Without(s, Len(s) - 1) \in Seq(Vals) /\ s[Len(s)] \in Vals
    <3>1. Len(s) - 1 \in 0 .. Len(s) - 1 /\ Len(s) \in DOMAIN s
      BY <2>5
    <3> QED BY <3>1, WithoutFacts
  <2>6. ASSUME s # <<>> PROVE [b EXCEPT ![p] = Py!Without(s, Len(s) - 1)] \in Objects
    BY <2>5, <2>6 DEF Objects
  <2>7. r.ok => r.obj \in Objects /\ r.val \in Vals
    BY <2>4, <2>5, <2>6
  <2> QED BY <2>7 DEF r
<1>4. CASE \E y \in Live, i \in Idx : o = PopAt(y, i)
  <2>1. PICK y \in Live, i \in Idx : o = PopAt(y, i)
    BY <1>4
  <2>2. PICK p \in Lists : p = loc[y] /\ b[p] \in Seq(Vals)
    BY <1>1
  <2>3. PICK s \in Seq(Vals) : s = b[p]
    BY <2>2
  <2>4. PICK k : k = Py!At(Len(s), i)
    OBVIOUS
  <2>5. r = IF ~ Py!Inside(Len(s), i) THEN [ok |-> FALSE]
            ELSE [ok |-> TRUE, obj |-> [b EXCEPT ![p] = Py!Without(s, k)], val |-> s[k + 1]]
    BY <2>1, <2>2, <2>3, <2>4 DEF Py!Eval, PopAt
  <2> HIDE DEF r
  <2>6. ASSUME Py!Inside(Len(s), i) PROVE Py!Without(s, k) \in Seq(Vals) /\ s[k + 1] \in Vals
    <3>1. k \in 0 .. Len(s) - 1
      BY <2>4, <2>6 DEF Py!Inside
    <3> QED BY <3>1, WithoutFacts
  <2>7. ASSUME Py!Inside(Len(s), i) PROVE [b EXCEPT ![p] = Py!Without(s, k)] \in Objects
    BY <2>6, <2>7 DEF Objects
  <2>8. r.ok => r.obj \in Objects /\ r.val \in Vals
    BY <2>5, <2>6, <2>7
  <2> QED BY <2>8 DEF r
<1> QED BY <1>2, <1>3, <1>4 DEF Operands

IsEvalAll(f, es) ==
  f = [j \in 0 .. Len(es) |->
        IF j = 0 THEN [ok |-> TRUE, obj |-> PyObj, vals |-> <<>>]
        ELSE IF ~ f[j - 1].ok THEN f[j - 1]
        ELSE LET r == Py!Eval(f[j - 1].obj, es[j]) IN
             IF r.ok THEN [ok |-> TRUE, obj |-> r.obj, vals |-> Append(f[j - 1].vals, r.val)]
             ELSE [ok |-> FALSE]]

LEMMA PyStoredRuns ==
  ASSUME NEW u \in PyRuns, NEW o \in Operands
  PROVE  PyStored(u, o) \in PyRuns
<1>1. PICK r : r = Py!Eval(u.obj, o)
  OBVIOUS
<1>2. PyStored(u, o) = IF ~ u.ok THEN u
                       ELSE IF r.ok THEN [ok |-> TRUE, obj |-> r.obj, vals |-> Append(u.vals, r.val)]
                       ELSE [ok |-> FALSE]
  BY <1>1 DEF PyStored
<1>3. CASE ~ u.ok
  BY <1>2, <1>3
<1>4. CASE u.ok
  <2>1. u.obj \in Objects /\ u.vals \in Seq(Vals)
    <3>1. u # [ok |-> FALSE]
      BY <1>4
    <3>2. u \in [ok : {TRUE}, obj : Objects, vals : Seq(Vals)]
      BY <3>1 DEF PyRuns
    <3> QED BY <3>2
  <2>2. r.ok => r.obj \in Objects /\ r.val \in Vals
    BY <1>1, <2>1, PyEvalFacts
  <2>3. CASE r.ok
    <3>1. Append(u.vals, r.val) \in Seq(Vals)
      BY <2>1, <2>2, <2>3, AppendProperties
    <3> QED BY <1>2, <1>4, <2>2, <2>3, <3>1 DEF PyRuns
  <2>4. CASE ~ r.ok
    BY <1>2, <1>4, <2>4 DEF PyRuns
  <2> QED BY <2>3, <2>4
<1> QED BY <1>3, <1>4

LEMMA PyEvalAllRuns ==
  ASSUME PyObj \in Objects, NEW len \in Nat, NEW es \in [1 .. len -> Operands]
  PROVE  \E u : /\ Py!EvalAll(es) = u[len] /\ u[0] = [ok |-> TRUE, obj |-> PyObj, vals |-> <<>>]
                /\ \A j \in 1 .. len : u[j] = PyStored(u[j - 1], es[j])
<1> DEFINE base == [ok |-> TRUE, obj |-> PyObj, vals |-> <<>>]
           T == [j \in 0 .. len |-> PyRuns]
           G == [j \in 1 .. len |-> [u \in PyRuns |-> PyStored(u, es[j])]]
<1>1. len \in Nat /\ 0 \in Nat /\ Len(es) = len /\ \A j \in 1 .. len : es[j] \in Operands
  <2>1. es \in Seq(Operands)
    OBVIOUS
  <2> QED BY <2>1
<1>2. base \in PyRuns
  BY DEF PyRuns
<1> HIDE DEF base
<1>3. base \in T[0]
  BY <1>2
<1>4. Steps(G, 0, len, T)
  BY <1>1, PyStoredRuns DEF Steps
<1>5. \E f : IsEvalAll(f, es)
  <2> HIDE DEF T, G
  <2>1. PICK f : IsRun(f, 0, len, base, G) /\ Valued(f, 0, len, T)
    BY <1>1, <1>3, <1>4, Recursion
  <2>2. f = [j \in 0 .. len |-> f[j]]
    BY <2>1 DEF IsRun
  <2>3. ASSUME NEW j \in 0 .. len PROVE f[j] = IF j = 0 THEN base ELSE PyStored(f[j - 1], es[j])
    <3>1. CASE j = 0
      BY <2>1, <3>1 DEF IsRun
    <3>2. CASE j # 0
      <4>1. j \in 1 .. len /\ j - 1 \in 0 .. len
        BY <3>2
      <4>2. f[j] = G[j][f[j - 1]] /\ f[j - 1] \in PyRuns
        BY <2>1, <3>2, <4>1 DEF IsRun, Valued, T
      <4> QED BY <3>2, <4>1, <4>2 DEF G
    <3> QED BY <3>1, <3>2
  <2>4. f = [j \in 0 .. len |-> IF j = 0 THEN base ELSE PyStored(f[j - 1], es[j])]
    BY <2>2, <2>3
  <2> QED BY <1>1, <2>4 DEF IsEvalAll, PyStored, base
<1> DEFINE u == CHOOSE f : IsEvalAll(f, es)
<1>6. Py!EvalAll(es) = u[Len(es)]
  BY Zenon DEF Py!EvalAll, IsEvalAll
<1>7. IsEvalAll(u, es)
  BY <1>5, Zenon
<1> HIDE DEF u
<1>8. u = [j \in 0 .. len |-> IF j = 0 THEN base ELSE PyStored(u[j - 1], es[j])]
  BY <1>1, <1>7 DEF IsEvalAll, PyStored, base
<1>9. u[0] = base /\ \A j \in 1 .. len : u[j] = PyStored(u[j - 1], es[j])
  <2>1. 0 \in 0 .. len /\ \A j \in 1 .. len : j \in 0 .. len /\ j # 0
    OBVIOUS
  <2> QED BY <1>8, <2>1
<1> QED BY <1>1, <1>6, <1>9 DEF base

(* After j elements the two runs are in step. *)
Lock(r, u, h, j) ==
  \/ /\ r.why = "none" /\ u.ok = TRUE
     /\ u.vals \in Seq(Vals) /\ Len(u.vals) = j /\ \A i \in 1 .. j : u.vals[i] = r.mem[h + i]
     /\ u.obj = Seen(r.mem)
  \/ r.why = "unreachable" /\ u.ok = FALSE
  \/ r.why = "oob"

LEMMA StoredLocks ==
  ASSUME loc \in [Names -> Nat], NEW h, NEW d, NEW e, NEW len \in Nat, NEW j \in 1 .. len,
         NEW es, es[j] \in Operands, NEW r \in Fillings(h, d, e, len, j - 1),
         NEW u, Lock(r, u, h, j - 1)
  PROVE  Lock(Stored(h, es, j, r), PyStored(u, es[j]), h, j)
<1> DEFINE x == eval(r.mem, es[j])
           y == Py!Eval(u.obj, es[j])
<1>1. CASE r.why = "unreachable" /\ u.ok = FALSE
  <2>1. Stored(h, es, j, r) = r /\ PyStored(u, es[j]) = u
    BY <1>1 DEF Stored, PyStored
  <2> QED BY <1>1, <2>1 DEF Lock
<1>2. CASE r.why = "oob"
  <2>1. Stored(h, es, j, r) = r
    BY <1>2 DEF Stored
  <2> QED BY <1>2, <2>1 DEF Lock
<1>3. CASE r.why = "none"
  <2>1. /\ u.ok = TRUE /\ u.vals \in Seq(Vals) /\ Len(u.vals) = j - 1
        /\ \A i \in 1 .. j - 1 : u.vals[i] = r.mem[h + i]
        /\ u.obj = Seen(r.mem)
    BY <1>3 DEF Lock
  <2>2. Filling(r.mem, h, d, e, len, j - 1) /\ r.mem \in [Page -> Word]
    BY <1>3 DEF Fillings
  <2>3. Heap(r.mem, h, d, Lists, e) /\ h \in Page /\ h \in Nat
    BY <2>2, Constants DEF Filling
  <2>4. Agrees(x, y)
    BY <2>1, <2>3, EvalSeen
  <2>5. /\ x.ok \in BOOLEAN /\ x.val \in Vals /\ x.val \in Word
        /\ Heap(x.mem, h, d, Lists, e)
        /\ \A a \in Page : a >= h => x.mem[a] = r.mem[a]
    BY <2>3, EvalHeap, Constants
  <2>6. PyStored(u, es[j]) = IF y.ok THEN [ok |-> TRUE, obj |-> y.obj, vals |-> Append(u.vals, y.val)]
                             ELSE [ok |-> FALSE]
    BY <2>1 DEF PyStored
  <2>7. Stored(h, es, j, r) = IF ~ x.ok THEN [why |-> "unreachable", mem |-> r.mem]
                              ELSE IF h + j \notin Page THEN [why |-> "oob", mem |-> x.mem]
                              ELSE [why |-> "none", mem |-> [x.mem EXCEPT ![h + j] = x.val]]
    BY <1>3 DEF Stored
  <2> HIDE DEF x, y
  <2>8. CASE x.ok = FALSE
    <3>1. y.ok = FALSE
      BY <2>4, <2>8 DEF Agrees
    <3> QED BY <2>6, <2>7, <2>8, <3>1 DEF Lock
  <2>9. CASE x.ok = TRUE /\ h + j \notin Page
    BY <2>7, <2>9 DEF Lock
  <2>10. CASE x.ok = TRUE /\ h + j \in Page
    <3>1. y.ok = TRUE /\ y.obj = Seen(x.mem) /\ y.val = x.val
      BY <2>4, <2>10 DEF Agrees
    <3>2. PICK n : n = [x.mem EXCEPT ![h + j] = x.val]
      OBVIOUS
    <3>3. Stored(h, es, j, r) = [why |-> "none", mem |-> n]
      BY <2>7, <2>10, <3>2
    <3>4. PICK vals : vals = Append(u.vals, x.val)
      OBVIOUS
    <3>5. PyStored(u, es[j]) = [ok |-> TRUE, obj |-> Seen(x.mem), vals |-> vals]
      BY <2>6, <3>1, <3>4
    <3>6. x.mem \in [Page -> Word]
      BY <2>5 DEF Heap
    <3>7. n \in [Page -> Word] /\ \A a \in Page : n[a] = IF a = h + j THEN x.val ELSE x.mem[a]
      BY <2>5, <2>10, <3>2, <3>6
    <3>8. Seen(n) = Seen(x.mem)
      <4>1. \A a \in Page : a < h => n[a] = x.mem[a]
        BY <2>3, <3>7, Constants
      <4>2. \A q \in Lists : elems(n, q) = elems(x.mem, q)
        BY <2>5, <4>1, AboveSeen
      <4> QED BY <4>2 DEF Seen
    <3>9. vals \in Seq(Vals) /\ Len(vals) = (j - 1) + 1 /\ vals[(j - 1) + 1] = x.val
          /\ \A i \in 1 .. j - 1 : vals[i] = u.vals[i]
      BY <2>1, <2>5, <3>4, AppendProperties
    <3>10. ASSUME NEW i \in 1 .. j PROVE vals[i] = n[h + i]
      <4>1. CASE i = j
        BY <2>10, <3>7, <3>9, <4>1
      <4>2. CASE i # j
        <5>1. i \in 1 .. j - 1 /\ h + i # h + j
          BY <2>3, <4>2
        <5>2. h + i \in Page /\ h + i >= h
          BY <2>3, <2>10, <5>1, Constants DEF Page
        <5>3. n[h + i] = r.mem[h + i]
          BY <2>5, <3>7, <5>1, <5>2
        <5> QED BY <2>1, <3>9, <5>1, <5>3
      <4> QED BY <4>1, <4>2
    <3>11. Len(vals) = j
      BY <3>9
    <3> QED BY <3>3, <3>5, <3>8, <3>9, <3>10, <3>11 DEF Lock
  <2> QED BY <2>5, <2>8, <2>9, <2>10
<1> QED BY <1>1, <1>2, <1>3 DEF Lock

(* What the literal's elements come to. *)
LiteralRead(r, u, h) ==
  \/ /\ r.why = "none" /\ u.ok = TRUE
     /\ elems(r.mem, h) = u.vals /\ u.obj = Seen(r.mem)
  \/ r.why = "unreachable" /\ u.ok = FALSE
  \/ r.why = "oob"

LEMMA LiteralSeen ==
  ASSUME loc \in [Names -> Nat], NEW h, NEW d, NEW e, Heap(mem, h, d, Lists, e),
         ZeroFrom(mem, h), NEW len \in Nat, NEW es \in [1 .. len -> Operands]
  PROVE  LiteralRead(Fill(mem, h, es), Py!EvalAll(es), h)
<1>1. PICK m : m = mem
  OBVIOUS
<1>2. Heap(m, h, d, Lists, e) /\ ZeroFrom(m, h)
  BY <1>1
<1>3. PICK f : /\ Fill(m, h, es) = f[len] /\ f[0] = Header(m, h, len)
               /\ \A j \in 1 .. len : f[j] = Stored(h, es, j, f[j - 1])
               /\ \A j \in 0 .. len : f[j] \in Fillings(h, d, e, len, j)
  BY <1>2, FillRuns
<1>4. PyObj = Seen(m) /\ PyObj \in Objects
  <2>1. \A q \in Lists : elems(m, q) \in Seq(Vals)
    BY <1>2, ElemFacts DEF Heap
  <2> QED BY <1>1, <2>1 DEF PyObj, Seen, Objects
<1>5. PICK u : /\ Py!EvalAll(es) = u[len] /\ u[0] = [ok |-> TRUE, obj |-> PyObj, vals |-> <<>>]
               /\ \A j \in 1 .. len : u[j] = PyStored(u[j - 1], es[j])
  BY <1>4, PyEvalAllRuns
<1> DEFINE T == [j \in 0 .. len |-> {r \in Fillings(h, d, e, len, j) : Lock(r, u[j], h, j)}]
<1>6. Lock(f[0], u[0], h, 0)
  <2>1. u[0].ok = TRUE /\ u[0].obj = Seen(m) /\ u[0].vals = <<>>
    BY <1>4, <1>5
  <2>2. CASE h \notin Page
    BY <1>3, <2>2 DEF Header, Lock
  <2>3. CASE h \in Page
    <3>1. PICK n : n = [m EXCEPT ![h] = W(len, len + ListSlack)]
      OBVIOUS
    <3>2. f[0] = [why |-> "none", mem |-> n]
      BY <1>3, <2>3, <3>1 DEF Header
    <3>3. \A a \in Page : a < h => n[a] = m[a]
      BY <1>2, <2>3, <3>1, Constants DEF Heap
    <3>4. Seen(n) = Seen(m)
      <4>1. \A q \in Lists : elems(n, q) = elems(m, q)
        BY <1>2, <3>3, AboveSeen
      <4> QED BY <4>1 DEF Seen
    <3>5. <<>> \in Seq(Vals) /\ Len(<<>>) = 0 /\ \A i \in 1 .. 0 : FALSE
      OBVIOUS
    <3> QED BY <2>1, <3>2, <3>4, <3>5 DEF Lock
  <2> QED BY <2>2, <2>3
<1>7. f[0] \in T[0]
  BY <1>3, <1>6
<1>8. ASSUME NEW j \in (0 + 1) .. len, f[j - 1] \in T[j - 1] PROVE f[j] \in T[j]
  <2>1. j \in 1 .. len /\ j \in 0 .. len /\ j - 1 \in 0 .. len /\ es[j] \in Operands
    OBVIOUS
  <2>2. f[j - 1] \in Fillings(h, d, e, len, j - 1) /\ Lock(f[j - 1], u[j - 1], h, j - 1)
    BY <1>8, <2>1
  <2>3. PICK r \in Fillings(h, d, e, len, j - 1) : r = f[j - 1]
    BY <2>2
  <2>4. PICK v : v = u[j - 1]
    OBVIOUS
  <2>5. Lock(Stored(h, es, j, r), PyStored(v, es[j]), h, j)
    BY <2>1, <2>2, <2>3, <2>4, StoredLocks
  <2>6. Lock(f[j], u[j], h, j)
    BY <1>3, <1>5, <2>1, <2>3, <2>4, <2>5
  <2> QED BY <1>3, <2>1, <2>6
<1>9. f[len] \in T[len]
  <2> HIDE DEF T
  <2>1. Valued(f, 0, len, T)
    BY <1>7, <1>8, Along
  <2> QED BY <2>1 DEF Valued
<1>10. PICK r : r = f[len]
  OBVIOUS
<1>11. PICK v : v = u[len]
  OBVIOUS
<1>12. r \in Fillings(h, d, e, len, len) /\ Lock(r, v, h, len)
  BY <1>9, <1>10, <1>11
<1>13. CASE r.why = "none"
  <2>1. v.ok = TRUE /\ v.vals \in Seq(Vals) /\ Len(v.vals) = len
        /\ (\A i \in 1 .. len : v.vals[i] = r.mem[h + i]) /\ v.obj = Seen(r.mem)
    BY <1>12, <1>13 DEF Lock
  <2>2. r.mem[h] = W(len, len + ListSlack)
    BY <1>12, <1>13 DEF Fillings, Filling
  <2>3. Count(r.mem, h) = len
    BY <2>2 DEF Count, W
  <2>4. elems(r.mem, h) = v.vals
    BY <2>1, <2>3, Holds
  <2>5. LiteralRead(r, v, h)
    BY <1>13, <2>1, <2>4 DEF LiteralRead
  <2> QED BY <1>1, <1>3, <1>5, <1>10, <1>11, <2>5
<1>14. CASE r.why # "none"
  <2>1. LiteralRead(r, v, h)
    BY <1>12, <1>14 DEF Lock, LiteralRead
  <2> QED BY <1>1, <1>3, <1>5, <1>10, <1>11, <2>1
<1> QED BY <1>13, <1>14

-----------------------------------------------------------------------------
(* What a statement does, read as a step of the Python program.              *)

LEMMA HeldNow ==
  ASSUME NEW f \in [Names -> Nat]
  PROVE  /\ Py!Held(f) = {f[x] : x \in Names} \ {0}
         /\ loc = f => Lists = Py!Held(f) /\ Py!Live = Live
         /\ loc' = f => Lists' = Py!Held(f)
<1>1. Py!Held(f) = {f[x] : x \in Names} \ {0}
  BY DEF Py!Held
<1>2. ASSUME loc = f PROVE Lists = Py!Held(f) /\ Py!Live = Live
  <2>1. Py!Live = Live
    BY DEF Py!Live, Live, Bound
  <2>2. Lists = {f[x] : x \in Names} \ {0}
    BY <1>2 DEF Lists, Live, Bound
  <2> QED BY <1>1, <2>1, <2>2
<1>3. ASSUME loc' = f PROVE Lists' = Py!Held(f)
  <2>1. Lists' = {f[x] : x \in Names} \ {0}
    BY <1>3 DEF Lists, Live, Bound
  <2> QED BY <1>1, <2>1
<1> QED BY <1>1, <1>2, <1>3

LEMMA LiveNow ==
  ASSUME LInv
  PROVE  /\ Py!Live = Live /\ Py!Held(loc) = Lists /\ PyObj = Seen(mem)
         /\ \A x \in Live : x \in Names /\ loc[x] \in Lists /\ Py!Of(x) = elems(mem, loc[x])
         /\ trap = "none" => Py!Running
<1>1. PICK f \in [Names -> Nat] : f = loc
  BY InvFacts
<1>2. Py!Live = Live /\ Py!Held(loc) = Lists
  BY <1>1, HeldNow
<1>3. \A x \in Live : x \in Names /\ loc[x] \in Lists
  BY DEF Lists, Live
<1>4. \A x \in Live : Py!Of(x) = elems(mem, loc[x])
  BY <1>3, SeenNow DEF Py!Of, Seen
<1>5. trap = "none" => Py!Running
  BY DEF Py!Running, PyExc
<1> QED BY <1>2, <1>3, <1>4, <1>5, SeenNow

LEMMA ChangeSeen ==
  ASSUME NEW n, NEW v, Rewrite(n, v)
  PROVE  Py!Change(Seen(n), v)
<1>1. Lists' = Lists
  BY DEF Rewrite, Lists, Live, Bound
<1>2. PyObj' = Seen(n)
  BY <1>1 DEF PyObj, Seen, Rewrite
<1>3. PyExc' = PyExc
  BY DEF PyExc, Rewrite
<1> QED BY <1>2, <1>3 DEF Py!Change, Rewrite

LEMMA AbortSeen ==
  ASSUME trap = "none", NEW w \in {"unreachable", "capacity", "oob"}, Abort(w)
  PROVE  Py!Raise(IF w = "unreachable" THEN "error" ELSE "MemoryError")
<1>1. Lists' = Lists
  BY DEF Abort, Lists, Live, Bound
<1>2. PyObj' = PyObj
  BY <1>1 DEF PyObj, Abort
<1>3. PyExc' = IF w = "unreachable" THEN "error" ELSE "MemoryError"
  BY DEF PyExc, Abort
<1> QED BY <1>2, <1>3 DEF Py!Raise, Abort

LEMMA RaiseSeen == ASSUME trap = "none", Abort("unreachable") PROVE Py!Raise("error")
  BY AbortSeen

LEMMA OutSeen ==
  ASSUME trap = "none", Abort("capacity") \/ Abort("oob")
  PROVE  Py!OutOfMemory
<1>1. Py!Raise("MemoryError")
  BY AbortSeen
<1> QED BY <1>1 DEF Py!OutOfMemory

(* A list rewritten in place, in the heap n the operands left. *)
LEMMA WriteSeen ==
  ASSUME NEW n, NEW h, NEW d, NEW e, Heap(n, h, d, Lists, e),
         NEW p \in Lists, NEW g, InPlace(n, p, g, e[p]), NEW v, Rewrite(g, v)
  PROVE  Py!Change([Seen(n) EXCEPT ![p] = elems(g, p)], v)
<1>1. Seen(g) = [Seen(n) EXCEPT ![p] = elems(g, p)]
  BY InPlaceSeen
<1> QED BY <1>1, ChangeSeen

(* A new record is an object nobody held. *)
LEMMA BindSeen ==
  ASSUME LInv, NEW x \in Names, NEW b \in Page, b \notin Lists, NEW n, NEW o, NEW s,
         elems(n, b) = s, \A q \in Lists : elems(n, q) = o[q],
         mem' = n, loc' = [loc EXCEPT ![x] = b], UNCHANGED <<out, trap>>
  PROVE  Py!Bind(x, o, s)
<1>1. loc \in [Names -> Nat] /\ b \in Nat /\ b # 0
  BY InvFacts, Constants
<1>2. PICK f \in [Names -> Nat] : f = [loc EXCEPT ![x] = b]
  BY <1>1
<1>3. Lists' = Py!Held(f) /\ Py!Held(f) = {f[y] : y \in Names} \ {0}
  BY <1>2, HeldNow
<1>4. Py!Held(loc) = Lists
  BY <1>1, HeldNow
<1>5. ASSUME NEW i \in Lists' PROVE elems(n, i) = IF i = b THEN s ELSE o[i]
  <2>1. PICK y \in Names : i = f[y] /\ f[y] # 0
    BY <1>3
  <2>2. CASE i = b
    BY <2>2
  <2>3. CASE i # b
    <3>1. y # x
      BY <1>1, <1>2, <2>1, <2>3
    <3>2. i = loc[y]
      BY <1>1, <1>2, <2>1, <3>1
    <3>3. i \in Lists
      BY <2>1, <3>2 DEF Lists, Live, Bound
    <3> QED BY <2>3, <3>3
  <2> QED BY <2>2, <2>3
<1>6. PyObj' = [i \in Py!Held(loc') |-> IF i = b THEN s ELSE o[i]]
  <2>1. PyObj' = [i \in Lists' |-> elems(n, i)]
    BY DEF PyObj
  <2>2. Lists' = Py!Held(loc')
    BY <1>2, <1>3
  <2> QED BY <1>5, <2>1, <2>2
<1>7. PyExc' = PyExc
  BY DEF PyExc
<1>8. b \in Page \ Py!Held(loc)
  BY <1>4
<1> QED BY <1>6, <1>7, <1>8 DEF Py!Bind

LEMMA OperandNow ==
  ASSUME NEW op, NEW x, NEW args, NEW j, Begin(op, x, args)
  PROVE  Py!Operand(op, j) = {args[j]} /\ Py!Begin(op, x, args) /\ stmt'.args = args
  BY DEF Begin, Py!Operand, Py!Begin

LEMMA AppendInPlace ==
  ASSUME NEW m \in [Page -> Word], NEW p, IsList(m, p), NEW e \in Nat, Top(m, p) <= e,
         Count(m, p) < Cap(m, p), p + 1 + Count(m, p) \in Page, NEW v \in Vals
  PROVE  InPlace(m, p, set_count([m EXCEPT ![p + 1 + Count(m, p)] = v], p, Count(m, p) + 1), e)
<1>1. PICK c \in Nat : c = Count(m, p)
  BY DEF IsList
<1>2. PICK k \in Nat : k = Cap(m, p)
  BY DEF IsList
<1>3. PICK n : n = [m EXCEPT ![p + (c + 1)] = v]
  OBVIOUS
<1>4. /\ p \in Page /\ p \in Nat /\ p + c < PageWords /\ c < k /\ k <= e
      /\ \A j \in 1 .. c : m[p + j] \in Vals
  BY <1>1, <1>2, Constants DEF IsList, Top
<1>5. p + 1 + c = p + (c + 1) /\ c + 1 \in 1 .. e /\ p + (c + 1) \in Page
  BY <1>1, <1>4
<1>6. InPlace(m, p, n, e) /\ Count(n, p) = Count(m, p) /\ n[p + (c + 1)] = v
  BY <1>3, <1>5, StoreInPlace
<1>7. n \in [Page -> Word] /\ IsList(n, p) /\ Cap(n, p) = k
      /\ \A a \in Page : a < p \/ p + e < a => n[a] = m[a]
  BY <1>2, <1>6 DEF InPlace
<1>8. ASSUME NEW j \in 1 .. c + 1 PROVE n[p + j] \in Vals
  <2>1. CASE j = c + 1
    BY <1>6, <2>1
  <2>2. CASE j # c + 1
    <3>1. j \in 1 .. Count(n, p)
      BY <1>1, <1>6, <2>2
    <3> QED BY <1>7, <3>1 DEF IsList
  <2> QED BY <2>1, <2>2
<1>9. c + 1 <= e /\ p + (c + 1) < PageWords /\ c + 1 <= k
  BY <1>4, <1>5, Constants
<1>10. PICK g : g = set_count(n, p, c + 1)
  OBVIOUS
<1>11. InPlace(n, p, g, e)
  BY <1>7, <1>8, <1>9, <1>10, CountInPlace
<1>12. InPlace(m, p, g, e)
  BY <1>2, <1>7, <1>11 DEF InPlace
<1> QED BY <1>1, <1>3, <1>5, <1>10, <1>12

(* An operand of a statement that writes the list at p, read by Python. *)
LEMMA OperandSeen ==
  ASSUME LInv, NEW o \in Operands
  PROVE  /\ eval(mem, o).ok \in BOOLEAN /\ eval(mem, o).val \in Vals
         /\ Heap(eval(mem, o).mem, hp, dct, Lists, Reach)
         /\ eval(mem, o).ok = TRUE =>
              /\ Py!Eval(PyObj, o).ok = TRUE /\ Py!Eval(PyObj, o).val = eval(mem, o).val
              /\ Py!Eval(PyObj, o).obj = Seen(eval(mem, o).mem)
              /\ \A p \in Lists : ~ Touches(o, p) => elems(eval(mem, o).mem, p) = elems(mem, p)
         /\ eval(mem, o).ok = FALSE => Py!Eval(PyObj, o).ok = FALSE
<1>1. loc \in [Names -> Nat] /\ Heap(mem, hp, dct, Lists, Reach) /\ PyObj = Seen(mem)
  BY InvFacts, SeenNow
<1>2. PICK m : m = mem
  OBVIOUS
<1>3. Heap(m, hp, dct, Lists, Reach)
  BY <1>1, <1>2
<1>4. /\ eval(m, o).ok \in BOOLEAN /\ eval(m, o).val \in Vals
      /\ Heap(eval(m, o).mem, hp, dct, Lists, Reach)
  BY <1>1, <1>3, EvalHeap
<1>5. /\ Agrees(eval(m, o), Py!Eval(Seen(m), o))
      /\ eval(m, o).ok => \A p \in Lists : ~ Touches(o, p) => elems(eval(m, o).mem, p) = elems(m, p)
  BY <1>1, <1>3, EvalSeen
<1>6. PICK r : r = eval(m, o)
  OBVIOUS
<1>7. PICK q : q = Py!Eval(Seen(m), o)
  OBVIOUS
<1>8. /\ r.ok = TRUE => q.ok = TRUE /\ q.val = r.val /\ q.obj = Seen(r.mem)
      /\ r.ok = FALSE => q.ok = FALSE
  BY <1>5, <1>6, <1>7 DEF Agrees
<1> QED BY <1>1, <1>2, <1>4, <1>5, <1>6, <1>7, <1>8

(* x.append(e) *)
LEMMA AppendAsPython ==
  ASSUME LInv, ~ SelfPops, NEW x \in Names, ListAppend(x)
  PROVE  x \in Live /\ (Py!Store(x) \/ Py!OutOfMemory)
<1>1. PICK p : p = loc[x]
  OBVIOUS
<1>2. /\ trap = "none" /\ x \in Live /\ p \in Lists /\ Reach[p] \in Nat
      /\ IsList(mem, p)
  BY <1>1, InvFacts DEF ListAppend, Running, Live
<1>3. PICK o \in Operands :
        /\ Allowed(o, p) /\ Begin("append", x, <<o>>)
        /\ \/ full(mem, p) /\ Abort("capacity")
           \/ ~ full(mem, p) /\ ~ eval(mem, o).ok /\ Abort("unreachable")
           \/ ~ full(mem, p) /\ eval(mem, o).ok /\ p + 1 + Count(mem, p) \notin Page /\ Abort("oob")
           \/ /\ ~ full(mem, p) /\ eval(mem, o).ok /\ p + 1 + Count(mem, p) \in Page
              /\ LET m == [eval(mem, o).mem EXCEPT ![p + 1 + Count(mem, p)] = eval(mem, o).val] IN
                 Rewrite(set_count(m, p, Count(m, p) + 1), Zero)
  BY <1>1 DEF ListAppend
<1>4. PICK r : r = eval(mem, o)
  OBVIOUS
<1>5. PICK q : q = Py!Eval(PyObj, o)
  OBVIOUS
<1>6. /\ r.ok \in BOOLEAN /\ r.val \in Vals /\ Heap(r.mem, hp, dct, Lists, Reach)
      /\ r.ok = TRUE => /\ q.ok = TRUE /\ q.val = r.val /\ q.obj = Seen(r.mem)
                        /\ ~ Touches(o, p) => elems(r.mem, p) = elems(mem, p)
      /\ r.ok = FALSE => q.ok = FALSE
  BY <1>2, <1>4, <1>5, OperandSeen
<1>7. Py!Operand("append", 1) = {o} /\ Py!Begin("append", x, <<o>>)
  BY <1>3, OperandNow
<1>8. CASE Abort("capacity") \/ Abort("oob")
  BY <1>2, <1>8, OutSeen
<1>9. CASE ~ r.ok /\ Abort("unreachable")
  <2>1. ~ q.ok /\ Py!Raise("error")
    BY <1>2, <1>6, <1>9, RaiseSeen
  <2>2. Py!Store(x)
    BY <1>1, <1>5, <1>7, <2>1 DEF Py!Store
  <2> QED BY <1>2, <2>2
<1>10. CASE /\ ~ full(mem, p) /\ r.ok /\ p + 1 + Count(mem, p) \in Page
            /\ LET m == [r.mem EXCEPT ![p + 1 + Count(mem, p)] = r.val] IN
               Rewrite(set_count(m, p, Count(m, p) + 1), Zero)
  <2>1. ~ Touches(o, p)
    BY <1>3 DEF Allowed, Touches
  <2>2. q.ok = TRUE /\ q.val = r.val /\ q.obj = Seen(r.mem) /\ elems(r.mem, p) = elems(mem, p)
    BY <1>6, <1>10, <2>1
  <2>3. PICK n : n = r.mem
    OBVIOUS
  <2>4. Heap(n, hp, dct, Lists, Reach) /\ IsList(n, p) /\ n \in [Page -> Word] /\ Top(n, p) <= Reach[p]
    BY <1>2, <1>6, <2>3 DEF Heap
  <2>5. Count(n, p) = Count(mem, p)
    <3>1. Len(elems(n, p)) = Count(n, p) /\ Len(elems(mem, p)) = Count(mem, p)
      BY <1>2, <2>4, ElemFacts
    <3> QED BY <2>2, <2>3, <3>1
  <2>6. Evaluated(mem, n, Lists)
    BY <1>4, <2>3, OperandFacts
  <2>7. Cap(n, p) = Cap(mem, p)
    BY <1>2, <2>6 DEF Evaluated
  <2>8. Count(n, p) < Cap(n, p)
    BY <1>10, <2>4, <2>5, <2>7 DEF full, IsList
  <2>9. PICK v \in Vals : v = r.val
    BY <1>6
  <2>10. PICK m : m = [n EXCEPT ![p + 1 + Count(n, p)] = v]
    OBVIOUS
  <2>11. Count(m, p) = Count(n, p)
    <3>1. p + 1 + Count(n, p) # p
      BY <2>4, Constants DEF IsList
    <3> QED BY <2>4, <2>10, <3>1 DEF Count, IsList
  <2>12. PICK g : g = set_count(m, p, Count(n, p) + 1)
    OBVIOUS
  <2>13. Rewrite(g, Zero)
    BY <1>10, <2>3, <2>5, <2>9, <2>10, <2>11, <2>12
  <2>14. p + 1 + Count(n, p) \in Page
    BY <1>10, <2>5
  <2>15. InPlace(n, p, g, Reach[p])
    BY <1>2, <2>4, <2>8, <2>10, <2>12, <2>14, AppendInPlace
  <2>16. elems(g, p) = Append(elems(n, p), v)
    BY <2>4, <2>10, <2>12, <2>14, AppendSeen
  <2>17. Py!Change([Seen(n) EXCEPT ![p] = elems(g, p)], Zero)
    BY <1>2, <2>4, <2>13, <2>15, WriteSeen
  <2>18. q.obj[p] = elems(n, p)
    BY <1>2, <2>2, <2>3 DEF Seen
  <2>19. [q.obj EXCEPT ![p] = Append(@, q.val)] = [Seen(n) EXCEPT ![p] = elems(g, p)]
    BY <2>2, <2>3, <2>9, <2>16, <2>18
  <2>20. Py!Change([q.obj EXCEPT ![p] = Append(@, q.val)], Zero)
    BY <2>17, <2>19
  <2>21. Py!Store(x)
    BY <1>1, <1>5, <1>7, <2>2, <2>20 DEF Py!Store
  <2> QED BY <1>2, <2>21
<1> QED BY <1>2, <1>3, <1>4, <1>8, <1>9, <1>10

(* x.insert(i, e) *)
LEMMA InsertAsPython ==
  ASSUME LInv, NEW x \in Names, Insert(x)
  PROVE  x \in Live /\ (Py!Store(x) \/ Py!OutOfMemory)
<1>1. PICK p : p = loc[x]
  OBVIOUS
<1>2. trap = "none" /\ x \in Live /\ p \in Lists /\ Reach[p] \in Nat
  BY <1>1, InvFacts DEF Insert, Running, Live
<1>3. PICK i \in Idx, o \in Operands :
        /\ Begin("insert", x, <<i, o>>)
        /\ \/ ~ eval(mem, o).ok /\ Abort("unreachable")
           \/ Abort("capacity") \/ Abort("oob")
           \/ /\ eval(mem, o).ok /\ ~ full(eval(mem, o).mem, p)
              /\ p + 1 + Count(eval(mem, o).mem, p) \in Page
              /\ Rewrite(list_insert(eval(mem, o).mem, p, i, eval(mem, o).val), Zero)
  BY <1>1 DEF Insert
<1>4. PICK r : r = eval(mem, o)
  OBVIOUS
<1>5. PICK q : q = Py!Eval(PyObj, o)
  OBVIOUS
<1>6. /\ r.ok \in BOOLEAN /\ r.val \in Vals /\ Heap(r.mem, hp, dct, Lists, Reach)
      /\ r.ok = TRUE => q.ok = TRUE /\ q.val = r.val /\ q.obj = Seen(r.mem)
      /\ r.ok = FALSE => q.ok = FALSE
  BY <1>4, <1>5, OperandSeen
<1>7. Py!Operand("insert", 2) = {o} /\ Py!Begin("insert", x, <<i, o>>)
  <2>1. <<i, o>>[2] = o
    OBVIOUS
  <2> QED BY <1>3, <2>1, OperandNow
<1>8. CASE Abort("capacity") \/ Abort("oob")
  BY <1>2, <1>8, OutSeen
<1>9. CASE ~ r.ok /\ Abort("unreachable")
  <2>1. ~ q.ok /\ Py!Raise("error")
    BY <1>2, <1>6, <1>9, RaiseSeen
  <2>2. Py!Store(x)
    BY <1>1, <1>5, <1>7, <2>1 DEF Py!Store
  <2> QED BY <1>2, <2>2
<1>10. CASE /\ r.ok /\ ~ full(r.mem, p) /\ p + 1 + Count(r.mem, p) \in Page
            /\ Rewrite(list_insert(r.mem, p, i, r.val), Zero)
  <2>1. q.ok = TRUE /\ q.val = r.val /\ q.obj = Seen(r.mem)
    BY <1>6, <1>10
  <2>2. PICK n : n = r.mem
    OBVIOUS
  <2>3. PICK v \in Vals : v = r.val
    BY <1>6
  <2>4. Heap(n, hp, dct, Lists, Reach) /\ IsList(n, p) /\ n \in [Page -> Word] /\ Top(n, p) <= Reach[p]
    BY <1>2, <1>6, <2>2 DEF Heap
  <2>5. Count(n, p) < Cap(n, p) /\ p + 1 + Count(n, p) \in Page /\ i \in Int
    BY <1>10, <2>2, <2>4, Constants DEF full, IsList
  <2>6. PICK g : g = list_insert(n, p, i, v)
    OBVIOUS
  <2>7. InPlace(n, p, g, Reach[p])
    BY <1>2, <2>4, <2>5, <2>6, InsertInPlace
  <2>8. elems(g, p) = Py!With(elems(n, p), Py!Bounded(Len(elems(n, p)), i), v)
    BY <2>4, <2>5, <2>6, InsertSeen
  <2>9. Rewrite(g, Zero)
    BY <1>10, <2>2, <2>3, <2>6
  <2>10. Py!Change([Seen(n) EXCEPT ![p] = elems(g, p)], Zero)
    BY <1>2, <2>4, <2>7, <2>9, WriteSeen
  <2>11. q.obj[p] = elems(n, p)
    BY <1>2, <2>1, <2>2 DEF Seen
  <2>12. Py!Change([q.obj EXCEPT ![p] = Py!With(q.obj[p], Py!Bounded(Len(q.obj[p]), i), q.val)], Zero)
    BY <2>1, <2>2, <2>3, <2>8, <2>10, <2>11
  <2>13. Py!Store(x)
    BY <1>1, <1>5, <1>7, <2>1, <2>12 DEF Py!Store
  <2> QED BY <1>2, <2>13
<1> QED BY <1>2, <1>3, <1>4, <1>8, <1>9, <1>10

(* x[i] = e *)
LEMMA SetItemAsPython ==
  ASSUME LInv, ~ SelfPops, NEW x \in Names, SetItem(x)
  PROVE  x \in Live /\ Py!Store(x)
<1>1. PICK p : p = loc[x]
  OBVIOUS
<1>2. trap = "none" /\ x \in Live /\ p \in Lists /\ Reach[p] \in Nat /\ IsList(mem, p)
  BY <1>1, InvFacts DEF SetItem, Running, Live
<1>3. PICK c \in Nat : c = Count(mem, p)
  BY <1>2 DEF IsList
<1>4. PICK i \in Idx, o \in Operands :
        /\ Allowed(o, p) /\ Begin("setitem", x, <<i, o>>)
        /\ \/ ~ (InBounds(c, i) /\ eval(mem, o).ok) /\ Abort("unreachable")
           \/ /\ InBounds(c, i) /\ eval(mem, o).ok
              /\ Rewrite([eval(mem, o).mem EXCEPT ![p + 1 + Normal(c, i)] = eval(mem, o).val], Zero)
  BY <1>1, <1>3 DEF SetItem
<1>5. PICK r : r = eval(mem, o)
  OBVIOUS
<1>6. PICK q : q = Py!Eval(PyObj, o)
  OBVIOUS
<1>7. /\ r.ok \in BOOLEAN /\ r.val \in Vals /\ Heap(r.mem, hp, dct, Lists, Reach)
      /\ r.ok = TRUE => /\ q.ok = TRUE /\ q.val = r.val /\ q.obj = Seen(r.mem)
                        /\ ~ Touches(o, p) => elems(r.mem, p) = elems(mem, p)
      /\ r.ok = FALSE => q.ok = FALSE
  BY <1>2, <1>5, <1>6, OperandSeen
<1>8. Py!Operand("setitem", 2) = {o} /\ Py!Begin("setitem", x, <<i, o>>)
  <2>1. <<i, o>>[2] = o
    OBVIOUS
  <2> QED BY <1>4, <2>1, OperandNow
<1>9. ~ Touches(o, p)
  BY <1>4 DEF Allowed, Touches
<1>10. r.ok = TRUE => /\ q.obj[p] = elems(mem, p) /\ Len(elems(mem, p)) = c
                      /\ elems(r.mem, p) = elems(mem, p)
  BY <1>2, <1>3, <1>7, <1>9, ElemFacts DEF Seen
<1>11. i \in Int /\ Py!At(c, i) = Normal(c, i) /\ (Py!Inside(c, i) <=> InBounds(c, i))
  BY <1>3, Constants, SameIndex
<1>12. CASE ~ (InBounds(c, i) /\ r.ok) /\ Abort("unreachable")
  <2>1. ~ (q.ok /\ Py!Inside(Len(q.obj[p]), i)) /\ Py!Raise("error")
    BY <1>2, <1>7, <1>10, <1>11, <1>12, RaiseSeen
  <2>2. Py!Store(x)
    BY <1>1, <1>6, <1>8, <2>1 DEF Py!Store
  <2> QED BY <1>2, <2>2
<1>13. CASE InBounds(c, i) /\ r.ok /\ Rewrite([r.mem EXCEPT ![p + 1 + Normal(c, i)] = r.val], Zero)
  <2>1. q.ok = TRUE /\ q.val = r.val /\ q.obj = Seen(r.mem)
    BY <1>7, <1>13
  <2>2. PICK n : n = r.mem
    OBVIOUS
  <2>3. PICK v \in Vals : v = r.val
    BY <1>7
  <2>4. Heap(n, hp, dct, Lists, Reach) /\ IsList(n, p) /\ n \in [Page -> Word] /\ Top(n, p) <= Reach[p]
    BY <1>2, <1>7, <2>2 DEF Heap
  <2>5. Count(n, p) = c /\ elems(n, p) = elems(mem, p)
    BY <1>10, <1>13, <2>2, <2>4, ElemFacts
  <2>6. PICK k \in 1 .. c : k = Normal(c, i) + 1 /\ p + 1 + Normal(c, i) = p + k
    <3>1. PICK j \in 0 .. c - 1 : j = Normal(c, i)
      BY <1>13 DEF InBounds
    <3>2. p \in Nat
      BY <2>4, Constants DEF IsList
    <3>3. j + 1 \in 1 .. c /\ p + 1 + j = p + (j + 1)
      BY <1>3, <3>2
    <3> QED BY <3>1, <3>3
  <2>8. p + k \in Page /\ k \in 1 .. Reach[p] /\ k \in 1 .. Count(n, p)
    BY <1>2, <1>3, <2>4, <2>5, <2>6, ElemFacts DEF Top, IsList
  <2>9. PICK g : g = [n EXCEPT ![p + k] = v]
    OBVIOUS
  <2>10. InPlace(n, p, g, Reach[p])
    BY <1>2, <2>4, <2>8, <2>9, StoreInPlace
  <2>11. elems(g, p) = [elems(n, p) EXCEPT ![k] = v]
    <3>1. Replaced(g, n, p + k, v)
      BY <2>9 DEF Replaced
    <3>2. Replaced(elems(g, p), elems(n, p), k, v)
      BY <2>4, <2>8, <3>1, StoreSeen
    <3> QED BY <3>2 DEF Replaced
  <2>12. Rewrite(g, Zero)
    BY <1>13, <2>2, <2>3, <2>6, <2>9
  <2>13. Py!Change([Seen(n) EXCEPT ![p] = elems(g, p)], Zero)
    BY <1>2, <2>4, <2>10, <2>12, WriteSeen
  <2>14. q.obj[p] = elems(n, p) /\ Len(q.obj[p]) = c
    BY <1>10, <1>13, <2>5
  <2>15. Py!At(Len(q.obj[p]), i) + 1 = k /\ Py!Inside(Len(q.obj[p]), i)
    BY <1>11, <1>13, <2>6, <2>14
  <2>16. [q.obj EXCEPT ![p][Py!At(Len(q.obj[p]), i) + 1] = q.val] = [Seen(n) EXCEPT ![p] = elems(g, p)]
    BY <2>1, <2>2, <2>3, <2>11, <2>14, <2>15
  <2>17. Py!Change([q.obj EXCEPT ![p][Py!At(Len(q.obj[p]), i) + 1] = q.val], Zero)
    BY <2>13, <2>16
  <2>18. Py!Store(x)
    BY <1>1, <1>6, <1>8, <2>1, <2>15, <2>17 DEF Py!Store
  <2> QED BY <1>2, <2>18
<1> QED BY <1>4, <1>5, <1>12, <1>13

(* The statements that evaluate no operand change one list of mem. *)
LEMMA UpdateSeen ==
  ASSUME LInv, NEW x \in Live, NEW p, p = loc[x], NEW g, InPlace(mem, p, g, Reach[p]),
         NEW s, elems(g, p) = s, Rewrite(g, Zero)
  PROVE  Py!Update(x, s, Zero)
<1>1. PICK m : m = mem
  OBVIOUS
<1>2. p \in Lists /\ Heap(m, hp, dct, Lists, Reach) /\ PyObj = Seen(m)
  BY <1>1, InvFacts, LiveNow
<1>3. InPlace(m, p, g, Reach[p])
  BY <1>1
<1>4. Py!Change([Seen(m) EXCEPT ![p] = elems(g, p)], Zero)
  BY <1>2, <1>3, WriteSeen
<1> QED BY <1>2, <1>4 DEF Py!Update

(* What is known of the list a statement names. *)
LEMMA ListFacts ==
  ASSUME LInv, NEW x \in Live, NEW p, p = loc[x], NEW s, s = elems(mem, p)
  PROVE  /\ Py!Of(x) = s /\ IsList(mem, p) /\ mem \in [Page -> Word]
         /\ p \in Lists /\ Reach[p] \in Nat /\ Top(mem, p) <= Reach[p]
         /\ s \in Seq(Vals) /\ Len(s) = Count(mem, p) /\ Len(s) \in Nat
  BY LiveNow, InvFacts, ElemFacts DEF Live

(* del x[i], x.remove(v) *)
LEMMA DeleteAsPython ==
  ASSUME LInv, NEW x \in Names, DelItem(x) \/ ListRemove(x)
  PROVE  x \in Live /\ Py!Delete(x)
<1>1. trap = "none" /\ x \in Live
  BY DEF DelItem, ListRemove, Running, Live
<1>2. PICK p : p = loc[x]
  OBVIOUS
<1>3. PICK s : s = elems(mem, p)
  OBVIOUS
<1>4. /\ Py!Of(x) = s /\ IsList(mem, p) /\ mem \in [Page -> Word]
      /\ p \in Lists /\ Reach[p] \in Nat /\ Top(mem, p) <= Reach[p]
      /\ s \in Seq(Vals) /\ Len(s) = Count(mem, p) /\ Len(s) \in Nat
  BY <1>1, <1>2, <1>3, ListFacts
<1>5. ASSUME NEW k \in 0 .. Len(s) - 1, Rewrite(close_slot(mem, p, k), Zero)
      PROVE  Py!Update(x, Py!Without(s, k), Zero)
  <2>1. k \in 0 .. Count(mem, p) - 1
    BY <1>4
  <2>2. InPlace(mem, p, close_slot(mem, p, k), Reach[p])
    BY <1>4, <2>1, CloseInPlace DEF Shorter
  <2>3. elems(close_slot(mem, p, k), p) = Py!Without(s, k)
    BY <1>3, <1>4, <2>1, CloseSeen
  <2> QED BY <1>1, <1>2, <1>5, <2>2, <2>3, UpdateSeen
<1>6. CASE DelItem(x)
  <2>1. PICK i \in Idx :
          /\ Begin("del", x, <<i>>)
          /\ \/ ~ InBounds(Len(s), i) /\ Abort("unreachable")
             \/ InBounds(Len(s), i) /\ Rewrite(close_slot(mem, p, Normal(Len(s), i)), Zero)
    BY <1>2, <1>4, <1>6 DEF DelItem
  <2>2. Py!At(Len(s), i) = Normal(Len(s), i) /\ (Py!Inside(Len(s), i) <=> InBounds(Len(s), i))
    BY <1>4, Constants, SameIndex
  <2>3. Py!Begin("del", x, <<i>>)
    BY <2>1 DEF Py!Begin, Begin
  <2>4. CASE ~ InBounds(Len(s), i) /\ Abort("unreachable")
    <3>1. Py!Raise("error")
      BY <1>1, <2>4, RaiseSeen
    <3> QED BY <1>1, <1>4, <2>2, <2>3, <2>4, <3>1 DEF Py!Delete
  <2>5. CASE InBounds(Len(s), i) /\ Rewrite(close_slot(mem, p, Normal(Len(s), i)), Zero)
    <3>1. Normal(Len(s), i) \in 0 .. Len(s) - 1
      BY <2>5 DEF InBounds
    <3>2. Py!Update(x, Py!Without(s, Py!At(Len(s), i)), Zero)
      BY <1>5, <2>2, <2>5, <3>1
    <3> QED BY <1>1, <1>4, <2>2, <2>3, <2>5, <3>2 DEF Py!Delete
  <2> QED BY <2>1, <2>4, <2>5
<1>7. CASE ListRemove(x)
  <2>1. PICK v \in Vals :
          /\ Begin("remove", x, <<v>>)
          /\ \/ ~ list_contains(mem, p, v) /\ Abort("unreachable")
             \/ /\ list_contains(mem, p, v)
                /\ Rewrite(close_slot(mem, p, first_slot(mem, p, v)), Zero)
    BY <1>2, <1>7 DEF ListRemove
  <2>2. list_contains(mem, p, v) <=> Py!Has(s, v)
    BY <1>3, <1>4, HasSeen
  <2>3. Py!Begin("remove", x, <<v>>)
    BY <2>1 DEF Py!Begin, Begin
  <2>4. CASE ~ list_contains(mem, p, v) /\ Abort("unreachable")
    <3>1. Py!Raise("error")
      BY <1>1, <2>4, RaiseSeen
    <3> QED BY <1>1, <1>4, <2>2, <2>3, <2>4, <3>1 DEF Py!Delete
  <2>5. CASE list_contains(mem, p, v) /\ Rewrite(close_slot(mem, p, first_slot(mem, p, v)), Zero)
    <3>1. first_slot(mem, p, v) \in 0 .. Len(s) - 1 /\ first_slot(mem, p, v) = Py!First(s, v)
      BY <1>3, <1>4, <2>5, FirstSlotRange, FirstSeen
    <3>2. Py!Update(x, Py!Without(s, Py!First(s, v)), Zero)
      BY <1>5, <2>5, <3>1
    <3> QED BY <1>1, <1>4, <2>2, <2>3, <2>5, <3>2 DEF Py!Delete
  <2> QED BY <2>1, <2>4, <2>5
<1> QED BY <1>6, <1>7

(* x.reverse(), x.sort(reverse=d), x.clear() *)
LEMMA RearrangeAsPython ==
  ASSUME LInv, NEW x \in Names, Rearrange(x)
  PROVE  x \in Live /\ Py!Rearrange(x)
<1>1. trap = "none" /\ x \in Live
  BY DEF Rearrange, Running, Live
<1>2. PICK p : p = loc[x]
  OBVIOUS
<1>3. PICK s : s = elems(mem, p)
  OBVIOUS
<1>4. PICK c \in Nat : c = Count(mem, p)
  BY <1>1, <1>2, ListFacts
<1>5. /\ Py!Of(x) = s /\ IsList(mem, p) /\ mem \in [Page -> Word]
      /\ p \in Lists /\ Reach[p] \in Nat /\ Top(mem, p) <= Reach[p]
      /\ s \in Seq(Vals) /\ Len(s) = c
  BY <1>1, <1>2, <1>3, <1>4, ListFacts
<1>6. CASE Begin("reverse", x, <<>>) /\ Rewrite(list_reverse(mem, p), Zero)
  <2>1. PICK f : f = list_reversed(mem, p)
    OBVIOUS
  <2>2. list_reverse(mem, p) = put_elems(mem, p, Count(mem, p), f)
    BY <2>1 DEF list_reverse, list_reversed
  <2>3. \A j \in 1 .. Count(mem, p) : f[j] \in Vals
    BY <1>5, <2>1, ListSeqs DEF list_reversed
  <2>4. InPlace(mem, p, list_reverse(mem, p), Reach[p])
    BY <1>5, <2>2, <2>3, PutInPlace
  <2>5. elems(list_reverse(mem, p), p) = Py!Backwards(s)
    BY <1>3, <1>5, BackwardsSeen
  <2>6. Py!Update(x, Py!Backwards(s), Zero)
    BY <1>1, <1>2, <1>6, <2>4, <2>5, UpdateSeen
  <2>7. Py!Begin("reverse", x, <<>>)
    BY <1>6 DEF Py!Begin, Begin
  <2> QED BY <1>1, <1>5, <2>6, <2>7 DEF Py!Rearrange
<1>7. ASSUME NEW desc \in BOOLEAN, Begin("sort", x, <<desc>>), Rewrite(list_sort(mem, p, desc), Zero)
      PROVE  Py!Rearrange(x)
  <2>1. PICK f : f = insertion_sort(s, desc)
    OBVIOUS
  <2>2. list_sort(mem, p, desc) = put_elems(mem, p, Count(mem, p), f)
    BY <1>3, <2>1 DEF list_sort
  <2>3. f \in Seq(Vals) /\ Len(f) = Count(mem, p)
    BY <1>3, <1>5, <2>1, ListSeqs DEF list_sorted
  <2>4. \A j \in 1 .. Count(mem, p) : f[j] \in Vals
    BY <2>3
  <2>5. InPlace(mem, p, list_sort(mem, p, desc), Reach[p])
    BY <1>5, <2>2, <2>4, PutInPlace
  <2>6. elems(list_sort(mem, p, desc), p) = f
    BY <1>5, <2>2, <2>3, PutElems
  <2>7. f = Py!InOrder(s, desc)
    <3>1. \A v \in Vals : v.lo \in Int
      BY Constants DEF Word
    <3> QED BY <1>5, <2>1, <3>1, SortSeen
  <2>8. Py!Update(x, f, Zero)
    BY <1>1, <1>2, <1>7, <2>5, <2>6, UpdateSeen
  <2>9. Py!Begin("sort", x, <<desc>>)
    BY <1>7 DEF Py!Begin, Begin
  <2> QED BY <1>5, <2>7, <2>8, <2>9 DEF Py!Rearrange
<1>8. CASE Begin("clear", x, <<>>) /\ Rewrite(set_count(mem, p, 0), Zero)
  <2>1. p + 0 < PageWords /\ 0 <= Reach[p] /\ 0 \in Nat
    BY <1>5, Constants DEF IsList
  <2>2. Cap(mem, p) # 0 => 0 <= Cap(mem, p)
    BY <1>5 DEF IsList
  <2>3. \A j \in 1 .. 0 : mem[p + j] \in Vals
    OBVIOUS
  <2>4. InPlace(mem, p, set_count(mem, p, 0), Reach[p])
    BY <1>5, <2>1, <2>2, <2>3, CountInPlace
  <2>5. elems(set_count(mem, p, 0), p) = <<>>
    BY <1>5, ClearSeen
  <2>6. Py!Update(x, <<>>, Zero)
    BY <1>1, <1>2, <1>8, <2>4, <2>5, UpdateSeen
  <2>7. Py!Begin("clear", x, <<>>)
    BY <1>8 DEF Py!Begin, Begin
  <2> QED BY <1>1, <2>6, <2>7, Zenon DEF Py!Rearrange
<1> QED BY <1>1, <1>2, <1>6, <1>7, <1>8 DEF Rearrange

(* v = x.pop(), v = x.pop(i) *)
LEMMA PopAsPython ==
  ASSUME LInv, NEW x \in Names, PopValue(x)
  PROVE  x \in Live /\ Py!PopValue(x)
<1>1. trap = "none" /\ x \in Live
  BY DEF PopValue, Running, Live
<1>2. PICK o \in {PopLast(x)} \cup {PopAt(x, i) : i \in Idx} :
        /\ Begin("pop", x, <<o>>)
        /\ \/ ~ eval(mem, o).ok /\ Abort("unreachable")
           \/ eval(mem, o).ok /\ Rewrite(eval(mem, o).mem, eval(mem, o).val)
  BY DEF PopValue
<1>3. o \in Operands
  BY <1>1, <1>2 DEF Operands
<1>4. PICK r : r = eval(mem, o)
  OBVIOUS
<1>5. PICK q : q = Py!Eval(PyObj, o)
  OBVIOUS
<1>6. /\ r.ok \in BOOLEAN
      /\ r.ok = TRUE => q.ok = TRUE /\ q.val = r.val /\ q.obj = Seen(r.mem)
      /\ r.ok = FALSE => q.ok = FALSE
  BY <1>3, <1>4, <1>5, OperandSeen
<1>7. Py!Operand("pop", 1) = {o} /\ Py!Begin("pop", x, <<o>>)
  BY <1>2, OperandNow
<1>8. CASE ~ r.ok /\ Abort("unreachable")
  <2>1. Py!Raise("error") /\ ~ q.ok
    BY <1>1, <1>6, <1>8, RaiseSeen
  <2> QED BY <1>1, <1>5, <1>7, <2>1 DEF Py!PopValue
<1>9. CASE r.ok /\ Rewrite(r.mem, r.val)
  <2>1. q.ok /\ Py!Change(q.obj, q.val)
    BY <1>6, <1>9, ChangeSeen
  <2> QED BY <1>1, <1>5, <1>7, <2>1 DEF Py!PopValue
<1> QED BY <1>2, <1>4, <1>8, <1>9

(* The statements that only read. *)
LEMMA LookSeen == ASSUME NEW v, Rewrite(mem, v) PROVE Py!Change(PyObj, v)
<1>1. PICK m : m = mem
  OBVIOUS
<1>2. Py!Change(Seen(m), v)
  BY <1>1, ChangeSeen
<1> QED BY <1>1, <1>2, SeenNow

(* x[i], min(x), max(x), x.index(v), x.count(v), v in x, len(x), sum(x) *)
LEMMA ReadAsPython ==
  ASSUME LInv, NEW x \in Names, GetItem(x) \/ Extremum(x) \/ Total(x) \/ Query(x) \/ Length(x)
  PROVE  x \in Live /\ Py!Read(x)
<1>1. trap = "none" /\ x \in Live
  BY DEF GetItem, Extremum, Total, Query, Length, Running, Live
<1>2. PICK p : p = loc[x]
  OBVIOUS
<1>3. PICK s : s = elems(mem, p)
  OBVIOUS
<1>4. /\ Py!Of(x) = s /\ IsList(mem, p) /\ s \in Seq(Vals) /\ Len(s) = Count(mem, p) /\ Len(s) \in Nat
  BY <1>1, <1>2, <1>3, ListFacts
<1>5. \A n : ToWord(n) = W(n, 0)
  BY DEF ToWord
<1>6. CASE GetItem(x)
  <2>1. PICK i \in Idx :
          /\ Begin("getitem", x, <<i>>)
          /\ \/ ~ InBounds(Len(s), i) /\ Abort("unreachable")
             \/ InBounds(Len(s), i) /\ Rewrite(mem, mem[p + 1 + Normal(Len(s), i)])
    BY <1>2, <1>4, <1>6 DEF GetItem
  <2>2. Py!At(Len(s), i) = Normal(Len(s), i) /\ (Py!Inside(Len(s), i) <=> InBounds(Len(s), i))
    BY <1>4, Constants, SameIndex
  <2>3. Py!Begin("getitem", x, <<i>>)
    BY <2>1 DEF Py!Begin, Begin
  <2>4. CASE ~ InBounds(Len(s), i) /\ Abort("unreachable")
    <3>1. Py!Raise("error")
      BY <1>1, <2>4, RaiseSeen
    <3> QED BY <1>1, <1>4, <2>2, <2>3, <2>4, <3>1 DEF Py!Read
  <2>5. CASE InBounds(Len(s), i) /\ Rewrite(mem, mem[p + 1 + Normal(Len(s), i)])
    <3>1. PICK k \in 0 .. Len(s) - 1 : k = Normal(Len(s), i)
      BY <2>5 DEF InBounds
    <3>2. k + 1 \in 1 .. Count(mem, p) /\ p + 1 + k = p + (k + 1)
      BY <1>4, Constants DEF IsList
    <3>3. mem[p + 1 + k] = s[k + 1]
      BY <1>3, <1>4, <3>2, ElemFacts
    <3>4. Py!Change(PyObj, s[Py!At(Len(s), i) + 1])
      BY <2>2, <2>5, <3>1, <3>3, LookSeen
    <3> QED BY <1>1, <1>4, <2>2, <2>3, <2>5, <3>4 DEF Py!Read
  <2> QED BY <2>1, <2>4, <2>5
<1>7. CASE Extremum(x)
  <2>1. PICK is_max \in BOOLEAN :
          /\ Begin("minmax", x, <<is_max>>)
          /\ \/ Len(s) = 0 /\ Abort("unreachable")
             \/ Len(s) # 0 /\ Rewrite(mem, list_minmax(mem, p, is_max))
    BY <1>2, <1>4, <1>7 DEF Extremum
  <2>2. Py!Begin("minmax", x, <<is_max>>)
    BY <2>1 DEF Py!Begin, Begin
  <2>3. s = <<>> <=> Len(s) = 0
    BY <1>4, EmptySeq
  <2>4. CASE Len(s) = 0 /\ Abort("unreachable")
    <3>1. Py!Raise("error")
      BY <1>1, <2>4, RaiseSeen
    <3> QED BY <1>1, <1>4, <2>2, <2>3, <2>4, <3>1 DEF Py!Read
  <2>5. CASE Len(s) # 0 /\ Rewrite(mem, list_minmax(mem, p, is_max))
    <3>1. list_minmax(mem, p, is_max) = Py!InOrder(s, is_max)[1]
      BY <1>3, <1>4, <2>5, ExtremumSeen
    <3>2. Py!Change(PyObj, Py!InOrder(s, is_max)[1])
      BY <2>5, <3>1, LookSeen
    <3> QED BY <1>1, <1>4, <2>2, <2>3, <2>5, <3>2 DEF Py!Read
  <2> QED BY <2>1, <2>4, <2>5
<1>8. CASE Total(x)
  <2>1. Begin("sum", x, <<>>) /\ Rewrite(mem, W(list_sum(mem, p), 0))
    BY <1>2, <1>8 DEF Total
  <2>2. W(list_sum(mem, p), 0) = ToWord(Py!Total(s))
    BY <1>3, <1>4, <1>5, SumSeen
  <2>3. Py!Change(PyObj, ToWord(Py!Total(s)))
    BY <2>1, <2>2, LookSeen
  <2>4. Py!Begin("sum", x, <<>>)
    BY <2>1 DEF Py!Begin, Begin
  <2> QED BY <1>1, <1>4, <2>3, <2>4 DEF Py!Read
<1>9. CASE Query(x)
  <2>1. PICK v \in Vals :
          \/ /\ Begin("index", x, <<v>>)
             /\ \/ ~ list_contains(mem, p, v) /\ Abort("unreachable")
                \/ list_contains(mem, p, v) /\ Rewrite(mem, W(first_slot(mem, p, v), 0))
          \/ Begin("count", x, <<v>>) /\ Rewrite(mem, W(list_count(mem, p, v), 0))
          \/ /\ Begin("in", x, <<v>>)
             /\ Rewrite(mem, W(IF list_contains(mem, p, v) THEN 1 ELSE 0, 0))
    BY <1>2, <1>9 DEF Query
  <2>2. list_contains(mem, p, v) <=> Py!Has(s, v)
    BY <1>3, <1>4, HasSeen
  <2>3. CASE Begin("index", x, <<v>>) /\ ~ list_contains(mem, p, v) /\ Abort("unreachable")
    <3>1. Py!Raise("error") /\ Py!Begin("index", x, <<v>>)
      BY <1>1, <2>3, RaiseSeen DEF Py!Begin, Begin
    <3> QED BY <1>1, <1>4, <2>2, <2>3, <3>1 DEF Py!Read
  <2>4. CASE /\ Begin("index", x, <<v>>) /\ list_contains(mem, p, v)
             /\ Rewrite(mem, W(first_slot(mem, p, v), 0))
    <3>1. W(first_slot(mem, p, v), 0) = ToWord(Py!First(s, v))
      BY <1>3, <1>4, <1>5, <2>4, FirstSeen
    <3>2. Py!Change(PyObj, ToWord(Py!First(s, v))) /\ Py!Begin("index", x, <<v>>)
      BY <2>4, <3>1, LookSeen DEF Py!Begin, Begin
    <3> QED BY <1>1, <1>4, <2>2, <2>4, <3>2 DEF Py!Read
  <2>5. CASE Begin("count", x, <<v>>) /\ Rewrite(mem, W(list_count(mem, p, v), 0))
    <3>1. PICK n : n = Py!Cardinality({k \in DOMAIN s : s[k] = v})
      OBVIOUS
    <3>2. n = list_count(mem, p, v)
      BY <1>3, <1>4, <3>1, CountSeen, SameCardinality
    <3>3. Py!Change(PyObj, ToWord(n)) /\ Py!Begin("count", x, <<v>>)
      BY <1>5, <2>5, <3>2, LookSeen DEF Py!Begin, Begin
    <3> QED BY <1>1, <1>4, <3>1, <3>3 DEF Py!Read
  <2>6. CASE /\ Begin("in", x, <<v>>)
             /\ Rewrite(mem, W(IF list_contains(mem, p, v) THEN 1 ELSE 0, 0))
    <3>1. PICK n : n = IF Py!Has(s, v) THEN 1 ELSE 0
      OBVIOUS
    <3>2. n = IF list_contains(mem, p, v) THEN 1 ELSE 0
      BY <2>2, <3>1
    <3>3. Py!Change(PyObj, ToWord(n)) /\ Py!Begin("in", x, <<v>>)
      BY <1>5, <2>6, <3>2, LookSeen DEF Py!Begin, Begin
    <3> QED BY <1>1, <1>4, <3>1, <3>3 DEF Py!Read
  <2> QED BY <2>1, <2>3, <2>4, <2>5, <2>6
<1>10. CASE Length(x)
  <2>1. Begin("len", x, <<>>) /\ Rewrite(mem, W(Len(s), 0))
    BY <1>2, <1>4, <1>10 DEF Length
  <2>2. Py!Change(PyObj, ToWord(Len(s)))
    BY <1>5, <2>1, LookSeen
  <2>3. Py!Begin("len", x, <<>>)
    BY <2>1 DEF Py!Begin, Begin
  <2> QED BY <1>1, <1>4, <2>2, <2>3 DEF Py!Read
<1> QED BY <1>1, <1>6, <1>7, <1>8, <1>9, <1>10

(* d.get(k, e), with an operand that nothing hangs on. *)
LEMMA GetOrAsPython ==
  ASSUME LInv, ~ SelfPops, GetOr
  PROVE  Py!GetOr
<1>1. trap = "none"
  BY DEF GetOr, Running
<1>2. PICK k \in Vals, o \in Operands :
        /\ o.kind = "const" /\ Begin("get_or", NoName, <<k, o>>)
        /\ \/ dict_has(mem, dct, k) /\ Rewrite(mem, dict_get(mem, dct, k))
           \/ ~ dict_has(mem, dct, k) /\ eval(mem, o).ok /\ Rewrite(eval(mem, o).mem, eval(mem, o).val)
           \/ ~ dict_has(mem, dct, k) /\ ~ eval(mem, o).ok /\ Abort("unreachable")
  BY DEF GetOr
<1>3. eval(mem, o) = [ok |-> TRUE, mem |-> mem, val |-> o.v]
  BY <1>2 DEF eval
<1>4. Py!Eval(PyObj, o) = [ok |-> TRUE, obj |-> PyObj, val |-> o.v]
  BY <1>2 DEF Py!Eval
<1>5. PICK q : q = Py!Eval(PyObj, o)
  OBVIOUS
<1>6. q.ok = TRUE /\ q.obj = PyObj /\ q.val = o.v
  BY <1>4, <1>5
<1>7. Py!Operand("get_or", 2) = {o} /\ Py!Begin("get_or", NoName, <<k, o>>)
  <2>1. <<k, o>>[2] = o
    OBVIOUS
  <2> QED BY <1>2, <2>1, OperandNow
<1>8. PICK d : d = dct
  OBVIOUS
<1>9. PICK m : m = mem
  OBVIOUS
<1>10. IsDict(m, d)
  BY <1>8, <1>9, InvFacts DEF Heap
<1>11. /\ dict_has(m, d, k) <=> Places(k) # {}
       /\ dict_has(m, d, k) => dict_get(m, d, k) = Table[CHOOSE j \in Places(k) : TRUE][2]
  BY <1>10, LookupSeen
<1>12. PICK v : v = IF Places(k) = {} THEN o.v ELSE Table[CHOOSE j \in Places(k) : TRUE][2]
  OBVIOUS
<1>14. Rewrite(mem, v)
  <2>1. CASE dict_has(mem, dct, k) /\ Rewrite(mem, dict_get(mem, dct, k))
    BY <1>8, <1>9, <1>11, <1>12, <2>1
  <2>2. CASE ~ dict_has(mem, dct, k) /\ Rewrite(eval(mem, o).mem, eval(mem, o).val)
    BY <1>3, <1>8, <1>9, <1>11, <1>12, <2>2
  <2>3. eval(mem, o).ok
    BY <1>3
  <2> QED BY <1>2, <2>1, <2>2, <2>3
<1>15. Py!Change(q.obj, v)
  BY <1>6, <1>14, LookSeen
<1>16. v = IF Places(k) = {} THEN q.val ELSE Table[CHOOSE j \in Places(k) : TRUE][2]
  BY <1>6, <1>12
<1> QED BY <1>5, <1>6, <1>7, <1>15, <1>16, Zenon DEF Py!GetOr, Places

(* x = [e, ...] *)
LEMMA LiteralAsPython ==
  ASSUME LInv, NEW x \in Names, BindLit(x)
  PROVE  Py!Literal(x) \/ Py!OutOfMemory
<1>1. trap = "none"
  BY DEF BindLit, Running
<1>2. PICK len \in 0 .. MaxLit : \E es \in [1 .. len -> Operands] :
        /\ Begin("literal", x, es)
        /\ LET r == Fill(mem, hp, es) IN
           \/ r.why # "none" /\ Abort(r.why)
           \/ /\ r.why = "none"
              /\ mem' = r.mem
              /\ hp' = alloc(hp, literal_bytes(len))
              /\ loc' = [loc EXCEPT ![x] = hp]
              /\ UNCHANGED <<dct, out, trap>>
  BY DEF BindLit
<1>3. PICK es \in [1 .. len -> Operands] :
        /\ Begin("literal", x, es)
        /\ \/ Fill(mem, hp, es).why # "none" /\ Abort(Fill(mem, hp, es).why)
           \/ /\ Fill(mem, hp, es).why = "none"
              /\ mem' = Fill(mem, hp, es).mem
              /\ loc' = [loc EXCEPT ![x] = hp]
              /\ UNCHANGED <<dct, out, trap>>
  BY <1>2
<1>4. PICK r : r = Fill(mem, hp, es)
  OBVIOUS
<1>5. PICK u : u = Py!EvalAll(es)
  OBVIOUS
<1>6. len \in Nat /\ loc \in [Names -> Nat] /\ hp \in Nat
      /\ Heap(mem, hp, dct, Lists, Reach) /\ ZeroFrom(mem, hp)
  BY InvFacts
<1>7. LiteralRead(r, u, hp)
  BY <1>4, <1>5, <1>6, LiteralSeen
<1>8. Py!Begin("literal", x, es) /\ stmt'.args = es
  BY <1>3, OperandNow
<1>9. CASE r.why # "none" /\ Abort(r.why)
  <2>1. CASE r.why = "unreachable"
    <3>1. ~ u.ok /\ Py!Raise("error")
      BY <1>1, <1>7, <1>9, <2>1, RaiseSeen DEF LiteralRead
    <3> QED BY <1>5, <1>8, <3>1 DEF Py!Literal
  <2>2. CASE r.why = "oob"
    BY <1>1, <1>9, <2>2, OutSeen
  <2> QED BY <1>7, <1>9, <2>1, <2>2 DEF LiteralRead
<1>10. CASE r.why = "none" /\ mem' = r.mem /\ loc' = [loc EXCEPT ![x] = hp] /\ UNCHANGED <<out, trap>>
  <2>1. u.ok = TRUE /\ elems(r.mem, hp) = u.vals /\ u.obj = Seen(r.mem)
    BY <1>7, <1>10 DEF LiteralRead
  <2>2. hp \in Page
    <3>1. r \in Fillings(hp, dct, Reach, len, len)
      BY <1>4, <1>6, FillFills
    <3> QED BY <1>10, <3>1 DEF Fillings, Filling
  <2>3. hp \notin Lists
    BY <1>6 DEF Heap
  <2>4. PICK n : n = r.mem
    OBVIOUS
  <2>5. \A q \in Lists : elems(n, q) = u.obj[q]
    BY <2>1, <2>4 DEF Seen
  <2>6. PICK b \in Page : b = hp
    BY <2>2
  <2>7. Py!Bind(x, u.obj, u.vals)
    BY <1>10, <2>1, <2>3, <2>4, <2>5, <2>6, BindSeen
  <2> QED BY <1>5, <1>8, <2>1, <2>7 DEF Py!Literal
<1> QED BY <1>3, <1>4, <1>9, <1>10

(* x = y *)
LEMMA AliasAsPython ==
  ASSUME LInv, NEW x \in Names, BindAlias(x)
  PROVE  Py!Alias(x)
<1>1. PICK y \in Live : Begin("alias", x, <<y>>) /\ loc' = [loc EXCEPT ![x] = loc[y]]
  BY DEF BindAlias
<1>2. mem' = mem /\ UNCHANGED <<out, trap>>
  BY DEF BindAlias
<1>3. y \in Names /\ loc \in [Names -> Nat] /\ Py!Live = Live /\ PyObj = Seen(mem)
  BY <1>1, InvFacts, LiveNow
<1>4. PICK f \in [Names -> Nat] : f = [loc EXCEPT ![x] = loc[y]]
  BY <1>3
<1>5. loc' = f /\ Lists' = Py!Held(f) /\ Py!Held(f) = {f[z] : z \in Names} \ {0}
  BY <1>1, <1>4, HeldNow
<1>6. ASSUME NEW i \in Lists' PROVE i \in Lists
  <2>1. PICK z \in Names : i = f[z] /\ f[z] # 0
    BY <1>5
  <2>2. PICK w \in Names : i = loc[w] /\ loc[w] # 0
    BY <1>3, <1>4, <2>1
  <2> QED BY <2>2 DEF Lists, Live, Bound
<1>7. PyObj' = [i \in Py!Held(loc') |-> PyObj[i]]
  <2>1. PyObj' = [i \in Lists' |-> elems(mem, i)]
    BY <1>2 DEF PyObj
  <2>2. \A i \in Lists' : PyObj[i] = elems(mem, i)
    BY <1>3, <1>6 DEF Seen
  <2>3. Lists' = Py!Held(loc')
    BY <1>5
  <2> QED BY <2>1, <2>2, <2>3
<1>8. PyExc' = PyExc
  BY <1>2 DEF PyExc
<1>9. Py!Begin("alias", x, <<y>>)
  BY <1>1 DEF Py!Begin, Begin
<1> QED BY <1>1, <1>2, <1>3, <1>7, <1>8, <1>9 DEF Py!Alias

(* A helper's result is an object of its own. *)
LEMMA NewSeen ==
  ASSUME LInv, trap = "none", NEW x \in Names, NEW s \in Seq(Vals), BindNew(x, s)
  PROVE  Py!Bind(x, PyObj, s) \/ Py!OutOfMemory
<1>1. PICK r : r = new_list(mem, hp, s)
  OBVIOUS
<1>2. CASE ~ r.ok /\ Abort("oob")
  BY <1>2, OutSeen
<1>3. CASE r.ok /\ mem' = r.mem /\ loc' = [loc EXCEPT ![x] = r.ptr] /\ UNCHANGED <<out, trap>>
  <2>1. PICK k \in Nat : k = Len(s)
    OBVIOUS
  <2>2. hp + k < PageWords /\ r.ptr = hp /\ r.mem = put_elems(set_count(mem, hp, k), hp, k, s)
    BY <1>1, <1>3, <2>1 DEF new_list
  <2>3. /\ hp \in Nat /\ mem \in [Page -> Word] /\ Heap(mem, hp, dct, Lists, Reach)
        /\ DictEnd(dct) < hp /\ dct \in Page /\ PyObj = Seen(mem)
    BY InvFacts, SeenNow DEF Heap, IsDict
  <2>4. PICK b \in Page : b = hp /\ b \in Nat
    BY <2>1, <2>2, <2>3, Constants DEF DictEnd, Page
  <2>5. PICK m : m = set_count(mem, b, k)
    OBVIOUS
  <2>6. Count(m, b) = k /\ \A a \in Page : a # b => m[a] = mem[a]
    BY <2>3, <2>5 DEF set_count, Count, W
  <2>7. PICK n : n = put_elems(m, b, k, s)
    OBVIOUS
  <2>8. n = [a \in Page |-> IF a \in (b + 1) .. (b + k) THEN s[a - b] ELSE m[a]]
    BY <2>7 DEF put_elems
  <2>9. elems(n, b) = s
    <3>1. n[b] = m[b]
      BY <2>1, <2>4, <2>8
    <3>2. Count(n, b) = Len(s)
      BY <2>1, <2>6, <3>1 DEF Count
    <3>3. ASSUME NEW j \in 1 .. Len(s) PROVE n[b + j] = s[j]
      <4>1. b + j \in Page /\ b + j \in (b + 1) .. (b + k) /\ (b + j) - b = j
        BY <2>1, <2>2, <2>4, Constants DEF Page
      <4> QED BY <2>8, <4>1
    <3> QED BY <3>2, <3>3, Holds
  <2>10. \A a \in Page : a < b => n[a] = mem[a]
    BY <2>4, <2>6, <2>8, Constants
  <2>11. PICK o : o = mem
    OBVIOUS
  <2>12. \A q \in Lists : elems(n, q) = elems(o, q)
    BY <2>3, <2>4, <2>10, <2>11, AboveSeen
  <2>13. \A q \in Lists : elems(n, q) = PyObj[q]
    BY <2>3, <2>11, <2>12 DEF Seen
  <2>14. b \notin Lists
    BY <2>3, <2>4 DEF Heap
  <2>15. mem' = n /\ loc' = [loc EXCEPT ![x] = b]
    BY <1>3, <2>2, <2>4, <2>5, <2>7
  <2>16. PICK g : g = PyObj
    OBVIOUS
  <2>17. Py!Bind(x, g, s)
    BY <1>3, <2>9, <2>13, <2>14, <2>15, <2>16, BindSeen
  <2> QED BY <2>16, <2>17
<1> QED BY <1>1, <1>2, <1>3 DEF BindNew

(* x = sorted(y), reversed(y), y + z, y[lo:hi], list(d), list(d.values()) *)
LEMMA HelperAsPython ==
  ASSUME LInv, NEW x \in Names, BindHelper(x)
  PROVE  Py!Built(x) \/ Py!OutOfMemory
<1>1. trap = "none"
  BY DEF BindHelper, Running
<1>2. Py!Live = Live
  BY LiveNow
<1>3. ASSUME NEW y \in Live
      PROVE  IsList(mem, loc[y]) /\ elems(mem, loc[y]) = Py!Of(y) /\ Py!Of(y) \in Seq(Vals)
  BY ListFacts
<1>4. ASSUME NEW op, NEW args, Begin(op, x, args) PROVE Py!Begin(op, x, args)
  BY <1>4 DEF Py!Begin, Begin
<1>5. ASSUME NEW y \in Live, NEW desc \in BOOLEAN, Begin("sorted", x, <<y, desc>>),
             BindNew(x, list_sorted(mem, loc[y], desc))
      PROVE  Py!Built(x) \/ Py!OutOfMemory
  <2>1. PICK s \in Seq(Vals) : s = list_sorted(mem, loc[y], desc)
    BY <1>3, ListSeqs
  <2>2. s = Py!InOrder(Py!Of(y), desc)
    <3>1. \A v \in Vals : v.lo \in Int
      BY Constants DEF Word
    <3> QED BY <1>3, <2>1, <3>1, SortSeen DEF list_sorted
  <2>3. Py!Bind(x, PyObj, s) \/ Py!OutOfMemory
    BY <1>1, <1>5, <2>1, NewSeen
  <2> QED BY <1>2, <1>4, <1>5, <2>2, <2>3 DEF Py!Built
<1>6. ASSUME NEW y \in Live, Begin("reversed", x, <<y>>), BindNew(x, list_reversed(mem, loc[y]))
      PROVE  Py!Built(x) \/ Py!OutOfMemory
  <2>1. PICK s \in Seq(Vals) : s = list_reversed(mem, loc[y])
    BY <1>3, ListSeqs
  <2>2. s = Py!Backwards(Py!Of(y))
    BY <1>3, <2>1, BackwardsSeen
  <2>3. Py!Bind(x, PyObj, s) \/ Py!OutOfMemory
    BY <1>1, <1>6, <2>1, NewSeen
  <2> QED BY <1>2, <1>4, <1>6, <2>2, <2>3 DEF Py!Built
<1>7. ASSUME NEW y \in Live, NEW z \in Live, Begin("concat", x, <<y, z>>),
             BindNew(x, list_concat(mem, loc[y], loc[z]))
      PROVE  Py!Built(x) \/ Py!OutOfMemory
  <2>1. PICK s \in Seq(Vals) : s = Py!Of(y) \o Py!Of(z)
    BY <1>3, ConcatProperties
  <2>2. s = list_concat(mem, loc[y], loc[z])
    BY <1>3, <2>1 DEF list_concat
  <2>3. Py!Bind(x, PyObj, s) \/ Py!OutOfMemory
    BY <1>1, <1>7, <2>2, NewSeen
  <2> QED BY <1>2, <1>4, <1>7, <2>1, <2>3 DEF Py!Built
<1>8. ASSUME NEW y \in Live, NEW lo \in Idx, NEW hi \in Idx, Begin("slice", x, <<y, lo, hi>>),
             BindNew(x, list_slice(mem, loc[y], lo, hi))
      PROVE  Py!Built(x) \/ Py!OutOfMemory
  <2>1. lo \in Int /\ hi \in Int
    BY Constants
  <2>2. PICK s \in Seq(Vals) : s = list_slice(mem, loc[y], lo, hi)
    BY <1>3, <2>1, ListSeqs
  <2>3. PICK t : t = Py!Of(y)
    OBVIOUS
  <2>4. s = SubSeq(t, Py!Bounded(Len(t), lo) + 1, Py!Bounded(Len(t), hi))
    BY <1>3, <2>1, <2>2, <2>3, SliceSeen
  <2>5. Py!Bind(x, PyObj, s) \/ Py!OutOfMemory
    BY <1>1, <1>8, <2>2, NewSeen
  <2> QED BY <1>2, <1>4, <1>8, <2>3, <2>4, <2>5 DEF Py!Built
<1>9. PICK m : m = mem
  OBVIOUS
<1>10. PICK d : d = dct
  OBVIOUS
<1>11. IsDict(m, d)
  BY <1>9, <1>10, InvFacts DEF Heap
<1>12. CASE Begin("keys", x, <<>>) /\ BindNew(x, keys_to_list(mem, dct))
  <2>1. PICK s \in Seq(Vals) : s = keys_to_list(m, d)
    BY <1>11, DictSeqs
  <2>2. s = [i \in DOMAIN Table |-> Table[i][1]]
    BY <1>11, <2>1, DictSeen
  <2>3. Py!Bind(x, PyObj, s) \/ Py!OutOfMemory
    BY <1>1, <1>9, <1>10, <1>12, <2>1, NewSeen
  <2> QED BY <1>4, <1>12, <2>2, <2>3 DEF Py!Built
<1>13. CASE Begin("values", x, <<>>) /\ BindNew(x, values_to_list(mem, dct))
  <2>1. PICK s \in Seq(Vals) : s = values_to_list(m, d)
    BY <1>11, DictSeqs
  <2>2. s = [i \in DOMAIN Table |-> Table[i][2]]
    BY <1>11, <2>1, DictSeen
  <2>3. Py!Bind(x, PyObj, s) \/ Py!OutOfMemory
    BY <1>1, <1>9, <1>10, <1>13, <2>1, NewSeen
  <2> QED BY <1>4, <1>13, <2>2, <2>3 DEF Py!Built
<1> QED BY <1>5, <1>6, <1>7, <1>8, <1>12, <1>13 DEF BindHelper

-----------------------------------------------------------------------------
(* The refinement.                                                           *)

(* What a caller hands over: lists of values, in Python's eyes as well. *)
LEMMA StartsAsPython == Init => Py!Init
<1> SUFFICES ASSUME Init PROVE Py!Init
  OBVIOUS
<1>1. LInv /\ trap = "none" /\ stmt = [op |-> "none", x |-> NoName, args |-> <<>>]
  BY InitInv DEF Init
<1>2. loc \in [Names -> Nat] /\ Heap(mem, hp, dct, Lists, Reach) /\ Py!Held(loc) = Lists
  BY <1>1, InvFacts, LiveNow
<1>3. \A p \in Lists : p \in Page /\ elems(mem, p) \in Seq(Vals)
  BY <1>2, ElemFacts DEF Heap
<1>4. DOMAIN PyObj = Py!Held(loc) /\ \A p \in Py!Held(loc) : PyObj[p] \in Seq(Vals)
  BY <1>2, <1>3 DEF PyObj
<1>5. \A x \in Names : loc[x] \in Page \cup {0}
  BY <1>2, <1>3 DEF Lists, Live, Bound
<1>6. loc \in [Names -> Page \cup {0}]
  BY <1>2, <1>5
<1>7. PyExc = "none"
  BY <1>1 DEF PyExc
<1> QED BY <1>1, <1>4, <1>6, <1>7 DEF Py!Init

(* Every statement is a statement of the Python program, or memory ran out. *)
LEMMA StepsAsPython == ASSUME LInv, ~ SelfPops, [Next]_vars PROVE [Py!Next]_Py!vars
<1>1. Py!Live = Live /\ (trap = "none" => Py!Running)
  BY LiveNow
<1>2. ASSUME NEW x \in Names, BindLit(x) \/ BindAlias(x) \/ BindHelper(x) PROVE Py!Next
  <2>1. Py!Literal(x) \/ Py!Alias(x) \/ Py!Built(x) \/ Py!OutOfMemory
    BY <1>2, LiteralAsPython, AliasAsPython, HelperAsPython
  <2>2. trap = "none"
    BY <1>2 DEF BindLit, BindAlias, BindHelper, Running
  <2> QED BY <1>1, <2>1, <2>2 DEF Py!Next
<1>3. ASSUME NEW x \in Names,
             \/ ListAppend(x) \/ Insert(x) \/ SetItem(x) \/ DelItem(x) \/ ListRemove(x) \/ Rearrange(x)
      PROVE Py!Next
  <2>1. x \in Live /\ (Py!Store(x) \/ Py!Delete(x) \/ Py!Rearrange(x) \/ Py!OutOfMemory)
    BY <1>3, AppendAsPython, InsertAsPython, SetItemAsPython, DeleteAsPython, RearrangeAsPython
  <2>2. trap = "none"
    BY <1>3 DEF ListAppend, Insert, SetItem, DelItem, ListRemove, Rearrange, Running
  <2> QED BY <1>1, <2>1, <2>2 DEF Py!Next
<1>4. ASSUME NEW x \in Names,
             \/ PopValue(x) \/ GetItem(x) \/ Extremum(x) \/ Total(x) \/ Query(x) \/ Length(x)
      PROVE Py!Next
  <2>1. x \in Live /\ (Py!PopValue(x) \/ Py!Read(x))
    BY <1>4, PopAsPython, ReadAsPython
  <2>2. trap = "none"
    BY <1>4 DEF PopValue, GetItem, Extremum, Total, Query, Length, Running
  <2> QED BY <1>1, <2>1, <2>2 DEF Py!Next
<1>5. CASE GetOr
  <2>1. trap = "none"
    BY <1>5 DEF GetOr, Running
  <2> QED BY <1>1, <1>5, <2>1, GetOrAsPython DEF Py!Next
<1>6. CASE UNCHANGED vars
  <2>1. Lists' = Lists
    BY <1>6 DEF vars, Lists, Live, Bound
  <2>2. PyObj' = PyObj /\ PyExc' = PyExc
    BY <1>6, <2>1 DEF vars, PyObj, PyExc
  <2> QED BY <1>6, <2>2 DEF vars, Py!vars
<1> QED BY <1>2, <1>3, <1>4, <1>5, <1>6 DEF Next, Halted

(* Through whatever name a list is reached - aliases, parameters that share  *)
(* one record, records without spare slots - every list statement the        *)
(* backend emits has the effect, the result and the exception Python gives   *)
(* it, until the spare slots or the page run out.  The condition excludes    *)
(* what goes wrong: an operand that pops the list its own statement writes,  *)
(* whose element address was computed before, and a default of d.get that    *)
(* pops, which the emitted code evaluates only where the key is absent.      *)
THEOREM ListsImplementPython ==
  ASSUME ~ SelfPops PROVE Spec => ImplementsPython
<1>1. Init => Py!Init
  BY StartsAsPython
<1>2. LInv /\ [Next]_vars => [Py!Next]_Py!vars
  BY StepsAsPython
<1> QED BY <1>1, <1>2, ListHeapTidy, PTL DEF Spec, Py!Spec, ImplementsPython
=============================================================================
