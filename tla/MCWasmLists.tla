----------------------------- MODULE MCWasmLists -----------------------------
(* Small instances of WasmLists for TLC. *)
EXTENDS WasmListsRefine

TwoVals   == {W(0, 0), W(7, 0)}
NoText    == <<>>
SomeIdx   == {-1, 0, 1}
OneEntry  == <<<<W(0, 0), W(7, 0)>>>>
PassedTwo == {<<>>, <<W(7, 0), W(0, 0)>>}

(* States that differ only in words no program reads are one state: the      *)
(* words past a list's count, and abandoned records.  No step depends on     *)
(* `out` or `stmt`.  (The first component is always TRUE; it makes TLC       *)
(* compute the memory before it stores the state.)                           *)
ListWords == UNION {p .. (p + Count(mem, p)) : p \in Lists}
ListView  == <<mem \in [Page -> Word], [a \in ListWords |-> mem[a]], hp, loc, trap>>
=============================================================================
