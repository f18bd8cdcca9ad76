----------------------------- MODULE MCWasmMaps -----------------------------
(* Small instances of WasmMaps for TLC. *)
EXTENDS WasmMapsRefine

(* Two int keys that agree in their low half, and two values. *)
IntKeys  == {W(1, 0), W(1, 1)}
ThreeKeys == IntKeys \cup {W(2, 0)}
IntVals  == {W(0, 0), W(7, 0)}
ZeroOnly == {Zero}
NoText   == <<>>

(* Three string pointers; the first two hold equal text. *)
StrKeys  == {W(1, 0), W(2, 0), W(3, 0)}
StrText  == <<"a", "a", "b">>

(* Two states that differ only in words no program can read are one state:  *)
(* the words of abandoned regions and the slots past a record's count.       *)
(* Nor does any step depend on `stmt`.  (The first component is always TRUE;  *)
(* it makes TLC compute the memory before it stores the state.)              *)
ReadableWords == UNION {p .. (p + 2 * Count(mem, p)) : p \in Records}
ReadableView  == <<mem \in [Page -> Word],
                   [a \in (ReadableWords \cup foreign) \cap Page |-> mem[a]],
                   hp, loc, inCall, run, out, trap, foreign>>
=============================================================================
