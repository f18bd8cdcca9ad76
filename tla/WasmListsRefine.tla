--------------------------- MODULE WasmListsRefine ---------------------------
(***************************************************************************)
(* The emitted list statements implement Python's: a base pointer is an    *)
(* object's identity, and the live words of its record are its contents.   *)
(***************************************************************************)
EXTENDS WasmLists

PyExc == CASE trap = "none" -> "none" [] trap = "unreachable" -> "error" [] OTHER -> "MemoryError"

FromWord(w) == w.lo
ToWord(n)   == W(n, 0)

PyObj == [p \in Lists |-> elems(mem, p)]

Py == INSTANCE PyLists WITH
        Ids      <- Page,
        NoObject <- 0,
        Value    <- FromWord,
        Word     <- ToWord,
        ref      <- loc,
        obj      <- PyObj,
        exc      <- PyExc

(* Every list statement of the emitted module has the effect, the result and *)
(* the exception Python gives it, through whatever name the list is reached, *)
(* until the spare slots or the page run out (emit_list_append and the other *)
(* list emitters).                                                           *)
ImplementsPython == Py!Spec
=============================================================================
