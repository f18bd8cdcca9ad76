--------------------------- MODULE MCFfiManifest ---------------------------
(***************************************************************************)
(* Directories for FfiManifest: every small mix of an application, a       *)
(* Python sibling, C files, a script and a WASM module, and a Python    *)
(* sibling that a C file shadows.                                          *)
(***************************************************************************)
EXTENDS FfiManifest, FiniteSets

ASymbols == {"f", "g", "main", "tool"}
AStems   == {"app", "util", "core", "tool"}

Py(path, stem, defs, imports) ==
  [path |-> path, base |-> path, stem |-> stem, lang |-> "Python", defs |-> defs,
   opaque |-> {}, imports |-> imports]
CFile(path, base, defs, opaque) ==
  [path |-> path, base |-> base, stem |-> "core", lang |-> "C", defs |-> defs,
   opaque |-> opaque, imports |-> <<>>]
Script(defs) ==
  [path |-> 5, base |-> 5, stem |-> "tool", lang |-> "Shell", defs |-> defs,
   opaque |-> {}, imports |-> <<>>]
Wat == [path |-> 6, base |-> 6, stem |-> "core", lang |-> "Wasm", defs |-> {"f"},
        opaque |-> {}, imports |-> <<>>]
From(m, s) == [module |-> m, symbol |-> s]

(* Which app.py, util.py, C files, scripts and WASM modules may occur. *)
Apps == {Py(1, "app", {"main"}, is) : is \in
          {<<From("util", "g"), From("core", "f")>>, <<From("tool", "tool"), From("core", "g")>>}}
Utils == {Py(2, "util", {"g"}, <<>>), Py(2, "util", {}, <<From("core", "f")>>)}
Cores == {CFile(3, 3, {"f"}, {}), CFile(3, 3, {"f", "g"}, {}), CFile(3, 3, {"f"}, {"f"})}
More  == {CFile(4, b, {"g"}, {}) : b \in {3, 4}}
Others == {Script({}), Script({"main"}), Wat}

(* At most four files, each path once: any two may follow each other. *)
OneOf(S) == {{}} \cup {{x} : x \in S}
Mixes == {t \in {{a} \cup u \cup c \cup m \cup o : a \in Apps, u \in OneOf(Utils),
                   c \in OneOf(Cores), m \in OneOf(More), o \in OneOf(Others)} :
            Cardinality(t) <= 4}

(* util.py and core.c both define g; app.py wants util.py's. *)
Shadowed == {{Py(1, "app", {"main"}, <<From("util", "g"), From("core", "f")>>),
              Py(2, "util", {"g"}, <<>>), CFile(3, 3, {"f", "g"}, {})}}
=============================================================================
