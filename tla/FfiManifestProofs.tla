------------------------- MODULE FfiManifestProofs -------------------------
(***************************************************************************)
(* Proofs about FfiManifest: for every directory and every order it is     *)
(* listed in, a reconciled manifest is complete, the order decides nothing *)
(* where no two languages define one symbol, and the sources of the last   *)
(* emission are all in the workspace.                                      *)
(***************************************************************************)
EXTENDS FfiManifest, WellFoundedInduction, TLAPS

-----------------------------------------------------------------------------
(* Least and greatest elements, and induction over the naturals.             *)

LEMMA Least ==
  ASSUME NEW T \in SUBSET Nat, T # {}
  PROVE  \E n \in T : \A m \in T : n <= m
<1>1. PICK n \in T : \A m \in T : <<m, n>> \notin OpToRel(<, Nat)
  BY WFMin, NatLessThanWellFounded, Zenon
<1>2. ASSUME NEW m \in T, m < n PROVE FALSE
  <2>1. <<m, n>> \in Nat \X Nat /\ <<m, n>>[1] < <<m, n>>[2]
    BY <1>2
  <2>2. <<m, n>> \in OpToRel(<, Nat)
    BY <2>1, Zenon DEF OpToRel
  <2> QED BY <1>1, <2>2
<1> QED BY <1>2

LEMMA Greatest ==
  ASSUME NEW n \in Nat, NEW T \in SUBSET (1 .. n), T # {}
  PROVE  \E i \in T : \A j \in T : j <= i
<1> DEFINE D == {n - i : i \in T}
<1>1. D \in SUBSET Nat /\ D # {}
  <2>1. \A i \in T : i \in 1 .. n /\ n - i \in Nat
    OBVIOUS
  <2> QED BY <2>1
<1>2. PICK d \in D : \A e \in D : d <= e
  BY <1>1, Least
<1>3. PICK i \in T : d = n - i
  OBVIOUS
<1>4. ASSUME NEW j \in T PROVE j <= i
  <2>1. n - j \in D
    OBVIOUS
  <2>2. n - i <= n - j
    BY <1>2, <1>3, <2>1
  <2>3. i \in 1 .. n /\ j \in 1 .. n
    OBVIOUS
  <2> QED BY <2>2, <2>3
<1> QED BY <1>4

LEMMA Induction ==
  ASSUME NEW S, 0 \in S, \A n \in Nat : n \in S => n + 1 \in S
  PROVE  Nat \subseteq S
<1> SUFFICES ASSUME ~ (Nat \subseteq S) PROVE FALSE
  OBVIOUS
<1>1. PICK n \in Nat \ S : \A m \in Nat \ S : n <= m
  BY Least
<1>2. n - 1 \in Nat /\ n - 1 \in S
  BY <1>1
<1> QED BY <1>1, <1>2

-----------------------------------------------------------------------------
(* What the sequences of a run hold.                                         *)

(* The elements of two sequences, one after the other. *)
LEMMA JoinedHolds ==
  ASSUME NEW T, NEW s \in Seq(T), NEW t \in Seq(T)
  PROVE  s \o t \in Seq(T) /\ \A x : x \in ToSet(s \o t) <=> x \in ToSet(s) \/ x \in ToSet(t)
<1>1. s \o t \in Seq(T) /\ Len(s \o t) = Len(s) + Len(t)
  OBVIOUS
<1>2. ASSUME NEW i \in DOMAIN s PROVE i \in DOMAIN (s \o t) /\ (s \o t)[i] = s[i]
  OBVIOUS
<1>3. ASSUME NEW i \in DOMAIN t PROVE Len(s) + i \in DOMAIN (s \o t) /\ (s \o t)[Len(s) + i] = t[i]
  OBVIOUS
<1>4. ASSUME NEW i \in DOMAIN (s \o t)
      PROVE  \/ i \in DOMAIN s /\ (s \o t)[i] = s[i]
             \/ i - Len(s) \in DOMAIN t /\ (s \o t)[i] = t[i - Len(s)]
  OBVIOUS
<1>5. \A x : x \in ToSet(s \o t) => x \in ToSet(s) \/ x \in ToSet(t)
  BY <1>4 DEF ToSet
<1>6. \A x : x \in ToSet(s) => x \in ToSet(s \o t)
  BY <1>2 DEF ToSet
<1>7. \A x : x \in ToSet(t) => x \in ToSet(s \o t)
  BY <1>3 DEF ToSet
<1> QED BY <1>1, <1>5, <1>6, <1>7

(* The recursion of FlattenSeq. *)
IsFlattening(ss, n, f) ==
  f = [i \in 1 .. n |-> IF i = 1 THEN ss[i] ELSE f[i - 1] \o ss[i]]

LEMMA Flattening ==
  ASSUME NEW ss, NEW n \in Nat
  PROVE  \E f : IsFlattening(ss, n, f)
<1> DEFINE S == {m \in Nat : \E f : IsFlattening(ss, m, f)}
<1>1. 0 \in S
  <2> DEFINE f == [i \in 1 .. 0 |-> ss]
  <2>1. IsFlattening(ss, 0, f)
    BY DEF IsFlattening
  <2> QED BY <2>1
<1>2. ASSUME NEW m \in Nat, m \in S PROVE m + 1 \in S
  <2>1. PICK f : IsFlattening(ss, m, f)
    BY <1>2
  <2> DEFINE last == IF m = 0 THEN ss[m + 1] ELSE f[m] \o ss[m + 1]
             g == [i \in 1 .. m + 1 |-> IF i = m + 1 THEN last ELSE f[i]]
  <2>2. ASSUME NEW i \in 1 .. m + 1 PROVE g[i] = IF i = 1 THEN ss[i] ELSE g[i - 1] \o ss[i]
    <3>1. CASE i = m + 1
      BY <3>1
    <3>2. CASE i # m + 1
      <4>1. i \in 1 .. m /\ (i # 1 => i - 1 \in 1 .. m)
        BY <3>2
      <4>2. f[i] = IF i = 1 THEN ss[i] ELSE f[i - 1] \o ss[i]
        BY <2>1, <4>1 DEF IsFlattening
      <4> QED BY <3>2, <4>1, <4>2
    <3> QED BY <3>1, <3>2
  <2>3. g = [i \in 1 .. m + 1 |-> g[i]]
    OBVIOUS
  <2> HIDE DEF g
  <2>4. IsFlattening(ss, m + 1, g)
    BY <2>2, <2>3 DEF IsFlattening
  <2> QED BY <2>4
<1> HIDE DEF S
<1>3. n \in S
  BY <1>1, <1>2, Induction
<1> QED BY <1>3 DEF S

(* FlattenSeq's elements are those of its sequences. *)
LEMMA FlatHolds ==
  ASSUME NEW T, NEW ss \in Seq(Seq(T))
  PROVE  /\ FlattenSeq(ss) \in Seq(T)
         /\ \A x : x \in ToSet(FlattenSeq(ss)) <=> \E i \in DOMAIN ss : x \in ToSet(ss[i])
<1> DEFINE n == Len(ss)
<1>1. CASE n = 0
  <2>1. FlattenSeq(ss) = <<>> /\ ss = <<>>
    BY <1>1 DEF FlattenSeq
  <2> QED BY <2>1 DEF ToSet
<1>2. CASE n # 0
  <2> DEFINE f == CHOOSE f : IsFlattening(ss, n, f)
  <2>1. FlattenSeq(ss) = f[n]
    BY <1>2, Zenon DEF FlattenSeq, IsFlattening
  <2>2. IsFlattening(ss, n, f)
    <3>1. n \in Nat
      OBVIOUS
    <3>2. \E g : IsFlattening(ss, n, g)
      BY <3>1, Flattening
    <3> QED BY <3>2, Zenon
  <2> HIDE DEF f
  <2>3. \A i \in 1 .. n : f[i] = IF i = 1 THEN ss[i] ELSE f[i - 1] \o ss[i]
    BY <2>2 DEF IsFlattening
  <2> DEFINE Holds(k) == /\ f[k] \in Seq(T)
                         /\ \A x : x \in ToSet(f[k]) <=> \E i \in 1 .. k : x \in ToSet(ss[i])
             S == {k \in Nat : k + 1 <= n => Holds(k + 1)}
  <2>4. 0 \in S
    <3>1. Holds(1)
      <4>1. f[1] = ss[1] /\ ss[1] \in Seq(T)
        BY <1>2, <2>3
      <4> QED BY <4>1
    <3> QED BY <3>1
  <2>5. ASSUME NEW k \in Nat, k \in S PROVE k + 1 \in S
    <3>1. ASSUME k + 2 <= n PROVE Holds(k + 2)
      <4>1. Holds(k + 1)
        BY <2>5, <3>1
      <4>2. f[k + 2] = f[k + 1] \o ss[k + 2] /\ ss[k + 2] \in Seq(T)
        <5>1. k + 2 \in 1 .. n /\ k + 2 # 1 /\ (k + 2) - 1 = k + 1
          BY <3>1
        <5>2. f[k + 2] = f[(k + 2) - 1] \o ss[k + 2]
          BY <2>3, <5>1
        <5> QED BY <5>1, <5>2
      <4>3. /\ f[k + 2] \in Seq(T)
            /\ \A x : x \in ToSet(f[k + 2]) <=> x \in ToSet(f[k + 1]) \/ x \in ToSet(ss[k + 2])
        BY <4>1, <4>2, JoinedHolds
      <4>4. \A i : i \in 1 .. k + 2 <=> i \in 1 .. k + 1 \/ i = k + 2
        OBVIOUS
      <4> QED BY <4>1, <4>3, <4>4
    <3> HIDE DEF Holds, n
    <3>2. ASSUME (k + 1) + 1 <= n PROVE Holds((k + 1) + 1)
      <4>1. (k + 1) + 1 = k + 2
        OBVIOUS
      <4> QED BY <3>1, <3>2, <4>1
    <3>3. k + 1 \in Nat
      OBVIOUS
    <3> QED BY <3>2, <3>3
  <2> HIDE DEF S
  <2>6. n - 1 \in Nat /\ n - 1 \in S
    <3>1. Nat \subseteq S
      BY <2>4, <2>5, Induction
    <3>2. n - 1 \in Nat
      BY <1>2
    <3> QED BY <3>1, <3>2
  <2>7. Holds(n)
    <3>1. (n - 1) + 1 = n
      OBVIOUS
    <3>2. (n - 1) + 1 <= n => Holds((n - 1) + 1)
      BY <2>6, Zenon DEF S
    <3> HIDE DEF Holds
    <3> QED BY <3>1, <3>2
  <2>8. DOMAIN ss = 1 .. n
    OBVIOUS
  <2> HIDE DEF n
  <2> QED BY <2>1, <2>7, <2>8
<1> QED BY <1>1, <1>2

(* Kept keeps the elements in S. *)
LEMMA KeptHolds ==
  ASSUME NEW T, NEW s \in Seq(T), NEW S
  PROVE  Kept(s, S) \in Seq(T) /\ \A x : x \in ToSet(Kept(s, S)) <=> x \in ToSet(s) /\ x \in S
<1> DEFINE one(i) == IF s[i] \in S THEN <<s[i]>> ELSE <<>>
           ss == [i \in DOMAIN s |-> one(i)]
<1>1. \A i \in DOMAIN s : one(i) \in Seq(T) /\ \A x : x \in ToSet(one(i)) <=> x = s[i] /\ x \in S
  BY DEF ToSet
<1> HIDE DEF one
<1>2. ss \in Seq(Seq(T)) /\ DOMAIN ss = DOMAIN s /\ \A i \in DOMAIN s : ss[i] = one(i)
  BY <1>1
<1>3. Kept(s, S) = FlattenSeq(ss)
  BY DEF Kept, one
<1> HIDE DEF ss
<1>4. /\ Kept(s, S) \in Seq(T)
      /\ \A x : x \in ToSet(Kept(s, S)) <=> \E i \in DOMAIN s : x \in ToSet(one(i))
  BY <1>2, <1>3, FlatHolds
<1>5. \A x : x \in ToSet(s) <=> \E i \in DOMAIN s : x = s[i]
  BY DEF ToSet
<1> QED BY <1>1, <1>4, <1>5

-----------------------------------------------------------------------------
(* Where the boundaries lead.                                                *)

(* The boundary of an import of a module among ms. *)
BoundaryOf(ms, f, k) == [from |-> f.lang, to |-> ToLang(ms, f.imports[k].symbol),
                         symbol |-> f.imports[k].symbol]

(* ToLang is the language of a module that names s, if there is one. *)
LEMMA ToLangNames ==
  ASSUME NEW t, NEW ms \in Seq(t), NEW s
  PROVE  /\ (\E f \in ToSet(ms) : s \in Named(f)) =>
              \E f \in ToSet(ms) : s \in Named(f) /\ f.lang = ToLang(ms, s)
         /\ (\A f \in ToSet(ms) : s \notin Named(f)) => ToLang(ms, s) = "C"
<1> DEFINE at == {i \in DOMAIN ms : s \in Named(ms[i])}
           i == CHOOSE i \in at : \A j \in at : i <= j
<1>1. CASE at = {}
  <2>1. ToLang(ms, s) = "C"
    BY <1>1 DEF ToLang
  <2>2. \A f \in ToSet(ms) : s \notin Named(f)
    BY <1>1 DEF ToSet
  <2> QED BY <2>1, <2>2
<1>2. CASE at # {}
  <2>1. at \subseteq Nat
    OBVIOUS
  <2>2. i \in at
    BY <1>2, <2>1, Least
  <2>3. ToLang(ms, s) = ms[i].lang
    BY <1>2 DEF ToLang
  <2>4. ms[i] \in ToSet(ms) /\ s \in Named(ms[i])
    BY <2>2 DEF ToSet
  <2> QED BY <2>3, <2>4
<1> QED BY <1>1, <1>2

FromImports(t, ms) == UNION {{BoundaryOf(ms, f, k) : k \in DOMAIN f.imports} : f \in t}

(* There is one boundary per import, and no other. *)
LEMMA BoundariesHold ==
  ASSUME NEW t \in Trees, NEW ms \in Seq(t)
  PROVE  /\ Boundaries(ms) \in Seq(FromImports(t, ms))
         /\ \A b : b \in ToSet(Boundaries(ms)) <=>
                   \E f \in ToSet(ms) : \E k \in DOMAIN f.imports : b = BoundaryOf(ms, f, k)
<1> DEFINE one(i) == [k \in DOMAIN ms[i].imports |-> BoundaryOf(ms, ms[i], k)]
           ss == [i \in DOMAIN ms |-> one(i)]
           T == FromImports(t, ms)
<1>1. \A f \in t : f.imports \in Seq([module : Stems, symbol : Symbols])
  <2>1. t \subseteq File
    BY ManifestAssumption
  <2> QED BY <2>1 DEF File
<1>2. ASSUME NEW i \in DOMAIN ms
      PROVE  one(i) \in Seq(T) /\ \A b : b \in ToSet(one(i)) <=>
               \E k \in DOMAIN ms[i].imports : b = BoundaryOf(ms, ms[i], k)
  <2>1. ms[i] \in t /\ ms[i].imports \in Seq([module : Stems, symbol : Symbols])
    <3>1. ms[i] \in t
      OBVIOUS
    <3> QED BY <1>1, <3>1
  <2>2. \A k \in DOMAIN ms[i].imports : BoundaryOf(ms, ms[i], k) \in T
    BY <2>1 DEF FromImports
  <2> HIDE DEF T
  <2>3. one(i) \in Seq(T)
    BY <2>1, <2>2
  <2> QED BY <2>3 DEF ToSet
<1>3. Boundaries(ms) = FlattenSeq(ss)
  BY DEF Boundaries, BoundaryOf
<1> HIDE DEF one, T
<1>4. ss \in Seq(Seq(T)) /\ DOMAIN ss = DOMAIN ms /\ \A i \in DOMAIN ms : ss[i] = one(i)
  BY <1>2
<1> HIDE DEF ss
<1>5. /\ Boundaries(ms) \in Seq(T)
      /\ \A b : b \in ToSet(Boundaries(ms)) <=> \E i \in DOMAIN ms : b \in ToSet(one(i))
  BY <1>3, <1>4, FlatHolds
<1>6. \A f : f \in ToSet(ms) <=> \E i \in DOMAIN ms : f = ms[i]
  BY DEF ToSet
<1> QED BY <1>2, <1>5, <1>6 DEF T

(* What reconcile sees of a run that has dispatched the whole directory.     *)
LEMMA ForeignHold ==
  ASSUME NEW t \in Trees, NEW ms \in Seq(t), ToSet(ms) = t
  PROVE  /\ Foreign(ms) \in Seq(FromImports(t, ms))
         /\ \A b : b \in ToSet(Foreign(ms)) <=>
              /\ \E f \in t : \E k \in DOMAIN f.imports : b = BoundaryOf(ms, f, k)
              /\ b.from # b.to
<1>1. /\ Boundaries(ms) \in Seq(FromImports(t, ms))
      /\ \A b : b \in ToSet(Boundaries(ms)) <=>
                   \E f \in t : \E k \in DOMAIN f.imports : b = BoundaryOf(ms, f, k)
  BY BoundariesHold
<1>2. /\ Foreign(ms) \in Seq(FromImports(t, ms))
      /\ \A b : b \in ToSet(Foreign(ms)) <=>
           /\ b \in ToSet(Boundaries(ms))
           /\ b \in {c \in ToSet(Boundaries(ms)) : c.from # c.to}
  BY <1>1, KeptHolds DEF Foreign
<1> QED BY <1>1, <1>2

(* A boundary is defined when a file of its language exports its symbol. *)
LEMMA DefinedInTree ==
  ASSUME NEW t, NEW ms \in Seq(t), ToSet(ms) = t, NEW b
  PROVE  Defined(ms, b) <=> \E f \in t : f.lang = b.to /\ b.symbol \in Exports(f)
  BY DEF Defined, ToSet

-----------------------------------------------------------------------------
(* The inductive invariant.                                                  *)

Whole == mods \in Seq(tree) /\ ToSet(mods) = tree

Resolved ==
  /\ \A b \in ToSet(Foreign(mods)) : Defined(mods, b)
  /\ ToSet(manifest) = ToSet(Foreign(mods))

MInv ==
  /\ tree \in Trees
  /\ pc \in {"idle", "dispatch", "emit", "done"}
  /\ pc \in {"idle", "dispatch", "emit"} => verdict = "none"
  /\ pc = "dispatch" => mods \in Seq(tree) /\ todo \subseteq tree /\ ToSet(mods) \cup todo = tree
  /\ Reconciled => Whole /\ Resolved
  /\ verdict = "unresolved" => Whole /\ \E b \in ToSet(Foreign(mods)) : ~ Defined(mods, b)
  /\ runs \in Nat
  /\ pc = "idle" => runs = 0
  /\ runs = 0 => pc = "idle"
  /\ runs = 0 => DOMAIN csrc = {}
  /\ runs = 1 /\ pc \in {"dispatch", "emit"} => DOMAIN csrc = {}
  /\ FreshWorkspace

(* The start of a series of runs. *)
LEMMA InitMInv == Init => MInv
  BY DEF Init, MInv, Reconciled, FreshWorkspace

(* SourcesIn(t), of a csrc/ that is d. *)
HoldsSources(d, t) == \A f \in COnly(t) : f.base \in DOMAIN d /\ d[f.base] = f

(* Copying C sources with names of their own leaves each of them there. *)
LEMMA CopiedFresh ==
  ASSUME NEW t, NEW ms \in Seq(t), ToSet(ms) = t, OwnNames(t), NEW dir
  PROVE  /\ HoldsSources(Copied(dir, CSources(ms)), t)
         /\ DOMAIN Copied(dir, CSources(ms)) = DOMAIN dir \cup {f.base : f \in COnly(t)}
<1> DEFINE cs == CSources(ms)
           d == Copied(dir, cs)
<1> SUFFICES HoldsSources(d, t) /\ DOMAIN d = DOMAIN dir \cup {f.base : f \in COnly(t)}
  OBVIOUS
<1>1. cs \in Seq(t) /\ \A f : f \in ToSet(cs) <=> f \in COnly(t)
  <2>1. cs \in Seq(t) /\ \A f : f \in ToSet(cs) <=> f \in ToSet(ms) /\ f \in {m \in ToSet(ms) : m.lang = "C"}
    BY KeptHolds DEF CSources
  <2> QED BY <2>1 DEF COnly
<1> HIDE DEF cs
<1>2. DOMAIN cs = 1 .. Len(cs) /\ Len(cs) \in Nat
  BY <1>1
<1>3. \A f : f \in COnly(t) <=> \E i \in DOMAIN cs : f = cs[i]
  BY <1>1 DEF ToSet
<1>4. DOMAIN d = DOMAIN dir \cup {f.base : f \in COnly(t)}
  BY <1>3 DEF Copied
<1>5. ASSUME NEW f \in COnly(t) PROVE f.base \in DOMAIN d /\ d[f.base] = f
  <2> DEFINE at == {i \in DOMAIN cs : cs[i].base = f.base}
             last == CHOOSE i \in at : \A j \in at : j <= i
  <2>1. at \in SUBSET (1 .. Len(cs)) /\ at # {}
    BY <1>2, <1>3
  <2>2. last \in at
    BY <1>2, <2>1, Greatest
  <2>3. f.base \in DOMAIN d
    BY <1>4
  <2>4. d[f.base] = cs[last]
    BY <1>3, <2>1, <2>3 DEF Copied
  <2> HIDE DEF last
  <2>5. cs[last] \in COnly(t) /\ cs[last].base = f.base
    BY <1>3, <2>2
  <2> QED BY <2>3, <2>4, <2>5 DEF OwnNames
<1> QED BY <1>4, <1>5 DEF HoldsSources

(* Every run of the command, file by file, keeps the invariant. *)
LEMMA NextMInv == MInv /\ [Next]_vars => MInv'
<1> SUFFICES ASSUME MInv, [Next]_vars PROVE MInv'
  OBVIOUS
<1>1. CASE Run
  <2>1. tree' \in Trees
    BY <1>1 DEF Run, MInv
  <2>2. mods' = <<>> /\ todo' = tree' /\ verdict' = "none" /\ pc' = "dispatch" /\ runs' = runs + 1 /\ csrc' = csrc
    BY <1>1 DEF Run
  <2>3. mods' \in Seq(tree') /\ ToSet(mods') = {}
    BY <2>2 DEF ToSet
  <2>4. (runs' = 1 => DOMAIN csrc = {}) /\ runs' \in Nat \ {0}
    <3>1. runs \in Nat /\ (runs = 0 => DOMAIN csrc = {})
      BY DEF MInv
    <3> QED BY <2>2, <3>1
  <2> QED BY <2>1, <2>2, <2>3, <2>4 DEF MInv, Reconciled, FreshWorkspace
<1>2. ASSUME NEW f \in todo, Dispatch(f) PROVE MInv'
  <2>1. UNCHANGED <<tree, manifest, csrc, runs>> /\ pc = "dispatch" /\ verdict = "none"
    BY <1>2 DEF Dispatch, MInv
  <2>2. CASE mods' = Append(mods, f) /\ todo' = todo \ {f} /\ UNCHANGED <<pc, verdict>>
    <3>1. f \in tree /\ mods \in Seq(tree) /\ todo \subseteq tree /\ ToSet(mods) \cup todo = tree
      BY <2>1 DEF MInv
    <3>2. mods' = mods \o <<f>> /\ <<f>> \in Seq(tree)
      BY <2>2, <3>1
    <3>3. mods' \in Seq(tree) /\ \A x : x \in ToSet(mods') <=> x \in ToSet(mods) \/ x \in ToSet(<<f>>)
      BY <3>1, <3>2, JoinedHolds
    <3>4. ToSet(<<f>>) = {f}
      BY DEF ToSet
    <3>5. ToSet(mods') \cup todo' = tree'
      BY <2>1, <2>2, <3>1, <3>3, <3>4
    <3> QED BY <2>1, <2>2, <3>1, <3>3, <3>5 DEF MInv, Reconciled, FreshWorkspace
  <2>3. CASE Finish("failed") /\ UNCHANGED <<mods, todo>>
    BY <2>1, <2>3 DEF Finish, MInv, Reconciled, FreshWorkspace
  <2> QED BY <1>2, <2>2, <2>3 DEF Dispatch
<1>3. CASE Reconcile
  <2>1. Whole' /\ Whole
    BY <1>3 DEF Reconcile, MInv, Whole
  <2>2. UNCHANGED <<tree, mods, csrc, runs>> /\ pc = "dispatch" /\ verdict = "none"
    BY <1>3 DEF Reconcile, MInv
  <2>3. /\ manifest' = Kept(Foreign(mods), {b \in ToSet(Foreign(mods)) : Defined(mods, b)})
        /\ failures' = {b \in ToSet(Foreign(mods)) : ~ Defined(mods, b)}
    BY <1>3 DEF Reconcile
  <2>4. CASE failures' = {}
    <3>1. pc' = "emit" /\ verdict' = verdict
      BY <1>3, <2>4 DEF Reconcile
    <3>2. \A b \in ToSet(Foreign(mods)) : Defined(mods, b)
      BY <2>3, <2>4
    <3>3. Foreign(mods) \in Seq(FromImports(tree, mods))
      BY <2>1, ForeignHold DEF MInv, Whole
    <3>4. ToSet(manifest') = ToSet(Foreign(mods))
      <4> DEFINE D == {b \in ToSet(Foreign(mods)) : Defined(mods, b)}
      <4>1. \A x : x \in ToSet(Kept(Foreign(mods), D)) <=> x \in ToSet(Foreign(mods)) /\ x \in D
        BY <3>3, KeptHolds
      <4>2. D = ToSet(Foreign(mods))
        BY <3>2
      <4>3. manifest' = Kept(Foreign(mods), D)
        BY <2>3
      <4> HIDE DEF D
      <4> QED BY <4>1, <4>2, <4>3
    <3>5. Resolved'
      BY <2>2, <3>2, <3>4 DEF Resolved
    <3> QED BY <2>1, <2>2, <3>1, <3>5 DEF MInv, Reconciled, FreshWorkspace
  <2>5. CASE failures' # {}
    <3>1. pc' = "done" /\ verdict' = "unresolved"
      BY <1>3, <2>5 DEF Reconcile, Finish
    <3>2. \E b \in ToSet(Foreign(mods)) : ~ Defined(mods, b)
      BY <2>3, <2>5
    <3> QED BY <2>1, <2>2, <3>1, <3>2 DEF MInv, Reconciled, FreshWorkspace
  <2> QED BY <2>4, <2>5
<1>4. CASE Refuse
  BY <1>4 DEF Refuse, Finish, MInv, Reconciled, FreshWorkspace
<1>5. CASE Emit
  <2>1. UNCHANGED <<tree, todo, mods, manifest, failures, runs>> /\ pc = "emit" /\ pc' = "done"
    BY <1>5 DEF Emit, Finish
  <2>2. verdict' \in {"failed", "emitted"}
    BY <1>5 DEF Emit, Finish
  <2>3. Whole /\ Resolved
    BY <2>1 DEF MInv, Reconciled
  <2>4. Whole' /\ Resolved'
    BY <2>1, <2>3 DEF Whole, Resolved
  <2>5. ASSUME verdict' = "emitted", OwnNames(tree) PROVE SourcesIn(tree)' /\ (runs = 1 => SourcesAre(tree)')
    <3>1. csrc' = Copied(csrc, CSources(mods))
      <4>1. ~ Finish("failed")
        BY <2>5 DEF Finish
      <4> QED BY <1>5, <4>1 DEF Emit
    <3>2. HoldsSources(csrc', tree) /\ DOMAIN csrc' = DOMAIN csrc \cup {f.base : f \in COnly(tree)}
      <4>1. mods \in Seq(tree) /\ ToSet(mods) = tree
        BY <2>3 DEF Whole
      <4>2. OwnNames(tree)
        BY <2>5
      <4>3. /\ HoldsSources(Copied(csrc, CSources(mods)), tree)
            /\ DOMAIN Copied(csrc, CSources(mods)) = DOMAIN csrc \cup {f.base : f \in COnly(tree)}
        BY <4>1, <4>2, CopiedFresh
      <4> QED BY <3>1, <4>3
    <3>3. runs = 1 => DOMAIN csrc = {}
      BY <2>1 DEF MInv
    <3> QED BY <2>1, <3>2, <3>3 DEF HoldsSources, SourcesIn, SourcesAre, COnly
  <2>6. FreshWorkspace'
    BY <2>1, <2>5 DEF FreshWorkspace, OwnNames, COnly
  <2> QED BY <2>1, <2>2, <2>4, <2>6 DEF MInv, Reconciled
<1>6. CASE UNCHANGED vars
  BY <1>6 DEF vars, MInv, Reconciled, Whole, Resolved, FreshWorkspace, SourcesIn, SourcesAre
<1> QED BY <1>1, <1>2, <1>3, <1>4, <1>5, <1>6 DEF Next

(* The invariant holds of every series of runs of the command. *)
THEOREM ManifestInvariant == Spec => []MInv
  BY InitMInv, NextMInv, PTL DEF Spec

(* What an import leads to, when the whole directory is dispatched. *)
LEMMA ImportsAsBoundaries ==
  ASSUME NEW t \in Trees, NEW ms \in Seq(t), ToSet(ms) = t
  PROVE  /\ \A i \in Imports(t) : /\ i.by \in t /\ i.no \in DOMAIN i.by.imports
                                  /\ i.symbol = i.by.imports[i.no].symbol
                                  /\ i.by.lang = "Python"
         /\ \A f \in t : \A k \in DOMAIN f.imports :
              [by |-> f, no |-> k, symbol |-> f.imports[k].symbol] \in Imports(t)
<1>1. ASSUME NEW f \in t, NEW k \in DOMAIN f.imports PROVE f.lang = "Python"
  <2>1. f.imports # <<>>
    OBVIOUS
  <2> QED BY <2>1, ManifestAssumption
<1> QED BY <1>1 DEF Imports

(* Every reconciled manifest is complete: an import of a symbol that only    *)
(* other languages define has an entry, and each entry leads to a module of  *)
(* its language that exports the symbol (FfiManifest::reconcile).            *)
THEOREM ManifestComplete == Spec => []Complete
<1>1. MInv => Complete
  <2> SUFFICES ASSUME MInv, Reconciled
               PROVE  /\ \A i \in Imports(tree) :
                           i.by.lang \notin Naming(tree, i.symbol) =>
                             \E e \in ToSet(manifest) : e.from = i.by.lang /\ e.symbol = i.symbol
                      /\ \A e \in ToSet(manifest) : \E f \in tree : f.lang = e.to /\ e.symbol \in Exports(f)
    BY DEF Complete
  <2>1. tree \in Trees /\ mods \in Seq(tree) /\ ToSet(mods) = tree /\ Resolved
    BY DEF MInv, Whole
  <2>2. ASSUME NEW i \in Imports(tree), i.by.lang \notin Naming(tree, i.symbol)
        PROVE  \E e \in ToSet(manifest) : e.from = i.by.lang /\ e.symbol = i.symbol
    <3> DEFINE b == BoundaryOf(mods, i.by, i.no)
    <3>1. i.by \in tree /\ i.no \in DOMAIN i.by.imports /\ b.symbol = i.symbol
          /\ b.from = i.by.lang /\ i.by.lang = "Python" /\ b.to = ToLang(mods, i.symbol)
      BY <2>1, ImportsAsBoundaries DEF BoundaryOf
    <3>2. ToLang(mods, i.symbol) # i.by.lang
      <4>1. CASE \E f \in tree : i.symbol \in Named(f)
        BY <2>1, <2>2, <4>1, ToLangNames DEF Naming
      <4>2. CASE \A f \in tree : i.symbol \notin Named(f)
        BY <2>1, <3>1, <4>2, ToLangNames
      <4> QED BY <4>1, <4>2
    <3> HIDE DEF b
    <3>3. b \in ToSet(Foreign(mods))
      BY <2>1, <3>1, <3>2, ForeignHold DEF b
    <3> QED BY <2>1, <3>1, <3>3 DEF Resolved
  <2>3. ASSUME NEW e \in ToSet(manifest) PROVE \E f \in tree : f.lang = e.to /\ e.symbol \in Exports(f)
    <3>1. Defined(mods, e)
      BY <2>1 DEF Resolved
    <3> QED BY <2>1, <3>1, DefinedInTree
  <2> QED BY <2>2, <2>3
<1> QED BY <1>1, ManifestInvariant, PTL

(* Where no two languages define one symbol, which commands fail and what    *)
(* the entries of the others are follows from the files, not from the order  *)
(* the directory is listed in (collect_source_files).                        *)
THEOREM ListingOrderDecidesNothing == Spec => []OrderDecidesNothing
<1>1. MInv => OrderDecidesNothing
  <2> SUFFICES ASSUME MInv, Clear(tree), Whole,
                      verdict = "unresolved" \/ Reconciled
               PROVE  /\ verdict = "unresolved" => \E i \in Imports(tree) : ~ Resolves(tree, i)
                      /\ Reconciled =>
                           /\ \A i \in Imports(tree) : Resolves(tree, i)
                           /\ ToSet(manifest) = {e \in EntriesOf(tree) :
                                                   e.from # e.to /\ e.to \in Naming(tree, e.symbol)}
    BY DEF OrderDecidesNothing, MInv
  <2>1. tree \in Trees /\ mods \in Seq(tree) /\ ToSet(mods) = tree
    BY DEF MInv, Whole
  <2>2. \A f \in tree : Exports(f) \subseteq Named(f) /\ f.lang \in Langs
    <3>1. tree \subseteq File
      BY <2>1, ManifestAssumption
    <3> QED BY <3>1 DEF Exports, Named, File
  <2>3. ASSUME NEW i \in Imports(tree), NEW f \in tree, i.symbol \in Named(f)
        PROVE  ToLang(mods, i.symbol) = f.lang
    <3>1. PICK g \in tree : i.symbol \in Named(g) /\ g.lang = ToLang(mods, i.symbol)
      BY <2>1, <2>3, ToLangNames
    <3> QED BY <2>3, <3>1 DEF Clear
  <2>4. ASSUME verdict = "unresolved" PROVE \E i \in Imports(tree) : ~ Resolves(tree, i)
    <3>1. PICK b \in ToSet(Foreign(mods)) : ~ Defined(mods, b)
      BY <2>4 DEF MInv
    <3>2. PICK f \in tree : \E k \in DOMAIN f.imports : b = BoundaryOf(mods, f, k)
      BY <2>1, ForeignHold
    <3>5. PICK k \in DOMAIN f.imports : b = BoundaryOf(mods, f, k)
      BY <3>2
    <3> DEFINE i == [by |-> f, no |-> k, symbol |-> f.imports[k].symbol]
    <3>3. i \in Imports(tree) /\ b.symbol = i.symbol /\ b.to = ToLang(mods, i.symbol)
      BY <2>1, <3>5, ImportsAsBoundaries DEF BoundaryOf
    <3> HIDE DEF i
    <3>4. ASSUME Resolves(tree, i) PROVE FALSE
      <4>1. PICK g \in tree : i.symbol \in Exports(g)
        BY <3>4 DEF Resolves
      <4>2. b.to = g.lang
        BY <2>2, <2>3, <3>3, <4>1
      <4> QED BY <2>1, <3>1, <3>3, <4>1, <4>2, DefinedInTree
    <3> QED BY <3>3, <3>4
  <2>5. ASSUME Reconciled, NEW i \in Imports(tree) PROVE Resolves(tree, i)
    <3> DEFINE b == BoundaryOf(mods, i.by, i.no)
    <3>1. i.by \in tree /\ i.no \in DOMAIN i.by.imports /\ b.symbol = i.symbol
          /\ b.from = "Python" /\ b.to = ToLang(mods, i.symbol)
      BY <2>1, ImportsAsBoundaries DEF BoundaryOf
    <3> HIDE DEF b
    <3>2. CASE b.to # b.from
      <4>1. b \in ToSet(Foreign(mods))
        BY <2>1, <3>1, <3>2, ForeignHold DEF b
      <4>2. Defined(mods, b)
        BY <2>5, <4>1 DEF MInv, Resolved
      <4> QED BY <2>1, <3>1, <4>2, DefinedInTree DEF Resolves
    <3>3. CASE b.to = b.from
      <4>1. PICK f \in tree : i.symbol \in Named(f) /\ f.lang = "Python"
        BY <2>1, <3>1, <3>3, ToLangNames
      <4> QED BY <4>1 DEF Named, Exports, Resolves
    <3> QED BY <3>2, <3>3
  <2>6. ASSUME Reconciled, NEW e
        PROVE  e \in ToSet(manifest) <=> /\ e \in EntriesOf(tree)
                                         /\ e.from # e.to /\ e.to \in Naming(tree, e.symbol)
    <3>1. e \in ToSet(manifest) <=> e \in ToSet(Foreign(mods))
      BY <2>6 DEF MInv, Resolved
    <3>2. ASSUME e \in ToSet(Foreign(mods))
          PROVE  e \in EntriesOf(tree) /\ e.from # e.to /\ e.to \in Naming(tree, e.symbol)
      <4>6. PICK f \in tree : (\E k \in DOMAIN f.imports : e = BoundaryOf(mods, f, k)) /\ e.from # e.to
        BY <2>1, <3>2, ForeignHold
      <4>1. PICK k \in DOMAIN f.imports : e = BoundaryOf(mods, f, k) /\ e.from # e.to
        BY <4>6
      <4>2. PICK g \in tree : g.lang = e.to /\ e.symbol \in Exports(g)
        BY <2>1, <2>6, <3>2, DefinedInTree DEF MInv, Resolved
      <4> DEFINE i == [by |-> f, no |-> k, symbol |-> f.imports[k].symbol]
      <4>3. i \in Imports(tree)
        BY <2>1, ImportsAsBoundaries
      <4>4. e = [from |-> i.by.lang, to |-> e.to, symbol |-> i.symbol] /\ e.to \in Langs
        BY <2>2, <4>1, <4>2 DEF BoundaryOf
      <4> HIDE DEF i
      <4>5. e \in EntriesOf(tree)
        BY <4>3, <4>4 DEF EntriesOf
      <4> QED BY <2>2, <4>1, <4>2, <4>5 DEF Naming
    <3>3. ASSUME e \in EntriesOf(tree), e.from # e.to, e.to \in Naming(tree, e.symbol)
          PROVE  e \in ToSet(Foreign(mods))
      <4>1. PICK i \in Imports(tree), l \in Langs : e = [from |-> i.by.lang, to |-> l, symbol |-> i.symbol]
        BY <3>3 DEF EntriesOf
      <4>2. PICK g \in tree : e.symbol \in Named(g) /\ e.to = g.lang
        BY <3>3 DEF Naming
      <4>3. e.to = ToLang(mods, i.symbol)
        BY <2>3, <4>1, <4>2
      <4>4. i.by \in tree /\ i.no \in DOMAIN i.by.imports /\ i.symbol = i.by.imports[i.no].symbol
        BY <2>1, ImportsAsBoundaries
      <4>5. e = BoundaryOf(mods, i.by, i.no)
        BY <4>1, <4>3, <4>4 DEF BoundaryOf
      <4> QED BY <2>1, <3>3, <4>4, <4>5, ForeignHold
    <3> QED BY <3>1, <3>2, <3>3
  <2>7. ASSUME Reconciled
        PROVE ToSet(manifest) = {e \in EntriesOf(tree) : e.from # e.to /\ e.to \in Naming(tree, e.symbol)}
    BY <2>6, <2>7
  <2> QED BY <2>4, <2>5, <2>7
<1> QED BY <1>1, ManifestInvariant, PTL

(* Where C files have names of their own, a run that emits leaves every C    *)
(* source in the workspace as it is now, whatever an earlier run left there, *)
(* and a first run nothing else (emit_hybrid_workspace).                     *)
THEOREM WorkspaceIsFresh == Spec => []FreshWorkspace
<1>1. MInv => FreshWorkspace
  BY DEF MInv
<1> QED BY <1>1, ManifestInvariant, PTL
=============================================================================
