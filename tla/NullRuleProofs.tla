--------------------------- MODULE NullRuleProofs ---------------------------
(***************************************************************************)
(* Proofs about module NullRule, for every function whose text is typed as *)
(* FunctionAssumption says, of every length, with any pointers, integers   *)
(* and members, any width of them and any bound of the disjuncts.          *)
(*                                                                         *)
(* The argument: as long as nothing outside happens, one disjunct of the   *)
(* state fits the execution (Fits): its facts hold and the nullness and    *)
(* implications it gives each pointer are true of it.  Each operation of   *)
(* GuardedDisjuncts.h keeps one that fits: uniting, merging, collapsing    *)
(* and widening by what a fold of two values stands for, an edge because   *)
(* its facts are true where the condition is, a statement because it drops *)
(* the facts and implications about what it writes.                        *)
(*                                                                         *)
(* A variable that cannot be keyed may still have one stamped fact, which  *)
(* may be false.  It is harmless because no implication about it is ever   *)
(* activated (Asleep), which is part of what a disjunct is.                *)
(*                                                                         *)
(* For the refinement of MergedNullness only the definite answers matter,  *)
(* those in which all disjuncts agree (Says): a fold of values is definite *)
(* exactly when all of them are, so what a set of disjuncts says it hands  *)
(* on through every operation (Hands), but for the pointers that are       *)
(* written, and there it says at least what the merged analysis writes.    *)
(***************************************************************************)
EXTENDS NullRule, FiniteSetTheorems, TLAPS

-----------------------------------------------------------------------------
(* Finite sets *)

\* Among subsets of a finite set one is smallest.
LEMMA SmallestSubset ==
    ASSUME NEW S, IsFiniteSet(S), NEW T, T \subseteq SUBSET S, T # {}
    PROVE  \E x \in T : \A y \in T : y \subseteq x => y = x
<1>1. IsWellFoundedOn(StrictSubsetOrdering(S), FiniteSubsetsOf(S)) /\ FiniteSubsetsOf(S) = SUBSET S
  BY FS_StrictSubsetOrderingWellFounded, FS_FiniteSubsetsOfFinite
<1>2. PICK x \in T : \A y \in T : ~ (<<y, x>> \in StrictSubsetOrdering(S))
  BY <1>1, WFMin
<1>3. \A y \in T : y \subseteq x => y = x
  BY <1>2 DEF StrictSubsetOrdering
<1> QED BY <1>3

\* What a function makes of a finite set is finite.
LEMMA FiniteImage ==
    ASSUME NEW S, IsFiniteSet(S), NEW f, DOMAIN f = S
    PROVE  IsFiniteSet({f[x] : x \in S})
<1>1. [x \in S |-> f[x]] \in Surjection(S, {f[x] : x \in S})
  BY DEF Surjection
<1> QED BY <1>1, FS_Surjection DEF ExistsSurjection

-----------------------------------------------------------------------------
(* Bounded induction, with a set instead of a predicate *)

\* A set that holds 0 and is closed under successor below n holds 0..n.
LEMMA UpTo ==
    ASSUME NEW n \in Nat, NEW S, 0 \in S,
           \A m \in 0 .. n : m # n /\ m \in S => m + 1 \in S
    PROVE  \A m \in 0 .. n : m \in S
<1> DEFINE Bad == {m \in Nat : m <= n /\ m \notin S}
<1> SUFFICES ASSUME Bad # {} PROVE FALSE
  OBVIOUS
<1>1. PICK m \in Bad : \A k \in Bad : ~ (<<k, m>> \in OpToRel(<, Nat))
  BY NatLessThanWellFounded, WFMin
<1>2. \A k \in Bad : m <= k
  <2> TAKE k \in Bad
  <2>1. ~(k < m)
    BY <1>1 DEF OpToRel
  <2> QED BY <2>1
<1>3. m - 1 \in 0 .. n /\ m - 1 # n /\ m - 1 \notin Bad
  BY <1>2
<1> QED BY <1>2, <1>3

-----------------------------------------------------------------------------
(* A fold over a finite set has a value *)

Pick(s) == CHOOSE x \in s : TRUE
Rest(s) == s \ {Pick(s)}

\* A set is its pick and the rest.
LEMMA PickRest == \A s : s # {} => Pick(s) \in s /\ Rest(s) \subseteq s /\ Pick(s) \notin Rest(s)
BY DEF Pick, Rest

FoldsOn(f, T, A, base, G) ==
    /\ f \in [SUBSET T -> A]
    /\ \A s \in SUBSET T : f[s] = IF s = {} THEN base ELSE G[<<Pick(s), f[Rest(s)]>>]

\* Two folds of one step agree where both are defined.
LEMMA FoldUnique ==
    ASSUME NEW U, NEW W, IsFiniteSet(U), W \subseteq U, NEW A, NEW base, NEW G,
           NEW f, NEW g, FoldsOn(f, U, A, base, G), FoldsOn(g, W, A, base, G)
    PROVE  \A s \in SUBSET W : f[s] = g[s]
<1> DEFINE Bad == {s \in SUBSET W : f[s] # g[s]}
<1> SUFFICES ASSUME Bad # {} PROVE FALSE
  OBVIOUS
<1>0. IsFiniteSet(W) /\ Bad \subseteq SUBSET W
  BY FS_Subset
<1>1. PICK s \in Bad : \A y \in Bad : y \subseteq s => y = s
  <2> HIDE DEF Bad
  <2> QED BY <1>0, SmallestSubset
<1>2. s # {} /\ s \in SUBSET W /\ s \in SUBSET U
  BY DEF FoldsOn
<1>3. Rest(s) \subseteq s /\ Rest(s) # s
  BY <1>2, PickRest
<1>4. Rest(s) \notin Bad
  BY <1>1, <1>3
<1>5. f[Rest(s)] = g[Rest(s)]
  BY <1>2, <1>3, <1>4
<1>6. f[s] = G[<<Pick(s), f[Rest(s)]>>] /\ g[s] = G[<<Pick(s), g[Rest(s)]>>]
  BY <1>2 DEF FoldsOn
<1> QED BY <1>5, <1>6

\* A step has a fold over every finite set.
LEMMA FoldExists ==
    ASSUME NEW S, IsFiniteSet(S), NEW A, NEW base \in A, NEW G, G \in [S \X A -> A]
    PROVE  \E f : FoldsOn(f, S, A, base, G)
<1> DEFINE Bad == {T \in SUBSET S : ~ \E f : FoldsOn(f, T, A, base, G)}
<1> SUFFICES ASSUME Bad # {} PROVE FALSE
  OBVIOUS
<1>1. PICK T \in Bad : \A y \in Bad : y \subseteq T => y = T
  <2>1. Bad \subseteq SUBSET S
    OBVIOUS
  <2> HIDE DEF Bad
  <2> QED BY <2>1, SmallestSubset
<1>2. T \in SUBSET S /\ ~ \E f : FoldsOn(f, T, A, base, G)
  OBVIOUS
<1> DEFINE F(U) == CHOOSE f : FoldsOn(f, U, A, base, G)
<1>3. \A U \in SUBSET T : U # T => FoldsOn(F(U), U, A, base, G)
  BY <1>1
<1> DEFINE h == [s \in SUBSET T |-> IF s = {} THEN base ELSE G[<<Pick(s), F(Rest(s))[Rest(s)]>>]]
<1>4. \A s \in SUBSET T : s # {} => Rest(s) \in SUBSET T /\ Rest(s) # T /\ Rest(s) \in SUBSET s /\ Pick(s) \in S
  BY <1>2, PickRest
<1>5. \A s \in SUBSET T : s # {} => F(Rest(s))[Rest(s)] \in A
  <2> TAKE s \in SUBSET T
  <2> HAVE s # {}
  <2>1. FoldsOn(F(Rest(s)), Rest(s), A, base, G)
    BY <1>3, <1>4
  <2> HIDE DEF F
  <2> QED BY <2>1 DEF FoldsOn
<1>6. h \in [SUBSET T -> A]
  <2> HIDE DEF F
  <2> QED BY <1>4, <1>5
<1>7. ASSUME NEW r \in SUBSET T, r # T
      PROVE  F(r)[r] = h[r]
  <2>1. FoldsOn(F(r), r, A, base, G) /\ r \in SUBSET r
    BY <1>3, <1>7
  <2>2. CASE r = {}
    <3> HIDE DEF F
    <3> QED BY <2>1, <2>2 DEF FoldsOn
  <2>3. CASE r # {}
    <3>1. FoldsOn(F(Rest(r)), Rest(r), A, base, G) /\ Rest(r) \subseteq r
      BY <1>3, <1>4, <1>7, <2>3
    <3>2. IsFiniteSet(r)
      BY <1>2, FS_Subset
    <3> HIDE DEF F
    <3>3. F(r)[Rest(r)] = F(Rest(r))[Rest(r)]
      BY <2>1, <3>1, <3>2, FoldUnique
    <3>4. F(r)[r] = G[<<Pick(r), F(r)[Rest(r)]>>]
      BY <2>1, <2>3 DEF FoldsOn
    <3> QED BY <2>3, <3>3, <3>4, <1>7
  <2> QED BY <2>2, <2>3
<1>8. \A s \in SUBSET T : h[s] = IF s = {} THEN base ELSE G[<<Pick(s), h[Rest(s)]>>]
  <2> TAKE s \in SUBSET T
  <2>1. CASE s = {}
    BY <2>1
  <2>2. CASE s # {}
    <3>1. F(Rest(s))[Rest(s)] = h[Rest(s)]
      BY <1>4, <1>7, <2>2
    <3> HIDE DEF F
    <3>2. h[s] = G[<<Pick(s), F(Rest(s))[Rest(s)]>>]
      BY <2>2
    <3> QED BY <2>2, <3>1, <3>2
  <2> QED BY <2>1, <2>2
<1>9. FoldsOn(h, T, A, base, G)
  <2> HIDE DEF h
  <2> QED BY <1>6, <1>8 DEF FoldsOn
<1> QED BY <1>2, <1>9

-----------------------------------------------------------------------------
(* The shape of a state *)

PlaceOf(key) == [var |-> key.var, field |-> key.field]

\* A function's facts are about a pointer it tests beside another leaf, an
\* integer variable, or a member of a struct it keys.
Shaped(F, key) ==
    \/ /\ key.var \in PtrVar \cap collectPtrFactDecls(F)
       /\ key.field = NoField /\ key.rel = "EQ" /\ key.lit = 0
    \/ /\ key.var \notin PtrVar /\ PlaceOf(key) \in Place
       /\ Var(PlaceOf(key)) \/ key.var \in collectMemberFactBases(F)

Key(F) ==
    {key \in [var : PtrVar \cup {p.var : p \in Place}, field : {NoField} \cup {p.field : p \in Place},
              rel : {"EQ", "LT", "LE"}, lit : Int] : Shaped(F, key)}

KeyedIn(F, v) == v \notin collectUnkeyableDecls(F) \cup Volatile

\* At most one fact on each key, and one on each variable that only stamps are about.
FactsType(F) ==
    {facts \in SUBSET [key : Key(F), value : BOOLEAN] :
        \A f, g \in facts : /\ f.key = g.key => f = g
                            /\ f.key.var = g.key.var /\ ~KeyedIn(F, f.key.var) => f = g}

ImplType(F) == [key : Key(F), value : BOOLEAN, cond : {"NonNull", "Unknown"}]

Val(F) == {val \in [st : NullState, impl : SUBSET ImplType(F)] : \A i, j \in val.impl : i = j}

\* No implication about a variable that only stamps are about can be used; the
\* keys of X are about to be dropped.
Asleep(F, facts, val, X) ==
    \A i \in val.impl : ~KeyedIn(F, i.key.var) /\ i.key \notin X => ~factsContradict(facts, i.key, ~i.value)

Disjunct(F, X) ==
    {d \in [facts : FactsType(F), vars : [PtrVar -> Val(F)]] :
        \A v \in PtrVar : Asleep(F, d.facts, d.vars[v], X)}

Good(F, X, S) == IsFiniteSet(S) /\ S \subseteq Disjunct(F, X)

FactsHold(F, facts, e) == \A f \in facts : KeyedIn(F, f.key.var) => KeyHolds(e, f.key) = f.value

\* What val says of a pointer p; the keys of X have already lost their meaning.
Promised(F, X, val, e, p) ==
    /\ p \in Meaning(val.st)
    /\ \A i \in val.impl : KeyedIn(F, i.key.var) /\ i.key \notin X /\ KeyHolds(e, i.key) = i.value
                              => p \in Meaning(i.cond)

\* The facts of d hold in e, and what it says of the pointers is true of ptr.
Fits(F, X, d, e, ptr) == FactsHold(F, d.facts, e) /\ \A v \in PtrVar : Promised(F, X, d.vars[v], e, ptr[v])

\* Describes, which Covered is stated with, is Fits.
LEMMA DescribesFits ==
    ASSUME NEW d, NEW e
    PROVE  Describes(d, e) <=> Fits(fn, {}, d, e, e.ptr)
BY DEF Describes, Fits, FactsHold, Promised, Keyed, KeyedIn

-----------------------------------------------------------------------------
(* Keys and facts *)

LEMMA HoldsBoolean == \A rel \in {"EQ", "LT", "LE"} : \A a, b : Holds(rel, a, b) \in BOOLEAN
<1>1. \A a, b : Holds("EQ", a, b) \in BOOLEAN /\ Holds("LT", a, b) \in BOOLEAN /\ Holds("LE", a, b) \in BOOLEAN
  BY DEF Holds
<1> QED BY <1>1

\* A key holds or does not.
LEMMA KeyHoldsBoolean ==
    ASSUME NEW e, NEW key, key.rel \in {"EQ", "LT", "LE"}
    PROVE  KeyHolds(e, key) \in BOOLEAN
<1>2. \A p : IsNull(p) \in BOOLEAN
  BY DEF IsNull
<1> QED BY <1>2, HoldsBoolean DEF KeyHolds

\* A key is its four components.
LEMMA KeyShape ==
    ASSUME NEW F, NEW key \in Key(F)
    PROVE  /\ key = [var |-> key.var, field |-> key.field, rel |-> key.rel, lit |-> key.lit]
           /\ key.rel \in {"EQ", "LT", "LE"} /\ key.lit \in Int
BY DEF Key

\* Facts that hold contradict nothing that holds: a stamped equality included.
LEMMA NoContradiction ==
    ASSUME NEW F, NEW facts \in FactsType(F), NEW e, FactsHold(F, facts, e),
           NEW key \in Key(F), KeyedIn(F, key.var)
    PROVE  ~factsContradict(facts, key, KeyHolds(e, key))
<1> DEFINE held == KeyHolds(e, key)
<1>0. held \in BOOLEAN
  BY KeyHoldsBoolean, KeyShape
<1>1. ASSUME NEW f \in facts, f.key = key
      PROVE  [key |-> key, value |-> held] \in facts
  <2>1. f = [key |-> f.key, value |-> f.value]
    BY DEF FactsType
  <2>2. f.value = held
    BY <1>1 DEF FactsHold
  <2> HIDE DEF held
  <2> QED BY <1>1, <2>1, <2>2
<1>2. ASSUME NEW f \in facts, f.key # key, f.key.var = key.var, f.key.field = key.field,
             f.key.rel = "EQ", f.value
      PROVE  Entails(f.key, key) = held
  <2>1. /\ f.key \in Key(F) /\ KeyHolds(e, f.key)
    BY <1>2 DEF FactsType, FactsHold
  <2>2. /\ f.key = [var |-> f.key.var, field |-> f.key.field, rel |-> f.key.rel, lit |-> f.key.lit]
        /\ key = [var |-> key.var, field |-> key.field, rel |-> key.rel, lit |-> key.lit]
        /\ key.rel \in {"EQ", "LT", "LE"}
    BY <2>1, KeyShape
  <2>3. CASE key.var \in PtrVar
    <3>1. key.rel = "EQ" /\ key.lit = 0 /\ f.key.lit = 0
      BY <1>2, <2>1, <2>3 DEF Key, Shaped
    <3> QED BY <1>2, <2>2, <3>1
  <2>4. CASE key.var \notin PtrVar
    <3>1. e.int[PlaceOf(key)] = f.key.lit
      BY <1>2, <2>1, <2>4 DEF KeyHolds, Holds, PlaceOf
    <3> QED BY <2>2, <2>4, <3>1 DEF Entails, KeyHolds, Holds, PlaceOf
  <2> QED BY <2>3, <2>4
<1> HIDE DEF held
<1> QED BY <1>0, <1>1, <1>2 DEF factsContradict, held

-----------------------------------------------------------------------------
(* The join of two values *)

\* The answers that report or silence.
Definite == {"Null", "NonNull"}

\* What mergeNullStates answers stands for what either side stands for, and is definite
\* if both sides are and agree.
LEMMA MergeNullness ==
    ASSUME NEW a \in NullState, NEW b \in NullState
    PROVE  /\ mergeNullStates(a, b) \in NullState
           /\ Meaning(a) \subseteq Meaning(mergeNullStates(a, b))
           /\ Meaning(b) \subseteq Meaning(mergeNullStates(a, b))
           /\ hasNoNullInfo(mergeNullStates(a, b)) <=> (hasNoNullInfo(a) /\ hasNoNullInfo(b))
           /\ \A st \in Definite : mergeNullStates(a, b) = st <=> a = st /\ b = st
BY DEF NullState, mergeNullStates, Meaning, Pointer, hasNoNullInfo, Definite

\* m stands for every value of V where facts holds, it has no implication that
\* none of them has, it brings in no null, and it is definite if all of them are and agree.
Blends(F, X, facts, V, m) ==
    /\ m \in Val(F)
    /\ \A e, p, a : a \in V /\ FactsHold(F, facts, e) /\ Promised(F, X, a, e, p) => Promised(F, X, m, e, p)
    /\ \A i \in m.impl : \E a \in V : \E j \in a.impl : j.key = i.key /\ j.value = i.value
    /\ (\A a \in V : hasNoNullInfo(a.st)) => hasNoNullInfo(m.st)
    /\ \A st \in Definite : m.st = st <=> \A a \in V : a.st = st

\* The implications that mergeNullVals keeps of a beside b.
KeptOf(a, b, i) ==
    LET same == {j \in b.impl : j.key = i.key /\ j.value = i.value}
    IN  IF same # {} THEN {[i EXCEPT !.cond = mergeNullStates(@, j.cond)] : j \in same}
        ELSE IF hasNoNullInfo(b.st) THEN {[i EXCEPT !.cond = mergeNullStates(@, b.st)]}
        ELSE {}

JoinedImpl(a, b) == {i \in UNION {KeptOf(a, b, j) : j \in a.impl} : hasNoNullInfo(i.cond)}

\* mergeNullVals with its implications named.
LEMMA MergeIs ==
    ASSUME NEW a, NEW b
    PROVE  mergeNullVals(a, b) =
             [st |-> mergeNullStates(a.st, b.st),
              impl |-> IF a.impl # {} THEN JoinedImpl(a, b) ELSE JoinedImpl(b, a)]
<1>1. CASE a.impl # {}
  BY <1>1 DEF mergeNullVals, JoinedImpl, KeptOf
<1>2. CASE a.impl = {}
  BY <1>2 DEF mergeNullVals, JoinedImpl, KeptOf
<1> QED BY <1>1, <1>2

\* What is kept of an implication of a is true wherever the two values are.
LEMMA JoinedImplSound ==
    ASSUME NEW F, NEW X, NEW a \in Val(F), NEW b \in Val(F), NEW i \in JoinedImpl(a, b)
    PROVE  /\ i \in ImplType(F)
           /\ \E j \in a.impl : j.key = i.key /\ j.value = i.value
           /\ \A e, p : /\ Promised(F, X, a, e, p) \/ Promised(F, X, b, e, p)
                        /\ KeyedIn(F, i.key.var) /\ i.key \notin X /\ KeyHolds(e, i.key) = i.value
                        => p \in Meaning(i.cond)
<1>1. PICK j \in a.impl : i \in KeptOf(a, b, j)
  BY DEF JoinedImpl
<1>2. j \in ImplType(F) /\ hasNoNullInfo(i.cond) /\ b.st \in NullState
      /\ j.cond \in NullState
  BY DEF JoinedImpl, Val, ImplType, NullState
<1>3. ASSUME NEW c \in NullState, i = [j EXCEPT !.cond = mergeNullStates(@, c)],
             \A e, p : /\ Promised(F, X, b, e, p)
                       /\ KeyedIn(F, j.key.var) /\ j.key \notin X /\ KeyHolds(e, j.key) = j.value
                       => p \in Meaning(c)
      PROVE  /\ i \in ImplType(F) /\ j.key = i.key /\ j.value = i.value
             /\ \A e, p : /\ Promised(F, X, a, e, p) \/ Promised(F, X, b, e, p)
                          /\ KeyedIn(F, i.key.var) /\ i.key \notin X /\ KeyHolds(e, i.key) = i.value
                          => p \in Meaning(i.cond)
  <2>1. i.cond = mergeNullStates(j.cond, c) /\ i.key = j.key /\ i.value = j.value
    BY <1>2, <1>3 DEF ImplType
  <2>2. Meaning(j.cond) \subseteq Meaning(i.cond) /\ Meaning(c) \subseteq Meaning(i.cond)
    BY <1>2, <2>1, MergeNullness
  <2>3. i \in ImplType(F)
    BY <1>2, <1>3, <2>1 DEF ImplType, hasNoNullInfo
  <2>4. ASSUME NEW e, NEW p, Promised(F, X, a, e, p) \/ Promised(F, X, b, e, p),
               KeyedIn(F, i.key.var), i.key \notin X, KeyHolds(e, i.key) = i.value
        PROVE  p \in Meaning(i.cond)
    <3>1. CASE Promised(F, X, a, e, p)
      BY <1>1, <2>1, <2>2, <2>4, <3>1 DEF Promised
    <3>2. CASE Promised(F, X, b, e, p)
      BY <1>3, <2>1, <2>2, <2>4, <3>2
    <3> QED BY <2>4, <3>1, <3>2
  <2> QED BY <2>1, <2>3, <2>4
<1>4. CASE \E k \in b.impl : k.key = j.key /\ k.value = j.value
  <2>1. PICK k \in b.impl : /\ k.key = j.key /\ k.value = j.value
                            /\ i = [j EXCEPT !.cond = mergeNullStates(@, k.cond)]
    BY <1>1, <1>4 DEF KeptOf
  <2>2. k.cond \in NullState
    BY DEF Val, ImplType, NullState
  <2>3. \A e, p : /\ Promised(F, X, b, e, p)
                  /\ KeyedIn(F, j.key.var) /\ j.key \notin X /\ KeyHolds(e, j.key) = j.value
                  => p \in Meaning(k.cond)
    BY <2>1 DEF Promised
  <2> QED BY <1>3, <2>1, <2>2, <2>3
<1>5. CASE ~ \E k \in b.impl : k.key = j.key /\ k.value = j.value
  <2>1. i = [j EXCEPT !.cond = mergeNullStates(@, b.st)]
    BY <1>1, <1>5 DEF KeptOf
  <2>2. \A e, p : Promised(F, X, b, e, p) => p \in Meaning(b.st)
    BY DEF Promised
  <2> QED BY <1>2, <1>3, <2>1, <2>2
<1> QED BY <1>4, <1>5

\* One implication survives at most.
LEMMA JoinedImplOne ==
    ASSUME NEW F, NEW a \in Val(F), NEW b \in Val(F)
    PROVE  \A i, j \in JoinedImpl(a, b) : i = j
<1> SUFFICES ASSUME NEW i \in JoinedImpl(a, b), NEW j \in JoinedImpl(a, b) PROVE i = j
  OBVIOUS
<1>1. PICK k \in a.impl : i \in KeptOf(a, b, k)
  BY DEF JoinedImpl
<1>2. j \in KeptOf(a, b, k)
  BY <1>1 DEF JoinedImpl, Val
<1>3. \A x, y \in b.impl : x = y
  BY DEF Val
<1> QED BY <1>1, <1>2, <1>3 DEF KeptOf

\* The join of two values, and of a value and what a set of values was joined to.
LEMMA MergeBlends ==
    ASSUME NEW F, NEW X, NEW facts, NEW V, NEW m, NEW b \in Val(F), Blends(F, X, facts, V, m)
    PROVE  Blends(F, X, facts, V \cup {b}, mergeNullVals(m, b))
<1> DEFINE n == mergeNullVals(m, b)
           impl == IF m.impl # {} THEN JoinedImpl(m, b) ELSE JoinedImpl(b, m)
<1>0. m \in Val(F)
  BY DEF Blends
<1>1. n.st = mergeNullStates(m.st, b.st) /\ n.impl = impl /\ n = [st |-> n.st, impl |-> n.impl]
  BY MergeIs
<1>2. m.st \in NullState /\ b.st \in NullState
  BY <1>0 DEF Val
<1> HIDE DEF n
<1>3. \A i \in impl : /\ i \in ImplType(F)
                      /\ \E j \in m.impl \cup b.impl : j.key = i.key /\ j.value = i.value
                      /\ \A e, p : /\ Promised(F, X, m, e, p) \/ Promised(F, X, b, e, p)
                                   /\ KeyedIn(F, i.key.var) /\ i.key \notin X /\ KeyHolds(e, i.key) = i.value
                                   => p \in Meaning(i.cond)
  <2> TAKE i \in impl
  <2>1. CASE m.impl # {}
    <3>1. i \in JoinedImpl(m, b)
      BY <2>1
    <3> HIDE DEF impl
    <3>2. /\ i \in ImplType(F)
          /\ \E j \in m.impl : j.key = i.key /\ j.value = i.value
          /\ \A e, p : /\ Promised(F, X, m, e, p) \/ Promised(F, X, b, e, p)
                       /\ KeyedIn(F, i.key.var) /\ i.key \notin X /\ KeyHolds(e, i.key) = i.value
                       => p \in Meaning(i.cond)
      BY ONLY <1>0, <3>1, b \in Val(F), JoinedImplSound
    <3> QED BY <3>2
  <2>2. CASE m.impl = {}
    <3>1. i \in JoinedImpl(b, m)
      BY <2>2
    <3> HIDE DEF impl
    <3>2. /\ i \in ImplType(F)
          /\ \E j \in b.impl : j.key = i.key /\ j.value = i.value
          /\ \A e, p : /\ Promised(F, X, b, e, p) \/ Promised(F, X, m, e, p)
                       /\ KeyedIn(F, i.key.var) /\ i.key \notin X /\ KeyHolds(e, i.key) = i.value
                       => p \in Meaning(i.cond)
      BY ONLY <1>0, <3>1, b \in Val(F), JoinedImplSound
    <3> QED BY <3>2
  <2> QED BY <2>1, <2>2
<1>4. \A i, j \in impl : i = j
  BY <1>0, JoinedImplOne
<1> HIDE DEF impl
<1>5. n \in Val(F)
  BY <1>1, <1>2, <1>3, <1>4, MergeNullness DEF Val
<1>6. ASSUME NEW e, NEW p, NEW a, a \in V \cup {b}, FactsHold(F, facts, e), Promised(F, X, a, e, p)
      PROVE  Promised(F, X, n, e, p)
  <2>1. Promised(F, X, m, e, p) \/ Promised(F, X, b, e, p)
    BY <1>6 DEF Blends
  <2>2. p \in Meaning(m.st) \/ p \in Meaning(b.st)
    BY <2>1 DEF Promised
  <2>3. p \in Meaning(n.st)
    BY <1>1, <1>2, <2>2, MergeNullness
  <2> QED BY <1>1, <1>3, <2>1, <2>3 DEF Promised
<1>7. \A i \in n.impl : \E a \in V \cup {b} : \E j \in a.impl : j.key = i.key /\ j.value = i.value
  <2> TAKE i \in n.impl
  <2>1. PICK j \in m.impl \cup b.impl : j.key = i.key /\ j.value = i.value
    BY <1>1, <1>3
  <2>2. CASE j \in m.impl
    BY <2>1, <2>2 DEF Blends
  <2>3. CASE j \in b.impl
    BY <2>1, <2>3
  <2> QED BY <2>2, <2>3
<1>8. (\A a \in V \cup {b} : hasNoNullInfo(a.st)) => hasNoNullInfo(n.st)
  BY <1>1, <1>2, MergeNullness DEF Blends
<1>9. \A st \in Definite : n.st = st <=> \A a \in V \cup {b} : a.st = st
  BY <1>1, <1>2, MergeNullness DEF Blends
<1>10. Blends(F, X, facts, V \cup {b}, n)
  BY <1>5, <1>6, <1>7, <1>8, <1>9 DEF Blends
<1> QED BY <1>10 DEF n

\* A value stands for itself.
LEMMA OneBlends ==
    ASSUME NEW F, NEW X, NEW facts, NEW b \in Val(F)
    PROVE  Blends(F, X, facts, {b}, b)
BY DEF Blends

\* With the same facts an implication whose condition they rule out is kept too.
LEMMA MeetBlends ==
    ASSUME NEW F, NEW X, NEW facts \in FactsType(F), NEW V, NEW m, NEW b \in Val(F), Blends(F, X, facts, V, m)
    PROVE  Blends(F, X, facts, V \cup {b}, meetNullVals(facts, m, b))
<1> DEFINE merged == mergeNullVals(m, b)
           own == IF m.impl # {} THEN m.impl ELSE b.impl
           impl == {i \in own : factsContradict(facts, i.key, i.value)}
           met == [merged EXCEPT !.impl = impl]
<1>0. m \in Val(F) /\ merged \in Val(F) /\ Blends(F, X, facts, V \cup {b}, merged)
  <2>1. m \in Val(F)
    BY DEF Blends
  <2>2. Blends(F, X, facts, V \cup {b}, merged)
    BY <2>1, MergeBlends
  <2> HIDE DEF merged
  <2> QED BY <2>1, <2>2 DEF Blends
<1>1. CASE merged.impl # {}
  BY <1>0, <1>1 DEF meetNullVals
<1>2. CASE merged.impl = {}
  <2>1. meetNullVals(facts, m, b) = met
    BY <1>2 DEF meetNullVals
  <2> HIDE DEF merged
  <2>0. merged = [st |-> merged.st, impl |-> merged.impl]
    BY <1>0 DEF Val
  <2> HIDE DEF impl
  <2>2. met.st = merged.st /\ met.impl = impl /\ met = [st |-> merged.st, impl |-> impl]
    BY <2>0
  <2> USE DEF impl
  <2>3. impl \subseteq m.impl \cup b.impl /\ impl \subseteq ImplType(F) /\ \A i, j \in impl : i = j
    BY <1>0 DEF Val
  <2>4. met \in Val(F)
    BY <1>0, <2>2, <2>3 DEF Val
  <2>5. ASSUME NEW e, NEW p, NEW a, a \in V \cup {b}, FactsHold(F, facts, e), Promised(F, X, a, e, p)
        PROVE  Promised(F, X, met, e, p)
    <3>1. Promised(F, X, merged, e, p)
      BY <1>0, <2>5 DEF Blends
    <3>2. p \in Meaning(met.st)
      BY <2>2, <3>1 DEF Promised
    <3>3. ASSUME NEW i \in met.impl, KeyedIn(F, i.key.var)
          PROVE  KeyHolds(e, i.key) # i.value
      <4>1. i.key \in Key(F) /\ factsContradict(facts, i.key, i.value)
        BY <2>2, <2>3 DEF ImplType
      <4> QED BY <2>5, <3>3, <4>1, NoContradiction
    <3> QED BY <3>2, <3>3 DEF Promised
  <2>6. \A i \in met.impl : \E a \in V \cup {b} : \E j \in a.impl : j.key = i.key /\ j.value = i.value
    <3> TAKE i \in met.impl
    <3>1. i \in m.impl \/ i \in b.impl
      BY <2>2, <2>3
    <3>2. CASE i \in m.impl
      BY <3>2 DEF Blends
    <3>3. CASE i \in b.impl
      BY <3>3
    <3> QED BY <3>1, <3>2, <3>3
  <2>7. (\A a \in V \cup {b} : hasNoNullInfo(a.st)) => hasNoNullInfo(met.st)
    BY <1>0, <2>2 DEF Blends
  <2>8. \A st \in Definite : met.st = st <=> \A a \in V \cup {b} : a.st = st
    BY <1>0, <2>2 DEF Blends
  <2> HIDE DEF met
  <2> QED BY <2>1, <2>4, <2>5, <2>6, <2>7, <2>8 DEF Blends
<1> QED BY <1>1, <1>2

-----------------------------------------------------------------------------
(* The folds of Disjuncts *)

\* What holds of the empty set, and of a set if of the rest of it, holds of every subset.
LEMMA RestInduction ==
    ASSUME NEW S, IsFiniteSet(S), NEW R, {} \in R,
           \A T \in SUBSET S : T # {} /\ Rest(T) \in R => T \in R
    PROVE  S \in R
<1> DEFINE Bad == {T \in SUBSET S : T \notin R}
<1> SUFFICES ASSUME Bad # {} PROVE FALSE
  OBVIOUS
<1>1. PICK T \in Bad : \A y \in Bad : y \subseteq T => y = T
  <2>1. Bad \subseteq SUBSET S
    OBVIOUS
  <2> HIDE DEF Bad
  <2> QED BY <2>1, SmallestSubset
<1>2. T # {} /\ Rest(T) \subseteq T /\ Rest(T) # T
  BY PickRest
<1>3. Rest(T) \in R
  BY <1>1, <1>2
<1> QED BY <1>2, <1>3

VarMaps(F) == [PtrVar -> Val(F)]

MergeMaps(a, b) == D!mergeVarMaps(a, b, mergeNullVals)

MeetMaps(facts, a, b) == D!mergeVarMaps(a, b, LAMBDA x, y : meetNullVals(facts, x, y))

\* A fold is any function that solves its equation.
SolvesMerge(h, S) ==
    h = [s \in SUBSET S |-> IF s = {} THEN D!NoVars ELSE MergeMaps(h[Rest(s)], Pick(s).vars)]

SolvesMeet(h, S, facts) ==
    h = [s \in SUBSET S |-> IF s = {} THEN D!NoVars ELSE MeetMaps(facts, h[Rest(s)], Pick(s).vars)]

\* The maps joined pointer by pointer.
MergedVars(a, b) == [v \in PtrVar |-> mergeNullVals(a[v], b[v])]

MetVars(facts, a, b) == [v \in PtrVar |-> meetNullVals(facts, a[v], b[v])]

\* The first disjunct of a fold is taken as it is.
LEMMA FirstMap ==
    ASSUME NEW F, NEW b \in VarMaps(F)
    PROVE  MergeMaps(D!NoVars, b) = b /\ \A facts : MeetMaps(facts, D!NoVars, b) = b
BY DEF D!mergeVarMaps, D!NoVars, VarMaps, MergeMaps, MeetMaps

\* mergeVarMaps, pointer by pointer.
LEMMA MergedMaps ==
    ASSUME NEW F, NEW a \in VarMaps(F), NEW b \in VarMaps(F)
    PROVE  MergeMaps(a, b) = MergedVars(a, b)
BY DEF D!mergeVarMaps, D!NoVars, VarMaps, MergeMaps, MergedVars

\* The meet at equal facts, pointer by pointer.
LEMMA MetMaps ==
    ASSUME NEW F, NEW facts, NEW a \in VarMaps(F), NEW b \in VarMaps(F)
    PROVE  MeetMaps(facts, a, b) = MetVars(facts, a, b)
BY DEF D!mergeVarMaps, D!NoVars, VarMaps, MeetMaps, MetVars

\* The maps of T joined to m.
AllBlend(F, X, facts, T, m) ==
    /\ m \in VarMaps(F)
    /\ \A v \in PtrVar : Blends(F, X, facts, {d.vars[v] : d \in T}, m[v])

\* A value that stands for others is a value.
LEMMA ValInside ==
    \A F, X, facts, V, m : Blends(F, X, facts, V, m) => m \in Val(F)
BY DEF Blends

\* One more disjunct in a fold.
LEMMA AllBlendStep ==
    ASSUME NEW F, NEW X, NEW facts \in FactsType(F), NEW T, NEW d, d.vars \in VarMaps(F)
    PROVE  /\ AllBlend(F, X, facts, {d}, d.vars)
           /\ \A a : AllBlend(F, X, facts, T, a) =>
                 /\ AllBlend(F, X, facts, T \cup {d}, MergedVars(a, d.vars))
                 /\ AllBlend(F, X, facts, T \cup {d}, MetVars(facts, a, d.vars))
<1>1. \A v \in PtrVar : d.vars[v] \in Val(F) /\ {c.vars[v] : c \in {d}} = {d.vars[v]}
                        /\ {c.vars[v] : c \in T \cup {d}} = {c.vars[v] : c \in T} \cup {d.vars[v]}
  BY DEF VarMaps
<1>2. AllBlend(F, X, facts, {d}, d.vars)
  BY <1>1, OneBlends DEF AllBlend
<1>3. ASSUME NEW a, AllBlend(F, X, facts, T, a)
      PROVE  /\ AllBlend(F, X, facts, T \cup {d}, MergedVars(a, d.vars))
             /\ AllBlend(F, X, facts, T \cup {d}, MetVars(facts, a, d.vars))
  <2>1. \A v \in PtrVar : Blends(F, X, facts, {c.vars[v] : c \in T}, a[v])
    BY <1>3 DEF AllBlend
  <2>2. ASSUME NEW v \in PtrVar
        PROVE  Blends(F, X, facts, {c.vars[v] : c \in T \cup {d}}, mergeNullVals(a[v], d.vars[v]))
    <3>1. Blends(F, X, facts, {c.vars[v] : c \in T} \cup {d.vars[v]}, mergeNullVals(a[v], d.vars[v]))
      BY <1>1, <2>1, MergeBlends
    <3> QED BY <1>1, <3>1
  <2>3. ASSUME NEW v \in PtrVar
        PROVE  Blends(F, X, facts, {c.vars[v] : c \in T \cup {d}}, meetNullVals(facts, a[v], d.vars[v]))
    <3>1. Blends(F, X, facts, {c.vars[v] : c \in T} \cup {d.vars[v]}, meetNullVals(facts, a[v], d.vars[v]))
      BY <1>1, <2>1, MeetBlends
    <3> QED BY <1>1, <3>1
  <2>4. \A v \in PtrVar : mergeNullVals(a[v], d.vars[v]) \in Val(F) /\ meetNullVals(facts, a[v], d.vars[v]) \in Val(F)
    BY <2>2, <2>3, ValInside
  <2> QED BY <2>2, <2>3, <2>4 DEF AllBlend, VarMaps, MergedVars, MetVars
<1> QED BY <1>2, <1>3

\* A function that solves the equation of a fold exists.
LEMMA SolutionExists ==
    ASSUME NEW F, NEW S, IsFiniteSet(S), \A d \in S : d.vars \in VarMaps(F), NEW facts \in FactsType(F)
    PROVE  /\ \E h : SolvesMerge(h, S)
           /\ \E h : SolvesMeet(h, S, facts)
<1> DEFINE A == {D!NoVars} \cup VarMaps(F)
           M(d, a) == MergeMaps(a, d.vars)
           N(d, a) == MeetMaps(facts, a, d.vars)
           G == [x \in S \X A |-> M(x[1], x[2])]
           H == [x \in S \X A |-> N(x[1], x[2])]
<1>1. \A d \in S, a \in A : M(d, a) \in A /\ N(d, a) \in A
  <2> TAKE d \in S, a \in A
  <2>1. d.vars \in VarMaps(F)
    OBVIOUS
  <2>2. CASE a = D!NoVars
    <3>1. M(d, a) = d.vars
      BY <2>1, <2>2, FirstMap
    <3>2. N(d, a) = d.vars
      BY <2>1, <2>2, FirstMap
    <3> HIDE DEF M, N
    <3> QED BY <2>1, <3>1, <3>2
  <2>3. CASE a \in VarMaps(F)
    <3>0. M(d, a) = MergedVars(a, d.vars)
      BY <2>1, <2>3, MergedMaps
    <3>1. N(d, a) = MetVars(facts, a, d.vars)
      <4>1. MeetMaps(facts, a, d.vars) = MetVars(facts, a, d.vars)
        BY ONLY <2>1, <2>3, MetMaps
      <4> QED BY ONLY <4>1
    <3>2. \A v \in PtrVar : a[v] \in Val(F) /\ d.vars[v] \in Val(F)
      BY <2>1, <2>3 DEF VarMaps
    <3>3. \A v \in PtrVar : mergeNullVals(a[v], d.vars[v]) \in Val(F) /\ meetNullVals(facts, a[v], d.vars[v]) \in Val(F)
      <4> TAKE v \in PtrVar
      <4>1. Blends(F, {}, facts, {a[v]}, a[v])
        BY <3>2, OneBlends
      <4> QED BY <3>2, <4>1, MergeBlends, MeetBlends, ValInside
    <3> HIDE DEF M, N
    <3> QED BY <3>0, <3>1, <3>3 DEF VarMaps, MergedVars, MetVars
  <2> QED BY <2>2, <2>3
<1> HIDE DEF M, N
<1>2. G \in [S \X A -> A] /\ H \in [S \X A -> A] /\ D!NoVars \in A
  BY <1>1
<1>3. PICK f : FoldsOn(f, S, A, D!NoVars, G)
  <2> HIDE DEF A, G, H
  <2> QED BY <1>2, FoldExists
<1>4. PICK g : FoldsOn(g, S, A, D!NoVars, H)
  <2> HIDE DEF A, G, H
  <2> QED BY <1>2, FoldExists
<1>5. \A s \in SUBSET S : s # {} => Pick(s) \in S /\ Rest(s) \in SUBSET S
  BY PickRest
<1>6. /\ \A s \in SUBSET S : f[s] = IF s = {} THEN D!NoVars ELSE M(Pick(s), f[Rest(s)])
      /\ f \in [SUBSET S -> A]
  <2> HIDE DEF A
  <2> QED BY <1>3, <1>5 DEF FoldsOn
<1>7. /\ \A s \in SUBSET S : g[s] = IF s = {} THEN D!NoVars ELSE N(Pick(s), g[Rest(s)])
      /\ g \in [SUBSET S -> A]
  <2> HIDE DEF A
  <2> QED BY <1>4, <1>5 DEF FoldsOn
<1> HIDE DEF A
<1>8. f = [s \in SUBSET S |-> IF s = {} THEN D!NoVars ELSE M(Pick(s), f[Rest(s)])]
  BY <1>6
<1>9. g = [s \in SUBSET S |-> IF s = {} THEN D!NoVars ELSE N(Pick(s), g[Rest(s)])]
  BY <1>7
<1>10. SolvesMerge(f, S)
  BY <1>8 DEF SolvesMerge, M
<1>11. SolvesMeet(g, S, facts)
  BY <1>9 DEF SolvesMeet, N
<1> QED BY <1>10, <1>11

\* What a fold of disjuncts answers stands for each of them.
LEMMA SolutionBlends ==
    ASSUME NEW F, NEW X, NEW S, IsFiniteSet(S), S # {}, \A d \in S : d.vars \in VarMaps(F),
           NEW facts \in FactsType(F)
    PROVE  /\ \A h : SolvesMerge(h, S) => AllBlend(F, X, facts, S, h[S])
           /\ \A h : SolvesMeet(h, S, facts) => AllBlend(F, X, facts, S, h[S])
<1>1. \A T \in SUBSET S : T # {} => /\ Pick(T) \in S /\ Rest(T) \in SUBSET S /\ T = Rest(T) \cup {Pick(T)}
                                    /\ Pick(T).vars \in VarMaps(F)
  BY PickRest DEF Rest
<1>2. ASSUME NEW h, SolvesMerge(h, S)
      PROVE  AllBlend(F, X, facts, S, h[S])
  <2> DEFINE R == {T \in SUBSET S : T # {} => AllBlend(F, X, facts, T, h[T])}
  <2>1. \A T \in SUBSET S : h[T] = IF T = {} THEN D!NoVars ELSE MergeMaps(h[Rest(T)], Pick(T).vars)
    BY <1>2 DEF SolvesMerge
  <2>2. ASSUME NEW T \in SUBSET S, T # {}, Rest(T) \in R
        PROVE  AllBlend(F, X, facts, T, h[T])
    <3>1. h[T] = MergeMaps(h[Rest(T)], Pick(T).vars)
      BY <2>1, <2>2
    <3>2. CASE Rest(T) = {}
      <4>1. h[T] = Pick(T).vars
        BY <1>1, <2>1, <2>2, <3>1, <3>2, FirstMap
      <4>2. T = {Pick(T)}
        BY <1>1, <2>2, <3>2
      <4> HIDE DEF R
      <4>3. AllBlend(F, X, facts, {Pick(T)}, Pick(T).vars)
        BY <1>1, <2>2, AllBlendStep
      <4> QED BY <4>1, <4>2, <4>3
    <3>3. CASE Rest(T) # {}
      <4>1. AllBlend(F, X, facts, Rest(T), h[Rest(T)])
        BY <2>2, <3>3
      <4>2. h[T] = MergedVars(h[Rest(T)], Pick(T).vars)
        BY <1>1, <2>2, <3>1, <4>1, MergedMaps DEF AllBlend
      <4> DEFINE p == Pick(T)
                 a == h[Rest(T)]
                 rest == Rest(T)
      <4>a. p.vars \in VarMaps(F) /\ AllBlend(F, X, facts, rest, a)
        BY <1>1, <2>2, <4>1
      <4>3. AllBlend(F, X, facts, rest \cup {p}, MergedVars(a, p.vars))
        <5> HIDE DEF p, a, rest
        <5> QED BY ONLY <4>a, facts \in FactsType(F), AllBlendStep
      <4> QED BY <1>1, <2>2, <4>2, <4>3
    <3> QED BY <3>2, <3>3
  <2>3. {} \in R /\ \A T \in SUBSET S : T # {} /\ Rest(T) \in R => T \in R
    BY <2>2
  <2>4. S \in R
    <3> HIDE DEF R
    <3> QED BY <2>3, RestInduction
  <2> QED BY <2>4
<1>3. ASSUME NEW h, SolvesMeet(h, S, facts)
      PROVE  AllBlend(F, X, facts, S, h[S])
  <2> DEFINE R == {T \in SUBSET S : T # {} => AllBlend(F, X, facts, T, h[T])}
             Met(T) == MeetMaps(facts, h[Rest(T)], Pick(T).vars)
  <2>1. \A T \in SUBSET S : h[T] = IF T = {} THEN D!NoVars ELSE Met(T)
    BY <1>3 DEF SolvesMeet
  <2>2. ASSUME NEW T \in SUBSET S, T # {}, Rest(T) \in R
        PROVE  AllBlend(F, X, facts, T, h[T])
    <3>1. h[T] = Met(T)
      BY <2>1, <2>2
    <3>2. CASE Rest(T) = {}
      <4>1. h[Rest(T)] = D!NoVars
        BY <2>1, <3>2
      <4>2. h[T] = Pick(T).vars
        BY <1>1, <2>2, <3>1, <4>1, FirstMap
      <4>3. T = {Pick(T)}
        BY <1>1, <2>2, <3>2
      <4> HIDE DEF R
      <4>4. AllBlend(F, X, facts, {Pick(T)}, Pick(T).vars)
        BY <1>1, <2>2, AllBlendStep
      <4> QED BY <4>2, <4>3, <4>4
    <3>3. CASE Rest(T) # {}
      <4>1. AllBlend(F, X, facts, Rest(T), h[Rest(T)])
        BY <2>2, <3>3
      <4>2. h[T] = MetVars(facts, h[Rest(T)], Pick(T).vars)
        <5>1. h[Rest(T)] \in VarMaps(F) /\ Pick(T).vars \in VarMaps(F)
          BY <1>1, <2>2, <4>1 DEF AllBlend
        <5> QED BY ONLY <3>1, <5>1, MetMaps
      <4> DEFINE p == Pick(T)
                 a == h[Rest(T)]
                 rest == Rest(T)
      <4>a. p.vars \in VarMaps(F) /\ AllBlend(F, X, facts, rest, a)
        BY <1>1, <2>2, <4>1
      <4>3. AllBlend(F, X, facts, rest \cup {p}, MetVars(facts, a, p.vars))
        <5> HIDE DEF p, a, rest
        <5> QED BY ONLY <4>a, facts \in FactsType(F), AllBlendStep
      <4> QED BY <1>1, <2>2, <4>2, <4>3
    <3> QED BY <3>2, <3>3
  <2>3. {} \in R /\ \A T \in SUBSET S : T # {} /\ Rest(T) \in R => T \in R
    BY <2>2
  <2>4. S \in R
    <3> HIDE DEF R
    <3> QED BY <2>3, RestInduction
  <2> QED BY <2>4
<1> QED BY <1>2, <1>3

\* The merged map of a set of disjuncts, and that of the disjuncts with the same facts.
mergeMeet(S, facts) ==
    D!FoldSet(LAMBDA d, acc : D!mergeVarMaps(acc, d.vars, LAMBDA a, b : meetNullVals(facts, a, b)),
              D!NoVars, {d \in S : d.facts = facts})

\* mergeAll, which flattenGuarded and widening use, stands for every disjunct.
LEMMA MergeAllBlends ==
    ASSUME NEW F, NEW X, NEW S, IsFiniteSet(S), S # {}, \A d \in S : d.vars \in VarMaps(F),
           NEW facts \in FactsType(F)
    PROVE  AllBlend(F, X, facts, S, D!mergeAll(S))
<1> DEFINE P(g) == g = [s \in SUBSET S |-> IF s = {} THEN D!NoVars
                                           ELSE MergeMaps(g[Rest(s)], Pick(s).vars)]
<1>1. D!mergeAll(S) = (CHOOSE g : P(g))[S]
  BY DEF D!mergeAll, D!FoldSet, D!MapThenFoldSet, Pick, Rest, MergeMaps
<1>2. \A g : P(g) <=> SolvesMerge(g, S)
  BY DEF SolvesMerge
<1> HIDE DEF P
<1>3. \E g : P(g)
  BY <1>2, SolutionExists
<1>4. P(CHOOSE g : P(g))
  BY <1>3
<1>5. AllBlend(F, X, facts, S, (CHOOSE g : P(g))[S])
  BY <1>2, <1>4, SolutionBlends
<1> QED BY <1>1, <1>5

\* The union of the disjuncts with the same facts stands for each of them.
LEMMA MergeMeetBlends ==
    ASSUME NEW F, NEW X, NEW S, IsFiniteSet(S), \A d \in S : d.vars \in VarMaps(F),
           NEW facts \in FactsType(F), {d \in S : d.facts = facts} # {}
    PROVE  AllBlend(F, X, facts, {d \in S : d.facts = facts}, mergeMeet(S, facts))
<1> DEFINE T == {d \in S : d.facts = facts}
           P(g) == g = [s \in SUBSET T |-> IF s = {} THEN D!NoVars
                          ELSE MeetMaps(facts, g[Rest(s)], Pick(s).vars)]
<1>1. mergeMeet(S, facts) = (CHOOSE g : P(g))[T]
  BY DEF mergeMeet, D!FoldSet, D!MapThenFoldSet, Pick, Rest, MeetMaps
<1>0. IsFiniteSet(T) /\ T # {} /\ \A d \in T : d.vars \in VarMaps(F)
  BY FS_Subset
<1> HIDE DEF T
<1>2. \A g : P(g) <=> SolvesMeet(g, T, facts)
  BY DEF SolvesMeet
<1> HIDE DEF P
<1>3. \E g : P(g)
  BY <1>0, <1>2, SolutionExists
<1>4. P(CHOOSE g : P(g))
  BY <1>3
<1>5. AllBlend(F, X, facts, T, (CHOOSE g : P(g))[T])
  BY <1>0, <1>2, <1>4, SolutionBlends
<1> QED BY <1>1, <1>5 DEF T

-----------------------------------------------------------------------------
(* Uniting, widening and normalising lose no path *)

\* Every situation that some disjunct of S fits, some disjunct of T fits.
Keeps(F, X, S, T) ==
    \A e, ptr : (\E d \in S : Fits(F, X, d, e, ptr)) => (\E d \in T : Fits(F, X, d, e, ptr))

\* The parts of a disjunct.
LEMMA DisjunctIs ==
    ASSUME NEW F, NEW X, NEW d \in Disjunct(F, X)
    PROVE  /\ d = [facts |-> d.facts, vars |-> d.vars]
           /\ d.facts \in FactsType(F) /\ d.vars \in VarMaps(F)
           /\ \A v \in PtrVar : d.vars[v] \in Val(F) /\ Asleep(F, d.facts, d.vars[v], X)
BY DEF Disjunct, VarMaps

\* A disjunct made of others: its facts, and values that stand for theirs.
LEMMA BlendedDisjunct ==
    ASSUME NEW F, NEW X, NEW S, \A d \in S : d \in Disjunct(F, X), NEW facts \in FactsType(F),
           NEW map, AllBlend(F, X, facts, S, map),
           \A v \in PtrVar : Asleep(F, facts, map[v], X)
    PROVE  /\ [facts |-> facts, vars |-> map] \in Disjunct(F, X)
           /\ \A e, ptr : FactsHold(F, facts, e) /\ (\E d \in S : Fits(F, X, d, e, ptr))
                             => Fits(F, X, [facts |-> facts, vars |-> map], e, ptr)
<1>1. [facts |-> facts, vars |-> map] \in Disjunct(F, X)
  BY DEF Disjunct, AllBlend, VarMaps
<1>2. ASSUME NEW e, NEW ptr, FactsHold(F, facts, e), NEW d \in S, Fits(F, X, d, e, ptr), NEW v \in PtrVar
      PROVE  Promised(F, X, map[v], e, ptr[v])
  <2>1. Promised(F, X, d.vars[v], e, ptr[v])
    BY <1>2 DEF Fits
  <2>2. Blends(F, X, facts, {c.vars[v] : c \in S}, map[v]) /\ d.vars[v] \in {c.vars[v] : c \in S}
    BY DEF AllBlend
  <2> QED BY <1>2, <2>1, <2>2 DEF Blends
<1>3. \A e, ptr : FactsHold(F, facts, e) /\ (\E d \in S : Fits(F, X, d, e, ptr))
                             => Fits(F, X, [facts |-> facts, vars |-> map], e, ptr)
  BY <1>2 DEF Fits
<1> QED BY <1>1, <1>3

\* Uniting equal facts loses no path (normalizeGuardedOps).
LEMMA UniteKeeps ==
    ASSUME NEW F, NEW X, NEW S, Good(F, X, S)
    PROVE  Good(F, X, D!uniteSameFacts(S)) /\ Keeps(F, X, S, D!uniteSameFacts(S))
<1> DEFINE All == {d.facts : d \in S}
           United(facts) == [facts |-> facts, vars |-> mergeMeet(S, facts)]
           Same(facts) == {d \in S : d.facts = facts}
<1>1. D!uniteSameFacts(S) = {United(facts) : facts \in All}
  BY DEF D!uniteSameFacts, mergeMeet
<1>2. \A d \in S : d \in Disjunct(F, X) /\ d.facts \in FactsType(F) /\ d.vars \in VarMaps(F)
  BY DisjunctIs DEF Good
<1>3. IsFiniteSet(S)
  BY DEF Good
<1>4. ASSUME NEW facts \in All
      PROVE  /\ United(facts) \in Disjunct(F, X)
             /\ \A e, ptr : FactsHold(F, facts, e) /\ (\E d \in Same(facts) : Fits(F, X, d, e, ptr))
                             => Fits(F, X, United(facts), e, ptr)
  <2>1. facts \in FactsType(F) /\ Same(facts) # {}
    BY <1>2
  <2>2. AllBlend(F, X, facts, Same(facts), mergeMeet(S, facts))
    BY <1>2, <1>3, <2>1, MergeMeetBlends
  <2> DEFINE map == mergeMeet(S, facts)
  <2> HIDE DEF map
  <2>3. ASSUME NEW v \in PtrVar
        PROVE  Asleep(F, facts, map[v], X)
    <3>1. \A i \in map[v].impl : \E a \in {d.vars[v] : d \in Same(facts)} :
             \E j \in a.impl : j.key = i.key /\ j.value = i.value
      BY <2>2 DEF AllBlend, Blends, map
    <3>2. \A d \in Same(facts) : Asleep(F, facts, d.vars[v], X)
      BY <1>2, DisjunctIs
    <3> HIDE DEF Same
    <3> QED BY <3>1, <3>2 DEF Asleep
  <2>4. \A d \in Same(facts) : d \in Disjunct(F, X)
    BY <1>2
  <2> HIDE DEF Same
  <2>5. AllBlend(F, X, facts, Same(facts), map)
    BY <2>2 DEF map
  <2>6. /\ [facts |-> facts, vars |-> map] \in Disjunct(F, X)
        /\ \A e, ptr : FactsHold(F, facts, e) /\ (\E d \in Same(facts) : Fits(F, X, d, e, ptr))
                             => Fits(F, X, [facts |-> facts, vars |-> map], e, ptr)
    BY <2>1, <2>3, <2>4, <2>5, BlendedDisjunct
  <2> QED BY <2>6 DEF map
<1> HIDE DEF United
<1>5. IsFiniteSet(D!uniteSameFacts(S))
  <2>1. IsFiniteSet({[c \in S |-> c.facts][d] : d \in S})
    BY <1>3, FiniteImage
  <2>2. {[c \in S |-> c.facts][d] : d \in S} = All
    OBVIOUS
  <2>3. IsFiniteSet(All)
    BY <2>1, <2>2
  <2> HIDE DEF All
  <2>4. IsFiniteSet({[facts \in All |-> United(facts)][x] : x \in All})
    BY <2>3, FiniteImage
  <2>5. {[facts \in All |-> United(facts)][x] : x \in All} = {United(facts) : facts \in All}
    OBVIOUS
  <2> QED BY <1>1, <2>4, <2>5
<1>6. Keeps(F, X, S, D!uniteSameFacts(S))
  <2> SUFFICES ASSUME NEW e, NEW ptr, NEW d \in S, Fits(F, X, d, e, ptr)
               PROVE  \E c \in D!uniteSameFacts(S) : Fits(F, X, c, e, ptr)
    BY DEF Keeps
  <2>1. d.facts \in All /\ d \in Same(d.facts) /\ FactsHold(F, d.facts, e)
    BY DEF Fits
  <2>2. Fits(F, X, United(d.facts), e, ptr)
    <3> HIDE DEF All, Same
    <3> QED BY <1>4, <2>1
  <2> HIDE DEF All
  <2> QED BY <1>1, <2>1, <2>2
<1> HIDE DEF All
<1>7. D!uniteSameFacts(S) \subseteq Disjunct(F, X)
  BY <1>1, <1>4
<1> QED BY <1>5, <1>6, <1>7 DEF Good

-----------------------------------------------------------------------------
(* Mining *)

\* One fact decides a variable that only stamps are about.
LEMMA LoneFact ==
    ASSUME NEW F, NEW facts \in FactsType(F), NEW common \in FactsType(F), common \subseteq facts,
           NEW key \in Key(F), ~KeyedIn(F, key.var), NEW value \in BOOLEAN,
           factsContradict(common, key, ~value)
    PROVE  factsContradict(facts, key, ~value) /\ ~factsContradict(facts, key, value)
<1>1. PICK f \in common : f.key.var = key.var
  BY DEF factsContradict
<1>2. \A g \in facts : g.key.var = key.var => g = f
  BY <1>1 DEF FactsType
<1>3. f \in facts /\ f = [key |-> f.key, value |-> f.value] /\ f.value \in BOOLEAN /\ f.key \in Key(F)
  BY <1>1 DEF FactsType
<1>4. f.key.rel \in {"EQ", "LT", "LE"} /\ key.rel \in {"EQ", "LT", "LE"}
  BY <1>3, KeyShape
<1>5. CASE f.key = key
  <2>1. f.value = value
    BY <1>1, <1>3, <1>5 DEF factsContradict
  <2>2. [key |-> key, value |-> value] \in facts
    BY <1>3, <1>5, <2>1
  <2>3. [key |-> key, value |-> ~value] \notin facts
    <3> SUFFICES ASSUME [key |-> key, value |-> ~value] \in facts PROVE FALSE
      OBVIOUS
    <3>1. [key |-> key, value |-> ~value] = f
      BY <1>2
    <3>2. [key |-> key, value |-> ~value].value = f.value
      BY <3>1
    <3> QED BY <2>1, <3>2
  <2> QED BY <1>3, <1>5, <2>2, <2>3 DEF factsContradict
<1>6. CASE f.key # key
  <2>1. ~ \E g \in facts : g.key = key
    BY <1>2, <1>6
  <2>2. f.key.field = key.field /\ f.key.rel = "EQ" /\ f.value /\ Entails(f.key, key) # (~value)
    BY <1>2, <2>1 DEF factsContradict
  <2>3. Entails(f.key, key) \in BOOLEAN
    <3>1. CASE key.rel = "EQ"
      BY <3>1 DEF Entails
    <3>2. CASE key.rel = "LT"
      BY <3>2 DEF Entails
    <3>3. CASE key.rel = "LE"
      BY <3>3 DEF Entails
    <3> QED BY <1>4, <3>1, <3>2, <3>3
  <2>4. Entails(f.key, key) = value
    BY <2>2, <2>3
  <2>5. factsContradict(facts, key, ~value)
    BY <1>1, <1>3, <2>1, <2>2 DEF factsContradict
  <2>6. ~factsContradict(facts, key, value)
    BY <1>2, <2>1, <2>4 DEF factsContradict
  <2> QED BY <2>5, <2>6
<1> QED BY <1>5, <1>6

\* What the disjunct that fits promises of v is true.
LEMMA PromiseHolds ==
    ASSUME NEW F, NEW X, NEW d, NEW v \in PtrVar, NEW key, NEW value, NEW e, NEW p,
           Promised(F, X, d.vars[v], e, p), KeyedIn(F, key.var), key \notin X, KeyHolds(e, key) = value
    PROVE  p \in Meaning(promise(d, v, key, value))
<1> DEFINE same == {i \in d.vars[v].impl : i.key = key /\ i.value = value}
<1>1. CASE same # {}
  <2>1. PICK i \in same : promise(d, v, key, value) = i.cond
    BY <1>1 DEF promise
  <2> QED BY <2>1 DEF Promised
<1>2. CASE same = {}
  BY <1>2 DEF promise, Promised
<1> QED BY <1>1, <1>2

\* What a mined implication promises is true of every disjunct that fits.
LEMMA PayloadHolds ==
    ASSUME NEW F, NEW X, NEW S, \A d \in S : d \in Disjunct(F, X), NEW v \in PtrVar,
           NEW key \in Key(F), NEW value \in BOOLEAN, minable(S, v, key, value),
           NEW e, NEW ptr, NEW d \in S, Fits(F, X, d, e, ptr),
           KeyedIn(F, key.var), key \notin X, KeyHolds(e, key) = value
    PROVE  ptr[v] \in Meaning(payload(S, v, key, value))
<1>1. d.facts \in FactsType(F) /\ FactsHold(F, d.facts, e) /\ Promised(F, X, d.vars[v], e, ptr[v])
  BY DisjunctIs DEF Fits
<1>2. d \in compatible(S, key, value)
  BY <1>1, NoContradiction DEF compatible
<1>3. ptr[v] \in Meaning(promise(d, v, key, value))
  BY <1>1, PromiseHolds
<1>4. hasNoNullInfo(promise(d, v, key, value))
  BY <1>2 DEF minable
<1>5. payload(S, v, key, value) = "Unknown"
      \/ (payload(S, v, key, value) = "NonNull" /\ promise(d, v, key, value) = "NonNull")
  BY <1>2, <1>4 DEF payload, hasNoNullInfo
<1> QED BY <1>3, <1>4, <1>5 DEF hasNoNullInfo, Meaning

\* The implications mined for v: at most one, on a fact of the set, whose promise
\* has no null in it.
Minable(S, v, i) ==
    /\ \E d \in S : \E f \in d.facts : f.key = i.key
    /\ i.value \in BOOLEAN
    /\ i = [key |-> i.key, value |-> i.value, cond |-> payload(S, v, i.key, i.value)]
    /\ minable(S, v, i.key, i.value)


KeysAbout(S, v) == {f.key : f \in {g \in UNION {d.facts : d \in S} : g.key.var # v}}

Passing(S, v, loose) ==
    {f \in [key : KeysAbout(S, v), value : BOOLEAN] :
        /\ minable(S, v, f.key, f.value)
        /\ \/ witnessed(S, v, f.key, f.value)
           \/ loose /\ \E d \in S : factsContradict(d.facts, f.key, f.value)}

FirstOf(found) ==
    LET key == (CHOOSE f \in found : TRUE).key
    IN  [key |-> key, value |-> [key |-> key, value |-> TRUE] \in found]

FoundFor(S, v) == IF Passing(S, v, FALSE) # {} THEN Passing(S, v, FALSE) ELSE Passing(S, v, TRUE)

MinedFor(S, v) ==
    IF FoundFor(S, v) = {} THEN {}
    ELSE {[key |-> FirstOf(FoundFor(S, v)).key, value |-> FirstOf(FoundFor(S, v)).value,
           cond |-> payload(S, v, FirstOf(FoundFor(S, v)).key, FirstOf(FoundFor(S, v)).value)]}

\* The map of the widened disjunct with what is mined.
MinedVars(S, map) ==
    [v \in PtrVar |-> IF map[v].st = "MaybeNull" /\ map[v].impl = {}
                        THEN [map[v] EXCEPT !.impl = MinedFor(S, v)]
                        ELSE map[v]]

\* What the mining adds, pointer by pointer.
LEMMA MineIs ==
    ASSUME NEW S, NEW c, DOMAIN c.vars = PtrVar
    PROVE  mineGuardImplications(S, c) = [c EXCEPT !.vars = MinedVars(S, c.vars)]
BY Zenon DEF mineGuardImplications, MinedFor, FoundFor, FirstOf, Passing, KeysAbout, MinedVars

\* One implication is mined at most, and it is one that may be.
LEMMA MinedIsMinable ==
    ASSUME NEW S, NEW v, NEW i \in MinedFor(S, v)
    PROVE  Minable(S, v, i) /\ \A j \in MinedFor(S, v) : i = j
<1> DEFINE found == FoundFor(S, v)
           f == FirstOf(found)
           chosen == CHOOSE g \in found : TRUE
<1>1. found # {} /\ i = [key |-> f.key, value |-> f.value, cond |-> payload(S, v, f.key, f.value)]
  BY DEF MinedFor
<1>2. \A g \in found : /\ g = [key |-> g.key, value |-> g.value] /\ g.value \in BOOLEAN
                       /\ g.key \in KeysAbout(S, v) /\ minable(S, v, g.key, g.value)
  BY DEF FoundFor, Passing
<1> HIDE DEF found
<1>3. chosen \in found
  BY <1>1
<1>4. f.key = chosen.key /\ f.value \in BOOLEAN /\ f.value = ([key |-> f.key, value |-> TRUE] \in found)
  BY DEF FirstOf
<1> HIDE DEF chosen, f
<1>5. [key |-> f.key, value |-> f.value] \in found
  <2>1. CASE f.value = TRUE
    BY <1>4, <2>1
  <2>2. CASE f.value = FALSE
    <3>1. chosen.value # TRUE
      BY <1>2, <1>3, <1>4, <2>2
    <3>2. chosen = [key |-> f.key, value |-> FALSE]
      BY <1>2, <1>3, <1>4, <3>1
    <3> QED BY <1>3, <2>2, <3>2
  <2> QED BY <1>4, <2>1, <2>2
<1>6. f.key \in KeysAbout(S, v) /\ minable(S, v, f.key, f.value)
  BY <1>2, <1>5
<1>7. i.key = f.key /\ i.value = f.value
  BY <1>1
<1>8. Minable(S, v, i)
  BY <1>1, <1>4, <1>6, <1>7 DEF Minable, KeysAbout
<1> QED BY <1>8 DEF MinedFor

\* A disjunct that stands for those of S still does with what is mined from S.
LEMMA MineKeeps ==
    ASSUME NEW F, NEW X, NEW S, S \subseteq Disjunct(F, X), NEW c \in Disjunct(F, X),
           \A d \in S : c.facts \subseteq d.facts,
           \A v \in PtrVar : (\A d \in S : hasNoNullInfo(d.vars[v].st)) => hasNoNullInfo(c.vars[v].st)
    PROVE  /\ mineGuardImplications(S, c) \in Disjunct(F, X)
           /\ \A e, ptr, d : d \in S /\ Fits(F, X, d, e, ptr) /\ Fits(F, X, c, e, ptr)
                                => Fits(F, X, mineGuardImplications(S, c), e, ptr)
<1> DEFINE Mines(v) == c.vars[v].st = "MaybeNull" /\ c.vars[v].impl = {}
           map == MinedVars(S, c.vars)
           m == [facts |-> c.facts, vars |-> map]
<1>1. /\ c = [facts |-> c.facts, vars |-> c.vars] /\ c.facts \in FactsType(F) /\ c.vars \in VarMaps(F)
      /\ \A v \in PtrVar : c.vars[v] \in Val(F) /\ Asleep(F, c.facts, c.vars[v], X)
  BY DisjunctIs
<1>2. mineGuardImplications(S, c) = m
  <2>1. DOMAIN c.vars = PtrVar
    BY <1>1 DEF VarMaps
  <2>2. mineGuardImplications(S, c) = [c EXCEPT !.vars = MinedVars(S, c.vars)]
    BY <2>1, MineIs
  <2> QED BY ONLY <1>1, <2>2
<1>3. \A d \in S : /\ d \in Disjunct(F, X) /\ d.facts \in FactsType(F) /\ c.facts \subseteq d.facts
                   /\ \A v \in PtrVar : d.vars[v] \in Val(F) /\ Asleep(F, d.facts, d.vars[v], X)
  BY DisjunctIs
<1>4. ASSUME NEW v \in PtrVar, Mines(v)
      PROVE  /\ map[v] = [st |-> "MaybeNull", impl |-> MinedFor(S, v)]
             /\ \A i \in MinedFor(S, v) : Minable(S, v, i) /\ i \in ImplType(F)
             /\ \A i, j \in MinedFor(S, v) : i = j
  <2>1. map[v] = [c.vars[v] EXCEPT !.impl = MinedFor(S, v)]
    BY <1>4 DEF MinedVars
  <2>2. map[v] = [st |-> "MaybeNull", impl |-> MinedFor(S, v)]
    BY <1>1, <1>4, <2>1 DEF Val
  <2>3. ASSUME NEW i \in MinedFor(S, v)
        PROVE  Minable(S, v, i) /\ i \in ImplType(F)
    <3>1. Minable(S, v, i)
      BY MinedIsMinable
    <3>2. i.key \in Key(F)
      BY <1>3, <3>1 DEF Minable, FactsType
    <3>3. payload(S, v, i.key, i.value) \in {"NonNull", "Unknown"}
      BY DEF payload
    <3>4. i \in ImplType(F)
      BY <3>1, <3>2, <3>3 DEF Minable, ImplType
    <3> QED BY <3>1, <3>4
  <2> QED BY <2>2, <2>3, MinedIsMinable
<1>5. ASSUME NEW v \in PtrVar, Mines(v), NEW i \in MinedFor(S, v), ~KeyedIn(F, i.key.var), i.key \notin X,
             factsContradict(c.facts, i.key, ~i.value)
      PROVE  FALSE
  <2>1. Minable(S, v, i) /\ i.key \in Key(F) /\ i.value \in BOOLEAN
    BY <1>4, <1>5 DEF Minable, ImplType
  <2>2. ASSUME NEW d \in S
        PROVE  hasNoNullInfo(d.vars[v].st)
    <3>1. factsContradict(d.facts, i.key, ~i.value) /\ ~factsContradict(d.facts, i.key, i.value)
      BY <1>1, <1>3, <1>5, <2>1, LoneFact
    <3>2. d \in compatible(S, i.key, i.value)
      BY <3>1 DEF compatible
    <3>3. hasNoNullInfo(promise(d, v, i.key, i.value))
      BY <2>1, <3>2 DEF Minable, minable
    <3>4. ~ \E j \in d.vars[v].impl : j.key = i.key /\ j.value = i.value
      BY <1>3, <1>5, <3>1 DEF Asleep
    <3> QED BY <3>3, <3>4 DEF promise
  <2>3. hasNoNullInfo(c.vars[v].st)
    BY <2>2
  <2> QED BY <1>5, <2>3 DEF hasNoNullInfo
<1>6. ASSUME NEW v \in PtrVar
      PROVE  map[v] \in Val(F) /\ Asleep(F, c.facts, map[v], X)
  <2>1. CASE Mines(v)
    <3>1. map[v] = [st |-> "MaybeNull", impl |-> MinedFor(S, v)]
      BY <1>4, <2>1
    <3>2. map[v] \in Val(F)
      BY <1>4, <2>1, <3>1 DEF Val, NullState
    <3>3. Asleep(F, c.facts, map[v], X)
      BY <1>5, <2>1, <3>1 DEF Asleep
    <3> QED BY <3>2, <3>3
  <2>2. CASE ~Mines(v)
    BY <1>1, <2>2 DEF MinedVars
  <2> QED BY <2>1, <2>2
<1>7. map \in VarMaps(F)
  BY <1>6 DEF VarMaps, MinedVars
<1>8. ASSUME NEW e, NEW ptr, NEW d \in S, Fits(F, X, d, e, ptr), Fits(F, X, c, e, ptr), NEW v \in PtrVar
      PROVE  Promised(F, X, map[v], e, ptr[v])
  <2>1. Promised(F, X, c.vars[v], e, ptr[v])
    BY <1>8 DEF Fits
  <2>2. CASE Mines(v)
    <3>1. ptr[v] \in Meaning("MaybeNull")
      BY <2>1, <2>2 DEF Promised
    <3>2. ASSUME NEW i \in MinedFor(S, v), KeyedIn(F, i.key.var), i.key \notin X, KeyHolds(e, i.key) = i.value
          PROVE  ptr[v] \in Meaning(i.cond)
      <4>1. /\ i.key \in Key(F) /\ i.value \in BOOLEAN /\ minable(S, v, i.key, i.value)
            /\ i.cond = payload(S, v, i.key, i.value)
        <5>1. Minable(S, v, i) /\ i \in ImplType(F)
          BY <1>4, <2>2, <3>2
        <5>2. i.cond = payload(S, v, i.key, i.value)
          BY <5>1 DEF Minable
        <5> QED BY <5>1, <5>2 DEF Minable, ImplType
      <4>2. \A x \in S : x \in Disjunct(F, X)
        BY <1>3
      <4> QED BY <1>8, <3>2, <4>1, <4>2, PayloadHolds
    <3>3. map[v] = [st |-> "MaybeNull", impl |-> MinedFor(S, v)]
      BY <1>4, <2>2
    <3> QED BY <3>1, <3>2, <3>3 DEF Promised
  <2>3. CASE ~Mines(v)
    BY <2>1, <2>3 DEF MinedVars
  <2> QED BY <2>2, <2>3
<1> HIDE DEF map
<1>9. m \in Disjunct(F, X)
  BY <1>1, <1>6, <1>7 DEF Disjunct, VarMaps
<1>10. \A e, ptr, d : d \in S /\ Fits(F, X, d, e, ptr) /\ Fits(F, X, c, e, ptr) => Fits(F, X, m, e, ptr)
  BY <1>8 DEF Fits
<1> QED BY <1>2, <1>9, <1>10

\* The cardinality that Disjuncts uses is that of the library.
LEMMA EmptyCardinality == D!Cardinality({}) = 0
<1> DEFINE P(g) == g = [T \in SUBSET {} |-> IF T = {} THEN 0 ELSE 1 + g[T \ {CHOOSE x : x \in T}]]
<1>1. D!Cardinality({}) = (CHOOSE g : P(g))[{}]
  BY DEF D!Cardinality
<1>2. P([T \in SUBSET {} |-> 0])
  OBVIOUS
<1> HIDE DEF P
<1>3. P(CHOOSE g : P(g))
  BY <1>2
<1> QED BY <1>1, <1>3 DEF P

\* Widening loses no path (widenGuardedOps).
LEMMA WidenKeeps ==
    ASSUME NEW F, NEW X, NEW S, Good(F, X, S)
    PROVE  Good(F, X, D!widenGuarded(S)) /\ Keeps(F, X, S, D!widenGuarded(S))
<1> DEFINE common == {f \in UNION {d.facts : d \in S} : \A d \in S : f \in d.facts}
           c == [facts |-> common, vars |-> D!mergeAll(S)]
<1>1. CASE D!Cardinality(S) <= 1
  <2>1. D!widenGuarded(S) = S
    BY <1>1 DEF D!widenGuarded
  <2> QED BY <2>1 DEF Keeps
<1>2. CASE ~(D!Cardinality(S) <= 1)
  <2>1. D!widenGuarded(S) = {mineGuardImplications(S, c)}
    BY <1>2 DEF D!widenGuarded
  <2>2. S # {}
    BY <1>2, EmptyCardinality
  <2>3. /\ IsFiniteSet(S) /\ S \subseteq Disjunct(F, X)
        /\ \A d \in S : /\ d \in Disjunct(F, X) /\ d.facts \in FactsType(F) /\ d.vars \in VarMaps(F)
                        /\ \A v \in PtrVar : Asleep(F, d.facts, d.vars[v], X)
    BY DisjunctIs DEF Good
  <2>4. common \in FactsType(F) /\ \A d \in S : common \subseteq d.facts
    BY <2>2, <2>3 DEF FactsType
  <2> HIDE DEF common
  <2>5. AllBlend(F, X, common, S, D!mergeAll(S))
    BY <2>2, <2>3, <2>4, MergeAllBlends
  <2> DEFINE map == D!mergeAll(S)
  <2> HIDE DEF map
  <2>6. ASSUME NEW v \in PtrVar
        PROVE  Asleep(F, common, map[v], X)
    <3> SUFFICES ASSUME NEW i \in map[v].impl, ~KeyedIn(F, i.key.var), i.key \notin X,
                        factsContradict(common, i.key, ~i.value)
                 PROVE  FALSE
      BY DEF Asleep
    <3>1. Blends(F, X, common, {d.vars[v] : d \in S}, map[v])
      BY <2>5 DEF AllBlend, map
    <3>2. PICK d \in S : \E j \in d.vars[v].impl : j.key = i.key /\ j.value = i.value
      BY <3>1 DEF Blends
    <3>3. ~factsContradict(d.facts, i.key, ~i.value)
      BY <2>3, <3>2 DEF Asleep
    <3>4. i.key \in Key(F) /\ i.value \in BOOLEAN
      BY <3>1 DEF Blends, Val, ImplType
    <3> QED BY <2>3, <2>4, <3>3, <3>4, LoneFact
  <2>7. /\ [facts |-> common, vars |-> map] \in Disjunct(F, X)
        /\ \A e, ptr : FactsHold(F, common, e) /\ (\E d \in S : Fits(F, X, d, e, ptr))
                             => Fits(F, X, [facts |-> common, vars |-> map], e, ptr)
    BY <2>3, <2>4, <2>5, <2>6, BlendedDisjunct DEF map
  <2>8. \A v \in PtrVar : (\A d \in S : hasNoNullInfo(d.vars[v].st)) => hasNoNullInfo(map[v].st)
    BY <2>5 DEF AllBlend, Blends, map
  <2> DEFINE w == [facts |-> common, vars |-> map]
  <2>9. w.facts = common /\ w.vars = map /\ w \in Disjunct(F, X)
    BY <2>7
  <2>10. c = w
    BY DEF map
  <2> HIDE DEF w, c
  <2>11. /\ mineGuardImplications(S, w) \in Disjunct(F, X)
         /\ \A e, ptr, d : d \in S /\ Fits(F, X, d, e, ptr) /\ Fits(F, X, w, e, ptr)
                                => Fits(F, X, mineGuardImplications(S, w), e, ptr)
    BY <2>3, <2>4, <2>8, <2>9, MineKeeps
  <2>12. \A e, ptr, d : d \in S /\ Fits(F, X, d, e, ptr) => Fits(F, X, w, e, ptr)
    <3> TAKE e, ptr, d
    <3> HAVE d \in S /\ Fits(F, X, d, e, ptr)
    <3>1. FactsHold(F, common, e)
      BY <2>4 DEF Fits, FactsHold
    <3> QED BY <2>7, <3>1 DEF w
  <2>13. Good(F, X, {mineGuardImplications(S, w)})
    BY <2>11, FS_Singleton DEF Good
  <2>14. Keeps(F, X, S, {mineGuardImplications(S, w)})
    BY <2>11, <2>12 DEF Keeps
  <2> QED BY <2>1, <2>10, <2>13, <2>14
<1> QED BY <1>1, <1>2

\* Neither does the collapse at the bound, with what it mines (normalizeGuardedOps).
LEMMA NormalizeKeeps ==
    ASSUME NEW F, NEW X, NEW S, Good(F, X, S)
    PROVE  Good(F, X, D!normalizeGuarded(S)) /\ Keeps(F, X, S, D!normalizeGuarded(S))
<1> DEFINE united == D!uniteSameFacts(S)
<1>1. Good(F, X, united) /\ Keeps(F, X, S, united)
  BY UniteKeeps
<1>2. D!normalizeGuarded(S) \in {united, D!widenGuarded(united)}
  BY DEF D!normalizeGuarded
<1> HIDE DEF united
<1>3. Good(F, X, D!widenGuarded(united)) /\ Keeps(F, X, S, D!widenGuarded(united))
  BY <1>1, WidenKeeps DEF Keeps
<1> QED BY <1>1, <1>2, <1>3

\* A merge loses no path of either side (mergeGuarded).
LEMMA MergeKeeps ==
    ASSUME NEW F, NEW X, NEW S, NEW T, Good(F, X, S), Good(F, X, T)
    PROVE  /\ Good(F, X, D!mergeGuarded(S, T))
           /\ Keeps(F, X, S, D!mergeGuarded(S, T)) /\ Keeps(F, X, T, D!mergeGuarded(S, T))
<1>1. Good(F, X, S \cup T)
  BY FS_Union DEF Good
<1>2. /\ Good(F, X, D!normalizeGuarded(S \cup T))
      /\ Keeps(F, X, S \cup T, D!normalizeGuarded(S \cup T))
  BY <1>1, NormalizeKeeps
<1> QED BY <1>2 DEF D!mergeGuarded, Keeps

-----------------------------------------------------------------------------
(* The facts of a leaf *)

\* What the program's integers can be.
EnvType(e) == \A p \in Place : e.int[p] \in Int /\ (p \in Unsigned => e.int[p] >= 0)

\* A comparison that means the same to C and to the rule.
Plainly(leaf, e) ==
    leaf.kind = "compare" =>
        ValuesOf(leaf, e) = {Holds(IF leaf.left THEN leaf.op ELSE mirror(leaf.op), e.int[leaf.place],
                                   intLiteralValue(leaf.lit)) # leaf.neg}

\* f says that p REL lit is value.
FactAbout(F, f, p, rel, lit, value) ==
    /\ f \in [key : Key(F), value : BOOLEAN] /\ f.key.var = p.var /\ f.value = value
    /\ \A e : KeyHolds(e, f.key) = Holds(rel, e.int[p], lit)

\* The fact of an integer or of a member.
LEMMA PlaceKey ==
    ASSUME NEW F, NEW p \in Place, NEW rel \in {"EQ", "LT", "LE"}, NEW lit \in Int, NEW value \in BOOLEAN,
           Var(p) \/ p.var \in collectMemberFactBases(F)
    PROVE  FactAbout(F, Fact(p, rel, lit, value), p, rel, lit, value)
<1> DEFINE key == [var |-> p.var, field |-> p.field, rel |-> rel, lit |-> lit]
<1>1. p.var \notin PtrVar /\ p = [var |-> p.var, field |-> p.field]
  BY PlaceAssumption
<1>2. PlaceOf(key) = p
  BY <1>1 DEF PlaceOf
<1>3. key \in Key(F)
  BY <1>1, <1>2 DEF Key, Shaped
<1>4. \A e : KeyHolds(e, key) = Holds(rel, e.int[p], lit)
  BY <1>1, <1>2 DEF KeyHolds, PlaceOf
<1> HIDE DEF key
<1>5. Fact(p, rel, lit, value) = [key |-> key, value |-> value]
  BY DEF Fact, key
<1>6. key.var = p.var
  BY DEF key
<1> QED BY <1>3, <1>4, <1>5, <1>6 DEF FactAbout

\* f says that q is null, or that it is not.
FactOfPointer(F, f, q, value) ==
    /\ f \in [key : Key(F), value : BOOLEAN] /\ f.key.var = q /\ f.value = value
    /\ \A e : KeyHolds(e, f.key) = IsNull(e.ptr[q])

\* The fact of a pointer.
LEMMA PointerKey ==
    ASSUME NEW F, NEW q \in PtrVar \cap collectPtrFactDecls(F), NEW value \in BOOLEAN
    PROVE  FactOfPointer(F, Fact(PtrPlace(q), "EQ", 0, value), q, value)
BY DEF FactOfPointer, Fact, PtrPlace, Key, Shaped, KeyHolds

\* The members of a struct the rule keys: nothing else erases a fact on them.
LEMMA BasesAreKeyed ==
    ASSUME NEW F, \A s \in F.stmts : StatementType(s), NEW b \in collectMemberFactBases(F)
    PROVE  KeyedIn(F, b) /\ b \notin PtrVar
<1>1. PICK p \in Place : p.var = b /\ ~Var(p)
  BY DEF collectMemberFactBases
<1>2. b \in Local /\ b \notin Volatile
  BY DEF collectMemberFactBases
<1>3. b \notin PtrVar /\ [var |-> b, field |-> NoField] \notin Place
  BY <1>1, PlaceAssumption DEF Var
<1>4. b \notin AddressTaken(F)
  <2>1. ASSUME NEW s \in F.stmts, s.kind = "addressOf"
        PROVE  s.var # b
    BY <1>3, <2>1 DEF StatementType, Assignable
  <2>2. ASSUME NEW s \in F.stmts, s.kind = "outParam"
        PROVE  s.ptr # b
    BY <1>3, <2>2 DEF StatementType
  <2> QED BY <2>1, <2>2 DEF AddressTaken
<1>5. b \notin collectUnkeyableDecls(F)
  BY <1>2, <1>4 DEF collectUnkeyableDecls
<1> QED BY <1>2, <1>3, <1>5 DEF KeyedIn

\* Nothing or one fact, about what the collectors say may be keyed.
Option(F, o) ==
    /\ o = {} \/ \E f : o = {f}
    /\ \A f \in o : f \in [key : Key(F), value : BOOLEAN] /\ KeyedIn(F, f.key.var)

TrueOf(o, e) == \A f \in o : KeyHolds(e, f.key) = f.value

\* Each relation and its negation.
LEMMA Negations ==
    \A x, y \in Int : /\ Holds("NE", x, y) <=> ~Holds("EQ", x, y)
                      /\ Holds("GE", x, y) <=> ~Holds("LT", x, y)
                      /\ Holds("GT", x, y) <=> ~Holds("LE", x, y)
BY DEF Holds

\* The same, about the variable v.
OptionAbout(F, o, v) ==
    /\ o = {} \/ \E f : o = {f}
    /\ \A f \in o : f \in [key : Key(F), value : BOOLEAN] /\ f.key.var = v

\* The fact of a comparison holds as the comparison does.
LEMMA CompareFactAbout ==
    ASSUME NEW F, NEW p \in Place, Var(p), NEW op \in Relation, NEW lit \in Int,
           NEW left \in BOOLEAN
    PROVE  /\ OptionAbout(F, normalizeCompare(p, op, lit, left), p.var)
           /\ \A e, f : EnvType(e) /\ f \in normalizeCompare(p, op, lit, left) =>
                 KeyHolds(e, f.key) <=> (f.value <=> Holds(IF left THEN op ELSE mirror(op), e.int[p], lit))
<1> DEFINE m == IF left THEN op ELSE mirror(op)
           n == IF p \in Unsigned /\ lit = 0
                  THEN CASE m = "LE" -> "EQ" [] m = "GT" -> "NE"
                         [] m \in {"LT", "GE"} -> "nothing" [] OTHER -> m
                  ELSE m
           o == normalizeCompare(p, op, lit, left)
<1>1. m \in Relation
  BY DEF mirror, Relation
<1>2. /\ n = "EQ" => o = {Fact(p, "EQ", lit, TRUE)}
      /\ n = "NE" => o = {Fact(p, "EQ", lit, FALSE)}
      /\ n = "LT" => o = {Fact(p, "LT", lit, TRUE)}
      /\ n = "GE" => o = {Fact(p, "LT", lit, FALSE)}
      /\ n = "LE" => o = {Fact(p, "LE", lit, TRUE)}
      /\ n = "GT" => o = {Fact(p, "LE", lit, FALSE)}
      /\ n = "nothing" => o = {}
  BY DEF normalizeCompare
<1> HIDE DEF m, o
<1>3. n \in Relation \cup {"nothing"}
  BY <1>1 DEF Relation
<1>4. \A e : EnvType(e) /\ n # "nothing" => Holds(n, e.int[p], lit) = Holds(m, e.int[p], lit)
  <2> SUFFICES ASSUME NEW e, EnvType(e), n # "nothing"
               PROVE  Holds(n, e.int[p], lit) = Holds(m, e.int[p], lit)
    OBVIOUS
  <2>1. e.int[p] \in Int /\ (p \in Unsigned => e.int[p] >= 0)
    BY DEF EnvType
  <2>2. CASE p \in Unsigned /\ lit = 0 /\ m = "LE"
    BY <2>1, <2>2 DEF Holds
  <2>3. CASE p \in Unsigned /\ lit = 0 /\ m = "GT"
    BY <2>1, <2>3 DEF Holds
  <2>4. CASE ~(p \in Unsigned /\ lit = 0 /\ m \in {"LE", "GT"})
    BY <2>4
  <2> QED BY <2>2, <2>3, <2>4
<1> HIDE DEF n
<1>5. ASSUME NEW rel \in {"EQ", "LT", "LE"}, NEW value \in BOOLEAN, o = {Fact(p, rel, lit, value)},
             \A x \in Int : Holds(n, x, lit) <=> (Holds(rel, x, lit) <=> value),
             n # "nothing"
      PROVE  /\ OptionAbout(F, o, p.var)
             /\ \A e, f : EnvType(e) /\ f \in o =>
                   KeyHolds(e, f.key) <=> (f.value <=> Holds(m, e.int[p], lit))
  <2> DEFINE f == Fact(p, rel, lit, value)
  <2>1. /\ f \in [key : Key(F), value : BOOLEAN] /\ f.key.var = p.var /\ f.value = value
        /\ \A e : KeyHolds(e, f.key) = Holds(rel, e.int[p], lit)
    <3>1. FactAbout(F, f, p, rel, lit, value)
      BY PlaceKey
    <3> QED BY <3>1 DEF FactAbout
  <2> HIDE DEF f
  <2>2. o = {f}
    BY <1>5 DEF f
  <2>3. OptionAbout(F, o, p.var)
    BY <2>1, <2>2 DEF OptionAbout
  <2>4. ASSUME NEW e, EnvType(e)
        PROVE  KeyHolds(e, f.key) <=> (f.value <=> Holds(m, e.int[p], lit))
    <3>1. e.int[p] \in Int
      BY <2>4 DEF EnvType
    <3>2. Holds(n, e.int[p], lit) <=> (Holds(rel, e.int[p], lit) <=> value)
      BY <1>5, <3>1
    <3>3. Holds(n, e.int[p], lit) = Holds(m, e.int[p], lit)
      BY <1>4, <1>5, <2>4
    <3> QED BY <2>1, <3>2, <3>3
  <2> QED BY <2>2, <2>3, <2>4
<1> DEFINE Means(rel, value) == \A x \in Int : Holds(n, x, lit) <=> (Holds(rel, x, lit) <=> value)
           Goal == /\ OptionAbout(F, o, p.var)
                   /\ \A e, f : EnvType(e) /\ f \in o => KeyHolds(e, f.key) <=> (f.value <=> Holds(m, e.int[p], lit))
<1>6. ASSUME NEW rel \in {"EQ", "LT", "LE"}, NEW value \in BOOLEAN, o = {Fact(p, rel, lit, value)},
             Means(rel, value), n # "nothing"
      PROVE  Goal
  BY <1>5, <1>6
<1>7. ASSUME n = "EQ" PROVE Goal
  <2>1. Means("EQ", TRUE) /\ o = {Fact(p, "EQ", lit, TRUE)} /\ n # "nothing"
    BY <1>2, <1>7, Negations
  <2> HIDE DEF Goal, Means
  <2> QED BY <1>6, <2>1
<1>8. ASSUME n = "NE" PROVE Goal
  <2>1. Means("EQ", FALSE) /\ o = {Fact(p, "EQ", lit, FALSE)} /\ n # "nothing"
    BY <1>2, <1>8, Negations
  <2> HIDE DEF Goal, Means
  <2> QED BY <1>6, <2>1
<1>9. ASSUME n = "LT" PROVE Goal
  <2>1. Means("LT", TRUE) /\ o = {Fact(p, "LT", lit, TRUE)} /\ n # "nothing"
    BY <1>2, <1>9, Negations
  <2> HIDE DEF Goal, Means
  <2> QED BY <1>6, <2>1
<1>10. ASSUME n = "GE" PROVE Goal
  <2>1. Means("LT", FALSE) /\ o = {Fact(p, "LT", lit, FALSE)} /\ n # "nothing"
    BY <1>2, <1>10, Negations
  <2> HIDE DEF Goal, Means
  <2> QED BY <1>6, <2>1
<1>11. ASSUME n = "LE" PROVE Goal
  <2>1. Means("LE", TRUE) /\ o = {Fact(p, "LE", lit, TRUE)} /\ n # "nothing"
    BY <1>2, <1>11, Negations
  <2> HIDE DEF Goal, Means
  <2> QED BY <1>6, <2>1
<1>12. ASSUME n = "GT" PROVE Goal
  <2>1. Means("LE", FALSE) /\ o = {Fact(p, "LE", lit, FALSE)} /\ n # "nothing"
    BY <1>2, <1>12, Negations
  <2> HIDE DEF Goal, Means
  <2> QED BY <1>6, <2>1
<1>13. ASSUME n = "nothing" PROVE Goal
  BY <1>2, <1>13 DEF OptionAbout
<1> HIDE DEF Means, Goal
<1>14. Goal
  BY <1>3, <1>7, <1>8, <1>9, <1>10, <1>11, <1>12, <1>13 DEF Relation
<1> QED BY <1>14 DEF Goal, m, o

\* A comparison of a keyed variable is its fact (normalizeCompare).
LEMMA CompareFactSound ==
    ASSUME NEW F, NEW p \in Place, Var(p), KeyedIn(F, p.var), NEW op \in Relation, NEW lit \in Int,
           NEW left \in BOOLEAN
    PROVE  /\ Option(F, normalizeCompare(p, op, lit, left))
           /\ \A e, f : EnvType(e) /\ f \in normalizeCompare(p, op, lit, left) =>
                 KeyHolds(e, f.key) <=> (f.value <=> Holds(IF left THEN op ELSE mirror(op), e.int[p], lit))
<1> DEFINE o == normalizeCompare(p, op, lit, left)
<1>1. /\ OptionAbout(F, o, p.var)
      /\ \A e, f : EnvType(e) /\ f \in o =>
            KeyHolds(e, f.key) <=> (f.value <=> Holds(IF left THEN op ELSE mirror(op), e.int[p], lit))
  BY CompareFactAbout
<1>2. Option(F, o)
  <2> HIDE DEF o
  <2> QED BY <1>1 DEF Option, OptionAbout
<1> QED BY <1>1, <1>2

\* What the value of a leaf says of the program.
LEMMA TruthValue ==
    ASSUME NEW leaf, leaf.neg \in BOOLEAN, leaf.kind = "truth", NEW e, NEW v \in ValuesOf(leaf, e)
    PROVE  v \in BOOLEAN /\ ((v # leaf.neg) <=> e.int[leaf.place] # 0)
<1>1. ValuesOf(leaf, e) = {(e.int[leaf.place] # 0) # leaf.neg}
  BY DEF ValuesOf, LeafValues
<1> QED BY <1>1

\* What C makes of p == NULL.
LEMMA PointerValue ==
    ASSUME NEW leaf, leaf.neg \in BOOLEAN, leaf.kind = "pointer", NEW e, NEW v \in ValuesOf(leaf, e)
    PROVE  v \in BOOLEAN /\ ((v # leaf.neg) <=> ((leaf.op = "EQ") <=> IsNull(e.ptr[leaf.ptr])))
<1> DEFINE nil == IsNull(e.ptr[leaf.ptr])
           eq == leaf.op = "EQ"
<1>1. ValuesOf(leaf, e) = {(eq = nil) # leaf.neg}
  BY DEF ValuesOf, LeafValues
<1>2. nil \in BOOLEAN /\ eq \in BOOLEAN
  BY DEF IsNull
<1> HIDE DEF nil, eq
<1>3. v \in BOOLEAN /\ ((v # leaf.neg) <=> (eq <=> nil))
  BY <1>1, <1>2
<1> QED BY <1>3 DEF nil, eq

\* What C makes of a comparison that it does not convert.
LEMMA CompareValue ==
    ASSUME NEW leaf, LeafType(leaf), leaf.kind = "compare", NEW e, Plainly(leaf, e), EnvType(e),
           NEW v \in ValuesOf(leaf, e)
    PROVE  /\ v \in BOOLEAN
           /\ (v # leaf.neg) <=> Holds(IF leaf.left THEN leaf.op ELSE mirror(leaf.op), e.int[leaf.place],
                                       intLiteralValue(leaf.lit))
<1> DEFINE held == Holds(IF leaf.left THEN leaf.op ELSE mirror(leaf.op), e.int[leaf.place],
                         intLiteralValue(leaf.lit))
<1>1. v = (held # leaf.neg)
  BY DEF Plainly
<1>2. held \in BOOLEAN
  <2>1. \A op \in Relation : \A a, b : Holds(op, a, b) \in BOOLEAN
    <3>1. \A a, b : /\ Holds("EQ", a, b) \in BOOLEAN /\ Holds("NE", a, b) \in BOOLEAN
                    /\ Holds("LT", a, b) \in BOOLEAN /\ Holds("LE", a, b) \in BOOLEAN
                    /\ Holds("GT", a, b) \in BOOLEAN /\ Holds("GE", a, b) \in BOOLEAN
      BY DEF Holds
    <3> QED BY <3>1 DEF Relation
  <2>2. (IF leaf.left THEN leaf.op ELSE mirror(leaf.op)) \in Relation
    BY DEF LeafType, mirror, Relation
  <2> QED BY <2>1, <2>2
<1> HIDE DEF held
<1>3. leaf.neg \in BOOLEAN
  BY DEF LeafType
<1>4. v \in BOOLEAN /\ ((v # leaf.neg) <=> held)
  BY <1>1, <1>2, <1>3
<1> QED BY <1>4 DEF held

\* What C makes of i < n without sign.
LEMMA BelowValue ==
    ASSUME NEW leaf, leaf.neg \in BOOLEAN, leaf.kind = "below", NEW e, NEW v \in ValuesOf(leaf, e)
    PROVE  v \in BOOLEAN /\ ((v # leaf.neg) <=> e.int[leaf.lower] < e.int[leaf.upper])
<1> DEFINE less == e.int[leaf.lower] < e.int[leaf.upper]
<1>1. ValuesOf(leaf, e) = {less # leaf.neg}
  BY DEF ValuesOf, LeafValues
<1>2. less \in BOOLEAN
  OBVIOUS
<1> HIDE DEF less
<1>3. v \in BOOLEAN /\ ((v # leaf.neg) <=> less)
  BY <1>1, <1>2
<1> QED BY <1>3 DEF less

\* Pointers that are used before their test are not null.
LEMMA PointersValue ==
    ASSUME NEW leaf, leaf.neg \in BOOLEAN, leaf.kind = "pointers", NEW e, NEW v \in ValuesOf(leaf, e)
    PROVE  v \in BOOLEAN /\ \A q \in leaf.ptrs : ~IsNull(e.ptr[q])
BY DEF ValuesOf, LeafValues

\* A leaf is true or false.
LEMMA LeafValueBoolean ==
    ASSUME NEW leaf, LeafType(leaf), NEW e, EnvType(e), Plainly(leaf, e), NEW v \in ValuesOf(leaf, e)
    PROVE  v \in BOOLEAN
<1>1. leaf.neg \in BOOLEAN /\ leaf.kind \in {"truth", "compare", "below", "pointer", "pointers", "opaque"}
  BY DEF LeafType
<1>2. CASE leaf.kind = "opaque"
  BY <1>1, <1>2 DEF ValuesOf, LeafValues
<1> QED BY <1>1, <1>2, TruthValue, PointerValue, CompareValue, BelowValue, PointersValue

-----------------------------------------------------------------------------
(* The fact of a leaf is true where the leaf is *)

Typed(F) ==
    /\ \A s \in F.stmts : StatementType(s)
    /\ \A c \in F.conds : ConditionType(c)

\* The fact, if any, is true exactly where raw is.
Mirrors(F, o, e, raw) == Option(F, o) /\ \A f \in o : KeyHolds(e, f.key) <=> (f.value <=> raw)

\* The fact of a leaf is true exactly where the leaf is.
LEMMA LeafFactOption ==
    ASSUME NEW F, Typed(F), NEW leaf, LeafType(leaf)
    PROVE  /\ Option(F, leafFact(Keying(F), leaf))
           /\ \A e, v : EnvType(e) /\ Plainly(leaf, e) /\ v \in ValuesOf(leaf, e) =>
                 Mirrors(F, leafFact(Keying(F), leaf), e, v # leaf.neg)
<1> DEFINE k == Keying(F)
           o == leafFact(k, leaf)
           Goal == /\ Option(F, o)
                   /\ \A e, v : EnvType(e) /\ Plainly(leaf, e) /\ v \in ValuesOf(leaf, e) =>
                         Mirrors(F, o, e, v # leaf.neg)
<1> SUFFICES Goal
  OBVIOUS
<1>0. /\ leaf.neg \in BOOLEAN
      /\ k.unkeyable = collectUnkeyableDecls(F) /\ k.ptrFacts = collectPtrFactDecls(F)
      /\ k.bases = collectMemberFactBases(F)
  BY DEF LeafType, Keying
<1>1. CASE o = {}
  BY <1>1 DEF Goal, Option, Mirrors
<1>2. CASE leaf.kind = "truth" /\ o # {}
  <2>1. /\ leaf.place \in Place
        /\ stableDeclRef(k, leaf.place) \/ memberFactRef(k, leaf.place)
        /\ o = {Fact(leaf.place, "EQ", 0, FALSE)}
    BY <1>2 DEF LeafType, leafFact
  <2> DEFINE f == Fact(leaf.place, "EQ", 0, FALSE)
  <2> HIDE DEF k, o
  <2>2. /\ Var(leaf.place) \/ leaf.place.var \in collectMemberFactBases(F)
        /\ KeyedIn(F, leaf.place.var)
    BY <1>0, <2>1, BasesAreKeyed DEF stableDeclRef, memberFactRef, KeyedIn, Typed
  <2>3. FactAbout(F, f, leaf.place, "EQ", 0, FALSE)
    <3>1. "EQ" \in {"EQ", "LT", "LE"} /\ 0 \in Int /\ FALSE \in BOOLEAN
      OBVIOUS
    <3> QED BY ONLY <2>1, <2>2, <3>1, PlaceKey
  <2> HIDE DEF f
  <2>4. o = {f}
    BY <2>1 DEF f
  <2>5. Option(F, o)
    BY <2>2, <2>3, <2>4 DEF Option, FactAbout
  <2>6. ASSUME NEW e, NEW v \in ValuesOf(leaf, e)
        PROVE  KeyHolds(e, f.key) <=> (f.value <=> (v # leaf.neg))
    <3>1. (v # leaf.neg) <=> e.int[leaf.place] # 0
      BY <1>0, <1>2, TruthValue
    <3>2. KeyHolds(e, f.key) = (e.int[leaf.place] = 0) /\ f.value = FALSE
      BY <2>3 DEF FactAbout, Holds
    <3> QED BY <3>1, <3>2
  <2> QED BY <2>4, <2>5, <2>6 DEF Goal, Mirrors
<1>3. CASE leaf.kind = "compare" /\ o # {} /\ stableDeclRef(k, leaf.place)
  <2>1. /\ leaf.place \in Place /\ leaf.op \in Relation /\ leaf.left \in BOOLEAN
        /\ o = normalizeCompare(leaf.place, leaf.op, intLiteralValue(leaf.lit), leaf.left)
    <3>1. leaf.place \in Place /\ leaf.op \in Relation /\ leaf.left \in BOOLEAN
      BY <1>3 DEF LeafType
    <3>2. leaf.plain
      BY <1>3 DEF leafFact, stableDeclRef, memberFactRef
    <3>3. o = normalizeCompare(leaf.place, leaf.op, intLiteralValue(leaf.lit), leaf.left)
      BY <1>3, <3>2 DEF leafFact, stableDeclRef, memberFactRef
    <3> QED BY <3>1, <3>3
  <2>2. intLiteralValue(leaf.lit) \in Int
    BY <1>3, ModulusAssumption DEF LeafType, intLiteralValue, ToSigned
  <2> HIDE DEF k, o
  <2>3. Var(leaf.place) /\ KeyedIn(F, leaf.place.var)
    BY <1>0, <1>3 DEF stableDeclRef, KeyedIn
  <2> DEFINE lit == intLiteralValue(leaf.lit)
             held(e) == Holds(IF leaf.left THEN leaf.op ELSE mirror(leaf.op), e.int[leaf.place], lit)
  <2>4. /\ Option(F, o)
        /\ \A e, f : EnvType(e) /\ f \in o => (KeyHolds(e, f.key) <=> (f.value <=> held(e)))
    <3> HIDE DEF lit
    <3>1. lit \in Int /\ o = normalizeCompare(leaf.place, leaf.op, lit, leaf.left)
      BY <2>1, <2>2 DEF lit
    <3> QED BY <2>1, <2>3, <3>1, CompareFactSound
  <2>5. \A e, v : EnvType(e) /\ Plainly(leaf, e) /\ v \in ValuesOf(leaf, e) => ((v # leaf.neg) <=> held(e))
    BY <1>3, CompareValue
  <2> HIDE DEF held
  <2> QED BY <2>4, <2>5 DEF Goal, Mirrors
<1>4. CASE leaf.kind = "compare" /\ o # {} /\ ~stableDeclRef(k, leaf.place)
  <2>1. /\ leaf.place \in Place /\ leaf.op \in {"EQ", "NE"} /\ memberFactRef(k, leaf.place)
        /\ o = {Fact(leaf.place, "EQ", intLiteralValue(leaf.lit), leaf.op = "EQ")}
    BY <1>4 DEF LeafType, leafFact, stableDeclRef, memberFactRef
  <2> DEFINE f == Fact(leaf.place, "EQ", intLiteralValue(leaf.lit), leaf.op = "EQ")
             lit == intLiteralValue(leaf.lit)
             value == leaf.op = "EQ"
  <2>2. lit \in Int
    BY <1>4, ModulusAssumption DEF LeafType, intLiteralValue, ToSigned
  <2> HIDE DEF k, o
  <2>3. leaf.place.var \in collectMemberFactBases(F) /\ KeyedIn(F, leaf.place.var)
    BY <1>0, <2>1, BasesAreKeyed DEF memberFactRef, Typed
  <2>4. FactAbout(F, f, leaf.place, "EQ", lit, value)
    <3> HIDE DEF lit
    <3>1. value \in BOOLEAN
      OBVIOUS
    <3>2. f = Fact(leaf.place, "EQ", lit, value)
      BY DEF lit
    <3> HIDE DEF value, f
    <3> QED BY <2>1, <2>2, <2>3, <3>1, <3>2, PlaceKey
  <2> HIDE DEF f, lit
  <2>5. o = {f}
    BY <2>1 DEF f
  <2>6. Option(F, o)
    BY <2>3, <2>4, <2>5 DEF Option, FactAbout
  <2>7. ASSUME NEW e, EnvType(e), Plainly(leaf, e), NEW v \in ValuesOf(leaf, e)
        PROVE  KeyHolds(e, f.key) <=> (f.value <=> (v # leaf.neg))
    <3>1. (v # leaf.neg) <=> Holds(IF leaf.left THEN leaf.op ELSE mirror(leaf.op), e.int[leaf.place], lit)
      BY <1>4, <2>7, CompareValue DEF lit
    <3>2. (IF leaf.left THEN leaf.op ELSE mirror(leaf.op)) = leaf.op
      BY <2>1 DEF mirror
    <3>3. (v # leaf.neg) <=> Holds(leaf.op, e.int[leaf.place], lit)
      BY <3>1, <3>2
    <3>4. KeyHolds(e, f.key) = (e.int[leaf.place] = lit) /\ f.value = (leaf.op = "EQ")
      BY <2>4 DEF FactAbout, Holds
    <3>5. CASE leaf.op = "EQ"
      BY <3>3, <3>4, <3>5 DEF Holds
    <3>6. CASE leaf.op = "NE"
      BY <3>3, <3>4, <3>6 DEF Holds
    <3> QED BY <2>1, <3>5, <3>6
  <2> QED BY <2>5, <2>6, <2>7 DEF Goal, Mirrors
<1>5. CASE leaf.kind = "pointer" /\ o # {}
  <2>1. /\ leaf.ptr \in PtrVar /\ leaf.op \in {"EQ", "NE"} /\ ptrDeclRef(k, leaf.ptr)
        /\ o = {Fact(PtrPlace(leaf.ptr), "EQ", 0, leaf.op = "EQ")}
    BY <1>5 DEF LeafType, leafFact
  <2> DEFINE f == Fact(PtrPlace(leaf.ptr), "EQ", 0, leaf.op = "EQ")
             value == leaf.op = "EQ"
  <2> HIDE DEF k, o
  <2>2. leaf.ptr \in PtrVar \cap collectPtrFactDecls(F) /\ KeyedIn(F, leaf.ptr)
    BY <1>0, <2>1 DEF ptrDeclRef, KeyedIn
  <2>3. FactOfPointer(F, f, leaf.ptr, value)
    <3>1. value \in BOOLEAN
      OBVIOUS
    <3>2. f = Fact(PtrPlace(leaf.ptr), "EQ", 0, value)
      OBVIOUS
    <3> HIDE DEF value, f
    <3> QED BY <2>2, <3>1, <3>2, PointerKey
  <2> HIDE DEF f
  <2>4. o = {f}
    BY <2>1 DEF f
  <2>5. Option(F, o)
    BY <2>2, <2>3, <2>4 DEF Option, FactOfPointer
  <2>6. ASSUME NEW e, NEW v \in ValuesOf(leaf, e)
        PROVE  KeyHolds(e, f.key) <=> (f.value <=> (v # leaf.neg))
    <3>1. (v # leaf.neg) <=> ((leaf.op = "EQ") <=> IsNull(e.ptr[leaf.ptr]))
      BY <1>0, <1>5, PointerValue
    <3>2. KeyHolds(e, f.key) = IsNull(e.ptr[leaf.ptr]) /\ f.value = (leaf.op = "EQ")
      BY <2>3 DEF FactOfPointer
    <3> QED BY <3>1, <3>2
  <2> QED BY <2>4, <2>5, <2>6 DEF Goal, Mirrors
<1>6. leaf.kind \notin {"truth", "compare", "pointer"} => o = {}
  BY DEF leafFact
<1> HIDE DEF Goal, o
<1> QED BY <1>1, <1>2, <1>3, <1>4, <1>5, <1>6

-----------------------------------------------------------------------------
(* What an instance of PathFacts calls by another name *)

LEMMA SameFacts ==
    /\ \A facts, key, wanted : D!factsContradict(facts, key, wanted) = factsContradict(facts, key, wanted)
    /\ \A facts, f : D!Record(facts, f) = Record(facts, f)
    /\ \A facts : D!Flip(facts) = Flip(facts)
    /\ \A p, rel, lit, value : D!Fact(p, rel, lit, value) = Fact(p, rel, lit, value)
    /\ \A lit : D!intLiteralValue(lit) = intLiteralValue(lit)
<1>1. \A facts, key, wanted : D!factsContradict(facts, key, wanted) = factsContradict(facts, key, wanted)
  BY DEF D!factsContradict, factsContradict, D!Entails, Entails
<1>2. \A facts, f : D!Record(facts, f) = Record(facts, f)
  BY DEF D!Record, Record
<1>3. \A facts : D!Flip(facts) = Flip(facts)
  BY DEF D!Flip, Flip
<1>4. \A p, rel, lit, value : D!Fact(p, rel, lit, value) = Fact(p, rel, lit, value)
  BY DEF D!Fact, Fact
<1>5. \A lit : D!intLiteralValue(lit) = intLiteralValue(lit)
  BY DEF D!intLiteralValue, intLiteralValue, D!ToSigned, ToSigned, D!Modulus, Modulus
<1> QED BY <1>1, <1>2, <1>3, <1>4, <1>5

LEMMA SameReferences ==
    /\ \A k, p : D!stableDeclRef(k, p) = stableDeclRef(k, p)
    /\ \A k, p : D!memberFactRef(k, p) = memberFactRef(k, p)
    /\ \A k, q : D!ptrDeclRef(k, q) = ptrDeclRef(k, q)
    /\ \A q : D!PtrPlace(q) = PtrPlace(q)
    /\ \A op : D!mirror(op) = mirror(op)
BY DEF D!stableDeclRef, stableDeclRef, D!memberFactRef, memberFactRef, D!ptrDeclRef, ptrDeclRef,
       D!PtrPlace, PtrPlace, D!Var, Var, D!mirror, mirror

LEMMA SameCompare ==
    \A p, op, lit, left : D!normalizeCompare(p, op, lit, left) = normalizeCompare(p, op, lit, left)
BY DEF D!normalizeCompare, normalizeCompare, D!Fact, Fact, D!mirror, mirror

LEMMA SameConditions ==
    /\ \A k, leaf : D!conditionFact(k, leaf) = conditionFact(k, leaf)
    /\ \A k, leaf : D!unsignedStrictUpperBoundNonzero(k, leaf) = unsignedStrictUpperBoundNonzero(k, leaf)
<1>1. \A k, leaf : D!leafFact(k, leaf) = leafFact(k, leaf)
  BY SameReferences, SameFacts, SameCompare DEF D!leafFact, leafFact
<1>2. \A k, leaf : D!unsignedStrictUpperBoundNonzero(k, leaf) = unsignedStrictUpperBoundNonzero(k, leaf)
  BY SameReferences, SameFacts DEF D!unsignedStrictUpperBoundNonzero, unsignedStrictUpperBoundNonzero
<1> QED BY <1>1, <1>2, SameFacts DEF D!conditionFact, conditionFact

-----------------------------------------------------------------------------
(* What a leaf that has a value proves *)

\* The fact of a negated leaf.
LEMMA FlipMirrors ==
    ASSUME NEW F, NEW o, Option(F, o)
    PROVE  /\ Option(F, Flip(o))
           /\ \A e, raw : raw \in BOOLEAN /\ Mirrors(F, o, e, raw) => Mirrors(F, Flip(o), e, ~raw)
<1>1. CASE o = {}
  BY <1>1 DEF Option, Flip, Mirrors
<1>2. CASE o # {}
  <2>1. PICK f : o = {f}
    BY <1>2 DEF Option
  <2>2. f = [key |-> f.key, value |-> f.value] /\ f.key \in Key(F) /\ f.value \in BOOLEAN /\ KeyedIn(F, f.key.var)
    BY <2>1 DEF Option
  <2> DEFINE g == [f EXCEPT !.value = ~@]
  <2>3. g = [key |-> f.key, value |-> ~f.value] /\ g.key = f.key /\ g.value = ~f.value
    BY <2>2
  <2>4. Flip(o) = {g}
    BY <2>1 DEF Flip
  <2> HIDE DEF g
  <2>5. Option(F, Flip(o))
    BY <2>2, <2>3, <2>4 DEF Option
  <2>6. ASSUME NEW e, NEW raw \in BOOLEAN, Mirrors(F, o, e, raw)
        PROVE  Mirrors(F, Flip(o), e, ~raw)
    <3>1. KeyHolds(e, f.key) <=> (f.value <=> raw)
      BY <2>1, <2>6 DEF Mirrors
    <3>2. KeyHolds(e, g.key) <=> (g.value <=> ~raw)
      BY <2>2, <2>3, <3>1
    <3> QED BY <2>4, <2>5, <3>2 DEF Mirrors
  <2> QED BY <2>5, <2>6
<1> QED BY <1>1, <1>2

\* The fact recorded on an edge is true on it.
LEMMA ConditionFactTrue ==
    ASSUME NEW F, Typed(F), NEW leaf, LeafType(leaf), NEW value \in BOOLEAN
    PROVE  /\ Option(F, D!Valued(conditionFact(Keying(F), leaf), value))
           /\ \A e : EnvType(e) /\ Plainly(leaf, e) /\ value \in ValuesOf(leaf, e) =>
                 TrueOf(D!Valued(conditionFact(Keying(F), leaf), value), e)
<1> DEFINE raw == (value # leaf.neg)
           o == leafFact(Keying(F), leaf)
           fact == conditionFact(Keying(F), leaf)
<1>0. leaf.neg \in BOOLEAN
  BY DEF LeafType
<1>1. Option(F, o)
  BY LeafFactOption
<1>2. \A e : EnvType(e) /\ Plainly(leaf, e) /\ value \in ValuesOf(leaf, e) => Mirrors(F, o, e, raw)
  BY LeafFactOption
<1>3. fact = IF leaf.neg THEN Flip(o) ELSE o
  BY DEF conditionFact
<1> HIDE DEF o, fact
<1>4. Option(F, fact)
  BY <1>0, <1>1, <1>3, FlipMirrors
<1>5. ASSUME NEW e, EnvType(e), Plainly(leaf, e), value \in ValuesOf(leaf, e)
      PROVE  Mirrors(F, fact, e, value)
  <2>1. Mirrors(F, o, e, raw) /\ raw \in BOOLEAN
    BY <1>2, <1>5
  <2>2. CASE leaf.neg
    <3>1. Mirrors(F, Flip(o), e, ~raw)
      BY <1>1, <2>1, FlipMirrors
    <3>2. (~raw) = value
      BY <2>2
    <3> QED BY <1>3, <2>2, <3>1, <3>2
  <2>3. CASE ~leaf.neg
    <3>1. raw = value
      BY <1>0, <2>3
    <3> QED BY <1>3, <2>1, <2>3, <3>1
  <2> QED BY <1>0, <2>2, <2>3
<1>6. CASE value = TRUE
  <2>1. D!Valued(fact, value) = fact
    BY <1>6 DEF D!Valued
  <2>2. \A e : Mirrors(F, fact, e, TRUE) => TrueOf(fact, e)
    <3> TAKE e
    <3> HAVE Mirrors(F, fact, e, TRUE)
    <3>1. \A f \in fact : /\ KeyHolds(e, f.key) <=> (f.value <=> TRUE)
                          /\ f.value \in BOOLEAN /\ f.key \in Key(F)
      BY DEF Mirrors, Option
    <3>2. \A f \in fact : KeyHolds(e, f.key) \in BOOLEAN
      BY <3>1, KeyHoldsBoolean, KeyShape
    <3>3. \A f \in fact : KeyHolds(e, f.key) = f.value
      BY <3>1, <3>2
    <3> QED BY <3>3 DEF TrueOf
  <2> QED BY <1>4, <1>5, <1>6, <2>1, <2>2 DEF fact
<1>7. CASE value = FALSE
  <2>1. D!Valued(fact, value) = Flip(fact)
    BY <1>7, SameFacts DEF D!Valued
  <2>2. \A e : Mirrors(F, Flip(fact), e, TRUE) => TrueOf(Flip(fact), e)
    <3> TAKE e
    <3> HAVE Mirrors(F, Flip(fact), e, TRUE)
    <3>1. \A f \in Flip(fact) : /\ KeyHolds(e, f.key) <=> (f.value <=> TRUE)
                                /\ f.value \in BOOLEAN /\ f.key \in Key(F)
      BY DEF Mirrors, Option
    <3>2. \A f \in Flip(fact) : KeyHolds(e, f.key) \in BOOLEAN
      BY <3>1, KeyHoldsBoolean, KeyShape
    <3>3. \A f \in Flip(fact) : KeyHolds(e, f.key) = f.value
      BY <3>1, <3>2
    <3> QED BY <3>3 DEF TrueOf
  <2>3. Option(F, Flip(fact))
    BY <1>4, FlipMirrors
  <2>4. \A e : Mirrors(F, fact, e, FALSE) => Mirrors(F, Flip(fact), e, TRUE)
    <3> TAKE e
    <3> HAVE Mirrors(F, fact, e, FALSE)
    <3>1. Mirrors(F, Flip(fact), e, ~FALSE)
      BY <1>4, FlipMirrors
    <3> QED BY <3>1
  <2> QED BY <1>5, <1>7, <2>1, <2>2, <2>3, <2>4 DEF fact
<1> QED BY <1>6, <1>7

\* A variable above another without sign is not zero.
LEMMA NonzeroFact ==
    ASSUME NEW F, NEW p \in Place, Var(p), KeyedIn(F, p.var)
    PROVE  /\ Option(F, {Fact(p, "EQ", 0, FALSE)})
           /\ \A e : e.int[p] # 0 => TrueOf({Fact(p, "EQ", 0, FALSE)}, e)
<1> DEFINE f == Fact(p, "EQ", 0, FALSE)
<1>1. FactAbout(F, f, p, "EQ", 0, FALSE)
  <2>1. "EQ" \in {"EQ", "LT", "LE"} /\ 0 \in Int /\ FALSE \in BOOLEAN
    OBVIOUS
  <2> QED BY <2>1, PlaceKey
<1> HIDE DEF f
<1>2. \A e : KeyHolds(e, f.key) = (e.int[p] = 0) /\ f.value = FALSE
  BY <1>1 DEF FactAbout, Holds
<1>3. Option(F, {f})
  BY <1>1 DEF Option, FactAbout
<1>4. \A e : e.int[p] # 0 => TrueOf({f}, e)
  BY <1>2 DEF TrueOf
<1> QED BY <1>3, <1>4 DEF f

\* X < n with both unsigned, when true, proves n # 0.
LEMMA BoundTrue ==
    ASSUME NEW F, NEW leaf, LeafType(leaf)
    PROVE  /\ Option(F, unsignedStrictUpperBoundNonzero(Keying(F), leaf))
           /\ \A e, v : EnvType(e) /\ v \in ValuesOf(leaf, e) /\ (v # leaf.neg) =>
                 TrueOf(unsignedStrictUpperBoundNonzero(Keying(F), leaf), e)
<1> DEFINE k == Keying(F)
           o == unsignedStrictUpperBoundNonzero(k, leaf)
           Bounds(p) == \A e, v : EnvType(e) /\ v \in ValuesOf(leaf, e) /\ (v # leaf.neg) => e.int[p] # 0
           Goal == /\ Option(F, o)
                   /\ \A e, v : EnvType(e) /\ v \in ValuesOf(leaf, e) /\ (v # leaf.neg) => TrueOf(o, e)
<1> SUFFICES Goal
  OBVIOUS
<1>0. /\ leaf.neg \in BOOLEAN
      /\ k.unkeyable = collectUnkeyableDecls(F)
      /\ \A p : stableDeclRef(k, p) => Var(p) /\ KeyedIn(F, p.var)
  BY DEF LeafType, Keying, stableDeclRef, KeyedIn
<1>1. CASE leaf.kind = "below" /\ stableDeclRef(k, leaf.upper)
  <2>1. o = {Fact(leaf.upper, "EQ", 0, FALSE)} /\ leaf.upper \in Place /\ leaf.lower \in Place /\ leaf.lower \in Unsigned
    BY <1>1, PlaceAssumption DEF unsignedStrictUpperBoundNonzero, LeafType
  <2>2. Bounds(leaf.upper)
    <3> SUFFICES ASSUME NEW e, NEW v, EnvType(e), v \in ValuesOf(leaf, e), v # leaf.neg
                 PROVE  e.int[leaf.upper] # 0
      OBVIOUS
    <3>1. e.int[leaf.lower] < e.int[leaf.upper]
      BY <1>0, <1>1, BelowValue
    <3>2. e.int[leaf.lower] \in Int /\ e.int[leaf.lower] >= 0 /\ e.int[leaf.upper] \in Int
      BY <2>1 DEF EnvType
    <3> QED BY <3>1, <3>2
  <2>3. Var(leaf.upper) /\ KeyedIn(F, leaf.upper.var)
    BY <1>0, <1>1
  <2> HIDE DEF k, o
  <2> QED BY <2>1, <2>2, <2>3, NonzeroFact DEF Goal
<1>2. CASE /\ leaf.kind = "compare" /\ leaf.lit.unsigned
           /\ leaf.place \in Unsigned /\ stableDeclRef(k, leaf.place)
           /\ "GT" = IF leaf.left THEN leaf.op ELSE mirror(leaf.op)
  <2>1. o = {Fact(leaf.place, "EQ", 0, FALSE)} /\ leaf.place \in Place /\ leaf.lit.value \in Int
    BY <1>2, PlaceAssumption DEF unsignedStrictUpperBoundNonzero, LeafType
  <2>2. Bounds(leaf.place)
    <3> SUFFICES ASSUME NEW e, NEW v, EnvType(e), v \in ValuesOf(leaf, e), v # leaf.neg
                 PROVE  e.int[leaf.place] # 0
      OBVIOUS
    <3> DEFINE x == e.int[leaf.place]
    <3>1. x % Modulus > leaf.lit.value % Modulus
      <4> DEFINE greater == x % Modulus > leaf.lit.value % Modulus
      <4>1. ValuesOf(leaf, e) = {greater # leaf.neg}
        BY <1>2 DEF ValuesOf, LeafValues, Compares, Holds
      <4>2. greater \in BOOLEAN
        OBVIOUS
      <4> HIDE DEF greater
      <4>3. greater
        BY <1>0, <4>1, <4>2
      <4> QED BY <4>3 DEF greater
    <3>2. x \in Int
      BY <2>1 DEF EnvType
    <3> HIDE DEF x
    <3>3. x # 0
      BY <2>1, <3>1, <3>2, ModulusAssumption
    <3> QED BY <3>3 DEF x
  <2>3. Var(leaf.place) /\ KeyedIn(F, leaf.place.var)
    BY <1>0, <1>2
  <2> HIDE DEF k, o
  <2> QED BY <2>1, <2>2, <2>3, NonzeroFact DEF Goal
<1>3. CASE o = {}
  BY <1>3 DEF Goal, Option, TrueOf
<1>4. o = {} \/ (leaf.kind = "below" /\ stableDeclRef(k, leaf.upper))
        \/ (/\ leaf.kind = "compare" /\ leaf.lit.unsigned
            /\ leaf.place \in Unsigned /\ stableDeclRef(k, leaf.place)
            /\ "GT" = IF leaf.left THEN leaf.op ELSE mirror(leaf.op))
  BY DEF unsignedStrictUpperBoundNonzero
<1> QED BY <1>1, <1>2, <1>3, <1>4

\* What the walk says of a pointer is true of it.
LEMMA WalkSound ==
    ASSUME NEW leaf, LeafType(leaf), NEW isTrue \in BOOLEAN, NEW n \in walkNullCondition(leaf, isTrue)
    PROVE  /\ n.var \in PtrVar /\ n.null \in BOOLEAN
           /\ \A e : isTrue \in ValuesOf(leaf, e) => n.null = IsNull(e.ptr[n.var])
<1> DEFINE edge == isTrue # leaf.neg
<1>0. leaf.neg \in BOOLEAN
  BY DEF LeafType
<1>1. CASE leaf.kind = "pointer"
  <2> DEFINE eq == leaf.op = "EQ"
  <2>1. n = [var |-> leaf.ptr, null |-> eq = edge] /\ leaf.ptr \in PtrVar
    BY <1>1 DEF walkNullCondition, LeafType
  <2>2. eq \in BOOLEAN /\ edge \in BOOLEAN
    OBVIOUS
  <2>3. ASSUME NEW e, isTrue \in ValuesOf(leaf, e)
        PROVE  n.null = IsNull(e.ptr[n.var])
    <3> DEFINE nil == IsNull(e.ptr[leaf.ptr])
    <3>1. edge <=> (eq <=> nil)
      BY <1>0, <1>1, <2>3, PointerValue
    <3>2. nil \in BOOLEAN
      BY DEF IsNull
    <3>3. n.null = (eq = edge) /\ n.var = leaf.ptr
      BY <2>1
    <3> HIDE DEF eq, edge, nil
    <3>4. n.null = nil
      BY <2>2, <3>1, <3>2, <3>3
    <3> QED BY <3>3, <3>4 DEF nil
  <2> QED BY <2>1, <2>2, <2>3
<1>2. CASE leaf.kind = "pointers"
  <2>1. n.var \in leaf.ptrs /\ n.null = FALSE /\ leaf.ptrs \subseteq PtrVar
    BY <1>2 DEF walkNullCondition, LeafType
  <2>2. \A e : isTrue \in ValuesOf(leaf, e) => ~IsNull(e.ptr[n.var])
    BY <1>0, <1>2, <2>1, PointersValue
  <2>3. \A e : IsNull(e.ptr[n.var]) \in BOOLEAN
    BY DEF IsNull
  <2> QED BY <2>1, <2>2, <2>3
<1>3. leaf.kind \in {"pointer", "pointers"}
  BY DEF walkNullCondition
<1> QED BY <1>1, <1>2, <1>3

-----------------------------------------------------------------------------
(* A leaf on an edge *)

\* At most one disjunct.
Lone(F, S) == S \subseteq Disjunct(F, {}) /\ \A a, b \in S : a = b

FitsIn(F, S, e) == \E d \in S : Fits(F, {}, d, e, e.ptr)

\* A recorded fact is about a variable that is keyed: the others keep what is known of them.
LEMMA RecordType ==
    ASSUME NEW F, NEW facts \in FactsType(F), NEW f \in [key : Key(F), value : BOOLEAN], KeyedIn(F, f.key.var)
    PROVE  /\ Record(facts, f) \in FactsType(F)
           /\ \A val \in Val(F) : Asleep(F, facts, val, {}) => Asleep(F, Record(facts, f), val, {})
           /\ \A e : FactsHold(F, facts, e) /\ KeyHolds(e, f.key) = f.value => FactsHold(F, Record(facts, f), e)
<1>1. Record(facts, f) \in FactsType(F)
  BY DEF Record, FactsType
<1>2. ASSUME NEW val \in Val(F), Asleep(F, facts, val, {})
      PROVE  Asleep(F, Record(facts, f), val, {})
  <2> SUFFICES ASSUME NEW i \in val.impl, ~KeyedIn(F, i.key.var)
               PROVE  ~factsContradict(Record(facts, f), i.key, ~i.value)
    BY DEF Asleep
  <2>1. ~factsContradict(facts, i.key, ~i.value)
    BY <1>2 DEF Asleep
  <2>2. f.key.var # i.key.var
    OBVIOUS
  <2>3. \A g : g.key.var = i.key.var => (g \in Record(facts, f) <=> g \in facts)
    BY <2>2 DEF Record
  <2> QED BY <2>1, <2>3 DEF factsContradict
<1>3. ASSUME NEW e, FactsHold(F, facts, e), KeyHolds(e, f.key) = f.value
      PROVE  FactsHold(F, Record(facts, f), e)
  BY <1>3 DEF FactsHold, Record
<1> QED BY <1>1, <1>2, <1>3

\* Disjuncts from their parts.
LEMMA DisjunctMade ==
    ASSUME NEW F, NEW X, NEW facts \in FactsType(F), NEW map \in VarMaps(F),
           \A v \in PtrVar : Asleep(F, facts, map[v], X)
    PROVE  [facts |-> facts, vars |-> map] \in Disjunct(F, X)
BY DEF Disjunct, VarMaps

\* A disjunct that learns a true fact still fits.
LEMMA LearnKeeps ==
    ASSUME NEW F, NEW d \in Disjunct(F, {}), NEW f \in [key : Key(F), value : BOOLEAN], KeyedIn(F, f.key.var)
    PROVE  /\ Lone(F, D!Learn(d, f))
           /\ \A e : Fits(F, {}, d, e, e.ptr) /\ KeyHolds(e, f.key) = f.value => FitsIn(F, D!Learn(d, f), e)
<1> DEFINE x == [facts |-> Record(d.facts, f), vars |-> d.vars]
<1>0. /\ d = [facts |-> d.facts, vars |-> d.vars]
      /\ d.facts \in FactsType(F) /\ d.vars \in VarMaps(F)
      /\ \A v \in PtrVar : d.vars[v] \in Val(F) /\ Asleep(F, d.facts, d.vars[v], {})
  BY DisjunctIs
<1>1. [d EXCEPT !.facts = Record(@, f)] = x
  BY <1>0
<1>2. D!Learn(d, f) = IF factsContradict(d.facts, f.key, f.value) THEN {} ELSE {x}
  BY <1>1, SameFacts DEF D!Learn
<1>3. x \in Disjunct(F, {})
  BY <1>0, RecordType, DisjunctMade
<1>4. x.facts = Record(d.facts, f) /\ x.vars = d.vars
  OBVIOUS
<1> HIDE DEF x
<1>5. ASSUME NEW e, Fits(F, {}, d, e, e.ptr), KeyHolds(e, f.key) = f.value
      PROVE  FitsIn(F, D!Learn(d, f), e)
  <2>1. FactsHold(F, d.facts, e)
    BY <1>5 DEF Fits
  <2>2. ~factsContradict(d.facts, f.key, f.value)
    BY <1>0, <1>5, <2>1, NoContradiction
  <2>3. FactsHold(F, x.facts, e)
    BY <1>0, <1>4, <1>5, <2>1, RecordType
  <2>4. Fits(F, {}, x, e, e.ptr)
    BY <1>4, <1>5, <2>3 DEF Fits
  <2> QED BY <1>2, <2>2, <2>4 DEF FitsIn
<1> QED BY <1>2, <1>3, <1>5 DEF Lone

\* So do all of them with a fact that there may be.
LEMMA LearnOptionKeeps ==
    ASSUME NEW F, NEW S, Lone(F, S), NEW o, Option(F, o)
    PROVE  /\ Lone(F, D!LearnOption(S, o))
           /\ \A e : FitsIn(F, S, e) /\ TrueOf(o, e) => FitsIn(F, D!LearnOption(S, o), e)
<1>1. CASE o = {}
  BY <1>1 DEF D!LearnOption
<1>2. CASE S = {} /\ o # {}
  BY <1>2 DEF D!LearnOption, Lone, FitsIn
<1>3. CASE S # {} /\ o # {}
  <2>1. PICK f : o = {f} /\ f \in [key : Key(F), value : BOOLEAN] /\ KeyedIn(F, f.key.var)
    BY <1>3 DEF Option
  <2>2. PICK d : S = {d} /\ d \in Disjunct(F, {})
    BY <1>3 DEF Lone
  <2>3. D!LearnOption(S, o) = D!Learn(d, f)
    BY <2>1, <2>2 DEF D!LearnOption
  <2>4. \A e : TrueOf(o, e) => KeyHolds(e, f.key) = f.value
    BY <2>1 DEF TrueOf
  <2>5. \A e : FitsIn(F, S, e) => Fits(F, {}, d, e, e.ptr)
    BY <2>2 DEF FitsIn
  <2> QED BY <2>1, <2>2, <2>3, <2>4, <2>5, LearnKeeps
<1> QED BY <1>1, <1>2, <1>3

\* What a leaf proves of the pointers, and the promises it wakes.
LEMMA RefineKeeps ==
    ASSUME NEW F, NEW d \in Disjunct(F, {}), NEW leaf, LeafType(leaf), NEW isTrue \in BOOLEAN
    PROVE  /\ refineByLeaf(d, leaf, isTrue) \in Disjunct(F, {})
           /\ \A e : isTrue \in ValuesOf(leaf, e) /\ Fits(F, {}, d, e, e.ptr) =>
                 Fits(F, {}, refineByLeaf(d, leaf, isTrue), e, e.ptr)
<1> DEFINE told == applyConditionTo(d.vars, leaf, isTrue)
           woken == [v \in PtrVar |-> activate(d.facts, told[v])]
           x == [facts |-> d.facts, vars |-> woken]
<1>0. /\ d = [facts |-> d.facts, vars |-> d.vars]
      /\ d.facts \in FactsType(F) /\ d.vars \in VarMaps(F)
      /\ \A v \in PtrVar : d.vars[v] \in Val(F) /\ Asleep(F, d.facts, d.vars[v], {})
  BY DisjunctIs
<1>1. DOMAIN d.vars = PtrVar
  BY <1>0 DEF VarMaps
<1>2. DOMAIN told = PtrVar
  BY <1>1 DEF applyConditionTo
<1>3. refineByLeaf(d, leaf, isTrue) = x
  BY <1>0, <1>2 DEF refineByLeaf
<1>4. ASSUME NEW v \in PtrVar
      PROVE  /\ told[v] \in Val(F) /\ Asleep(F, d.facts, told[v], {})
             /\ \A e : isTrue \in ValuesOf(leaf, e) /\ Promised(F, {}, d.vars[v], e, e.ptr[v]) =>
                   Promised(F, {}, told[v], e, e.ptr[v])
  <2> DEFINE said == walkNullCondition(leaf, isTrue)
  <2>1. CASE \E n \in said : n.var = v
    <3> DEFINE n == CHOOSE m \in said : m.var = v
               st == IF n.null THEN "Null" ELSE "NonNull"
    <3>1. n \in said /\ n.var = v
      BY <2>1
    <3>2. told[v] = Plain(st)
      BY <1>1, <2>1 DEF applyConditionTo, applyCondition
    <3>3. n.null \in BOOLEAN /\ \A e : isTrue \in ValuesOf(leaf, e) => n.null = IsNull(e.ptr[v])
      BY <3>1, WalkSound
    <3> HIDE DEF n
    <3>4. told[v].st = st /\ told[v].impl = {} /\ told[v] \in Val(F)
      BY <3>2 DEF Plain, Val, NullState
    <3> HIDE DEF told
    <3>5. Asleep(F, d.facts, told[v], {})
      BY <3>4 DEF Asleep
    <3>6. ASSUME NEW e, isTrue \in ValuesOf(leaf, e), Promised(F, {}, d.vars[v], e, e.ptr[v])
          PROVE  Promised(F, {}, told[v], e, e.ptr[v])
      <4>1. e.ptr[v] \in Pointer
        <5>1. d.vars[v].st \in NullState /\ e.ptr[v] \in Meaning(d.vars[v].st)
          BY <1>0, <3>6 DEF Promised, Val
        <5> QED BY <5>1 DEF NullState, Meaning, Pointer
      <4>2. e.ptr[v] \in Meaning(st)
        BY <3>3, <3>6, <4>1 DEF IsNull, Meaning, Pointer
      <4> QED BY <3>4, <4>2 DEF Promised
    <3> QED BY <3>4, <3>5, <3>6
  <2>2. CASE ~ \E n \in said : n.var = v
    <3>1. told[v] = d.vars[v]
      BY <1>1, <2>2 DEF applyConditionTo
    <3> HIDE DEF told
    <3> QED BY <1>0, <3>1
  <2> QED BY <2>1, <2>2
<1> HIDE DEF told
<1>5. ASSUME NEW val \in Val(F), Asleep(F, d.facts, val, {})
      PROVE  /\ activate(d.facts, val) \in Val(F) /\ Asleep(F, d.facts, activate(d.facts, val), {})
             /\ \A e, p : FactsHold(F, d.facts, e) /\ Promised(F, {}, val, e, p) =>
                   Promised(F, {}, activate(d.facts, val), e, p)
  <2> DEFINE i == CHOOSE j \in val.impl : TRUE
             y == [st |-> i.cond, impl |-> val.impl]
  <2>1. val = [st |-> val.st, impl |-> val.impl] /\ val.impl \subseteq ImplType(F)
    BY DEF Val
  <2>2. CASE activate(d.facts, val) = val
    BY <1>5, <2>2
  <2>3. CASE activate(d.facts, val) # val
    <3>1. \E j \in val.impl : factsContradict(d.facts, j.key, ~j.value)
      BY <2>3 DEF activate
    <3>2. i \in val.impl /\ factsContradict(d.facts, i.key, ~i.value)
      BY <3>1 DEF Val
    <3>3. activate(d.facts, val) = [val EXCEPT !.st = i.cond]
      BY <2>3 DEF activate
    <3>4. [val EXCEPT !.st = i.cond] = y
      BY <2>1
    <3> HIDE DEF i
    <3>5. i.key \in Key(F) /\ i.value \in BOOLEAN /\ i.cond \in {"NonNull", "Unknown"}
      BY <2>1, <3>2 DEF ImplType
    <3>6. y.st = i.cond /\ y.impl = val.impl /\ y \in Val(F)
      BY <3>5 DEF Val, NullState
    <3> HIDE DEF y
    <3>7. Asleep(F, d.facts, y, {})
      BY <1>5, <3>6 DEF Asleep
    <3>8. KeyedIn(F, i.key.var)
      BY <1>5, <3>2 DEF Asleep
    <3>9. ASSUME NEW e, NEW p, FactsHold(F, d.facts, e), Promised(F, {}, val, e, p)
          PROVE  Promised(F, {}, y, e, p)
      <4>1. ~factsContradict(d.facts, i.key, KeyHolds(e, i.key))
        BY <1>0, <3>5, <3>8, <3>9, NoContradiction
      <4>2. KeyHolds(e, i.key) \in BOOLEAN
        BY <3>5, KeyShape, KeyHoldsBoolean
      <4>3. KeyHolds(e, i.key) = i.value
        BY <3>2, <3>5, <4>1, <4>2
      <4>4. p \in Meaning(i.cond)
        BY <3>2, <3>8, <3>9, <4>3 DEF Promised
      <4> QED BY <3>6, <3>9, <4>4 DEF Promised
    <3> QED BY <3>3, <3>4, <3>6, <3>7, <3>9
  <2> QED BY <2>2, <2>3
<1>6. x.facts = d.facts /\ x.vars = woken /\ \A v \in PtrVar : woken[v] = activate(d.facts, told[v])
  OBVIOUS
<1>7. woken \in VarMaps(F) /\ \A v \in PtrVar : Asleep(F, d.facts, woken[v], {})
  BY <1>4, <1>5 DEF VarMaps
<1>8. x \in Disjunct(F, {})
  <2> HIDE DEF woken
  <2> QED BY <1>0, <1>7, DisjunctMade
<1> HIDE DEF woken, x
<1>9. ASSUME NEW e, isTrue \in ValuesOf(leaf, e), Fits(F, {}, d, e, e.ptr)
      PROVE  Fits(F, {}, x, e, e.ptr)
  BY <1>4, <1>5, <1>6, <1>9 DEF Fits
<1> QED BY <1>3, <1>8, <1>9

\* The leaf has this value, and what the rule reads of it is what C computes.
Comes(leaf, e, value) == EnvType(e) /\ Plainly(leaf, e) /\ value \in ValuesOf(leaf, e)

\* A leaf of a conjunction that came out as the edge says (applyFactLeaf).
LEMMA ApplyFactLeafKeeps ==
    ASSUME NEW F, Typed(F), NEW d \in Disjunct(F, {}), NEW leaf, LeafType(leaf), NEW isTrue \in BOOLEAN
    PROVE  /\ Lone(F, D!applyFactLeaf(Keying(F), d, leaf, isTrue))
           /\ \A e : Comes(leaf, e, isTrue) /\ Fits(F, {}, d, e, e.ptr) =>
                 FitsIn(F, D!applyFactLeaf(Keying(F), d, leaf, isTrue), e)
<1> DEFINE k == Keying(F)
           bound == IF isTrue # leaf.neg THEN unsignedStrictUpperBoundNonzero(k, leaf) ELSE {}
           fact == D!Valued(conditionFact(k, leaf), isTrue)
           learnt == D!LearnOption({d}, bound)
<1>1. D!applyFactLeaf(k, d, leaf, isTrue) = D!LearnOption(learnt, fact)
  BY SameConditions DEF D!applyFactLeaf
<1>2. Option(F, bound) /\ \A e : Comes(leaf, e, isTrue) => TrueOf(bound, e)
  <2>1. CASE isTrue # leaf.neg
    BY <2>1, BoundTrue DEF Comes
  <2>2. CASE ~(isTrue # leaf.neg)
    BY <2>2 DEF Option, TrueOf
  <2> QED BY <2>1, <2>2
<1>3. Option(F, fact) /\ \A e : Comes(leaf, e, isTrue) => TrueOf(fact, e)
  BY ConditionFactTrue DEF Comes
<1>4. Lone(F, {d}) /\ \A e : Fits(F, {}, d, e, e.ptr) => FitsIn(F, {d}, e)
  BY DEF Lone, FitsIn
<1> HIDE DEF k, bound, fact
<1>5. Lone(F, learnt) /\ \A e : Comes(leaf, e, isTrue) /\ Fits(F, {}, d, e, e.ptr) => FitsIn(F, learnt, e)
  BY <1>2, <1>4, LearnOptionKeeps
<1> HIDE DEF learnt
<1>6. /\ Lone(F, D!LearnOption(learnt, fact))
      /\ \A e : Comes(leaf, e, isTrue) /\ Fits(F, {}, d, e, e.ptr) => FitsIn(F, D!LearnOption(learnt, fact), e)
  BY <1>3, <1>5, LearnOptionKeeps
<1> QED BY <1>1, <1>6 DEF k

\* A disjunct that fits rules out no value that a leaf really has.
LEMMA NotRefuted ==
    ASSUME NEW F, Typed(F), NEW d \in Disjunct(F, {}), NEW leaf, LeafType(leaf), NEW value \in BOOLEAN,
           NEW e, Comes(leaf, e, value), Fits(F, {}, d, e, e.ptr)
    PROVE  ~contradictsState(d, leaf, value) /\ ~D!refutes(Keying(F), d, leaf, value)
<1>0. /\ d.facts \in FactsType(F) /\ FactsHold(F, d.facts, e)
      /\ \A v \in PtrVar : e.ptr[v] \in Meaning(d.vars[v].st)
  BY DisjunctIs DEF Fits, Promised
<1>1. ~contradictsState(d, leaf, value)
  <2> SUFFICES ASSUME NEW n \in walkNullCondition(leaf, value),
                      d.vars[n.var].st = (IF n.null THEN "NonNull" ELSE "Null")
               PROVE  FALSE
    BY DEF contradictsState
  <2>1. n.var \in PtrVar /\ n.null \in BOOLEAN /\ n.null = IsNull(e.ptr[n.var])
    BY WalkSound DEF Comes
  <2>2. e.ptr[n.var] \in Meaning(d.vars[n.var].st)
    BY <1>0, <2>1
  <2> QED BY <2>1, <2>2 DEF Meaning, IsNull
<1>2. ~D!factsRefute(Keying(F), d, leaf, value)
  <2> DEFINE fact == D!Valued(conditionFact(Keying(F), leaf), value)
  <2>1. Option(F, fact) /\ TrueOf(fact, e)
    BY ConditionFactTrue DEF Comes
  <2>2. D!factsRefute(Keying(F), d, leaf, value) = \E f \in fact : factsContradict(d.facts, f.key, f.value)
    BY SameConditions, SameFacts DEF D!factsRefute
  <2> HIDE DEF fact
  <2>3. \A f \in fact : ~factsContradict(d.facts, f.key, f.value)
    <3> TAKE f \in fact
    <3>1. f.key \in Key(F) /\ KeyedIn(F, f.key.var) /\ KeyHolds(e, f.key) = f.value
      BY <2>1 DEF Option, TrueOf
    <3> QED BY <1>0, <3>1, NoContradiction
  <2> QED BY <2>2, <2>3
<1> QED BY <1>1, <1>2 DEF D!refutes

\* A leaf, with the fact it refutes, activates or pins (refineGuardedFactsOps).
LEMMA ApplyLeafKeeps ==
    ASSUME NEW F, Typed(F), NEW d \in Disjunct(F, {}), NEW leaf, LeafType(leaf), NEW isTrue \in BOOLEAN
    PROVE  /\ Lone(F, D!applyLeaf(Keying(F), d, leaf, isTrue))
           /\ \A e : Comes(leaf, e, isTrue) /\ Fits(F, {}, d, e, e.ptr) =>
                 FitsIn(F, D!applyLeaf(Keying(F), d, leaf, isTrue), e)
<1> DEFINE S == D!applyFactLeaf(Keying(F), d, leaf, isTrue)
           T == D!applyLeaf(Keying(F), d, leaf, isTrue)
<1>1. T = IF contradictsState(d, leaf, isTrue) THEN {} ELSE {refineByLeaf(x, leaf, isTrue) : x \in S}
  BY DEF D!applyLeaf
<1>2. Lone(F, S) /\ \A e : Comes(leaf, e, isTrue) /\ Fits(F, {}, d, e, e.ptr) => FitsIn(F, S, e)
  BY ApplyFactLeafKeeps
<1> HIDE DEF S, T
<1>3. Lone(F, T)
  <2>1. \A x \in T : \E y \in S : x = refineByLeaf(y, leaf, isTrue)
    BY <1>1
  <2>2. \A y \in S : y \in Disjunct(F, {}) /\ refineByLeaf(y, leaf, isTrue) \in Disjunct(F, {})
    BY <1>2, RefineKeeps DEF Lone
  <2> QED BY <1>2, <2>1, <2>2 DEF Lone
<1>4. ASSUME NEW e, Comes(leaf, e, isTrue), Fits(F, {}, d, e, e.ptr)
      PROVE  FitsIn(F, T, e)
  <2>1. PICK x \in S : Fits(F, {}, x, e, e.ptr)
    BY <1>2, <1>4 DEF FitsIn
  <2>2. x \in Disjunct(F, {})
    BY <1>2 DEF Lone
  <2>3. Fits(F, {}, refineByLeaf(x, leaf, isTrue), e, e.ptr)
    BY <1>4, <2>1, <2>2, RefineKeeps DEF Comes
  <2>4. ~contradictsState(d, leaf, isTrue)
    BY <1>4, NotRefuted
  <2>5. refineByLeaf(x, leaf, isTrue) \in T
    BY <1>1, <2>4
  <2> QED BY <2>3, <2>5 DEF FitsIn
<1> QED BY <1>3, <1>4 DEF T

-----------------------------------------------------------------------------
(* A condition on an edge *)

\* A second leaf after a first one.
LEMMA ApplyNextKeeps ==
    ASSUME NEW F, Typed(F), NEW S, Lone(F, S), NEW leaf, LeafType(leaf), NEW isTrue \in BOOLEAN
    PROVE  /\ Lone(F, UNION {D!applyLeaf(Keying(F), x, leaf, isTrue) : x \in S})
           /\ \A e : Comes(leaf, e, isTrue) /\ FitsIn(F, S, e) =>
                 FitsIn(F, UNION {D!applyLeaf(Keying(F), x, leaf, isTrue) : x \in S}, e)
<1> DEFINE T == UNION {D!applyLeaf(Keying(F), x, leaf, isTrue) : x \in S}
<1>1. CASE S = {}
  BY <1>1 DEF Lone, FitsIn
<1>2. CASE S # {}
  <2>1. PICK d : S = {d} /\ d \in Disjunct(F, {})
    BY <1>2 DEF Lone
  <2>2. T = D!applyLeaf(Keying(F), d, leaf, isTrue)
    BY <2>1
  <2>3. \A e : FitsIn(F, S, e) => Fits(F, {}, d, e, e.ptr)
    BY <2>1 DEF FitsIn
  <2>4. /\ Lone(F, T)
        /\ \A e : Comes(leaf, e, isTrue) /\ FitsIn(F, S, e) => FitsIn(F, T, e)
    <3> HIDE DEF T
    <3> QED BY <2>1, <2>2, <2>3, ApplyLeafKeeps
  <2> QED BY <2>4
<1> QED BY <1>1, <1>2

\* What a condition leaves of a disjunct are disjuncts.
LEMMA RefineConditionType ==
    ASSUME NEW F, Typed(F), NEW c, ConditionType(c), NEW d \in Disjunct(F, {}), NEW isTrue \in BOOLEAN
    PROVE  Lone(F, D!refineDisjunctCondition(Keying(F), d, c, isTrue))
<1> DEFINE k == Keying(F)
           value == isTrue # c.neg
           lhsOut == D!refutes(k, d, c.lhs, value)
           rhsOut == D!refutes(k, d, c.rhs, value)
           both == c.join = (IF value THEN "and" ELSE "or")
           left == IF c.join = "leaf" \/ both \/ rhsOut THEN D!applyLeaf(k, d, c.lhs, value) ELSE {d}
           next == UNION {D!applyLeaf(k, x, c.rhs, value) : x \in left}
<1>1. LeafType(c.lhs) /\ (c.join # "leaf" => LeafType(c.rhs)) /\ value \in BOOLEAN
  BY DEF ConditionType, Leaves
<1>2. Lone(F, left)
  <2>1. Lone(F, {d})
    BY DEF Lone
  <2>2. Lone(F, D!applyLeaf(k, d, c.lhs, value))
    BY <1>1, ApplyLeafKeeps
  <2> QED BY <2>1, <2>2
<1> HIDE DEF left
<1>3. c.join # "leaf" => Lone(F, next)
  <2> HIDE DEF value
  <2> QED BY <1>1, <1>2, ApplyNextKeeps
<1>4. Lone(F, {})
  BY DEF Lone
<1>5. D!refineDisjunctCondition(k, d, c, isTrue) \in {{}, left} \/
        (c.join # "leaf" /\ D!refineDisjunctCondition(k, d, c, isTrue) = next)
  BY DEF D!refineDisjunctCondition, left
<1> HIDE DEF next
<1> QED BY <1>2, <1>3, <1>4, <1>5

\* The condition really has this value, read as C does.
Arrives(c, e, isTrue) ==
    EnvType(e) /\ isTrue \in Taken(c, e) /\ \A leaf \in Evaluated(c, e) : Plainly(leaf, e)

\* The values of a condition, by its operands.
LEMMA TakenIs ==
    ASSUME NEW c, ConditionType(c), NEW e, NEW isTrue \in BOOLEAN, isTrue \in Taken(c, e),
           \A leaf \in Evaluated(c, e) : LeafType(leaf) /\ Plainly(leaf, e), EnvType(e)
    PROVE  LET value == isTrue # c.neg
               stop == c.join = "or"
           IN  \/ c.join = "leaf" /\ Comes(c.lhs, e, value)
               \/ c.join # "leaf" /\ value = stop /\ Comes(c.lhs, e, stop)
               \/ c.join # "leaf" /\ Comes(c.lhs, e, ~stop) /\ Comes(c.rhs, e, value)
<1> DEFINE value == isTrue # c.neg
           stop == c.join = "or"
           go == ~stop
           inner == IF c.join = "leaf" THEN ValuesOf(c.lhs, e)
                    ELSE (ValuesOf(c.lhs, e) \cap {stop})
                           \cup (IF go \in ValuesOf(c.lhs, e) THEN ValuesOf(c.rhs, e) ELSE {})
           Goal == \/ c.join = "leaf" /\ Comes(c.lhs, e, value)
                   \/ c.join # "leaf" /\ value = stop /\ Comes(c.lhs, e, stop)
                   \/ c.join # "leaf" /\ Comes(c.lhs, e, go) /\ Comes(c.rhs, e, value)
<1> SUFFICES Goal
  OBVIOUS
<1>0. c.neg \in BOOLEAN /\ c.join \in {"leaf", "and", "or"}
  BY DEF ConditionType
<1>1. Taken(c, e) = {v # c.neg : v \in inner}
  BY DEF Taken, ConditionValues, ValuesOf
<1>2. PICK v \in inner : isTrue = (v # c.neg)
  BY <1>1
<1>3. Plainly(c.lhs, e) /\ LeafType(c.lhs)
  BY <1>0 DEF Evaluated, Leaves
<1> HIDE DEF inner
<1>4. ASSUME v \in BOOLEAN
      PROVE  v = value
  <2>1. isTrue \in BOOLEAN /\ c.neg \in BOOLEAN
    BY <1>0
  <2> QED BY <1>2, <1>4, <2>1
<1>5. CASE c.join = "leaf"
  <2>1. v \in ValuesOf(c.lhs, e)
    BY <1>5 DEF inner
  <2>2. v \in BOOLEAN
    BY <1>3, <2>1, LeafValueBoolean
  <2> HIDE DEF value
  <2> QED BY <1>3, <1>4, <1>5, <2>1, <2>2 DEF Comes
<1>6. CASE c.join # "leaf" /\ v \in ValuesOf(c.lhs, e) /\ v = stop
  <2>1. v \in BOOLEAN
    BY <1>6
  <2> HIDE DEF value, stop, go
  <2> QED BY <1>3, <1>4, <1>6, <2>1 DEF Comes
<1>7. CASE c.join # "leaf" /\ go \in ValuesOf(c.lhs, e) /\ v \in ValuesOf(c.rhs, e)
  <2>2. Evaluated(c, e) = {c.lhs, c.rhs}
    <3> DEFINE and == c.join = "and"
    <3>1. and = go
      BY <1>0, <1>7
    <3>2. Evaluated(c, e) = IF c.join # "leaf" /\ and \in ValuesOf(c.lhs, e) THEN Leaves(c) ELSE {c.lhs}
      BY DEF Evaluated
    <3> HIDE DEF and, go
    <3> QED BY <1>7, <3>1, <3>2 DEF Leaves
  <2>3. Plainly(c.rhs, e) /\ LeafType(c.rhs)
    BY <2>2
  <2>4. v \in BOOLEAN
    BY <1>7, <2>3, LeafValueBoolean
  <2> HIDE DEF value, stop, go
  <2> QED BY <1>3, <1>4, <1>7, <2>3, <2>4 DEF Comes
<1>8. c.join # "leaf" => \/ v \in ValuesOf(c.lhs, e) /\ v = stop
                         \/ go \in ValuesOf(c.lhs, e) /\ v \in ValuesOf(c.rhs, e)
  <2> HIDE DEF stop, go
  <2> QED BY <1>2 DEF inner
<1> QED BY <1>5, <1>6, <1>7, <1>8

\* A disjunct that fits survives the edge that is taken (refineDisjunctCondition).
LEMMA RefineConditionKeeps ==
    ASSUME NEW F, Typed(F), NEW c, ConditionType(c), NEW d \in Disjunct(F, {}), NEW isTrue \in BOOLEAN,
           NEW e, Arrives(c, e, isTrue), Fits(F, {}, d, e, e.ptr)
    PROVE  FitsIn(F, D!refineDisjunctCondition(Keying(F), d, c, isTrue), e)
<1> DEFINE k == Keying(F)
           value == isTrue # c.neg
           stop == c.join = "or"
           lhsOut == D!refutes(k, d, c.lhs, value)
           rhsOut == D!refutes(k, d, c.rhs, value)
           both == c.join = (IF value THEN "and" ELSE "or")
           first == D!applyLeaf(k, d, c.lhs, value)
           left == IF c.join = "leaf" \/ both \/ rhsOut THEN first ELSE {d}
           next == UNION {D!applyLeaf(k, x, c.rhs, value) : x \in left}
           result == D!refineDisjunctCondition(k, d, c, isTrue)
<1> SUFFICES FitsIn(F, result, e)
  OBVIOUS
<1>0. /\ c.join \in {"leaf", "and", "or"} /\ LeafType(c.lhs) /\ (c.join # "leaf" => LeafType(c.rhs))
      /\ value \in BOOLEAN /\ stop \in BOOLEAN
  BY DEF ConditionType, Leaves
<1>1. \/ c.join = "leaf" /\ Comes(c.lhs, e, value)
      \/ c.join # "leaf" /\ value = stop /\ Comes(c.lhs, e, stop)
      \/ c.join # "leaf" /\ Comes(c.lhs, e, ~stop) /\ Comes(c.rhs, e, value)
  <2>1. \A leaf \in Evaluated(c, e) : LeafType(leaf) /\ Plainly(leaf, e)
    BY DEF Arrives, Evaluated, ConditionType, Leaves
  <2> QED BY <2>1, TakenIs DEF Arrives
<1>2. result = IF c.join # "leaf" /\ ~both /\ lhsOut /\ rhsOut THEN {}
               ELSE IF c.join # "leaf" /\ (both \/ lhsOut) THEN next ELSE left
  BY DEF D!refineDisjunctCondition
<1>3. c.join # "leaf" => (both <=> value = ~stop)
  BY <1>0
<1>4. Lone(F, {d}) /\ FitsIn(F, {d}, e)
  BY DEF Lone, FitsIn
<1> HIDE DEF value, stop, both, k
<1>5. Lone(F, first) /\ (Comes(c.lhs, e, value) => FitsIn(F, first, e))
  BY <1>0, ApplyLeafKeeps DEF k
<1>6. ~(Comes(c.lhs, e, value) /\ lhsOut)
  BY <1>0, NotRefuted DEF k
<1>7. c.join # "leaf" => ~(Comes(c.rhs, e, value) /\ rhsOut)
  BY <1>0, NotRefuted DEF k
<1> HIDE DEF lhsOut, rhsOut, first
<1>8. Lone(F, left)
  BY <1>4, <1>5
<1>9. c.join # "leaf" /\ Comes(c.rhs, e, value) /\ FitsIn(F, left, e) => FitsIn(F, next, e)
  <2> HIDE DEF left
  <2>1. ASSUME c.join # "leaf", Comes(c.rhs, e, value), FitsIn(F, left, e)
        PROVE  FitsIn(F, UNION {D!applyLeaf(Keying(F), x, c.rhs, value) : x \in left}, e)
    <3>1. LeafType(c.rhs) /\ value \in BOOLEAN
      BY <1>0, <2>1
    <3>2. \A y : Comes(c.rhs, y, value) /\ FitsIn(F, left, y) =>
             FitsIn(F, UNION {D!applyLeaf(Keying(F), x, c.rhs, value) : x \in left}, y)
      BY <1>8, <3>1, ApplyNextKeeps
    <3> QED BY <2>1, <3>2
  <2> QED BY <2>1 DEF k
<1> HIDE DEF next, result
<1>10. CASE c.join = "leaf"
  BY <1>1, <1>2, <1>5, <1>10
<1>11. CASE c.join # "leaf" /\ value = stop /\ Comes(c.lhs, e, stop)
  BY <1>0, <1>2, <1>3, <1>4, <1>5, <1>6, <1>11
<1>12. CASE c.join # "leaf" /\ Comes(c.lhs, e, ~stop) /\ Comes(c.rhs, e, value)
  <2>1. ~rhsOut
    BY <1>7, <1>12
  <2>2. CASE both
    <3>1. FitsIn(F, left, e)
      BY <1>3, <1>5, <1>12, <2>2
    <3> QED BY <1>2, <1>9, <1>12, <2>2, <3>1
  <2>3. CASE ~both
    <3>1. left = {d}
      BY <1>12, <2>1, <2>3
    <3> QED BY <1>2, <1>4, <1>9, <1>12, <2>1, <2>3, <3>1
  <2> QED BY <2>2, <2>3
<1> QED BY <1>1, <1>10, <1>11, <1>12

\* Finitely many finite sets.
LEMMA FiniteSpread ==
    ASSUME NEW S, IsFiniteSet(S), NEW f, DOMAIN f = S, \A x \in S : IsFiniteSet(f[x])
    PROVE  IsFiniteSet(UNION {f[x] : x \in S})
<1>1. IsFiniteSet({f[x] : x \in S})
  BY FiniteImage
<1> QED BY <1>1, FS_UNION

\* What is made of one disjunct is finite.
LEMMA LoneFinite == \A F, S : Lone(F, S) => IsFiniteSet(S)
<1> TAKE F, S
<1> HAVE Lone(F, S)
<1>1. CASE S = {}
  BY <1>1, FS_EmptySet
<1>2. CASE S # {}
  <2>1. PICK d : S = {d}
    BY <1>2 DEF Lone
  <2> QED BY <2>1, FS_Singleton
<1> QED BY <1>1, <1>2

\* No branch loses the disjuncts that fit: those it drops were wrong.
LEMMA EdgeKeeps ==
    ASSUME NEW F, Typed(F), NEW S, Good(F, {}, S), NEW c, ConditionType(c), NEW isTrue \in BOOLEAN
    PROVE  /\ Good(F, {}, D!refineGuardedFacts(Keying(F), S, c, isTrue))
           /\ \A e : Arrives(c, e, isTrue) /\ FitsIn(F, S, e) =>
                 FitsIn(F, D!refineGuardedFacts(Keying(F), S, c, isTrue), e)
<1> DEFINE narrow(d) == D!refineDisjunctCondition(Keying(F), d, c, isTrue)
           all == UNION {narrow(d) : d \in S}
           f == [d \in S |-> narrow(d)]
<1>1. \A d \in S : Lone(F, narrow(d))
  BY RefineConditionType DEF Good
<1>2. \A e, d : d \in S /\ Arrives(c, e, isTrue) /\ Fits(F, {}, d, e, e.ptr) => FitsIn(F, narrow(d), e)
  BY RefineConditionKeeps DEF Good
<1>3. D!refineGuardedFacts(Keying(F), S, c, isTrue) = D!normalizeGuarded(all)
  BY DEF D!refineGuardedFacts
<1> HIDE DEF narrow
<1>4. IsFiniteSet(all)
  <2>1. IsFiniteSet(S) /\ DOMAIN f = S /\ \A d \in S : f[d] = narrow(d) /\ IsFiniteSet(f[d])
    BY <1>1, LoneFinite DEF Good
  <2>2. all = UNION {f[d] : d \in S}
    BY <2>1
  <2> HIDE DEF f, all
  <2> QED BY <2>1, <2>2, FiniteSpread
<1>5. all \subseteq Disjunct(F, {})
  BY <1>1 DEF Lone
<1>6. Good(F, {}, all)
  BY <1>4, <1>5 DEF Good
<1>7. \A e : Arrives(c, e, isTrue) /\ FitsIn(F, S, e) => FitsIn(F, all, e)
  BY <1>2 DEF FitsIn
<1> HIDE DEF all
<1>8. Good(F, {}, D!normalizeGuarded(all)) /\ Keeps(F, {}, all, D!normalizeGuarded(all))
  BY <1>6, NormalizeKeeps
<1>9. \A e : FitsIn(F, all, e) => FitsIn(F, D!normalizeGuarded(all), e)
  BY <1>8 DEF Keeps, FitsIn
<1> QED BY <1>3, <1>7, <1>8, <1>9

-----------------------------------------------------------------------------
(* The facts across a statement *)

\* The keys that a store, and a call, make stale.
StoreKeys(F, s) == {key \in Key(F) : staleOnStore(s, key)}
CallKeys(F, s) == {key \in Key(F) : staleOnCall(Keying(F), s, key)}

\* Of a variable that only stamps are about, all keys or none.
Closed(F, X) == \A a \in X, b \in Key(F) : a.var = b.var /\ ~KeyedIn(F, a.var) => b \in X

\* Between e and x nothing moves but what the keys of X are about.
Unmoved(F, X, e, x) == \A key \in Key(F) : KeyedIn(F, key.var) /\ key \notin X => KeyHolds(x, key) = KeyHolds(e, key)

\* What is recorded of a store.
Stamps(F, s) ==
    IF assignedDecl(s) # {}
      THEN {Fact(a.place, "EQ", a.lit, TRUE) :
              a \in {b \in assignedIntLiteral(s) : b.place.var \in collectFactDecls(F) \cup collectPtrFactDecls(F)}}
    ELSE IF s.kind = "storeMember" /\ s.base \in collectMemberFactBases(F)
      THEN {Fact([var |-> s.base, field |-> s.field], "EQ", intLiteralValue(s.lit), TRUE)}
    ELSE {}

StampsType(F, X, stamps) ==
    /\ stamps \subseteq [key : X, value : BOOLEAN]
    /\ \A f, g \in stamps : f = g

Stored(X, stamps, d) == [facts |-> {f \in d.facts : f.key \notin X} \cup stamps, vars |-> d.vars]

\* What a store leaves of the facts holds after it.
LEMMA StoredKeeps ==
    ASSUME NEW F, NEW X, X \subseteq Key(F), Closed(F, X), NEW stamps, StampsType(F, X, stamps),
           NEW d \in Disjunct(F, {})
    PROVE  /\ Stored(X, stamps, d) \in Disjunct(F, X)
           /\ \A e, x : Fits(F, {}, d, e, e.ptr) /\ Unmoved(F, X, e, x) /\ FactsHold(F, stamps, x) =>
                 Fits(F, X, Stored(X, stamps, d), x, e.ptr)
<1> DEFINE facts == {f \in d.facts : f.key \notin X} \cup stamps
<1>0. /\ d.facts \in FactsType(F) /\ d.vars \in VarMaps(F)
      /\ \A v \in PtrVar : d.vars[v] \in Val(F) /\ Asleep(F, d.facts, d.vars[v], {})
  BY DisjunctIs
<1>1. facts \in FactsType(F)
  <2>1. facts \subseteq [key : Key(F), value : BOOLEAN]
    BY <1>0 DEF FactsType, StampsType
  <2>2. ASSUME NEW f \in facts, NEW g \in facts, f.key = g.key \/ (f.key.var = g.key.var /\ ~KeyedIn(F, f.key.var))
        PROVE  f = g
    <3>1. CASE f \in stamps /\ g \in stamps
      BY <3>1 DEF StampsType
    <3>2. CASE f \notin stamps /\ g \notin stamps
      BY <1>0, <2>2, <3>2 DEF FactsType
    <3>3. CASE f \in stamps /\ g \notin stamps
      <4>1. f.key \in X /\ g.key \notin X /\ g.key \in Key(F)
        BY <2>1, <3>3 DEF StampsType
      <4> QED BY <2>2, <4>1 DEF Closed
    <3>4. CASE f \notin stamps /\ g \in stamps
      <4>1. g.key \in X /\ f.key \notin X /\ f.key \in Key(F)
        BY <2>1, <3>4 DEF StampsType
      <4> QED BY <2>2, <4>1 DEF Closed
    <3> QED BY <3>1, <3>2, <3>3, <3>4
  <2> HIDE DEF facts
  <2> QED BY <2>1, <2>2 DEF FactsType
<1>2. ASSUME NEW val \in Val(F), Asleep(F, d.facts, val, {})
      PROVE  Asleep(F, facts, val, X)
  <2> SUFFICES ASSUME NEW i \in val.impl, ~KeyedIn(F, i.key.var), i.key \notin X
               PROVE  ~factsContradict(facts, i.key, ~i.value)
    BY DEF Asleep
  <2>1. ~factsContradict(d.facts, i.key, ~i.value)
    BY <1>2 DEF Asleep
  <2>2. i.key \in Key(F)
    BY DEF Val, ImplType
  <2>3. \A a \in X : a.var # i.key.var
    BY <2>2 DEF Closed
  <2>4. \A g : g.key.var = i.key.var => (g \in facts <=> g \in d.facts)
    BY <2>3 DEF StampsType
  <2> HIDE DEF facts
  <2> QED BY <2>1, <2>4 DEF factsContradict
<1>3. Stored(X, stamps, d) = [facts |-> facts, vars |-> d.vars]
  BY DEF Stored
<1>4. Stored(X, stamps, d) \in Disjunct(F, X)
  <2> HIDE DEF facts
  <2> QED BY <1>0, <1>1, <1>2, <1>3, DisjunctMade
<1>5. ASSUME NEW e, NEW x, Fits(F, {}, d, e, e.ptr), Unmoved(F, X, e, x), FactsHold(F, stamps, x)
      PROVE  Fits(F, X, Stored(X, stamps, d), x, e.ptr)
  <2>1. FactsHold(F, facts, x)
    <3> SUFFICES ASSUME NEW f \in facts, KeyedIn(F, f.key.var)
                 PROVE  KeyHolds(x, f.key) = f.value
      BY DEF FactsHold
    <3>1. CASE f \in stamps
      BY <1>5, <3>1 DEF FactsHold
    <3>2. CASE f \in d.facts /\ f.key \notin X
      <4>1. f.key \in Key(F) /\ KeyHolds(e, f.key) = f.value
        BY <1>0, <1>5, <3>2 DEF FactsType, Fits, FactsHold
      <4> QED BY <1>5, <3>2, <4>1 DEF Unmoved
    <3> QED BY <3>1, <3>2
  <2>2. ASSUME NEW v \in PtrVar
        PROVE  Promised(F, X, d.vars[v], x, e.ptr[v])
    <3>1. Promised(F, {}, d.vars[v], e, e.ptr[v])
      BY <1>5 DEF Fits
    <3>2. \A i \in d.vars[v].impl : i.key \in Key(F)
      BY <1>0 DEF Val, ImplType
    <3> QED BY <1>5, <3>1, <3>2 DEF Promised, Unmoved
  <2> HIDE DEF facts
  <2> QED BY <1>3, <2>1, <2>2 DEF Fits
<1> QED BY <1>4, <1>5

\* The implications of stale keys are dropped.
Dropped(X, d) ==
    [facts |-> d.facts,
     vars |-> [v \in PtrVar |-> [st |-> d.vars[v].st, impl |-> {i \in d.vars[v].impl : i.key \notin X}]]]

\* Without the implications about what was stored, nothing about it is left to be false.
LEMMA DroppedKeeps ==
    ASSUME NEW F, NEW X, NEW d \in Disjunct(F, X)
    PROVE  /\ Dropped(X, d) \in Disjunct(F, {})
           /\ \A e, ptr : Fits(F, X, d, e, ptr) => Fits(F, {}, Dropped(X, d), e, ptr)
<1> DEFINE val(v) == [st |-> d.vars[v].st, impl |-> {i \in d.vars[v].impl : i.key \notin X}]
           vars1 == [v \in PtrVar |-> val(v)]
<1>0. /\ d.facts \in FactsType(F) /\ d.vars \in VarMaps(F)
      /\ \A v \in PtrVar : d.vars[v] \in Val(F) /\ Asleep(F, d.facts, d.vars[v], X)
  BY DisjunctIs
<1>1. \A v \in PtrVar : /\ vars1[v] \in Val(F) /\ Asleep(F, d.facts, vars1[v], {})
                        /\ \A e, p : Promised(F, X, d.vars[v], e, p) => Promised(F, {}, vars1[v], e, p)
  <2> TAKE v \in PtrVar
  <2>1. val(v).st = d.vars[v].st /\ val(v).impl = {i \in d.vars[v].impl : i.key \notin X} /\ vars1[v] = val(v)
    OBVIOUS
  <2>2. val(v) \in Val(F)
    BY <1>0 DEF Val
  <2> HIDE DEF val, vars1
  <2>3. Asleep(F, d.facts, val(v), {})
    BY <1>0, <2>1 DEF Asleep
  <2>4. \A e, p : Promised(F, X, d.vars[v], e, p) => Promised(F, {}, val(v), e, p)
    BY <2>1 DEF Promised
  <2> QED BY <2>1, <2>2, <2>3, <2>4
<1>2. Dropped(X, d) = [facts |-> d.facts, vars |-> vars1]
  BY DEF Dropped
<1>3. vars1 \in VarMaps(F)
  BY <1>1 DEF VarMaps
<1> HIDE DEF vars1
<1>4. Dropped(X, d) \in Disjunct(F, {})
  BY <1>0, <1>1, <1>2, <1>3, DisjunctMade
<1> QED BY <1>1, <1>2, <1>4 DEF Fits

\* A pointer is given a state.
Given(d, v, st) == [d EXCEPT !.vars = setIfTracked(@, v, st)]

\* A pointer that is given a state which is true of it.
LEMMA SetKeeps ==
    ASSUME NEW F, NEW d \in Disjunct(F, {}), NEW v, NEW st \in NullState
    PROVE  /\ Given(d, v, st) \in Disjunct(F, {})
           /\ Given(d, v, st).facts = d.facts
           /\ \A e, old, ptr : /\ Fits(F, {}, d, e, old)
                               /\ \A w \in PtrVar : ptr[w] = old[w] \/ w = v
                               /\ v \in PtrVar => ptr[v] \in Meaning(st)
                               => Fits(F, {}, Given(d, v, st), e, ptr)
<1> DEFINE vars1 == setIfTracked(d.vars, v, st)
           x == [facts |-> d.facts, vars |-> vars1]
<1>0. /\ d = [facts |-> d.facts, vars |-> d.vars]
      /\ d.facts \in FactsType(F) /\ d.vars \in VarMaps(F)
      /\ \A w \in PtrVar : d.vars[w] \in Val(F) /\ Asleep(F, d.facts, d.vars[w], {})
  BY DisjunctIs
<1>1. DOMAIN d.vars = PtrVar
  BY <1>0 DEF VarMaps
<1>2. Given(d, v, st) = x
  BY <1>0 DEF Given
<1>3. DOMAIN vars1 = PtrVar /\ (v \in PtrVar => vars1[v] = Plain(st)) /\ \A w \in PtrVar : w # v => vars1[w] = d.vars[w]
  BY <1>1 DEF setIfTracked
<1>4. Plain(st).st = st /\ Plain(st).impl = {} /\ Plain(st) \in Val(F)
  BY DEF Plain, Val
<1>5. Asleep(F, d.facts, Plain(st), {})
  BY <1>4 DEF Asleep
<1>6. vars1 \in VarMaps(F) /\ \A w \in PtrVar : Asleep(F, d.facts, vars1[w], {})
  <2>1. vars1 = [w \in PtrVar |-> vars1[w]]
    <3>1. CASE v \in PtrVar
      BY <1>1, <3>1 DEF setIfTracked
    <3>2. CASE v \notin PtrVar
      BY <1>0, <1>1, <3>2 DEF setIfTracked, VarMaps
    <3> QED BY <3>1, <3>2
  <2> HIDE DEF vars1
  <2>2. \A w \in PtrVar : vars1[w] \in Val(F) /\ Asleep(F, d.facts, vars1[w], {})
    BY <1>0, <1>3, <1>4, <1>5
  <2> QED BY <2>1, <2>2 DEF VarMaps
<1> HIDE DEF vars1
<1>7. x \in Disjunct(F, {})
  BY <1>0, <1>6, DisjunctMade
<1>8. ASSUME NEW e, NEW old, NEW ptr, Fits(F, {}, d, e, old),
             \A w \in PtrVar : ptr[w] = old[w] \/ w = v, v \in PtrVar => ptr[v] \in Meaning(st)
      PROVE  Fits(F, {}, x, e, ptr)
  <2>1. ASSUME NEW w \in PtrVar
        PROVE  Promised(F, {}, vars1[w], e, ptr[w])
    <3>1. CASE w = v
      BY <1>3, <1>4, <1>8, <3>1 DEF Promised
    <3>2. CASE w # v
      BY <1>3, <1>8, <3>2 DEF Fits
    <3> QED BY <3>1, <3>2
  <2> QED BY <1>8, <2>1 DEF Fits
<1> QED BY <1>2, <1>7, <1>8

-----------------------------------------------------------------------------
(* What applyStmtFacts does to each disjunct *)

LEMMA SameStatements ==
    /\ \A s : D!assignedDecl(s) = assignedDecl(s)
    /\ \A s : D!assignedIntLiteral(s) = assignedIntLiteral(s)
    /\ \A s : D!assignedMemberFact(s) <=> assignedMemberFact(s)
<1>1. \A s : D!assignedDecl(s) = assignedDecl(s)
  BY DEF D!assignedDecl, assignedDecl
<1>2. \A s : D!assignedIntLiteral(s) = assignedIntLiteral(s)
  BY DEF D!assignedIntLiteral, assignedIntLiteral, D!intLiteralValue, intLiteralValue, D!ToSigned, ToSigned,
         D!Modulus, Modulus, D!PtrPlace, PtrPlace
<1>3. \A s : D!assignedMemberFact(s) <=> assignedMemberFact(s)
  BY DEF D!assignedMemberFact, assignedMemberFact
<1> QED BY <1>1, <1>2, <1>3

\* What a store makes stale, a variable takes with it whole.
LEMMA StoreClosed ==
    ASSUME NEW F, Typed(F), NEW s \in F.stmts
    PROVE  Closed(F, StoreKeys(F, s)) /\ Closed(F, CallKeys(F, s))
<1>1. Closed(F, StoreKeys(F, s))
  <2> SUFFICES ASSUME NEW a \in StoreKeys(F, s), NEW b \in Key(F), a.var = b.var, ~KeyedIn(F, a.var)
               PROVE  staleOnStore(s, b)
    BY DEF Closed, StoreKeys
  <2>1. staleOnStore(s, a) /\ Shaped(F, a)
    BY DEF StoreKeys, Key
  <2>2. CASE a.var \in assignedDecl(s)
    BY <2>2 DEF staleOnStore
  <2>3. CASE assignedMemberFact(s) /\ a.field = s.field /\ a.var = s.base
    <3>1. StatementType(s) /\ s.field # NoField
      BY <2>3 DEF Typed, StatementType, assignedMemberFact
    <3>2. a.var \in collectMemberFactBases(F)
      BY <2>1, <2>3, <3>1 DEF Shaped, Var, PlaceOf
    <3> QED BY <3>2, BasesAreKeyed DEF Typed
  <2> QED BY <2>1, <2>2, <2>3 DEF staleOnStore
<1>2. Closed(F, CallKeys(F, s))
  <2> SUFFICES ASSUME NEW a \in CallKeys(F, s), NEW b \in Key(F), a.var = b.var, ~KeyedIn(F, a.var)
               PROVE  FALSE
    BY DEF Closed
  <2>1. a.field # NoField /\ Shaped(F, a)
    BY DEF CallKeys, Key, staleOnCall
  <2>2. a.var \in collectMemberFactBases(F)
    BY <2>1 DEF Shaped, Var, PlaceOf
  <2> QED BY <2>2, BasesAreKeyed DEF Typed
<1> QED BY <1>1, <1>2

\* A stamp is the literal that was assigned.
LEMMA StampsFrom ==
    ASSUME NEW F, NEW s, assignedDecl(s) # {}, NEW f \in Stamps(F, s)
    PROVE  \E a \in assignedIntLiteral(s) :
              f = Fact(a.place, "EQ", a.lit, TRUE) /\ a.place.var \in collectFactDecls(F) \cup collectPtrFactDecls(F)
BY DEF Stamps

\* A stamp is about what the statement assigns, and about what is keyed.
LEMMA StampsAreTyped ==
    ASSUME NEW F, Typed(F), NEW s \in F.stmts
    PROVE  StampsType(F, StoreKeys(F, s), Stamps(F, s))
<1> DEFINE X == StoreKeys(F, s)
<1>0. StatementType(s)
  BY DEF Typed
<1>1. CASE s.kind = "assign" /\ Stamps(F, s) # {}
  <2> DEFINE p == [var |-> s.var, field |-> NoField]
             f == Fact(p, "EQ", intLiteralValue(s.lit), TRUE)
  <2>1. p \in Place /\ Var(p) /\ intLiteralValue(s.lit) \in Int
    BY <1>0, <1>1, ModulusAssumption DEF StatementType, intLiteralValue, ToSigned, Var
  <2>2. FactAbout(F, f, p, "EQ", intLiteralValue(s.lit), TRUE)
    <3> DEFINE lit == intLiteralValue(s.lit)
    <3>1. "EQ" \in {"EQ", "LT", "LE"} /\ TRUE \in BOOLEAN /\ lit \in Int /\ f = Fact(p, "EQ", lit, TRUE)
      BY <2>1
    <3> HIDE DEF p, f, lit
    <3> QED BY <2>1, <3>1, PlaceKey DEF lit
  <2>3. f \in [key : Key(F), value : BOOLEAN] /\ f.key.var = s.var
    BY <2>2 DEF FactAbout
  <2>4. assignedDecl(s) = {s.var} /\ assignedIntLiteral(s) = {[place |-> p, lit |-> intLiteralValue(s.lit)]}
    BY <1>1 DEF assignedDecl, assignedIntLiteral
  <2>5. Stamps(F, s) \subseteq {f}
    <3> HIDE DEF f
    <3>1. Stamps(F, s) \subseteq {Fact(p, "EQ", intLiteralValue(s.lit), TRUE)}
      <4> SUFFICES ASSUME NEW g \in Stamps(F, s)
                   PROVE  g = Fact(p, "EQ", intLiteralValue(s.lit), TRUE)
        OBVIOUS
      <4>1. PICK a \in assignedIntLiteral(s) : g = Fact(a.place, "EQ", a.lit, TRUE)
        BY <2>4, StampsFrom
      <4> DEFINE lit == intLiteralValue(s.lit)
      <4>2. a = [place |-> p, lit |-> lit]
        BY <2>4
      <4> HIDE DEF p, lit
      <4>3. a.place = p /\ a.lit = lit
        BY <4>2
      <4> QED BY <4>1, <4>3 DEF lit
    <3> QED BY <3>1 DEF f
  <2> HIDE DEF f
  <2>6. f.key \in X
    BY <2>3, <2>4 DEF StoreKeys, staleOnStore
  <2> QED BY <2>3, <2>5, <2>6 DEF StampsType
<1>2. CASE s.kind = "assignPtr" /\ Stamps(F, s) # {}
  <2> DEFINE f == Fact(PtrPlace(s.var), "EQ", 0, TRUE)
  <2>1. s.var \in PtrVar
    BY <1>0, <1>2 DEF StatementType
  <2>2. assignedDecl(s) = {s.var} /\ assignedIntLiteral(s) \subseteq {[place |-> PtrPlace(s.var), lit |-> 0]}
    BY <1>2 DEF assignedDecl, assignedIntLiteral
  <2>3. Stamps(F, s) \subseteq {f} /\ s.var \in collectFactDecls(F) \cup collectPtrFactDecls(F)
    <3> SUFFICES ASSUME NEW g \in Stamps(F, s)
                 PROVE  g = f /\ s.var \in collectFactDecls(F) \cup collectPtrFactDecls(F)
      BY <1>2
    <3>1. PICK a \in assignedIntLiteral(s) :
             g = Fact(a.place, "EQ", a.lit, TRUE) /\ a.place.var \in collectFactDecls(F) \cup collectPtrFactDecls(F)
      BY <2>2, StampsFrom
    <3>2. a.place = PtrPlace(s.var) /\ a.lit = 0 /\ a.place.var = s.var
      BY <2>2 DEF PtrPlace
    <3> QED BY <3>1, <3>2
  <2>4. s.var \notin collectFactDecls(F)
    <3> SUFFICES ASSUME NEW c \in F.conds, NEW leaf \in Leaves(c), leaf.kind \in {"truth", "compare"},
                        leaf.place.var = s.var
                 PROVE  FALSE
      BY DEF collectFactDecls, AllLeaves
    <3>1. leaf.place \in Place
      BY DEF Typed, ConditionType, LeafType
    <3> QED BY <2>1, <3>1, PlaceAssumption
  <2>5. s.var \in PtrVar \cap collectPtrFactDecls(F)
    BY <2>1, <2>3, <2>4
  <2>6. FactOfPointer(F, f, s.var, TRUE)
    <3>1. TRUE \in BOOLEAN
      OBVIOUS
    <3> QED BY <2>5, <3>1, PointerKey
  <2> HIDE DEF f
  <2>7. f \in [key : Key(F), value : BOOLEAN] /\ f.key.var = s.var
    BY <2>6 DEF FactOfPointer
  <2>8. f.key \in X
    BY <2>2, <2>7 DEF StoreKeys, staleOnStore
  <2> QED BY <2>3, <2>7, <2>8 DEF StampsType
<1>3. CASE s.kind = "storeMember" /\ Stamps(F, s) # {}
  <2> DEFINE p == [var |-> s.base, field |-> s.field]
             lit == intLiteralValue(s.lit)
             f == Fact(p, "EQ", lit, TRUE)
  <2>1. p \in Place /\ lit \in Int
    BY <1>0, <1>3, ModulusAssumption DEF StatementType, intLiteralValue, ToSigned
  <2>2. assignedDecl(s) = {}
    BY <1>3 DEF assignedDecl
  <2>3. Stamps(F, s) = {f} /\ s.base \in collectMemberFactBases(F)
    BY <1>3, <2>2 DEF Stamps
  <2>4. f.key = [var |-> s.base, field |-> s.field, rel |-> "EQ", lit |-> lit] /\ f.key.var = s.base /\ f.key.field = s.field
    BY DEF Fact
  <2>5. FactAbout(F, f, p, "EQ", lit, TRUE)
    <3>1. "EQ" \in {"EQ", "LT", "LE"} /\ TRUE \in BOOLEAN /\ p.var \in collectMemberFactBases(F) /\ f = Fact(p, "EQ", lit, TRUE)
      BY <2>3
    <3> HIDE DEF p, f, lit
    <3> QED BY <2>1, <3>1, PlaceKey
  <2> HIDE DEF f
  <2>6. f.key \in X
    BY <1>3, <2>4, <2>5 DEF StoreKeys, staleOnStore, assignedMemberFact, FactAbout
  <2> QED BY <2>3, <2>5, <2>6 DEF StampsType, FactAbout
<1>4. s.kind \notin {"assign", "assignPtr", "storeMember"} => Stamps(F, s) = {}
  BY DEF Stamps, assignedIntLiteral
<1> QED BY <1>1, <1>2, <1>3, <1>4 DEF StampsType

\* applyStmtFacts, disjunct by disjunct.
LEMMA FactsAfter ==
    ASSUME NEW F, Typed(F), NEW s \in F.stmts, NEW S, S \subseteq Disjunct(F, {})
    PROVE  D!applyStmtFacts(Keying(F), S, s) =
              D!normalizeGuarded({Stored(StoreKeys(F, s), Stamps(F, s), d) : d \in S})
<1> DEFINE X == StoreKeys(F, s)
           stamps == Stamps(F, s)
           k == Keying(F)
           decl == D!assignedDecl(s)
           stamp == {D!Fact(a.place, "EQ", a.lit, TRUE) :
                       a \in {b \in D!assignedIntLiteral(s) : b.place.var \in k.stampable \cup k.ptrFacts}}
           erased == {[d EXCEPT !.facts = {f \in @ : ~(f.key.var \in decl)} \cup stamp] : d \in S}
           T == IF decl # {} THEN erased
                ELSE IF D!assignedMemberFact(s) /\ s.base \in k.bases THEN D!applyMemberStmtFacts(k, S, s)
                ELSE S
<1>1. D!applyStmtFacts(k, S, s) = D!normalizeGuarded(T)
  BY DEF D!applyStmtFacts, D!EraseFacts
<1>2. /\ \A d \in S : d = [facts |-> d.facts, vars |-> d.vars] /\ \A f \in d.facts : f.key \in Key(F)
      /\ k.bases = collectMemberFactBases(F) /\ k.stampable = collectFactDecls(F) /\ k.ptrFacts = collectPtrFactDecls(F)
  BY DEF Disjunct, FactsType, Keying
<1>3. decl = assignedDecl(s)
  BY SameStatements
<1>5. CASE decl # {}
  <2>1. ~assignedMemberFact(s)
    BY <1>3, <1>5 DEF assignedDecl, assignedMemberFact
  <2>2. \A key \in Key(F) : key \in X <=> key.var \in decl
    BY <1>3, <2>1 DEF StoreKeys, staleOnStore
  <2>3. stamp = stamps
    BY <1>2, <1>3, <1>5, SameStatements, SameFacts DEF Stamps
  <2> HIDE DEF decl, stamp, stamps, X, k
  <2>4. \A d \in S : [d EXCEPT !.facts = {f \in @ : ~(f.key.var \in decl)} \cup stamp] = Stored(X, stamp, d)
    <3> TAKE d \in S
    <3>1. d = [facts |-> d.facts, vars |-> d.vars]
      BY <1>2
    <3>2. {f \in d.facts : ~(f.key.var \in decl)} = {f \in d.facts : f.key \notin X}
      BY <1>2, <2>2
    <3> DEFINE left == {f \in d.facts : ~(f.key.var \in decl)}
    <3>3. [d EXCEPT !.facts = left \cup stamp] = [facts |-> left \cup stamp, vars |-> d.vars]
      <4> HIDE DEF left
      <4> QED BY <3>1
    <3> QED BY <3>2, <3>3 DEF Stored
  <2>5. T = {Stored(X, stamps, d) : d \in S}
    BY <1>5, <2>3, <2>4
  <2> QED BY <1>1, <2>5 DEF X, stamps, k
<1>6. CASE decl = {} /\ assignedMemberFact(s) /\ s.base \in k.bases
  <2> DEFINE new == IF s.kind = "storeMember"
                      THEN {D!Fact([var |-> s.base, field |-> s.field], "EQ", D!intLiteralValue(s.lit), TRUE)} ELSE {}
             gone == {key \in Key(F) : key.var = s.base /\ key.field = s.field}
             hit(d) == [d EXCEPT !.facts = {f \in @ : ~(f.key.var = s.base /\ f.key.field = s.field)} \cup new]
  <2>1. T = {hit(d) : d \in S}
    <3>1. T = D!applyMemberStmtFacts(k, S, s)
      BY <1>6, SameStatements
    <3>2. D!applyMemberStmtFacts(k, S, s) =
            {[d EXCEPT !.facts = {f \in @ : ~(f.key.var = s.base /\ f.key.field = s.field)} \cup new] : d \in S}
      BY DEF D!applyMemberStmtFacts, D!EraseFacts
    <3> QED BY <3>1, <3>2
  <2>2. new = stamps
    BY <1>2, <1>3, <1>6, SameFacts DEF Stamps
  <2>3. X = gone
    BY <1>3, <1>6 DEF StoreKeys, staleOnStore
  <2> HIDE DEF decl, new, stamps, X, k, gone, T
  <2>4. ASSUME NEW d \in S
        PROVE  hit(d) = Stored(X, new, d)
    <3>1. d = [facts |-> d.facts, vars |-> d.vars]
      BY <1>2
    <3> DEFINE left == {f \in d.facts : ~(f.key.var = s.base /\ f.key.field = s.field)}
    <3>2. left = {f \in d.facts : f.key \notin X}
      BY <1>2, <2>3 DEF gone
    <3>3. [d EXCEPT !.facts = left \cup new] = [facts |-> left \cup new, vars |-> d.vars]
      <4> HIDE DEF left
      <4> QED BY <3>1
    <3> QED BY <3>2, <3>3 DEF Stored
  <2> HIDE DEF hit
  <2>5. T = {Stored(X, stamps, d) : d \in S}
    BY <2>1, <2>2, <2>4
  <2> QED BY <1>1, <2>5 DEF X, stamps, k, T
<1>7. CASE decl = {} /\ ~(assignedMemberFact(s) /\ s.base \in k.bases)
  <2>1. T = S
    BY <1>7, SameStatements
  <2>2. stamps = {}
    BY <1>2, <1>3, <1>7 DEF Stamps, assignedMemberFact
  <2>3. X = {}
    <3> SUFFICES ASSUME NEW key \in Key(F), staleOnStore(s, key)
                 PROVE  FALSE
      BY DEF StoreKeys
    <3>1. assignedMemberFact(s) /\ key.var = s.base /\ key.field = s.field
      BY <1>3, <1>7 DEF staleOnStore
    <3>2. s.field # NoField
      BY <3>1 DEF Typed, StatementType, assignedMemberFact
    <3>3. key.var \in collectMemberFactBases(F)
      BY <3>1, <3>2 DEF Key, Shaped, Var, PlaceOf
    <3> QED BY <1>2, <1>7, <3>1, <3>3
  <2> HIDE DEF decl, stamps, X, k, T
  <2>4. \A d \in S : Stored(X, stamps, d) = d
    <3> TAKE d \in S
    <3>1. d = [facts |-> d.facts, vars |-> d.vars]
      BY <1>2
    <3>2. {f \in d.facts : f.key \notin X} \cup stamps = d.facts
      BY <2>2, <2>3
    <3> QED BY <3>1, <3>2 DEF Stored
  <2>5. T = {Stored(X, stamps, d) : d \in S}
    BY <2>1, <2>4
  <2> QED BY <1>1, <2>5 DEF X, stamps, k, T
<1> QED BY <1>5, <1>6, <1>7

\* Normalising keeps no fact that no disjunct has.
LEMMA NormalizeFacts ==
    ASSUME NEW F, NEW X, NEW S, Good(F, X, S), NEW d \in D!normalizeGuarded(S)
    PROVE  \E c \in S : d.facts \subseteq c.facts
<1> DEFINE U == D!uniteSameFacts(S)
<1>1. \A u \in U : \E c \in S : u.facts = c.facts
  <2>1. U = {[facts |-> facts, vars |-> mergeMeet(S, facts)] : facts \in {c.facts : c \in S}}
    BY DEF D!uniteSameFacts, mergeMeet
  <2> HIDE DEF U
  <2> QED BY <2>1
<1>2. Good(F, X, U)
  BY UniteKeeps
<1> HIDE DEF U
<1>3. d \in U \/ d \in D!widenGuarded(U)
  BY DEF D!normalizeGuarded, U
<1>4. ASSUME d \in D!widenGuarded(U), d \notin U
      PROVE  \E u \in U : d.facts \subseteq u.facts
  <2> DEFINE common == {f \in UNION {u.facts : u \in U} : \A u \in U : f \in u.facts}
             c == [facts |-> common, vars |-> D!mergeAll(U)]
  <2>1. d = mineGuardImplications(U, c) /\ U # {}
    BY <1>4, EmptyCardinality DEF D!widenGuarded
  <2>2. DOMAIN c.vars = PtrVar
    <3>1. IsFiniteSet(U) /\ \A u \in U : u.facts \in FactsType(F) /\ u.vars \in VarMaps(F)
      BY <1>2, DisjunctIs DEF Good
    <3>2. PICK u \in U : u.facts \in FactsType(F)
      BY <2>1, <3>1
    <3>3. AllBlend(F, X, u.facts, U, D!mergeAll(U))
      BY <2>1, <3>1, <3>2, MergeAllBlends
    <3> QED BY <3>3 DEF AllBlend, VarMaps
  <2>3. d.facts = common
    BY <2>1, <2>2, MineIs
  <2> QED BY <2>1, <2>3
<1> QED BY <1>1, <1>3, <1>4

-----------------------------------------------------------------------------
(* transfer, disjunct by disjunct *)

\* dropImplications drops what a store or a call has made stale.
LEMMA DropIs ==
    ASSUME NEW F, NEW X, NEW s, NEW d \in Disjunct(F, X)
    PROVE  /\ dropImplications(d, LAMBDA key : staleOnStore(s, key)) = Dropped(StoreKeys(F, s), d)
           /\ dropImplications(d, LAMBDA key : staleOnCall(Keying(F), s, key)) = Dropped(CallKeys(F, s), d)
<1>0. d = [facts |-> d.facts, vars |-> d.vars] /\ d.vars \in VarMaps(F) /\ \A v \in PtrVar : d.vars[v] \in Val(F)
  BY DisjunctIs
<1>1. DOMAIN d.vars = PtrVar
  BY <1>0 DEF VarMaps
<1>2. \A v \in PtrVar : /\ d.vars[v] = [st |-> d.vars[v].st, impl |-> d.vars[v].impl]
                        /\ \A i \in d.vars[v].impl : i.key \in Key(F)
  BY <1>0 DEF Val, ImplType
<1> DEFINE store(v) == [d.vars[v] EXCEPT !.impl = {i \in @ : ~staleOnStore(s, i.key)}]
           call(v) == [d.vars[v] EXCEPT !.impl = {i \in @ : ~staleOnCall(Keying(F), s, i.key)}]
           left(X1, v) == [st |-> d.vars[v].st, impl |-> {i \in d.vars[v].impl : i.key \notin X1}]
<1>3. /\ dropImplications(d, LAMBDA key : staleOnStore(s, key)) = [d EXCEPT !.vars = [v \in PtrVar |-> store(v)]]
      /\ dropImplications(d, LAMBDA key : staleOnCall(Keying(F), s, key)) = [d EXCEPT !.vars = [v \in PtrVar |-> call(v)]]
  <2>1. /\ dropImplications(d, LAMBDA key : staleOnStore(s, key)) = [d EXCEPT !.vars = [v \in DOMAIN d.vars |-> store(v)]]
        /\ dropImplications(d, LAMBDA key : staleOnCall(Keying(F), s, key))
              = [d EXCEPT !.vars = [v \in DOMAIN d.vars |-> call(v)]]
    BY DEF dropImplications
  <2> HIDE DEF store, call
  <2> QED BY <1>1, <2>1
<1>4. ASSUME NEW v \in PtrVar
      PROVE  store(v) = left(StoreKeys(F, s), v) /\ call(v) = left(CallKeys(F, s), v)
  <2>1. {i \in d.vars[v].impl : ~staleOnStore(s, i.key)} = {i \in d.vars[v].impl : i.key \notin StoreKeys(F, s)}
    BY <1>2 DEF StoreKeys
  <2>2. {i \in d.vars[v].impl : ~staleOnCall(Keying(F), s, i.key)} = {i \in d.vars[v].impl : i.key \notin CallKeys(F, s)}
    BY <1>2 DEF CallKeys
  <2>3. \A new : [d.vars[v] EXCEPT !.impl = new] = [st |-> d.vars[v].st, impl |-> new]
    BY <1>0 DEF Val
  <2> QED BY <2>1, <2>2, <2>3
<1> HIDE DEF store, call
<1>5. \A vars1 : [d EXCEPT !.vars = vars1] = [facts |-> d.facts, vars |-> vars1]
  BY <1>0
<1>6. Dropped(StoreKeys(F, s), d) = [facts |-> d.facts, vars |-> [v \in PtrVar |-> left(StoreKeys(F, s), v)]]
  BY DEF Dropped
<1>7. Dropped(CallKeys(F, s), d) = [facts |-> d.facts, vars |-> [v \in PtrVar |-> left(CallKeys(F, s), v)]]
  BY DEF Dropped
<1> HIDE DEF left
<1>8. /\ [v \in PtrVar |-> store(v)] = [v \in PtrVar |-> left(StoreKeys(F, s), v)]
      /\ [v \in PtrVar |-> call(v)] = [v \in PtrVar |-> left(CallKeys(F, s), v)]
  BY <1>4
<1> QED BY <1>3, <1>5, <1>6, <1>7, <1>8

\* A call is a store to what it may write.
LEMMA EraseOnCallIs ==
    ASSUME NEW F, Typed(F), NEW s \in F.stmts, NEW d \in Disjunct(F, {})
    PROVE  eraseOnCall(Keying(F), s, d) = Dropped(CallKeys(F, s), Stored(CallKeys(F, s), {}, d))
<1> DEFINE Y == CallKeys(F, s)
           k == Keying(F)
           x == [d EXCEPT !.facts = {f \in @ : ~staleOnCall(k, s, f.key)}]
<1>1. d = [facts |-> d.facts, vars |-> d.vars] /\ \A f \in d.facts : f.key \in Key(F)
  BY DEF Disjunct, FactsType
<1>2. {f \in d.facts : ~staleOnCall(k, s, f.key)} = {f \in d.facts : f.key \notin Y}
  BY <1>1 DEF CallKeys
<1>3. x = Stored(Y, {}, d)
  <2> DEFINE left == {f \in d.facts : ~staleOnCall(k, s, f.key)}
  <2>1. [d EXCEPT !.facts = left] = [facts |-> left, vars |-> d.vars]
    <3> HIDE DEF left
    <3> QED BY <1>1
  <2>2. left \cup {} = left
    OBVIOUS
  <2> QED BY <1>2, <2>1, <2>2 DEF Stored
<1>4. Stored(Y, {}, d) \in Disjunct(F, Y)
  <2>1. StampsType(F, Y, {}) /\ Y \subseteq Key(F)
    BY DEF StampsType, CallKeys
  <2> HIDE DEF Y
  <2> QED BY <2>1, StoreClosed, StoredKeeps DEF Y
<1>5. eraseOnCall(k, s, d) = dropImplications(x, LAMBDA key : staleOnCall(k, s, key))
  BY DEF eraseOnCall
<1> HIDE DEF x
<1> QED BY <1>3, <1>4, <1>5, DropIs

\* One key on a variable of which nothing is known.
LEMMA RecordFresh ==
    ASSUME NEW F, NEW facts \in FactsType(F), NEW f \in [key : Key(F), value : BOOLEAN],
           \A g \in facts : g.key.var # f.key.var
    PROVE  /\ Record(facts, f) \in FactsType(F)
           /\ \A val \in Val(F) : /\ Asleep(F, facts, val, {}) /\ \A i \in val.impl : i.key.var # f.key.var
                                  => Asleep(F, Record(facts, f), val, {})
           /\ \A e : FactsHold(F, facts, e) /\ KeyHolds(e, f.key) = f.value => FactsHold(F, Record(facts, f), e)
<1>1. Record(facts, f) \in FactsType(F)
  BY DEF Record, FactsType
<1>2. ASSUME NEW val \in Val(F), Asleep(F, facts, val, {}), \A i \in val.impl : i.key.var # f.key.var
      PROVE  Asleep(F, Record(facts, f), val, {})
  <2> SUFFICES ASSUME NEW i \in val.impl, ~KeyedIn(F, i.key.var)
               PROVE  ~factsContradict(Record(facts, f), i.key, ~i.value)
    BY DEF Asleep
  <2>1. ~factsContradict(facts, i.key, ~i.value)
    BY <1>2 DEF Asleep
  <2>2. f.key.var # i.key.var
    BY <1>2
  <2>3. \A g : g.key.var = i.key.var => (g \in Record(facts, f) <=> g \in facts)
    BY <2>2 DEF Record
  <2> QED BY <2>1, <2>3 DEF factsContradict
<1>3. ASSUME NEW e, FactsHold(F, facts, e), KeyHolds(e, f.key) = f.value
      PROVE  FactsHold(F, Record(facts, f), e)
  BY <1>3 DEF FactsHold, Record
<1> QED BY <1>1, <1>2, <1>3

\* A result that says whether a pointer was written: one half fits.
SplitWhen(s, d, ok) ==
    [facts |-> Record(d.facts, Fact([var |-> s.var, field |-> NoField], "EQ", 0, ok)),
     vars |-> setIfTracked(d.vars, s.ptr, IF ok THEN "NonNull" ELSE "MaybeNull")]

\* The two disjuncts of a call with an out-parameter, one for each result.
LEMMA SplitKeeps ==
    ASSUME NEW F, NEW s, s.kind = "outParam", StatementType(s), NEW d \in Disjunct(F, {}),
           \A f \in d.facts : f.key.var # s.var,
           \A v \in PtrVar : \A i \in d.vars[v].impl : i.key.var # s.var
    PROVE  /\ \A ok \in BOOLEAN : SplitWhen(s, d, ok) \in Disjunct(F, {})
           /\ \A e, x : /\ Fits(F, {}, d, x, e.ptr) /\ \A v \in PtrVar : x.ptr[v] = e.ptr[v] \/ v = s.ptr
                        /\ x.ptr[s.ptr] \in Meaning(IF x.int[Integer(s.var)] = 0 THEN "NonNull" ELSE "MaybeNull")
                        => Fits(F, {}, SplitWhen(s, d, x.int[Integer(s.var)] = 0), x, x.ptr)
<1> DEFINE p == [var |-> s.var, field |-> NoField]
           st(ok) == IF ok THEN "NonNull" ELSE "MaybeNull"
           set(ok) == Given(d, s.ptr, st(ok))
           f(ok) == Fact(p, "EQ", 0, ok)
<1>0. p \in Place /\ Var(p) /\ p.var = s.var /\ s.ptr \in PtrVar /\ Integer(s.var) = p
  BY DEF StatementType, Var, Integer
<1>1. ASSUME NEW ok \in BOOLEAN
      PROVE  /\ st(ok) \in NullState /\ set(ok) \in Disjunct(F, {}) /\ set(ok).facts = d.facts
             /\ set(ok).vars = setIfTracked(d.vars, s.ptr, st(ok))
             /\ \A v \in PtrVar : \A i \in set(ok).vars[v].impl : i.key.var # s.var
  <2>1. st(ok) \in NullState
    BY DEF NullState
  <2>2. d = [facts |-> d.facts, vars |-> d.vars] /\ d.vars \in VarMaps(F)
    BY DisjunctIs
  <2> HIDE DEF st
  <2>3. set(ok) \in Disjunct(F, {}) /\ set(ok).facts = d.facts
    BY <2>1, SetKeeps
  <2>4. set(ok).vars = setIfTracked(d.vars, s.ptr, st(ok))
    BY <2>2 DEF Given
  <2>5. \A v \in PtrVar : \A i \in setIfTracked(d.vars, s.ptr, st(ok))[v].impl : i.key.var # s.var
    BY <2>2 DEF setIfTracked, Plain, VarMaps
  <2> HIDE DEF set
  <2> QED BY <2>1, <2>3, <2>4, <2>5
<1>2. ASSUME NEW ok \in BOOLEAN
      PROVE  FactAbout(F, f(ok), p, "EQ", 0, ok)
  <2>1. "EQ" \in {"EQ", "LT", "LE"} /\ 0 \in Int
    OBVIOUS
  <2> HIDE DEF p
  <2> QED BY <1>0, <2>1, PlaceKey
<1>3. \A ok : SplitWhen(s, d, ok) = [facts |-> Record(d.facts, f(ok)), vars |-> setIfTracked(d.vars, s.ptr, st(ok))]
  BY DEF SplitWhen
<1> HIDE DEF p, st, set, f
<1>4. ASSUME NEW ok \in BOOLEAN
      PROVE  SplitWhen(s, d, ok) \in Disjunct(F, {})
  <2>1. /\ set(ok).facts \in FactsType(F) /\ set(ok).vars \in VarMaps(F)
        /\ \A v \in PtrVar : set(ok).vars[v] \in Val(F) /\ Asleep(F, set(ok).facts, set(ok).vars[v], {})
    BY <1>1, DisjunctIs
  <2>2. f(ok) \in [key : Key(F), value : BOOLEAN] /\ f(ok).key.var = s.var
    BY <1>0, <1>2 DEF FactAbout
  <2>3. \A g \in d.facts : g.key.var # f(ok).key.var
    BY <2>2
  <2>4. Record(d.facts, f(ok)) \in FactsType(F)
    BY <1>1, <2>1, <2>2, <2>3, RecordFresh
  <2>5. \A v \in PtrVar : Asleep(F, Record(d.facts, f(ok)), set(ok).vars[v], {})
    <3> TAKE v \in PtrVar
    <3>1. \A i \in set(ok).vars[v].impl : i.key.var # f(ok).key.var
      BY <1>1, <2>2
    <3>2. set(ok).vars[v] \in Val(F) /\ Asleep(F, d.facts, set(ok).vars[v], {}) /\ d.facts \in FactsType(F)
      BY <1>1, <2>1
    <3> QED BY <2>2, <2>3, <3>1, <3>2, RecordFresh
  <2>6. SplitWhen(s, d, ok) = [facts |-> Record(d.facts, f(ok)), vars |-> set(ok).vars]
    BY <1>1, <1>3
  <2> QED BY <2>1, <2>4, <2>5, <2>6, DisjunctMade
<1>5. ASSUME NEW e, NEW x, Fits(F, {}, d, x, e.ptr), \A v \in PtrVar : x.ptr[v] = e.ptr[v] \/ v = s.ptr,
             x.ptr[s.ptr] \in Meaning(IF x.int[Integer(s.var)] = 0 THEN "NonNull" ELSE "MaybeNull")
      PROVE  Fits(F, {}, SplitWhen(s, d, x.int[Integer(s.var)] = 0), x, x.ptr)
  <2> DEFINE ok == x.int[Integer(s.var)] = 0
  <2>0. ok \in BOOLEAN
    OBVIOUS
  <2>1. x.ptr[s.ptr] \in Meaning(st(ok))
    BY <1>5 DEF st
  <2>2. KeyHolds(x, f(ok).key) = f(ok).value
    <3>1. KeyHolds(x, f(ok).key) = Holds("EQ", x.int[p], 0) /\ f(ok).value = ok
      BY <1>2, <2>0 DEF FactAbout
    <3>2. Holds("EQ", x.int[p], 0) = ok
      BY <1>0 DEF Holds
    <3> QED BY <3>1, <3>2
  <2> HIDE DEF ok
  <2>3. Fits(F, {}, set(ok), x, x.ptr)
    BY <1>0, <1>1, <1>5, <2>0, <2>1, SetKeeps DEF set
  <2>4. /\ f(ok) \in [key : Key(F), value : BOOLEAN] /\ d.facts \in FactsType(F)
        /\ \A g \in d.facts : g.key.var # f(ok).key.var
    BY <1>0, <1>2, <2>0, DisjunctIs DEF FactAbout
  <2>5. FactsHold(F, Record(d.facts, f(ok)), x)
    BY <1>5, <2>2, <2>4, RecordFresh DEF Fits
  <2>6. SplitWhen(s, d, ok) = [facts |-> Record(d.facts, f(ok)), vars |-> set(ok).vars]
    BY <1>1, <1>3, <2>0
  <2>7. Fits(F, {}, SplitWhen(s, d, ok), x, x.ptr)
    BY <2>3, <2>5, <2>6 DEF Fits
  <2> QED BY <2>7 DEF ok
<1> QED BY <1>4, <1>5

\* Whether the result of a call splits the disjuncts.
Splits(F, s) == s.kind = "outParam" /\ s.var \notin collectUnkeyableDecls(F)

Calls(s) == s.kind \in {"passBase", "method"}

\* The pointers that s writes have the state it says, the others stay.
Writes(s, e, x) ==
    /\ \A v \in PtrVar : x.ptr[v] = e.ptr[v] \/ \E w \in written(s) : w.var = v
    /\ \A w \in written(s) : w.var \in PtrVar => x.ptr[w.var] \in Meaning(w.st)

\* The program moves from e to x as the rule expects of s: what a call writes moves
\* after what the call itself stores.
Moves(F, s, e, x) ==
    LET mid == IF Calls(s) THEN e ELSE x
    IN  /\ Unmoved(F, StoreKeys(F, s), e, mid)
        /\ FactsHold(F, Stamps(F, s), mid)
        /\ Calls(s) => Unmoved(F, CallKeys(F, s), e, x)
        /\ ~Splits(F, s) => Writes(s, e, x)
        /\ Splits(F, s) =>
              /\ \A v \in PtrVar : x.ptr[v] = e.ptr[v] \/ v = s.ptr
              /\ x.ptr[s.ptr] \in Meaning(IF x.int[Integer(s.var)] = 0 THEN "NonNull" ELSE "MaybeNull")

\* Only the tracked pointers count.
LEMMA FitsPointers ==
    ASSUME NEW F, NEW X, NEW d, NEW e, NEW p, NEW q, Fits(F, X, d, e, p), \A v \in PtrVar : q[v] = p[v]
    PROVE  Fits(F, X, d, e, q)
<1>1. ASSUME NEW v \in PtrVar
      PROVE  Promised(F, X, d.vars[v], e, q[v])
  <2>1. Promised(F, X, d.vars[v], e, p[v]) /\ q[v] = p[v]
    BY DEF Fits
  <2> QED BY <2>1
<1> QED BY <1>1 DEF Fits

\* What a statement writes.
LEMMA WrittenShape ==
    ASSUME NEW s, StatementType(s)
    PROVE  /\ \A w \in written(s) : w.st \in NullState
           /\ \A v, w \in written(s) : v = w
           /\ Calls(s) => written(s) = {}
           /\ s.kind = "outParam" => written(s) = {[var |-> s.ptr, st |-> "Unknown"]}
<1>1. \A w \in written(s) : w.st \in NullState
  BY DEF written, StatementType, evaluateNullness, NullState, Rhs
<1>2. \A v, w \in written(s) : v = w
  BY DEF written
<1>3. Calls(s) => written(s) = {}
  BY DEF written, Calls
<1>4. s.kind = "outParam" => written(s) = {[var |-> s.ptr, st |-> "Unknown"]}
  BY DEF written
<1> QED BY <1>1, <1>2, <1>3, <1>4

\* The write, where there is no split.
LEMMA WriteKeeps ==
    ASSUME NEW F, NEW s, StatementType(s), NEW d \in Disjunct(F, {})
    PROVE  /\ write(s, d) \in Disjunct(F, {})
           /\ \A e, x, mid : Fits(F, {}, d, mid, e.ptr) /\ Writes(s, e, x) => Fits(F, {}, write(s, d), mid, x.ptr)
<1>1. CASE written(s) = {}
  <2>1. write(s, d) = d
    BY <1>1 DEF write
  <2>2. ASSUME NEW e, NEW x, NEW mid, Fits(F, {}, d, mid, e.ptr), Writes(s, e, x)
        PROVE  Fits(F, {}, d, mid, x.ptr)
    <3>1. \A v \in PtrVar : x.ptr[v] = e.ptr[v]
      BY <1>1, <2>2 DEF Writes
    <3> QED BY <2>2, <3>1, FitsPointers
  <2> QED BY <2>1, <2>2
<1>2. CASE written(s) # {}
  <2> DEFINE w == CHOOSE y \in written(s) : TRUE
  <2>1. w \in written(s) /\ write(s, d) = Given(d, w.var, w.st)
    BY <1>2 DEF write, Given
  <2> HIDE DEF w
  <2>2. w.st \in NullState /\ \A y \in written(s) : y = w
    BY <2>1, WrittenShape
  <2>3. ASSUME NEW e, NEW x, NEW mid, Fits(F, {}, d, mid, e.ptr), Writes(s, e, x)
        PROVE  Fits(F, {}, write(s, d), mid, x.ptr)
    <3>1. \A v \in PtrVar : x.ptr[v] = e.ptr[v] \/ v = w.var
      BY <2>2, <2>3 DEF Writes
    <3>2. w.var \in PtrVar => x.ptr[w.var] \in Meaning(w.st)
      BY <2>1, <2>3 DEF Writes
    <3> QED BY <2>1, <2>2, <2>3, <3>1, <3>2, SetKeeps
  <2> QED BY <2>1, <2>2, <2>3, SetKeeps
<1> QED BY <1>1, <1>2

\* splitOnSuccess makes two disjuncts of one.
LEMMA SplitIs ==
    ASSUME NEW F, NEW s, StatementType(s), s.kind = "outParam", NEW d \in Disjunct(F, {})
    PROVE  splitOnSuccess(s, write(s, d)) = {SplitWhen(s, d, TRUE), SplitWhen(s, d, FALSE)}
<1>0. d = [facts |-> d.facts, vars |-> d.vars] /\ DOMAIN d.vars = PtrVar /\ s.ptr \in PtrVar
  BY DisjunctIs DEF VarMaps, StatementType
<1> DEFINE u == setIfTracked(d.vars, s.ptr, "Unknown")
           c == write(s, d)
<1>1. c = [facts |-> d.facts, vars |-> u]
  <2>1. written(s) # {} /\ (CHOOSE x \in written(s) : TRUE) = [var |-> s.ptr, st |-> "Unknown"]
    BY WrittenShape
  <2> DEFINE w == CHOOSE x \in written(s) : TRUE
  <2>2. w.var = s.ptr /\ w.st = "Unknown"
    <3>1. w = [var |-> s.ptr, st |-> "Unknown"]
      BY <2>1
    <3> HIDE DEF w
    <3> QED BY <3>1
  <2>3. c = [d EXCEPT !.vars = setIfTracked(@, w.var, w.st)]
    BY <2>1 DEF write
  <2> HIDE DEF w, c
  <2> QED BY <1>0, <2>2, <2>3
<1>2. \A st : setIfTracked(u, s.ptr, st) = setIfTracked(d.vars, s.ptr, st)
  BY <1>0 DEF setIfTracked
<1>3. c.facts = d.facts /\ c.vars = u
  BY <1>1
<1> HIDE DEF c, u
<1>4. splitOnSuccess(s, c) = {SplitWhen(s, c, ok) : ok \in BOOLEAN}
  BY DEF splitOnSuccess, SplitWhen, Integer
<1>5. \A ok \in BOOLEAN : SplitWhen(s, c, ok) = SplitWhen(s, d, ok)
  BY <1>2, <1>3 DEF SplitWhen
<1>6. {SplitWhen(s, c, ok) : ok \in BOOLEAN} = {SplitWhen(s, d, TRUE), SplitWhen(s, d, FALSE)}
  BY <1>5
<1> QED BY <1>4, <1>6 DEF c

\* What transfer makes of each disjunct of A, the state after applyStmtFacts.
Written(F, s, A) == {write(s, Dropped(StoreKeys(F, s), d)) : d \in A}
Called(F, s, A) == {Dropped(CallKeys(F, s), Stored(CallKeys(F, s), {}, d)) : d \in Written(F, s, A)}
Split(F, s, A) == UNION {{SplitWhen(s, Dropped(StoreKeys(F, s), d), ok) : ok \in BOOLEAN} : d \in A}

\* transfer, disjunct by disjunct.
LEMMA TransferIs ==
    ASSUME NEW F, Typed(F), NEW s \in F.stmts, NEW S, S \subseteq Disjunct(F, {}),
           NEW A, A = D!applyStmtFacts(Keying(F), S, s), A \subseteq Disjunct(F, StoreKeys(F, s))
    PROVE  transfer(Keying(F), s, S) =
              D!normalizeGuarded(IF Calls(s) THEN Called(F, s, A)
                                 ELSE IF Splits(F, s) THEN Split(F, s, A) ELSE Written(F, s, A))
<1> DEFINE k == Keying(F)
           stored == {write(s, dropImplications(d, LAMBDA key : staleOnStore(s, key))) : d \in A}
           next == CASE s.kind \in {"passBase", "method"} -> {eraseOnCall(k, s, d) : d \in stored}
                     [] s.kind = "outParam" /\ s.var \notin k.unkeyable -> UNION {splitOnSuccess(s, d) : d \in stored}
                     [] OTHER -> stored
<1>0. StatementType(s)
  BY DEF Typed
<1>1. transfer(k, s, S) = D!normalizeGuarded(next)
  BY DEF transfer
<1>2. \A d \in A : Dropped(StoreKeys(F, s), d) \in Disjunct(F, {})
                   /\ write(s, Dropped(StoreKeys(F, s), d)) \in Disjunct(F, {})
  BY <1>0, DroppedKeeps, WriteKeeps
<1>3. stored = Written(F, s, A)
  <2> DEFINE drop(d) == dropImplications(d, LAMBDA key : staleOnStore(s, key))
  <2>1. \A d \in A : drop(d) = Dropped(StoreKeys(F, s), d)
    BY DropIs
  <2>2. stored = {write(s, drop(d)) : d \in A}
    OBVIOUS
  <2> HIDE DEF drop, stored
  <2> QED BY <2>1, <2>2 DEF Written
<1>4. k.unkeyable = collectUnkeyableDecls(F)
  BY DEF Keying
<1>5. CASE Calls(s)
  <2>1. next = {eraseOnCall(k, s, d) : d \in stored}
    BY <1>5 DEF Calls
  <2>2. \A d \in Written(F, s, A) :
           eraseOnCall(k, s, d) = Dropped(CallKeys(F, s), Stored(CallKeys(F, s), {}, d))
    <3> TAKE d \in Written(F, s, A)
    <3>1. d \in Disjunct(F, {})
      BY <1>2 DEF Written
    <3> QED BY <3>1, EraseOnCallIs
  <2> HIDE DEF stored, next
  <2>3. next = Called(F, s, A)
    BY <1>3, <2>1, <2>2 DEF Called
  <2> QED BY <1>1, <1>5, <2>3
<1>6. CASE ~Calls(s) /\ Splits(F, s)
  <2>1. next = UNION {splitOnSuccess(s, d) : d \in stored}
    BY <1>4, <1>6 DEF Splits, Calls
  <2>2. \A d \in A : splitOnSuccess(s, write(s, Dropped(StoreKeys(F, s), d)))
                       = {SplitWhen(s, Dropped(StoreKeys(F, s), d), ok) : ok \in BOOLEAN}
    <3> TAKE d \in A
    <3> DEFINE c == Dropped(StoreKeys(F, s), d)
    <3>1. c \in Disjunct(F, {})
      BY <1>2
    <3> HIDE DEF c
    <3>2. splitOnSuccess(s, write(s, c)) = {SplitWhen(s, c, TRUE), SplitWhen(s, c, FALSE)}
      BY <1>0, <1>6, <3>1, SplitIs DEF Splits
    <3>3. {SplitWhen(s, c, ok) : ok \in BOOLEAN} = {SplitWhen(s, c, TRUE), SplitWhen(s, c, FALSE)}
      OBVIOUS
    <3>4. splitOnSuccess(s, write(s, c)) = {SplitWhen(s, c, ok) : ok \in BOOLEAN}
      BY <3>2, <3>3
    <3> QED BY <3>4 DEF c
  <2> HIDE DEF stored, next
  <2>3. next = Split(F, s, A)
    BY <1>3, <2>1, <2>2 DEF Split, Written
  <2> QED BY <1>1, <1>6, <2>3
<1>7. CASE ~Calls(s) /\ ~Splits(F, s)
  <2>1. next = stored
    BY <1>4, <1>7 DEF Calls, Splits
  <2> HIDE DEF stored, next
  <2> QED BY <1>1, <1>3, <1>7, <2>1
<1> QED BY <1>5, <1>6, <1>7

\* And finitely many.
LEMMA FiniteMade ==
    ASSUME NEW F, NEW s, NEW A, IsFiniteSet(A)
    PROVE  IsFiniteSet(Written(F, s, A)) /\ IsFiniteSet(Called(F, s, A)) /\ IsFiniteSet(Split(F, s, A))
<1> DEFINE W == Written(F, s, A)
           f == [d \in A |-> write(s, Dropped(StoreKeys(F, s), d))]
           g == [d \in W |-> Dropped(CallKeys(F, s), Stored(CallKeys(F, s), {}, d))]
           h == [d \in A |-> {SplitWhen(s, Dropped(StoreKeys(F, s), d), ok) : ok \in BOOLEAN}]
<1>1. IsFiniteSet(W)
  <2>1. W = {f[d] : d \in A} /\ DOMAIN f = A
    BY DEF Written
  <2> HIDE DEF W, f
  <2> QED BY <2>1, FiniteImage
<1> HIDE DEF W
<1>2. IsFiniteSet(Called(F, s, A))
  <2>1. Called(F, s, A) = {g[d] : d \in W} /\ DOMAIN g = W
    BY DEF Called, W
  <2> HIDE DEF g
  <2> QED BY <1>1, <2>1, FiniteImage
<1>3. IsFiniteSet(Split(F, s, A))
  <2>1. Split(F, s, A) = UNION {h[d] : d \in A} /\ DOMAIN h = A
    BY DEF Split
  <2>2. \A d \in A : IsFiniteSet(h[d])
    <3> TAKE d \in A
    <3> DEFINE two(ok) == SplitWhen(s, Dropped(StoreKeys(F, s), d), ok)
    <3>1. h[d] = {two(TRUE)} \cup {two(FALSE)}
      BY Zenon
    <3> HIDE DEF h, two
    <3>2. \A a, b : IsFiniteSet({a} \cup {b})
      <4>1. \A a : IsFiniteSet({a})
        BY FS_Singleton
      <4>2. \A S, T : IsFiniteSet(S) /\ IsFiniteSet(T) => IsFiniteSet(S \cup T)
        BY FS_Union
      <4> QED BY ONLY <4>1, <4>2
    <3>3. IsFiniteSet({two(TRUE)} \cup {two(FALSE)})
      BY ONLY <3>2
    <3> QED BY <3>1, <3>3
  <2> HIDE DEF h
  <2> QED BY <2>1, <2>2, FiniteSpread
<1> QED BY <1>1, <1>2, <1>3 DEF W

\* What a store makes of each disjunct.
StoredAll(F, s, S) == {Stored(StoreKeys(F, s), Stamps(F, s), d) : d \in S}

\* They are disjuncts, and applyStmtFacts normalises them.
LEMMA StoredAllGood ==
    ASSUME NEW F, Typed(F), NEW s \in F.stmts, NEW S, Good(F, {}, S)
    PROVE  /\ Good(F, StoreKeys(F, s), StoredAll(F, s, S))
           /\ D!applyStmtFacts(Keying(F), S, s) = D!normalizeGuarded(StoredAll(F, s, S))
<1> DEFINE X == StoreKeys(F, s)
           stamps == Stamps(F, s)
           B == {Stored(X, stamps, d) : d \in S}
           f == [d \in S |-> Stored(X, stamps, d)]
<1>0. IsFiniteSet(S) /\ S \subseteq Disjunct(F, {}) /\ X \subseteq Key(F) /\ Closed(F, X) /\ StampsType(F, X, stamps)
  BY StoreClosed, StampsAreTyped DEF Good, StoreKeys
<1>1. D!applyStmtFacts(Keying(F), S, s) = D!normalizeGuarded(B)
  BY <1>0, FactsAfter
<1> HIDE DEF X, stamps
<1>2. IsFiniteSet(B)
  <2>1. B = {f[d] : d \in S} /\ DOMAIN f = S
    OBVIOUS
  <2> HIDE DEF f, B
  <2> QED BY <1>0, <2>1, FiniteImage
<1>3. B \subseteq Disjunct(F, X)
  BY <1>0, StoredKeeps
<1> QED BY <1>1, <1>2, <1>3 DEF Good, StoredAll, X, stamps

\* The state after applyStmtFacts.
LEMMA FactsKeep ==
    ASSUME NEW F, Typed(F), NEW s \in F.stmts, NEW S, Good(F, {}, S),
           NEW A, A = D!applyStmtFacts(Keying(F), S, s)
    PROVE  /\ Good(F, StoreKeys(F, s), A)
           /\ \A d \in A : \E c \in S : d.facts \subseteq {f \in c.facts : f.key \notin StoreKeys(F, s)} \cup Stamps(F, s)
           /\ \A e, mid : /\ FitsIn(F, S, e) /\ Unmoved(F, StoreKeys(F, s), e, mid) /\ FactsHold(F, Stamps(F, s), mid)
                          => \E d \in A : Fits(F, StoreKeys(F, s), d, mid, e.ptr)
<1> DEFINE X == StoreKeys(F, s)
           stamps == Stamps(F, s)
           B == {Stored(X, stamps, d) : d \in S}
<1>0. S \subseteq Disjunct(F, {}) /\ X \subseteq Key(F) /\ Closed(F, X) /\ StampsType(F, X, stamps)
  BY StoreClosed, StampsAreTyped DEF Good, StoreKeys
<1>1. A = D!normalizeGuarded(B) /\ Good(F, X, B)
  BY StoredAllGood DEF StoredAll
<1> HIDE DEF X, stamps
<1>2. Good(F, X, B)
  BY <1>1
<1>3. \A b \in B : \E c \in S : b.facts = {g \in c.facts : g.key \notin X} \cup stamps
  BY DEF Stored
<1>4. ASSUME NEW e, NEW mid, FitsIn(F, S, e), Unmoved(F, X, e, mid), FactsHold(F, stamps, mid)
      PROVE  \E d \in B : Fits(F, X, d, mid, e.ptr)
  <2>1. PICK d \in S : Fits(F, {}, d, e, e.ptr)
    BY <1>4 DEF FitsIn
  <2>2. Fits(F, X, Stored(X, stamps, d), mid, e.ptr)
    BY <1>0, <1>4, <2>1, StoredKeeps
  <2> QED BY <2>2
<1> HIDE DEF B
<1>5. Good(F, X, A) /\ Keeps(F, X, B, A)
  BY <1>1, <1>2, NormalizeKeeps
<1>6. \A d \in A : \E c \in S : d.facts \subseteq {g \in c.facts : g.key \notin X} \cup stamps
  <2> TAKE d \in A
  <2>1. PICK b \in B : d.facts \subseteq b.facts
    BY <1>1, <1>2, NormalizeFacts
  <2> QED BY <1>3, <2>1
<1>7. \A e, mid : FitsIn(F, S, e) /\ Unmoved(F, X, e, mid) /\ FactsHold(F, stamps, mid) => \E d \in A : Fits(F, X, d, mid, e.ptr)
  BY <1>4, <1>5 DEF Keeps
<1> QED BY <1>5, <1>6, <1>7 DEF X, stamps

\* What transfer normalises.
Made(F, s, A) == IF Calls(s) THEN Called(F, s, A) ELSE IF Splits(F, s) THEN Split(F, s, A) ELSE Written(F, s, A)

\* It keeps a disjunct that fits.
LEMMA MadeKeeps ==
    ASSUME NEW F, Typed(F), NEW s \in F.stmts, NEW S, Good(F, {}, S)
    PROVE  LET A == D!applyStmtFacts(Keying(F), S, s)
           IN  /\ transfer(Keying(F), s, S) = D!normalizeGuarded(Made(F, s, A))
               /\ Good(F, {}, Made(F, s, A))
               /\ \A e, x : Moves(F, s, e, x) /\ FitsIn(F, S, e) => FitsIn(F, Made(F, s, A), x)
<1> DEFINE A == D!applyStmtFacts(Keying(F), S, s)
           X == StoreKeys(F, s)
           Y == CallKeys(F, s)
           T == IF Calls(s) THEN Called(F, s, A) ELSE IF Splits(F, s) THEN Split(F, s, A) ELSE Written(F, s, A)
<1>0. StatementType(s)
  BY DEF Typed
<1>1. /\ Good(F, X, A)
      /\ \A d \in A : \E c \in S : d.facts \subseteq {f \in c.facts : f.key \notin X} \cup Stamps(F, s)
      /\ \A e, mid : /\ FitsIn(F, S, e) /\ Unmoved(F, X, e, mid) /\ FactsHold(F, Stamps(F, s), mid)
                     => \E d \in A : Fits(F, X, d, mid, e.ptr)
  BY FactsKeep
<1>2. transfer(Keying(F), s, S) = D!normalizeGuarded(T)
  BY <1>1, TransferIs DEF Good
<1> HIDE DEF A
<1>3. \A d \in A : d \in Disjunct(F, X) /\ Dropped(X, d) \in Disjunct(F, {})
  BY <1>1, DroppedKeeps DEF Good
<1>4. Written(F, s, A) \subseteq Disjunct(F, {})
  BY <1>0, <1>3, WriteKeeps DEF Written
<1>5. ASSUME NEW d \in Disjunct(F, {}), Calls(s)
      PROVE  /\ Dropped(Y, Stored(Y, {}, d)) \in Disjunct(F, {})
             /\ \A e, x : Fits(F, {}, d, e, e.ptr) /\ Unmoved(F, Y, e, x) => Fits(F, {}, Dropped(Y, Stored(Y, {}, d)), x, e.ptr)
  <2>1. Closed(F, Y) /\ StampsType(F, Y, {}) /\ Y \subseteq Key(F)
    BY StoreClosed DEF StampsType, CallKeys
  <2> HIDE DEF Y
  <2>2. \A x : FactsHold(F, {}, x)
    BY DEF FactsHold
  <2>3. /\ Stored(Y, {}, d) \in Disjunct(F, Y)
        /\ \A e, x : Fits(F, {}, d, e, e.ptr) /\ Unmoved(F, Y, e, x) => Fits(F, Y, Stored(Y, {}, d), x, e.ptr)
    BY <2>1, <2>2, StoredKeeps
  <2> QED BY <2>3, DroppedKeeps
<1>6. ASSUME NEW d \in A, Splits(F, s)
      PROVE  /\ \A f \in Dropped(X, d).facts : f.key.var # s.var
             /\ \A v \in PtrVar : \A i \in Dropped(X, d).vars[v].impl : i.key.var # s.var
  <2>1. s.var \in assignedDecl(s) /\ Stamps(F, s) = {}
    BY <1>6 DEF Splits, assignedDecl, Stamps, assignedIntLiteral
  <2>2. \A key \in Key(F) : key.var = s.var => key \in X
    BY <2>1 DEF StoreKeys, staleOnStore
  <2>3. /\ \A f \in d.facts : f.key \in Key(F)
        /\ \A v \in PtrVar : \A i \in d.vars[v].impl : i.key \in Key(F)
    BY <1>3, DisjunctIs DEF FactsType, Val, ImplType
  <2>4. \A f \in d.facts : f.key \notin X
    BY <1>1, <2>1
  <2> HIDE DEF X
  <2>5. /\ Dropped(X, d).facts = d.facts
        /\ \A v \in PtrVar : Dropped(X, d).vars[v].impl = {i \in d.vars[v].impl : i.key \notin X}
    BY DEF Dropped
  <2> QED BY <2>2, <2>3, <2>4, <2>5
<1>7. T \subseteq Disjunct(F, {})
  <2>1. CASE Calls(s)
    BY <1>4, <1>5, <2>1 DEF Called
  <2>2. CASE ~Calls(s) /\ Splits(F, s)
    <3> SUFFICES ASSUME NEW d \in A, NEW ok \in BOOLEAN
                 PROVE  SplitWhen(s, Dropped(X, d), ok) \in Disjunct(F, {})
      BY <2>2 DEF Split
    <3> QED BY <1>0, <1>3, <1>6, <2>2, SplitKeeps DEF Splits
  <2>3. CASE ~Calls(s) /\ ~Splits(F, s)
    BY <1>4, <2>3
  <2> QED BY <2>1, <2>2, <2>3
<1>8. Good(F, {}, T)
  BY <1>1, <1>7, FiniteMade DEF Good
<1>9. ASSUME NEW e, NEW x, Moves(F, s, e, x), FitsIn(F, S, e)
      PROVE  \E d \in T : Fits(F, {}, d, x, x.ptr)
  <2> DEFINE mid == IF Calls(s) THEN e ELSE x
  <2>0. /\ Unmoved(F, X, e, mid) /\ FactsHold(F, Stamps(F, s), mid)
        /\ Calls(s) => Unmoved(F, Y, e, x)
        /\ ~Splits(F, s) => Writes(s, e, x)
        /\ Splits(F, s) =>
              /\ \A v \in PtrVar : x.ptr[v] = e.ptr[v] \/ v = s.ptr
              /\ x.ptr[s.ptr] \in Meaning(IF x.int[Integer(s.var)] = 0 THEN "NonNull" ELSE "MaybeNull")
    BY <1>9 DEF Moves
  <2>1. PICK d \in A : Fits(F, X, d, mid, e.ptr)
    BY <1>1, <1>9, <2>0
  <2> DEFINE c == Dropped(X, d)
  <2>2. c \in Disjunct(F, {}) /\ Fits(F, {}, c, mid, e.ptr)
    BY <1>3, <2>1, DroppedKeeps
  <2>3. CASE Calls(s)
    <3>1. ~Splits(F, s) /\ written(s) = {}
      BY <1>0, <2>3, WrittenShape DEF Calls, Splits
    <3>2. write(s, c) = c
      BY <3>1 DEF write
    <3>3. Fits(F, {}, Dropped(Y, Stored(Y, {}, c)), x, e.ptr)
      BY <1>5, <2>0, <2>2, <2>3
    <3>4. \A v \in PtrVar : x.ptr[v] = e.ptr[v]
      BY <2>0, <3>1 DEF Writes
    <3>5. Fits(F, {}, Dropped(Y, Stored(Y, {}, c)), x, x.ptr)
      BY <3>3, <3>4, FitsPointers
    <3>6. Dropped(Y, Stored(Y, {}, c)) \in T
      BY <2>3, <3>2 DEF Called, Written
    <3> QED BY <3>5, <3>6
  <2>4. CASE ~Calls(s) /\ Splits(F, s)
    <3> DEFINE ok == x.int[Integer(s.var)] = 0
    <3>1. Fits(F, {}, SplitWhen(s, c, ok), x, x.ptr)
      <4>1. Fits(F, {}, c, x, e.ptr)
        BY <2>2, <2>4
      <4>2. /\ \A f \in c.facts : f.key.var # s.var
            /\ \A v \in PtrVar : \A i \in c.vars[v].impl : i.key.var # s.var
        BY <1>6, <2>4
      <4> HIDE DEF c
      <4> QED BY <1>0, <2>0, <2>2, <2>4, <4>1, <4>2, SplitKeeps DEF Splits
    <3>2. ok \in BOOLEAN
      OBVIOUS
    <3> HIDE DEF ok
    <3>3. SplitWhen(s, c, ok) \in T
      BY <2>4, <3>2 DEF Split
    <3> QED BY <3>1, <3>3
  <2>5. CASE ~Calls(s) /\ ~Splits(F, s)
    <3>1. Fits(F, {}, write(s, c), x, x.ptr)
      BY <1>0, <2>0, <2>2, <2>5, WriteKeeps
    <3>2. write(s, c) \in T
      BY <2>5 DEF Written
    <3> QED BY <3>1, <3>2
  <2> QED BY <2>3, <2>4, <2>5
<1> HIDE DEF T
<1>10. T = Made(F, s, A)
  BY DEF T, Made
<1>11. \A e, x : Moves(F, s, e, x) /\ FitsIn(F, S, e) => FitsIn(F, T, x)
  BY <1>9 DEF FitsIn
<1> QED BY <1>2, <1>8, <1>10, <1>11 DEF A

\* No statement loses the disjunct that fits.
LEMMA TransferKeeps ==
    ASSUME NEW F, Typed(F), NEW s \in F.stmts, NEW S, Good(F, {}, S)
    PROVE  /\ Good(F, {}, transfer(Keying(F), s, S))
           /\ \A e, x : Moves(F, s, e, x) /\ FitsIn(F, S, e) => FitsIn(F, transfer(Keying(F), s, S), x)
<1> DEFINE T == Made(F, s, D!applyStmtFacts(Keying(F), S, s))
<1>1. /\ transfer(Keying(F), s, S) = D!normalizeGuarded(T)
      /\ Good(F, {}, T)
      /\ \A e, x : Moves(F, s, e, x) /\ FitsIn(F, S, e) => FitsIn(F, T, x)
  BY MadeKeeps
<1> HIDE DEF T
<1>2. Good(F, {}, D!normalizeGuarded(T)) /\ Keeps(F, {}, T, D!normalizeGuarded(T))
  BY <1>1, NormalizeKeeps
<1> QED BY <1>1, <1>2 DEF Keeps, FitsIn

-----------------------------------------------------------------------------
(* The statements of the program move it as the rule expects *)

EnvShape(e) ==
    /\ e = [int |-> e.int, ptr |-> e.ptr]
    /\ e.int \in [Place -> Int] /\ e.ptr \in [PtrVar -> Pointer]
    /\ \A p \in Place : p \in Unsigned => e.int[p] >= 0

\* x differs from e in the places P and the pointers Q only.
Differs(P, Q, e, x) ==
    /\ EnvShape(x)
    /\ \A p \in Place \ P : x.int[p] = e.int[p]
    /\ \A q \in PtrVar \ Q : x.ptr[q] = e.ptr[q]

\* Integers are integers, those without sign not negative.
LEMMA ValuesAreInts ==
    \A p \in Place : Values(p) \subseteq Int /\ (p \in Unsigned => \A v \in Values(p) : v >= 0)
<1>1. Modulus \in Nat /\ Modulus \div 2 \in Int
  BY ModulusAssumption
<1> QED BY <1>1 DEF Values

\* Conversions give what the type can hold.
LEMMA ConvertIsInt ==
    ASSUME NEW p, NEW v \in Int
    PROVE  Convert(p, v) \in Int /\ (p \in Unsigned => Convert(p, v) >= 0)
<1>1. Modulus \in Nat /\ Modulus > 0 /\ Modulus \div 2 \in Int
  BY ModulusAssumption
<1>2. \A x \in Int : x % Modulus \in Int /\ x % Modulus >= 0
  BY <1>1
<1>3. ToSigned(v) \in Int
  BY <1>1, <1>2 DEF ToSigned
<1> QED BY <1>2, <1>3 DEF Convert

\* A write changes one place.
LEMMA PutDiffers ==
    ASSUME NEW e, EnvShape(e), NEW p \in Place, NEW v \in Int
    PROVE  Differs({p}, {}, e, Put(e, p, v)) /\ Put(e, p, v).int[p] = Convert(p, v)
<1> DEFINE c == Convert(p, v)
           int == [e.int EXCEPT ![p] = c]
<1>1. c \in Int /\ (p \in Unsigned => c >= 0)
  BY ConvertIsInt
<1>2. Put(e, p, v) = [int |-> int, ptr |-> e.ptr]
  BY DEF Put, EnvShape
<1> HIDE DEF c
<1>3. int \in [Place -> Int] /\ (\A q \in Place \ {p} : int[q] = e.int[q]) /\ int[p] = c
  BY <1>1 DEF EnvShape
<1>4. \A q \in Place : q \in Unsigned => int[q] >= 0
  BY <1>1, <1>3 DEF EnvShape
<1>5. EnvShape([int |-> int, ptr |-> e.ptr])
  <2> HIDE DEF int
  <2> QED BY <1>3, <1>4 DEF EnvShape
<1> HIDE DEF int
<1>6. Differs({p}, {}, e, [int |-> int, ptr |-> e.ptr])
  BY <1>3, <1>5 DEF Differs
<1> QED BY <1>2, <1>3, <1>6 DEF c

\* A loss of values changes the places that were named.
LEMMA HavocDiffers ==
    ASSUME NEW e, EnvShape(e), NEW P, P \subseteq Place, NEW x \in Havoc(e, P)
    PROVE  Differs(P, {}, e, x)
<1>1. PICK h : /\ \A p \in P : h[p] \in Values(p)
               /\ x = [e EXCEPT !.int = [p \in Place |-> IF p \in P THEN h[p] ELSE @[p]]]
  BY DEF Havoc
<1> DEFINE int == [p \in Place |-> IF p \in P THEN h[p] ELSE e.int[p]]
<1>2. x = [int |-> int, ptr |-> e.ptr]
  BY <1>1 DEF EnvShape
<1>3. int \in [Place -> Int] /\ \A p \in Place : p \in Unsigned => int[p] >= 0
  BY <1>1, ValuesAreInts DEF EnvShape
<1>4. \A p \in Place \ P : int[p] = e.int[p]
  OBVIOUS
<1> HIDE DEF int
<1> QED BY <1>2, <1>3, <1>4 DEF EnvShape, Differs

\* An assignment changes one pointer.
LEMMA PointDiffers ==
    ASSUME NEW e, EnvShape(e), NEW q \in PtrVar, NEW S, S \subseteq Pointer, NEW x \in Point(e, q, S)
    PROVE  Differs({}, {q}, e, x) /\ x.ptr[q] \in S /\ x.int = e.int
<1>1. PICK p \in S : x = [e EXCEPT !.ptr[q] = p]
  BY DEF Point
<1>2. x = [int |-> e.int, ptr |-> [e.ptr EXCEPT ![q] = p]]
  BY <1>1 DEF EnvShape
<1> QED BY <1>2 DEF EnvShape, Differs

\* The places and the pointers that a statement may change.
IntsOf(s) ==
    CASE s.kind \in {"assign", "step", "static", "outParam"} -> {Integer(s.var)}
      [] s.kind \in {"addressOf", "refArg"} -> IF s.var \in PtrVar THEN {} ELSE {Integer(s.var)}
      [] s.kind \in {"storeMember", "stepMember"} -> {[var |-> s.base, field |-> s.field]}
      [] s.kind \in {"storeBase", "operatorStore"} -> Members(s.base)
      [] s.kind \in {"passBase", "method"} -> Touched(s)
      [] s.kind = "call" -> Reachable
      [] OTHER -> {}

PointersOf(s) ==
    CASE s.kind \in {"assignPtr", "staticPtr"} -> {s.var}
      [] s.kind \in {"addressOf", "refArg"} -> IF s.var \in PtrVar THEN {s.var} ELSE {}
      [] s.kind = "outParam" -> {s.ptr}
      [] OTHER -> {}

\* A statement that writes one integer.
LEMMA PutChanges ==
    ASSUME NEW s, NEW e, EnvShape(e), NEW p \in Place, NEW v \in Int, IntsOf(s) = {p}, written(s) = {}
    PROVE  Differs(IntsOf(s), PointersOf(s), e, Put(e, p, v)) /\ Writes(s, e, Put(e, p, v))
<1>1. Differs({p}, {}, e, Put(e, p, v))
  BY PutDiffers
<1> QED BY <1>1 DEF Differs, Writes

\* A statement that may change several integers.
LEMMA HavocChanges ==
    ASSUME NEW s, NEW e, EnvShape(e), IntsOf(s) \subseteq Place, NEW x \in Havoc(e, IntsOf(s)),
           written(s) = {} \/ \A w \in written(s) : w.var \notin PtrVar
    PROVE  Differs(IntsOf(s), PointersOf(s), e, x) /\ Writes(s, e, x)
<1>1. Differs(IntsOf(s), {}, e, x)
  BY HavocDiffers
<1> QED BY <1>1 DEF Differs, Writes

\* A statement that assigns a pointer.
LEMMA PointChanges ==
    ASSUME NEW s, NEW e, EnvShape(e), NEW q \in PtrVar, NEW st, st \in NullState, NEW S, S \subseteq Meaning(st),
           NEW x \in Point(e, q, S), PointersOf(s) = {q}, written(s) = {[var |-> q, st |-> st]}
    PROVE  Differs(IntsOf(s), PointersOf(s), e, x) /\ Writes(s, e, x)
<1>1. S \subseteq Pointer
  BY DEF NullState, Meaning, Pointer
<1>2. Differs({}, {q}, e, x) /\ x.ptr[q] \in S
  BY <1>1, PointDiffers
<1> QED BY <1>2 DEF Differs, Writes

\* What an expression produces is what its nullness stands for.
LEMMA StatesMean ==
    /\ Foreign \subseteq Meaning("Unknown")
    /\ \A rhs \in Rhs : Produces(rhs) \subseteq Meaning(evaluateNullness(rhs)) /\ evaluateNullness(rhs) \in NullState
    /\ \A post \in {"NonNull", "Null", "Unknown"} : PostOf(post) \subseteq Meaning(post) /\ post \in NullState
BY DEF Foreign, Meaning, Rhs, Produces, evaluateNullness, NullState, PostOf, Pointer

\* A statement changes what the rule says it writes, and no more.
LEMMA ChangesAreKnown ==
    ASSUME NEW s, StatementType(s), ~Splits(fn, s), NEW e, EnvShape(e), NEW x \in Effect(s, e)
    PROVE  Differs(IntsOf(s), PointersOf(s), e, x) /\ Writes(s, e, x)
<1>1. CASE s.kind = "assign"
  <2>1. Integer(s.var) \in Place /\ s.lit.value \in Int
    BY <1>1 DEF StatementType, Integer
  <2>2. IntsOf(s) = {Integer(s.var)} /\ written(s) = {} /\ x = Put(e, Integer(s.var), s.lit.value)
    BY <1>1 DEF IntsOf, written, Effect
  <2> QED BY <2>1, <2>2, PutChanges
<1>2. CASE s.kind \in {"step", "static"}
  <2>1. Integer(s.var) \in Place
    BY <1>2 DEF StatementType, Integer
  <2>2. IntsOf(s) = {Integer(s.var)} /\ written(s) = {} /\ x \in Havoc(e, {Integer(s.var)})
    BY <1>2 DEF IntsOf, written, Effect
  <2> QED BY <2>1, <2>2, HavocChanges
<1>3. CASE s.kind = "assignPtr"
  <2>1. s.var \in PtrVar /\ s.rhs \in Rhs
    BY <1>3 DEF StatementType
  <2>2. /\ PointersOf(s) = {s.var} /\ written(s) = {[var |-> s.var, st |-> evaluateNullness(s.rhs)]}
        /\ x \in Point(e, s.var, Produces(s.rhs))
    BY <1>3 DEF PointersOf, written, Effect
  <2> QED BY <2>1, <2>2, StatesMean, PointChanges
<1>4. CASE s.kind = "staticPtr"
  <2>1. s.var \in PtrVar
    BY <1>4 DEF StatementType
  <2>2. /\ PointersOf(s) = {s.var} /\ written(s) = {[var |-> s.var, st |-> "Unknown"]}
        /\ x \in Point(e, s.var, Foreign)
    BY <1>4 DEF PointersOf, written, Effect
  <2>3. "Unknown" \in NullState
    BY DEF NullState
  <2> QED BY <2>1, <2>2, <2>3, StatesMean, PointChanges
<1>5. CASE s.kind \in {"addressOf", "refArg"} /\ s.var \in PtrVar
  <2>1. s.post \in {"NonNull", "Null", "Unknown"}
    BY <1>5 DEF StatementType
  <2>2. /\ PointersOf(s) = {s.var} /\ written(s) = {[var |-> s.var, st |-> s.post]}
        /\ x \in Point(e, s.var, PostOf(s.post))
    BY <1>5 DEF PointersOf, written, Effect
  <2> QED BY <1>5, <2>1, <2>2, StatesMean, PointChanges
<1>6. CASE s.kind \in {"addressOf", "refArg"} /\ s.var \notin PtrVar
  <2>1. Integer(s.var) \in Place
    BY <1>6 DEF StatementType, Integer, Assignable
  <2>2. /\ IntsOf(s) = {Integer(s.var)} /\ written(s) = {[var |-> s.var, st |-> s.post]}
        /\ x \in Havoc(e, {Integer(s.var)})
    BY <1>6 DEF IntsOf, written, Effect
  <2> QED BY <1>6, <2>1, <2>2, HavocChanges
<1>7. CASE s.kind = "outParam"
  <2>1. Integer(s.var) \in Place /\ s.ptr \in PtrVar
    BY <1>7 DEF StatementType, Integer
  <2>2. s.var \in collectUnkeyableDecls(fn)
    BY <1>7 DEF Splits
  <2>3. /\ IntsOf(s) = {Integer(s.var)} /\ PointersOf(s) = {s.ptr}
        /\ written(s) = {[var |-> s.ptr, st |-> "Unknown"]}
        /\ \E f \in Havoc(e, {Integer(s.var)}) : x \in Point(f, s.ptr, Foreign)
    BY <1>7, <2>2 DEF IntsOf, PointersOf, written, Effect
  <2>4. PICK f \in Havoc(e, {Integer(s.var)}) : x \in Point(f, s.ptr, Foreign)
    BY <2>3
  <2>5. Differs({Integer(s.var)}, {}, e, f)
    BY <2>1, HavocDiffers
  <2>6. Foreign \subseteq Pointer /\ Foreign \subseteq Meaning("Unknown")
    BY StatesMean DEF Foreign, Pointer
  <2>7. Differs({}, {s.ptr}, f, x) /\ x.ptr[s.ptr] \in Foreign
    BY <2>1, <2>4, <2>5, <2>6, PointDiffers DEF Differs
  <2>8. Differs({Integer(s.var)}, {s.ptr}, e, x)
    BY <2>5, <2>7 DEF Differs
  <2> QED BY <2>3, <2>6, <2>7, <2>8 DEF Writes, Differs
<1>8. CASE s.kind = "storeMember"
  <2> DEFINE p == [var |-> s.base, field |-> s.field]
  <2>1. p \in Place /\ s.lit.value \in Int
    BY <1>8 DEF StatementType
  <2>2. IntsOf(s) = {p} /\ written(s) = {} /\ x = Put(e, p, s.lit.value)
    BY <1>8 DEF IntsOf, written, Effect
  <2> QED BY <2>1, <2>2, PutChanges
<1>9. CASE s.kind = "stepMember"
  <2> DEFINE p == [var |-> s.base, field |-> s.field]
  <2>1. p \in Place
    BY <1>9 DEF StatementType
  <2>2. IntsOf(s) = {p} /\ written(s) = {} /\ x \in Havoc(e, {p})
    BY <1>9 DEF IntsOf, written, Effect
  <2> QED BY <2>1, <2>2, HavocChanges
<1>10. CASE s.kind \in {"storeBase", "operatorStore"}
  <2>1. Members(s.base) \subseteq Place
    BY DEF Members
  <2>2. IntsOf(s) = Members(s.base) /\ written(s) = {} /\ x \in Havoc(e, Members(s.base))
    BY <1>10 DEF IntsOf, written, Effect
  <2> QED BY <2>1, <2>2, HavocChanges
<1>11. CASE s.kind \in {"passBase", "method"}
  <2>1. Touched(s) \subseteq Place
    BY DEF Members, Touched
  <2>2. IntsOf(s) = Touched(s) /\ written(s) = {} /\ x \in Havoc(e, Touched(s))
    BY <1>11 DEF IntsOf, written, Effect
  <2> QED BY <2>1, <2>2, HavocChanges
<1>12. CASE s.kind = "call"
  <2>1. Reachable \subseteq Place
    BY DEF Reachable
  <2>2. IntsOf(s) = Reachable /\ written(s) = {} /\ x \in Havoc(e, Reachable)
    BY <1>12 DEF IntsOf, written, Effect
  <2> QED BY <2>1, <2>2, HavocChanges
<1>13. CASE s.kind = "assert"
  <2>1. x = e /\ ~IsNull(e.ptr[s.var]) /\ s.var \in PtrVar /\ written(s) = {[var |-> s.var, st |-> "NonNull"]}
    BY <1>13 DEF Effect, StatementType, written
  <2>2. e.ptr[s.var] \in Meaning("NonNull")
    BY <2>1 DEF EnvShape, Pointer, IsNull, Meaning
  <2> QED BY <2>1, <2>2 DEF Differs, Writes
<1>14. CASE s.kind \in {"deref", "callContract", "return", "retain"}
  <2>1. x = e /\ written(s) = {}
    BY <1>14 DEF Effect, written
  <2> QED BY <2>1 DEF Differs, Writes
<1>15. \/ s.kind \in {"assign", "step", "static", "assignPtr", "staticPtr", "addressOf", "refArg", "outParam",
                       "storeMember", "stepMember", "storeBase", "operatorStore", "passBase", "method"}
       \/ s.kind \in {"call", "assert", "deref", "callContract", "return", "retain"}
  BY DEF StatementType
<1> QED BY <1>1, <1>2, <1>3, <1>4, <1>5, <1>6, <1>7, <1>8, <1>9, <1>10, <1>11, <1>12, <1>13, <1>14, <1>15

\* A call with an out-parameter ties the pointer to its result.
LEMMA SplitChanges ==
    ASSUME NEW s, StatementType(s), Splits(fn, s), NEW e, EnvShape(e), NEW x \in Effect(s, e)
    PROVE  /\ Differs(IntsOf(s), PointersOf(s), e, x)
           /\ x.ptr[s.ptr] \in Meaning(IF x.int[Integer(s.var)] = 0 THEN "NonNull" ELSE "MaybeNull")
<1> DEFINE p == Integer(s.var)
           success == Put(e, p, 0)
           failures == {g \in Havoc(e, {p}) : g.int[p] # 0}
<1>1. p \in Place /\ s.ptr \in PtrVar /\ IntsOf(s) = {p} /\ PointersOf(s) = {s.ptr}
  BY DEF StatementType, Integer, Splits, IntsOf, PointersOf
<1>2. \/ x \in Point(success, s.ptr, {"valid"})
      \/ \E f \in failures : x \in Point(f, s.ptr, {"valid", "null"})
  BY DEF Effect, Splits
<1>3. Differs({p}, {}, e, success)
  BY <1>1, PutDiffers
<1>4. \A f \in failures : Differs({p}, {}, e, f) /\ f.int[p] # 0
  BY <1>1, HavocDiffers
<1> HIDE DEF success, failures, p
<1>5. {"valid"} \subseteq Pointer /\ {"valid", "null"} \subseteq Pointer
  BY DEF Pointer
<1>6. CASE x \in Point(success, s.ptr, {"valid"})
  <2>1. Differs({}, {s.ptr}, success, x) /\ x.ptr[s.ptr] = "valid"
    BY <1>1, <1>3, <1>5, <1>6, PointDiffers DEF Differs
  <2>2. Differs({p}, {s.ptr}, e, x)
    BY <1>3, <2>1 DEF Differs
  <2>3. "valid" \in Meaning("NonNull") /\ "valid" \in Meaning("MaybeNull")
    BY DEF Meaning, Pointer
  <2> QED BY <1>1, <2>1, <2>2, <2>3
<1>7. ASSUME NEW f \in failures, x \in Point(f, s.ptr, {"valid", "null"})
      PROVE  /\ Differs(IntsOf(s), PointersOf(s), e, x)
             /\ x.ptr[s.ptr] \in Meaning(IF x.int[p] = 0 THEN "NonNull" ELSE "MaybeNull")
  <2>1. Differs({}, {s.ptr}, f, x) /\ x.ptr[s.ptr] \in {"valid", "null"} /\ x.int = f.int
    BY <1>1, <1>4, <1>5, <1>7, PointDiffers DEF Differs
  <2>2. Differs({p}, {s.ptr}, e, x)
    BY <1>4, <2>1 DEF Differs
  <2>3. x.int[p] # 0 /\ x.ptr[s.ptr] \in Meaning("MaybeNull")
    BY <1>4, <2>1 DEF Meaning, Pointer
  <2> QED BY <1>1, <2>2, <2>3
<1> QED BY <1>2, <1>6, <1>7 DEF p

\* A fact on a place that did not change is as true as before.
LEMMA SameKey ==
    ASSUME NEW F, NEW key \in Key(F), NEW e, NEW x,
           key.var \in PtrVar => x.ptr[key.var] = e.ptr[key.var],
           key.var \notin PtrVar => x.int[PlaceOf(key)] = e.int[PlaceOf(key)]
    PROVE  KeyHolds(x, key) = KeyHolds(e, key)
BY DEF KeyHolds, PlaceOf

\* What a statement changes, the store or the call makes stale, or no key is about it.
LEMMA ChangesAreStale ==
    ASSUME NEW s \in fn.stmts, Typed(fn), StatementNotes(s) = {},
           NEW key \in Key(fn), KeyedIn(fn, key.var)
    PROVE  /\ key.var \in PointersOf(s) => key \in StoreKeys(fn, s)
           /\ key.var \notin PtrVar /\ PlaceOf(key) \in IntsOf(s) =>
                 key \in (IF Calls(s) THEN CallKeys(fn, s) ELSE StoreKeys(fn, s))
<1>0. StatementType(s) /\ Shaped(fn, key)
  BY DEF Typed, Key
<1>1. key.var \notin AddressTaken(fn)
  BY DEF KeyedIn, collectUnkeyableDecls
<1>2. key.var \in assignedDecl(s) => key \in StoreKeys(fn, s)
  BY DEF StoreKeys, staleOnStore
<1>3. ~Var(PlaceOf(key)) /\ key.var \notin PtrVar => key.var \in collectMemberFactBases(fn) /\ key.field # NoField
  BY <1>0 DEF Shaped, Var, PlaceOf
<1>4. ASSUME key.var \in PointersOf(s)
      PROVE  key \in StoreKeys(fn, s)
  <2>1. CASE s.kind \in {"assignPtr", "staticPtr"}
    BY <1>2, <1>4, <2>1 DEF PointersOf, assignedDecl
  <2>2. CASE s.kind = "addressOf"
    BY <1>1, <1>4, <2>2 DEF PointersOf, AddressTaken
  <2>3. CASE s.kind = "outParam"
    BY <1>1, <1>4, <2>3 DEF PointersOf, AddressTaken
  <2>4. CASE s.kind = "refArg"
    <3>1. key.var = s.var /\ s.var \in PtrVar
      BY <1>4, <2>4 DEF PointersOf
    <3>2. key.var \in collectPtrFactDecls(fn)
      BY <1>0, <3>1 DEF Shaped
    <3>3. Keyed(s.var)
      BY <3>1 DEF Keyed, KeyedIn
    <3> QED BY <2>4, <3>1, <3>2, <3>3 DEF StatementNotes, Note
  <2> QED BY <1>4, <2>1, <2>2, <2>3, <2>4 DEF PointersOf
<1>5. ASSUME key.var \notin PtrVar, PlaceOf(key) \in IntsOf(s)
      PROVE  key \in (IF Calls(s) THEN CallKeys(fn, s) ELSE StoreKeys(fn, s))
  <2>1. CASE s.kind \in {"assign", "step", "static", "outParam"}
    <3>1. key.var = s.var
      BY <1>5, <2>1 DEF IntsOf, PlaceOf, Integer
    <3> QED BY <1>2, <2>1, <3>1 DEF assignedDecl, Calls
  <2>2. CASE s.kind \in {"addressOf", "refArg"}
    <3>1. key.var = s.var
      BY <1>5, <2>2 DEF IntsOf, PlaceOf, Integer
    <3>2. s.kind = "refArg"
      BY <1>1, <2>2, <3>1 DEF AddressTaken
    <3>3. Keyed(s.var) /\ s.var \notin PtrVar
      BY <1>5, <3>1 DEF Keyed, KeyedIn
    <3> QED BY <3>2, <3>3 DEF StatementNotes, Note
  <2>3. CASE s.kind \in {"storeMember", "stepMember"}
    <3>1. key.var = s.base /\ key.field = s.field
      BY <1>5, <2>3 DEF IntsOf, PlaceOf
    <3> QED BY <2>3, <3>1 DEF StoreKeys, staleOnStore, assignedMemberFact, Calls
  <2>4. CASE s.kind \in {"storeBase", "operatorStore"}
    <3>1. key.var = s.base /\ ~Var(PlaceOf(key))
      BY <1>5, <2>4 DEF IntsOf, Members, PlaceOf
    <3>2. s.kind = "storeBase"
      BY <1>3, <1>5, <2>4, <3>1 DEF StatementNotes, Note
    <3> QED BY <1>2, <3>1, <3>2 DEF assignedDecl, Calls
  <2>5. CASE s.kind \in {"passBase", "method"}
    <3>1. PlaceOf(key) \in Touched(s) /\ PlaceOf(key).field = key.field
      BY <1>5, <2>5 DEF IntsOf, PlaceOf
    <3>2. key.var = s.base /\ ~Var(PlaceOf(key))
      BY <3>1 DEF Touched, Members, PlaceOf
    <3>3. s.base \in Keying(fn).bases /\ key.field # NoField
      BY <1>3, <1>5, <3>2 DEF Keying
    <3>4. CASE s.kind = "method"
      <4>1. ~s.const \/ key.field \in Mutable
        BY <3>1, <3>4 DEF Touched
      <4>2. staleOnCall(Keying(fn), s, key)
        BY <3>2, <3>3, <3>4, <4>1 DEF staleOnCall
      <4> QED BY <3>4, <4>2 DEF Calls, CallKeys
    <3>5. CASE s.kind = "passBase"
      <4>1. s.exact = {} \/ \E w \in s.exact : key.field \in w
        BY <3>1, <3>5 DEF Touched
      <4>2. writtenFields(s, key.field)
        BY <4>1 DEF writtenFields
      <4>3. staleOnCall(Keying(fn), s, key)
        BY <3>2, <3>3, <3>5, <4>2 DEF staleOnCall
      <4> QED BY <3>5, <4>3 DEF Calls, CallKeys
    <3> QED BY <2>5, <3>4, <3>5
  <2>6. CASE s.kind = "call"
    <3>1. PlaceOf(key) \in Reachable /\ PlaceOf(key) \in Place /\ PlaceOf(key).var = key.var
      BY <1>0, <1>5, <2>6 DEF IntsOf, Shaped, PlaceOf
    <3>2. CASE key.var \notin Local
      <4>1. Keyed(PlaceOf(key).var)
        BY <3>1 DEF Keyed, KeyedIn
      <4> QED BY <2>6, <3>1, <3>2, <4>1 DEF StatementNotes, Note
    <3>3. ASSUME NEW t \in fn.stmts, t.kind = "retain", t.base = key.var
          PROVE  FALSE
      <4>1. PICK p \in Place : p.var = key.var /\ ~Var(p)
        BY <3>3 DEF Typed, StatementType
      <4>2. ~Var(PlaceOf(key))
        BY <3>1, <4>1, PlaceAssumption
      <4> QED BY <1>3, <1>5, <3>3, <4>2 DEF collectMemberFactBases
    <3> QED BY <1>1, <3>1, <3>2, <3>3 DEF Reachable
  <2> QED BY <1>5, <2>1, <2>2, <2>3, <2>4, <2>5, <2>6 DEF IntsOf
<1> QED BY <1>4, <1>5

\* What is stamped is true.
LEMMA StampsHold ==
    ASSUME NEW s \in fn.stmts, Typed(fn), StatementNotes(s) = {}, NEW e, EnvShape(e), NEW x \in Effect(s, e)
    PROVE  FactsHold(fn, Stamps(fn, s), x)
<1>0. StatementType(s)
  BY DEF Typed
<1>1. ASSUME NEW p \in Place, NEW lit, KeyHolds(x, Fact(p, "EQ", lit, TRUE).key) = TRUE
      PROVE  FactsHold(fn, {Fact(p, "EQ", lit, TRUE)}, x)
  <2>1. Fact(p, "EQ", lit, TRUE).value = TRUE
    BY DEF Fact
  <2> QED BY <1>1, <2>1 DEF FactsHold
<1>2. ASSUME NEW p \in Place, NEW v \in Int, x = Put(e, p, v)
      PROVE  KeyHolds(x, Fact(p, "EQ", Convert(p, v), TRUE).key) = TRUE
  <2>1. x.int[p] = Convert(p, v)
    BY <1>2, PutDiffers
  <2>2. p.var \notin PtrVar /\ p = [var |-> p.var, field |-> p.field]
    BY PlaceAssumption
  <2> QED BY <2>1, <2>2 DEF KeyHolds, Fact, Holds
<1>3. CASE s.kind = "assign"
  <2> DEFINE p == Integer(s.var)
  <2>1. p \in Place /\ s.lit.value \in Int /\ x = Put(e, p, s.lit.value)
    BY <1>0, <1>3 DEF StatementType, Integer, Effect
  <2>2. Convert(p, s.lit.value) = intLiteralValue(s.lit)
    BY <1>3 DEF StatementNotes, Note, Converted
  <2>3. Stamps(fn, s) \subseteq {Fact(p, "EQ", intLiteralValue(s.lit), TRUE)}
    <3>1. assignedIntLiteral(s) = {[place |-> p, lit |-> intLiteralValue(s.lit)]}
      BY <1>3 DEF assignedIntLiteral, Integer
    <3>2. assignedDecl(s) # {}
      BY <1>3 DEF assignedDecl
    <3>3. \A a \in assignedIntLiteral(s) : a.place = p /\ a.lit = intLiteralValue(s.lit)
      BY <3>1
    <3> HIDE DEF p
    <3> QED BY <3>2, <3>3 DEF Stamps
  <2> HIDE DEF p
  <2>4. FactsHold(fn, {Fact(p, "EQ", intLiteralValue(s.lit), TRUE)}, x)
    BY <1>1, <1>2, <2>1, <2>2
  <2> QED BY <2>3, <2>4 DEF FactsHold
<1>4. CASE s.kind = "storeMember"
  <2> DEFINE p == [var |-> s.base, field |-> s.field]
  <2>1. p \in Place /\ s.lit.value \in Int /\ x = Put(e, p, s.lit.value)
    BY <1>0, <1>4 DEF StatementType, Effect
  <2>2. Convert(p, s.lit.value) = intLiteralValue(s.lit)
    BY <1>4 DEF StatementNotes, Note, Converted
  <2>3. Stamps(fn, s) \subseteq {Fact(p, "EQ", intLiteralValue(s.lit), TRUE)}
    BY <1>4 DEF Stamps, assignedDecl
  <2> HIDE DEF p
  <2>4. FactsHold(fn, {Fact(p, "EQ", intLiteralValue(s.lit), TRUE)}, x)
    BY <1>1, <1>2, <2>1, <2>2
  <2> QED BY <2>3, <2>4 DEF FactsHold
<1>5. CASE s.kind = "assignPtr"
  <2>1. s.var \in PtrVar /\ x \in Point(e, s.var, Produces(s.rhs)) /\ s.rhs \in Rhs
    BY <1>0, <1>5 DEF StatementType, Effect
  <2>2. Produces("nullLiteral") = {"null"} /\ {"null"} \subseteq Pointer
    BY DEF Produces, Pointer
  <2>3. s.rhs = "nullLiteral" => IsNull(x.ptr[s.var])
    <3> HAVE s.rhs = "nullLiteral"
    <3>1. x \in Point(e, s.var, {"null"})
      BY <2>1, <2>2
    <3>2. x.ptr[s.var] \in {"null"}
      BY <2>1, <2>2, <3>1, PointDiffers
    <3> QED BY <3>2 DEF IsNull
  <2>4. \A f \in Stamps(fn, s) : s.rhs = "nullLiteral" /\ f = Fact(PtrPlace(s.var), "EQ", 0, TRUE)
    <3>1. \A a \in assignedIntLiteral(s) : s.rhs = "nullLiteral" /\ a.place = PtrPlace(s.var) /\ a.lit = 0
      BY <1>5 DEF assignedIntLiteral
    <3>2. assignedDecl(s) # {}
      BY <1>5 DEF assignedDecl
    <3> QED BY <3>1, <3>2 DEF Stamps
  <2>5. IsNull(x.ptr[s.var]) => KeyHolds(x, Fact(PtrPlace(s.var), "EQ", 0, TRUE).key) = TRUE
    BY <2>1 DEF KeyHolds, Fact, PtrPlace
  <2>6. Fact(PtrPlace(s.var), "EQ", 0, TRUE).value = TRUE
    BY DEF Fact
  <2> QED BY <2>3, <2>4, <2>5, <2>6 DEF FactsHold
<1>6. CASE s.kind \notin {"assign", "storeMember", "assignPtr"}
  <2>1. Stamps(fn, s) = {}
    BY <1>6 DEF Stamps, assignedIntLiteral
  <2> QED BY <2>1 DEF FactsHold
<1> QED BY <1>3, <1>4, <1>5, <1>6

\* Every statement moves the execution as transfer expects.
LEMMA EffectMoves ==
    ASSUME NEW s \in fn.stmts, Typed(fn), StatementNotes(s) = {}, NEW e, EnvShape(e), NEW x \in Effect(s, e)
    PROVE  Moves(fn, s, e, x) /\ EnvShape(x)
<1> DEFINE mid == IF Calls(s) THEN e ELSE x
<1>0. StatementType(s)
  BY DEF Typed
<1>1. Differs(IntsOf(s), PointersOf(s), e, x)
  BY <1>0, ChangesAreKnown, SplitChanges
<1>2. ASSUME NEW key \in Key(fn), KeyedIn(fn, key.var), key \notin StoreKeys(fn, s),
             Calls(s) => key \notin CallKeys(fn, s)
      PROVE  KeyHolds(x, key) = KeyHolds(e, key)
  <2>1. key.var \in PtrVar => x.ptr[key.var] = e.ptr[key.var]
    BY <1>1, <1>2, ChangesAreStale DEF Differs
  <2>2. key.var \notin PtrVar => x.int[PlaceOf(key)] = e.int[PlaceOf(key)]
    <3>1. key.var \notin PtrVar => PlaceOf(key) \in Place \ IntsOf(s)
      BY <1>2, ChangesAreStale DEF Key, Shaped
    <3> QED BY <1>1, <3>1 DEF Differs
  <2> QED BY <2>1, <2>2, SameKey
<1>3. Unmoved(fn, StoreKeys(fn, s), e, mid)
  <2>1. CASE Calls(s)
    BY <2>1 DEF Unmoved
  <2>2. CASE ~Calls(s)
    BY <1>2, <2>2 DEF Unmoved
  <2> QED BY <2>1, <2>2
<1>4. Calls(s) => Unmoved(fn, CallKeys(fn, s), e, x)
  <2>1. Calls(s) => StoreKeys(fn, s) = {}
    BY DEF Calls, StoreKeys, staleOnStore, assignedDecl, assignedMemberFact
  <2> QED BY <1>2, <2>1 DEF Unmoved
<1>5. FactsHold(fn, Stamps(fn, s), mid)
  <2>1. CASE Calls(s)
    <3>1. Stamps(fn, s) = {}
      BY <2>1 DEF Calls, Stamps, assignedDecl
    <3> QED BY <3>1 DEF FactsHold
  <2>2. CASE ~Calls(s)
    BY <2>2, StampsHold
  <2> QED BY <2>1, <2>2
<1>6. ~Splits(fn, s) => Writes(s, e, x)
  BY <1>0, ChangesAreKnown
<1>7. Splits(fn, s) =>
         /\ \A v \in PtrVar : x.ptr[v] = e.ptr[v] \/ v = s.ptr
         /\ x.ptr[s.ptr] \in Meaning(IF x.int[Integer(s.var)] = 0 THEN "NonNull" ELSE "MaybeNull")
  <2>1. Splits(fn, s) => PointersOf(s) = {s.ptr}
    BY DEF Splits, PointersOf
  <2> QED BY <1>0, <1>1, <2>1, SplitChanges DEF Differs
<1> QED BY <1>1, <1>3, <1>4, <1>5, <1>6, <1>7 DEF Moves, Differs

-----------------------------------------------------------------------------
(* The first state *)

\* A disjunct in which f is recorded.
Recorded(d, f) == [d EXCEPT !.facts = Record(@, f)]

\* It fits where f holds.
LEMMA RecordedKeeps ==
    ASSUME NEW F, NEW d \in Disjunct(F, {}), NEW f \in [key : Key(F), value : BOOLEAN], KeyedIn(F, f.key.var)
    PROVE  /\ Recorded(d, f) \in Disjunct(F, {})
           /\ \A e : Fits(F, {}, d, e, e.ptr) /\ KeyHolds(e, f.key) = f.value =>
                 Fits(F, {}, Recorded(d, f), e, e.ptr)
<1> DEFINE x == [facts |-> Record(d.facts, f), vars |-> d.vars]
<1>1. /\ d = [facts |-> d.facts, vars |-> d.vars]
      /\ d.facts \in FactsType(F) /\ d.vars \in VarMaps(F)
      /\ \A v \in PtrVar : d.vars[v] \in Val(F) /\ Asleep(F, d.facts, d.vars[v], {})
  BY DisjunctIs
<1>2. Recorded(d, f) = x
  BY <1>1 DEF Recorded
<1>3. x \in Disjunct(F, {})
  BY <1>1, RecordType, DisjunctMade
<1>4. x.facts = Record(d.facts, f) /\ x.vars = d.vars
  OBVIOUS
<1> HIDE DEF x
<1>5. ASSUME NEW e, Fits(F, {}, d, e, e.ptr), KeyHolds(e, f.key) = f.value
      PROVE  Fits(F, {}, x, e, e.ptr)
  <2>1. FactsHold(F, x.facts, e)
    BY <1>1, <1>4, <1>5, RecordType DEF Fits
  <2> QED BY <1>4, <1>5, <2>1 DEF Fits
<1> QED BY <1>2, <1>3, <1>5

Against(f) == [f EXCEPT !.value = ~@]

\* The half of a disjunct in which the condition of the clause r, whose fact is f, fails.
Pinned(r, d, f) == Given(Recorded(d, Against(f)), r.ptr, "NonNull")

\* The two halves of a disjunct: one of them fits where the clause is met.
LEMMA HalvesKeep ==
    ASSUME NEW F, NEW r, RequiresType(r), r.kind = "unless", KeyedIn(F, r.place.var),
           NEW f \in compareFact(r.place, r.op, r.lit), NEW d \in Disjunct(F, {})
    PROVE  /\ Recorded(d, f) \in Disjunct(F, {}) /\ Pinned(r, d, f) \in Disjunct(F, {})
           /\ \A e : EnvShape(e) /\ Admits(r, e) /\ Fits(F, {}, d, e, e.ptr) =>
                 Fits(F, {}, Recorded(d, f), e, e.ptr) \/ Fits(F, {}, Pinned(r, d, f), e, e.ptr)
<1> DEFINE g == Against(f)
           holds(e) == Holds(r.op, e.int[r.place], r.lit)
<1>0. r.ptr \in PtrVar /\ ClauseType(r)
  BY DEF RequiresType
<1>1. /\ f \in [key : Key(F), value : BOOLEAN] /\ f.key.var = r.place.var
      /\ \A e : EnvType(e) => (KeyHolds(e, f.key) <=> (f.value <=> holds(e)))
  <2>1. /\ OptionAbout(F, compareFact(r.place, r.op, r.lit), r.place.var)
        /\ \A e, h : EnvType(e) /\ h \in compareFact(r.place, r.op, r.lit) =>
              KeyHolds(e, h.key) <=> (h.value <=> Holds(r.op, e.int[r.place], r.lit))
    BY <1>0, CompareFactAbout DEF compareFact, ClauseType
  <2> QED BY <2>1 DEF OptionAbout
<1>2. g \in [key : Key(F), value : BOOLEAN] /\ g.key = f.key /\ g.value = ~f.value
  BY <1>1 DEF Against
<1> HIDE DEF g
<1>3. "NonNull" \in NullState
  BY DEF NullState
<1>4. Recorded(d, f) \in Disjunct(F, {}) /\ Recorded(d, g) \in Disjunct(F, {})
  BY <1>1, <1>2, RecordedKeeps
<1>5. Given(Recorded(d, g), r.ptr, "NonNull") \in Disjunct(F, {})
  BY <1>3, <1>4, SetKeeps
<1>6. ASSUME NEW e, EnvShape(e), Admits(r, e), Fits(F, {}, d, e, e.ptr)
      PROVE  \/ Fits(F, {}, Recorded(d, f), e, e.ptr)
             \/ Fits(F, {}, Given(Recorded(d, g), r.ptr, "NonNull"), e, e.ptr)
  <2>0. EnvType(e)
    BY <1>6 DEF EnvShape, EnvType
  <2>1. KeyHolds(e, f.key) \in BOOLEAN
    BY <1>1, KeyShape, KeyHoldsBoolean
  <2>2. CASE holds(e)
    <3>1. KeyHolds(e, f.key) = f.value
      BY <1>1, <2>0, <2>1, <2>2
    <3> QED BY <1>1, <1>6, <3>1, RecordedKeeps
  <2>3. CASE ~holds(e)
    <3>1. KeyHolds(e, g.key) = g.value
      BY <1>1, <1>2, <2>0, <2>1, <2>3
    <3>2. Fits(F, {}, Recorded(d, g), e, e.ptr)
      BY <1>1, <1>2, <1>6, <3>1, RecordedKeeps
    <3>3. e.ptr[r.ptr] \in Meaning("NonNull")
      BY <1>0, <1>6, <2>3 DEF Admits, EnvShape, Pointer, IsNull, Meaning
    <3> QED BY <1>3, <1>4, <3>2, <3>3, SetKeeps
  <2> QED BY <2>2, <2>3
<1> QED BY <1>4, <1>5, <1>6 DEF Pinned, g

\* What seedRequires makes of a clause.
LEMMA SeedIs ==
    ASSUME NEW r, NEW S
    PROVE  LET o == compareFact(r.place, r.op, r.lit)
               skipped == r.place.var \in collectUnkeyableDecls(fn) \/ o = {}
           IN  /\ r.kind = "nonNull" => seedRequire(S, r) = {Given(d, r.ptr, "NonNull") : d \in S}
               /\ r.kind = "unless" /\ skipped => seedRequire(S, r) = S
               /\ r.kind = "unless" /\ ~skipped =>
                     \A f : o = {f} =>
                        seedRequire(S, r) = D!normalizeGuarded({Recorded(d, f) : d \in S} \cup {Pinned(r, d, f) : d \in S})
<1> DEFINE o == compareFact(r.place, r.op, r.lit)
           skipped == r.place.var \in collectUnkeyableDecls(fn) \/ o = {}
           pins == {Given(d, r.ptr, "NonNull") : d \in S}
           halves(d, f) == {Recorded(d, f), Pinned(r, d, f)}
           split == UNION {halves(d, f) : d \in S, f \in o}
<1>1. seedRequire(S, r) = CASE r.kind = "nonNull" -> pins
                            [] r.kind = "unless" /\ skipped -> S
                            [] OTHER -> D!normalizeGuarded(split)
  BY DEF seedRequire, Given, Pinned, Recorded, Against
<1>2. \A f : o = {f} => split = {Recorded(d, f) : d \in S} \cup {Pinned(r, d, f) : d \in S}
  <2> SUFFICES ASSUME NEW f, o = {f} PROVE split = {Recorded(d, f) : d \in S} \cup {Pinned(r, d, f) : d \in S}
    OBVIOUS
  <2> HIDE DEF o
  <2> HIDE DEF halves
  <2>1. {halves(d, x) : d \in S, x \in o} = {halves(d, f) : d \in S}
    OBVIOUS
  <2>2. split = UNION {halves(d, f) : d \in S}
    BY <2>1
  <2> QED BY <2>2 DEF halves
<1> HIDE DEF pins, split, skipped, o
<1>3. r.kind = "nonNull" => seedRequire(S, r) = pins
  BY <1>1
<1>4. r.kind = "unless" /\ skipped => seedRequire(S, r) = S
  BY <1>1
<1>5. r.kind = "unless" /\ ~skipped => seedRequire(S, r) = D!normalizeGuarded(split)
  BY <1>1
<1> QED BY <1>2, <1>3, <1>4, <1>5 DEF pins, skipped, o

\* A clause loses no start that meets it.
LEMMA SeedKeeps ==
    ASSUME NEW r, RequiresType(r), NEW S, Good(fn, {}, S)
    PROVE  /\ Good(fn, {}, seedRequire(S, r))
           /\ \A e : EnvShape(e) /\ Admits(r, e) /\ FitsIn(fn, S, e) => FitsIn(fn, seedRequire(S, r), e)
<1> DEFINE o == compareFact(r.place, r.op, r.lit)
           skipped == r.place.var \in collectUnkeyableDecls(fn) \/ o = {}
<1>0. IsFiniteSet(S) /\ (\A d \in S : d \in Disjunct(fn, {})) /\ r.ptr \in PtrVar
  BY DEF Good, RequiresType
<1>1. CASE r.kind = "nonNull"
  <2> DEFINE pin == [d \in S |-> Given(d, r.ptr, "NonNull")]
             T == {pin[d] : d \in S}
  <2>1. seedRequire(S, r) = T
    BY <1>1, SeedIs
  <2>2. "NonNull" \in NullState
    BY DEF NullState
  <2>3. \A d \in S : pin[d] \in Disjunct(fn, {})
    BY <1>0, <2>2, SetKeeps
  <2>4. ASSUME NEW e, EnvShape(e), Admits(r, e), NEW d \in S, Fits(fn, {}, d, e, e.ptr)
        PROVE  Fits(fn, {}, pin[d], e, e.ptr)
    <3>1. e.ptr[r.ptr] \in Meaning("NonNull")
      BY <1>0, <1>1, <2>4 DEF Admits, EnvShape, Pointer, IsNull, Meaning
    <3> QED BY <1>0, <2>2, <2>4, <3>1, SetKeeps
  <2>5. DOMAIN pin = S
    OBVIOUS
  <2> HIDE DEF pin
  <2>6. IsFiniteSet(T)
    BY <1>0, <2>5, FiniteImage
  <2>7. Good(fn, {}, T)
    BY <2>3, <2>6 DEF Good
  <2>8. \A e : EnvShape(e) /\ Admits(r, e) /\ FitsIn(fn, S, e) => FitsIn(fn, T, e)
    BY <2>4 DEF FitsIn
  <2> QED BY <2>1, <2>7, <2>8
<1>2. CASE r.kind = "unless" /\ skipped
  <2>1. seedRequire(S, r) = S
    BY <1>2, SeedIs
  <2> QED BY <2>1
<1>3. CASE r.kind = "unless" /\ ~skipped
  <2>0. ClauseType(r) /\ KeyedIn(fn, r.place.var)
    BY <1>3 DEF RequiresType, ClauseType, KeyedIn
  <2>1. PICK f : o = {f}
    <3>1. OptionAbout(fn, o, r.place.var)
      BY <2>0, CompareFactAbout DEF compareFact, ClauseType
    <3> QED BY <1>3, <3>1 DEF OptionAbout
  <2> DEFINE free == [d \in S |-> Recorded(d, f)]
             pin == [d \in S |-> Pinned(r, d, f)]
             T == {free[d] : d \in S} \cup {pin[d] : d \in S}
  <2>2. seedRequire(S, r) = D!normalizeGuarded(T)
    <3>1. T = {Recorded(d, f) : d \in S} \cup {Pinned(r, d, f) : d \in S}
      OBVIOUS
    <3> QED BY <1>3, <2>1, <3>1, SeedIs
  <2>3. /\ \A d \in S : free[d] \in Disjunct(fn, {}) /\ pin[d] \in Disjunct(fn, {})
        /\ \A e : \A d \in S : EnvShape(e) /\ Admits(r, e) /\ Fits(fn, {}, d, e, e.ptr) =>
              Fits(fn, {}, free[d], e, e.ptr) \/ Fits(fn, {}, pin[d], e, e.ptr)
    BY <1>0, <1>3, <2>0, <2>1, HalvesKeep
  <2>4. DOMAIN free = S /\ DOMAIN pin = S
    OBVIOUS
  <2> HIDE DEF free, pin
  <2>5. IsFiniteSet({free[d] : d \in S}) /\ IsFiniteSet({pin[d] : d \in S})
    BY <1>0, <2>4, FiniteImage
  <2>6. IsFiniteSet(T)
    BY <2>5, FS_Union
  <2>7. Good(fn, {}, T)
    BY <2>3, <2>6 DEF Good
  <2>8. \A e : EnvShape(e) /\ Admits(r, e) /\ FitsIn(fn, S, e) => FitsIn(fn, T, e)
    BY <2>3 DEF FitsIn
  <2> HIDE DEF T
  <2> QED BY <2>2, <2>7, <2>8, NormalizeKeeps DEF Keeps, FitsIn
<1> QED BY <1>1, <1>2, <1>3 DEF RequiresType

\* The state after the first i clauses.
SeededBy(h) ==
    h = [i \in 0 .. Len(fn.requires) |-> IF i = 0 THEN Unconstrained ELSE seedRequire(h[i - 1], fn.requires[i])]

GoodStates == {S \in SUBSET Disjunct(fn, {}) : Good(fn, {}, S)}

\* Nothing is known at the start.
LEMMA NoFactsType == \A F : {} \in FactsType(F)
BY DEF FactsType

\* Nothing is known of any pointer.
LEMMA UnconstrainedFits ==
    /\ Unconstrained \in GoodStates
    /\ \A e : (\A v \in PtrVar : e.ptr[v] \in Foreign) => FitsIn(fn, Unconstrained, e)
<1> DEFINE map == [v \in PtrVar |-> Plain("Unknown")]
           d == [facts |-> {}, vars |-> map]
<1>1. Plain("Unknown") \in Val(fn) /\ Plain("Unknown").impl = {} /\ Plain("Unknown").st = "Unknown"
  BY DEF Plain, Val, NullState
<1>2. map \in VarMaps(fn) /\ \A v \in PtrVar : map[v].impl = {} /\ map[v].st = "Unknown"
  BY <1>1 DEF VarMaps
<1>3. Unconstrained = {d}
  BY DEF Unconstrained
<1> HIDE DEF map
<1>4. \A v \in PtrVar : Asleep(fn, {}, map[v], {})
  BY <1>2 DEF Asleep
<1>5. {} \in FactsType(fn)
  BY NoFactsType
<1>6. d \in Disjunct(fn, {})
  BY <1>2, <1>4, <1>5, DisjunctMade
<1>7. ASSUME NEW e, \A v \in PtrVar : e.ptr[v] \in Foreign
      PROVE  Fits(fn, {}, d, e, e.ptr)
  <2>1. \A v \in PtrVar : Promised(fn, {}, map[v], e, e.ptr[v])
    BY <1>2, <1>7, StatesMean DEF Promised
  <2> QED BY <2>1 DEF Fits, FactsHold
<1> HIDE DEF d
<1>8. Good(fn, {}, {d})
  BY <1>6, FS_Singleton DEF Good
<1> QED BY <1>3, <1>6, <1>7, <1>8 DEF GoodStates, FitsIn

\* The clauses in their order have a state after each.
LEMMA SeedingExists ==
    ASSUME fn \in Function
    PROVE  \E h : SeededBy(h)
<1> DEFINE n == Len(fn.requires)
           Next1(i, S) == seedRequire(S, fn.requires[i])
           Upto(f, m) == f[0] = Unconstrained /\ \A i \in 1 .. m : f[i] = Next1(i, f[i - 1])
           T == {m \in 0 .. n : \E f \in [0 .. m -> GoodStates] : Upto(f, m)}
<1>0. n \in Nat /\ \A i \in 1 .. n : RequiresType(fn.requires[i])
  BY FunctionAssumption
<1>1. \A i \in 1 .. n : \A S \in GoodStates : Next1(i, S) \in GoodStates
  BY <1>0, SeedKeeps DEF GoodStates, Good
<1> HIDE DEF n, Next1
<1>2. 0 \in T
  <2> DEFINE g == [i \in 0 .. 0 |-> Unconstrained]
  <2>1. g \in [0 .. 0 -> GoodStates] /\ Upto(g, 0)
    BY UnconstrainedFits
  <2>2. 0 \in 0 .. n
    BY <1>0
  <2> HIDE DEF g
  <2> QED BY <2>1, <2>2, Zenon
<1>3. ASSUME NEW m \in 0 .. n, m # n, m \in T
      PROVE  m + 1 \in T
  <2>1. PICK f \in [0 .. m -> GoodStates] : Upto(f, m)
    BY <1>3
  <2> DEFINE g == [i \in 0 .. (m + 1) |-> IF i = m + 1 THEN Next1(m + 1, f[m]) ELSE f[i]]
  <2>2. m + 1 \in 1 .. n /\ m + 1 \in 0 .. n
    BY <1>0, <1>3
  <2>3. f[m] \in GoodStates /\ Next1(m + 1, f[m]) \in GoodStates
    <3>1. m \in 0 .. m
      OBVIOUS
    <3> QED BY <1>1, <2>2, <3>1
  <2>4. g \in [0 .. (m + 1) -> GoodStates]
    BY <2>3
  <2>5. ASSUME NEW i \in 1 .. (m + 1) PROVE g[i] = Next1(i, g[i - 1])
    <3>1. CASE i = m + 1
      BY <3>1
    <3>2. CASE i \in 1 .. m
      <4>1. f[i] = Next1(i, f[i - 1])
        BY <2>1, <3>2
      <4>2. g[i] = f[i] /\ g[i - 1] = f[i - 1]
        BY <3>2
      <4> QED BY <4>1, <4>2
    <3> QED BY <3>1, <3>2
  <2>6. g[0] = Unconstrained
    BY <2>1
  <2> HIDE DEF g
  <2> QED BY <2>2, <2>4, <2>5, <2>6
<1>4. n \in T
  <2> HIDE DEF T
  <2>1. \A m \in 0 .. n : m \in T
    BY <1>0, <1>2, <1>3, UpTo
  <2> QED BY <1>0, <2>1
<1>5. PICK f \in [0 .. n -> GoodStates] : Upto(f, n)
  BY <1>4
<1>6. ASSUME NEW i \in 0 .. n
      PROVE  f[i] = IF i = 0 THEN Unconstrained ELSE Next1(i, f[i - 1])
  <2>1. CASE i = 0
    BY <1>5, <2>1
  <2>2. CASE i \in 1 .. n
    BY <1>0, <1>5, <2>2
  <2> QED BY <1>0, <2>1, <2>2
<1>7. f = [i \in 0 .. n |-> f[i]]
  OBVIOUS
<1>8. f = [i \in 0 .. n |-> IF i = 0 THEN Unconstrained ELSE Next1(i, f[i - 1])]
  BY <1>6, <1>7, Zenon
<1> QED BY <1>8 DEF SeededBy, n, Next1

\* The first state stands for every start that the contract admits.
LEMMA InitialFits ==
    ASSUME fn \in Function, NEW e, EnvShape(e), \A v \in PtrVar : e.ptr[v] \in Foreign,
           \A i \in 1 .. Len(fn.requires) : Admits(fn.requires[i], e)
    PROVE  Good(fn, {}, initialState) /\ FitsIn(fn, initialState, e)
<1> DEFINE n == Len(fn.requires)
           h == CHOOSE g : SeededBy(g)
           T == {m \in 0 .. n : h[m] \in GoodStates /\ FitsIn(fn, h[m], e)}
<1>0. n \in Nat /\ \A i \in 1 .. n : RequiresType(fn.requires[i])
  BY FunctionAssumption
<1>1. initialState = h[n]
  BY DEF initialState, SeededBy
<1>2. SeededBy(h)
  BY SeedingExists
<1> HIDE DEF h
<1>3. \A i \in 0 .. n : h[i] = IF i = 0 THEN Unconstrained ELSE seedRequire(h[i - 1], fn.requires[i])
  BY <1>2, Zenon DEF SeededBy
<1> HIDE DEF n
<1>4. 0 \in T
  BY <1>0, <1>3, UnconstrainedFits
<1>5. ASSUME NEW m \in 0 .. n, m # n, m \in T
      PROVE  m + 1 \in T
  <2>1. m + 1 \in 1 .. n /\ m + 1 \in 0 .. n /\ (m + 1) - 1 = m
    BY <1>0, <1>5
  <2>2. h[m + 1] = seedRequire(h[m], fn.requires[m + 1])
    BY <1>3, <2>1
  <2>3. Good(fn, {}, h[m]) /\ FitsIn(fn, h[m], e) /\ Admits(fn.requires[m + 1], e) /\ RequiresType(fn.requires[m + 1])
    BY <1>0, <1>5, <2>1 DEF GoodStates, n
  <2>4. Good(fn, {}, h[m + 1]) /\ FitsIn(fn, h[m + 1], e)
    BY <2>2, <2>3, SeedKeeps
  <2> QED BY <2>1, <2>4 DEF GoodStates, Good
<1>6. n \in T
  <2> HIDE DEF T
  <2>1. \A m \in 0 .. n : m \in T
    BY <1>0, <1>4, <1>5, UpTo
  <2> QED BY <1>0, <2>1
<1> QED BY <1>1, <1>6 DEF GoodStates

-----------------------------------------------------------------------------
(* The invariant *)

Sound ==
    /\ fn \in Function /\ steps \in Nat
    /\ EnvShape(env)
    /\ Good(fn, {}, state) /\ Good(fn, {}, other)
    /\ outside = {} => FitsIn(fn, state, env)

\* The assumption for one function.
LEMMA FunctionsAreTyped ==
    ASSUME NEW f \in Function
    PROVE  Typed(f) /\ f.bound \in Nat /\ Len(f.script) \in Nat
BY FunctionAssumption DEF Typed

\* What may run next is in the text.
LEMMA NowIn ==
    ASSUME fn \in Function, steps \in Nat
    PROVE  /\ Now.stmts \subseteq fn.stmts /\ Now.conds \subseteq fn.conds
           /\ \A i \in Now.ifs : i[1] \in fn.conds /\ i[2] \in fn.stmts
           /\ Last \in Nat
<1>1. Last \in Nat
  BY FunctionsAreTyped DEF Last
<1>2. Now \in {fn} \cup {fn.script[i] : i \in 1 .. Len(fn.script)}
  <2>1. CASE fn.script = <<>> \/ ~Running
    BY <2>1 DEF Now
  <2>2. CASE ~(fn.script = <<>> \/ ~Running)
    <3>1. steps + 1 \in 1 .. Len(fn.script)
      BY <2>2, FunctionsAreTyped DEF Running, Last
    <3> QED BY <2>2, <3>1 DEF Now
  <2> QED BY <2>1, <2>2
<1>3. /\ Now.stmts \subseteq fn.stmts /\ Now.conds \subseteq fn.conds
      /\ \A i \in Now.ifs : i[1] \in fn.conds /\ i[2] \in fn.stmts
  <2> DEFINE now == Now
  <2>1. now \in {fn} \cup {fn.script[i] : i \in 1 .. Len(fn.script)}
    BY <1>2
  <2> HIDE DEF now
  <2>2. now.stmts \subseteq fn.stmts /\ now.conds \subseteq fn.conds /\ \A i \in now.ifs : i[1] \in fn.conds /\ i[2] \in fn.stmts
    BY <2>1, FunctionAssumption
  <2> QED BY <2>2 DEF now
<1> QED BY <1>1, <1>3

\* An environment gives what a condition reads.
LEMMA EnvHasType == \A e : EnvShape(e) => EnvType(e)
BY DEF EnvShape, EnvType

\* A condition whose leaves C reads as the rule does.
LEMMA BranchArrives ==
    ASSUME NEW c, NEW e, EnvShape(e), NEW taken \in Taken(c, e), ConditionNotes(c, e) = {}
    PROVE  Arrives(c, e, taken)
<1>1. \A leaf \in Evaluated(c, e) : Plainly(leaf, e)
  BY DEF ConditionNotes, Note, Plainly
<1> QED BY <1>1, EnvHasType DEF Arrives

-----------------------------------------------------------------------------
(* It is inductive *)

\* The initial states.
LEMMA InitSound == Init => Sound
<1> SUFFICES ASSUME Init PROVE Sound
  OBVIOUS
<1>1. PICK ints \in Inputs(fn.inputs), ptrs \in [PtrVar -> Foreign] :
         env = [int |-> ints, ptr |-> ptrs] /\ \A i \in 1 .. Len(fn.requires) : Admits(fn.requires[i], env)
  BY DEF Init
<1>2. ints \in [Place -> Int] /\ \A p \in Place : p \in Unsigned => ints[p] >= 0
  <2>1. /\ DOMAIN ints = Place /\ ints = [p \in Place |-> ints[p]]
        /\ \A p \in Place : ints[p] \in Values(p) \cup {0}
    BY DEF Inputs
  <2> QED BY <2>1, ValuesAreInts
<1>3. ptrs \in [PtrVar -> Pointer]
  BY DEF Foreign, Pointer
<1>4. EnvShape(env) /\ \A v \in PtrVar : env.ptr[v] \in Foreign
  BY <1>1, <1>2, <1>3 DEF EnvShape
<1>5. fn \in Function /\ steps \in Nat /\ state = initialState /\ other = {}
  BY DEF Init
<1>6. Good(fn, {}, state) /\ FitsIn(fn, state, env)
  BY <1>1, <1>4, <1>5, InitialFits
<1>7. Good(fn, {}, other)
  BY <1>5, FS_EmptySet DEF Good
<1> QED BY <1>4, <1>5, <1>6, <1>7 DEF Sound

\* A statement leaves an environment.
LEMMA EffectShape ==
    ASSUME NEW s, StatementType(s), NEW e, EnvShape(e), NEW x \in Effect(s, e)
    PROVE  EnvShape(x)
BY ChangesAreKnown, SplitChanges DEF Differs

\* A statement of the path taken, from S.
LEMMA StepFits ==
    ASSUME Typed(fn), NEW s \in fn.stmts, NEW S, Good(fn, {}, S), NEW e, EnvShape(e), FitsIn(fn, S, e),
           StatementNotes(s) = {}, NEW x \in Effect(s, e)
    PROVE  FitsIn(fn, transfer(Keying(fn), s, S), x)
BY EffectMoves, TransferKeeps

\* A statement on the path of the execution.
LEMMA StatementSound ==
    ASSUME Sound, NEW s \in Now.stmts, Statement(s)
    PROVE  Sound'
<1>1. s \in fn.stmts /\ Typed(fn) /\ Last \in Nat
  BY NowIn, FunctionsAreTyped DEF Sound
<1>2. Good(fn, {}, state')
  BY <1>1, TransferKeeps DEF Sound, Statement
<1>3. EnvShape(env')
  BY <1>1, EffectShape DEF Sound, Statement, Typed
<1>4. ASSUME outside' = {}
      PROVE  FitsIn(fn, state', env')
  <2>1. outside = {} /\ StatementNotes(s) = {}
    BY <1>4 DEF Statement
  <2> QED BY <1>1, <2>1, StepFits DEF Sound, Statement
<1>5. fn' = fn /\ other' = other /\ steps' \in Nat
  BY <1>1 DEF Sound, Statement
<1> QED BY <1>2, <1>3, <1>4, <1>5 DEF Sound

\* A statement on the other path.
LEMMA OtherStatementSound ==
    ASSUME Sound, NEW s \in Now.stmts, OtherStatement(s)
    PROVE  Sound'
<1>1. s \in fn.stmts /\ Typed(fn)
  BY NowIn, FunctionsAreTyped DEF Sound
<1>2. Good(fn, {}, other')
  BY <1>1, TransferKeeps DEF Sound, OtherStatement
<1>3. fn' = fn /\ state' = state /\ env' = env /\ outside' = outside /\ steps' \in Nat
  BY DEF Sound, OtherStatement
<1> QED BY <1>2, <1>3 DEF Sound

\* A condition, on both paths.
LEMMA BranchSound ==
    ASSUME Sound, NEW c \in Now.conds, NEW taken \in BOOLEAN, Branch(c, taken)
    PROVE  Sound'
<1>1. c \in fn.conds /\ Typed(fn) /\ ConditionType(c)
  BY NowIn, FunctionsAreTyped DEF Sound, Typed
<1>2. \A b \in BOOLEAN : Good(fn, {}, refineOnEdge(state, c, b))
  BY <1>1, EdgeKeeps DEF Sound, refineOnEdge
<1>3. Good(fn, {}, state') /\ Good(fn, {}, other')
  BY <1>2 DEF Sound, Branch
<1>4. ASSUME outside' = {}
      PROVE  FitsIn(fn, state', env)
  <2>1. outside = {} /\ ConditionNotes(c, env) = {}
    BY <1>4 DEF Branch
  <2>2. Arrives(c, env, taken)
    BY <2>1, BranchArrives DEF Sound, Branch
  <2> QED BY <1>1, <2>1, <2>2, EdgeKeeps DEF Sound, Branch, refineOnEdge
<1>5. fn' = fn /\ env' = env /\ steps' \in Nat
  BY DEF Sound, Branch
<1> QED BY <1>3, <1>4, <1>5 DEF Sound

\* A condition with its statement, joined again.
LEMMA IfThenSound ==
    ASSUME Sound, NEW i \in Now.ifs, IfThen(i[1], i[2])
    PROVE  Sound'
<1> DEFINE c == i[1]
           s == i[2]
           entered == refineOnEdge(state, c, TRUE)
           passed == refineOnEdge(state, c, FALSE)
           left == transfer(Keying(fn), s, entered)
<1>1. c \in fn.conds /\ s \in fn.stmts /\ Typed(fn) /\ ConditionType(c) /\ StatementType(s) /\ Last \in Nat
  BY NowIn, FunctionsAreTyped DEF Sound, Typed
<1>2. PICK taken \in Taken(c, env) :
         /\ state' = merge(left, passed)
         /\ env' \in IF taken THEN Effect(s, env) ELSE {env}
         /\ steps' = IF taken /\ Ends(s) THEN Last ELSE steps + 1
         /\ outside' = outside \cup ConditionNotes(c, env) \cup (IF taken THEN StatementNotes(s) ELSE {})
         /\ UNCHANGED <<fn, other>>
  BY DEF IfThen
<1> HIDE DEF c, s
<1>3. Good(fn, {}, entered) /\ Good(fn, {}, passed)
  BY <1>1, EdgeKeeps DEF Sound, refineOnEdge
<1>4. Good(fn, {}, left)
  BY <1>1, <1>3, TransferKeeps
<1>5. taken \in BOOLEAN
  <2>1. Taken(c, env) \subseteq BOOLEAN
    BY DEF Taken, ConditionValues
  <2> QED BY <2>1
<1> HIDE DEF left, passed
<1>6. /\ Good(fn, {}, state')
      /\ Keeps(fn, {}, left, state') /\ Keeps(fn, {}, passed, state')
  BY <1>2, <1>3, <1>4, MergeKeeps DEF merge
<1>7. EnvShape(env')
  BY <1>1, <1>2, EffectShape DEF Sound
<1>8. ASSUME outside' = {}
      PROVE  FitsIn(fn, state', env')
  <2>1. outside = {} /\ ConditionNotes(c, env) = {} /\ (taken => StatementNotes(s) = {})
    BY <1>2, <1>8
  <2>2. Arrives(c, env, taken) /\ FitsIn(fn, state, env)
    BY <2>1, BranchArrives DEF Sound
  <2>3. CASE taken = TRUE
    <3>1. FitsIn(fn, entered, env)
      BY <1>1, <2>2, <2>3, EdgeKeeps DEF Sound, refineOnEdge
    <3> HIDE DEF entered
    <3>2. FitsIn(fn, left, env')
      BY <1>1, <1>2, <1>3, <2>1, <2>3, <3>1, StepFits DEF Sound, left
    <3> QED BY <1>6, <3>2 DEF Keeps, FitsIn
  <2>4. CASE taken = FALSE
    <3>1. FitsIn(fn, passed, env)
      BY <1>1, <2>2, <2>4, EdgeKeeps DEF Sound, refineOnEdge, passed
    <3>2. env' = env
      BY <1>2, <2>4
    <3> QED BY <1>6, <3>1, <3>2 DEF Keeps, FitsIn
  <2> QED BY <1>5, <2>3, <2>4
<1>9. fn' = fn /\ other' = other /\ steps' \in Nat
  BY <1>1, <1>2 DEF Sound
<1> QED BY <1>6, <1>7, <1>8, <1>9 DEF Sound

\* The two paths meet.
LEMMA JoinSound ==
    ASSUME Sound, Join
    PROVE  Sound'
<1>1. Good(fn, {}, state') /\ Keeps(fn, {}, state, state')
  BY MergeKeeps DEF Sound, Join, merge
<1>2. Good(fn, {}, other')
  BY FS_EmptySet DEF Good, Join
<1>3. fn' = fn /\ env' = env /\ outside' = outside /\ steps' = steps
  BY DEF Join
<1> QED BY <1>1, <1>2, <1>3 DEF Sound, Keeps, FitsIn

\* The head of a loop.
LEMMA WidenSound ==
    ASSUME Sound, Widen
    PROVE  Sound'
<1>1. Good(fn, {}, state') /\ Keeps(fn, {}, state, state')
  BY WidenKeeps DEF Sound, Widen, widen
<1>2. fn' = fn /\ env' = env /\ outside' = outside /\ steps' = steps /\ other' = other
  BY DEF Widen
<1> QED BY <1>1, <1>2 DEF Sound, Keeps, FitsIn

\* Sound is inductive.
LEMMA NextSound == Sound /\ [Next]_vars => Sound'
<1> SUFFICES ASSUME Sound, [Next]_vars PROVE Sound'
  OBVIOUS
<1>1. CASE \E s \in Now.stmts : Statement(s)
  BY <1>1, StatementSound
<1>2. CASE \E s \in Now.stmts : OtherStatement(s)
  BY <1>2, OtherStatementSound
<1>3. CASE \E c \in Now.conds, taken \in BOOLEAN : Branch(c, taken)
  BY <1>3, BranchSound
<1>4. CASE \E i \in Now.ifs : IfThen(i[1], i[2])
  BY <1>4, IfThenSound
<1>5. CASE Join
  BY <1>5, JoinSound
<1>6. CASE Widen
  BY <1>6, WidenSound
<1>7. CASE UNCHANGED vars
  BY <1>7 DEF vars, Sound
<1> QED BY <1>1, <1>2, <1>3, <1>4, <1>5, <1>6, <1>7 DEF Next

\* The inductive invariant: at every step a disjunct of the state fits the execution.
THEOREM Soundness == Spec => []Sound
BY InitSound, NextSound, PTL DEF Spec

\* Sound says at least what Covered says.
LEMMA SoundCovers == Sound => Covered
BY DescribesFits DEF Sound, Covered, FitsIn

\* No path is lost (Covered).
THEOREM CoveredAlways == Spec => []Covered
BY Soundness, SoundCovers, PTL

-----------------------------------------------------------------------------
(* A null that is used is reported *)

\* A state that stands for null is one that is reported.
LEMMA NullShows == \A st \in NullState : "null" \in Meaning(st) => st \in {"Null", "MaybeNull"}
BY DEF NullState, Meaning

\* The reporting view gives each pointer a state that stands for what it holds.
LEMMA ViewFits ==
    ASSUME NEW F, NEW S, Good(F, {}, S), NEW e, FitsIn(F, S, e)
    PROVE  /\ DOMAIN reportingView(S) = PtrVar
           /\ \A v \in PtrVar : reportingView(S)[v] \in NullState /\ e.ptr[v] \in Meaning(reportingView(S)[v])
<1> DEFINE m == D!mergeAll(S)
<1>1. PICK d \in S : Fits(F, {}, d, e, e.ptr)
  BY DEF FitsIn
<1>2. IsFiniteSet(S) /\ S # {} /\ \A c \in S : c.vars \in VarMaps(F)
  BY <1>1, DisjunctIs DEF Good
<1>3. AllBlend(F, {}, {}, S, m)
  BY <1>2, NoFactsType, MergeAllBlends
<1> HIDE DEF m
<1>4. m \in VarMaps(F) /\ \A v \in PtrVar : Blends(F, {}, {}, {c.vars[v] : c \in S}, m[v])
  BY <1>3 DEF AllBlend
<1>5. ASSUME NEW v \in PtrVar
      PROVE  m[v].st \in NullState /\ e.ptr[v] \in Meaning(m[v].st)
  <2>1. Promised(F, {}, d.vars[v], e, e.ptr[v]) /\ d.vars[v] \in {c.vars[v] : c \in S}
    BY <1>1 DEF Fits
  <2>2. FactsHold(F, {}, e)
    BY DEF FactsHold
  <2>3. Promised(F, {}, m[v], e, e.ptr[v]) /\ m[v] \in Val(F)
    BY <1>4, <2>1, <2>2 DEF Blends
  <2> QED BY <2>3 DEF Promised, Val
<1>6. reportingView(S) = [v \in DOMAIN m |-> m[v].st]
  BY DEF reportingView, D!flattenGuarded, m
<1>7. DOMAIN m = PtrVar
  BY <1>4 DEF VarMaps
<1> QED BY <1>5, <1>6, <1>7

\* The guard of an ensures clause that holds is open in a disjunct that fits.
LEMMA GuardIsOpen ==
    ASSUME fn \in Function, fn.ensures.given, NEW S, Good(fn, {}, S), NEW e, EnvShape(e),
           NEW d \in S, Fits(fn, {}, d, e, e.ptr),
           Holds(fn.ensures.op, e.int[fn.ensures.place], fn.ensures.lit)
    PROVE  d \in guardOpen(S, compareFact(fn.ensures.place, fn.ensures.op, fn.ensures.lit))
<1> DEFINE r == fn.ensures
           o == compareFact(r.place, r.op, r.lit)
<1>1. ClauseType(r) /\ KeyedIn(fn, r.place.var)
  BY FunctionAssumption DEF Enforced, ClauseType, KeyedIn
<1>2. /\ Option(fn, o)
      /\ \A f \in o : KeyHolds(e, f.key) <=> (f.value <=> Holds(r.op, e.int[r.place], r.lit))
  BY <1>1, CompareFactSound, EnvHasType DEF compareFact, ClauseType
<1> HIDE DEF o
<1>3. ASSUME NEW f \in o
      PROVE  ~factsContradict(d.facts, f.key, f.value)
  <2>1. f.key \in Key(fn) /\ f.value \in BOOLEAN /\ KeyedIn(fn, f.key.var)
    BY <1>2, <1>3 DEF Option
  <2>2. KeyHolds(e, f.key) \in BOOLEAN
    BY <2>1, KeyShape, KeyHoldsBoolean
  <2>3. KeyHolds(e, f.key) = f.value
    BY <1>2, <1>3, <2>1, <2>2
  <2>4. d.facts \in FactsType(fn) /\ FactsHold(fn, d.facts, e)
    BY DisjunctIs DEF Good, Fits
  <2> QED BY <2>1, <2>3, <2>4, NoContradiction
<1> QED BY <1>3 DEF guardOpen, o

\* What a report is about.
LEMMA DiagFields == \A rule, severity, v, line : Diag(rule, severity, v, line).rule = rule /\ Diag(rule, severity, v, line).line = line
BY DEF Diag

\* What s uses is reported, or was already.
LEMMA UseIsReported ==
    ASSUME fn \in Function, NEW s \in fn.stmts, NEW S, Good(fn, {}, S), EnvShape(env), FitsIn(fn, S, env),
           NEW u \in NullsUsed(s)
    PROVE  \E g \in diags \cup onStatement(S, s) : g.rule = u.rule /\ g.line = u.line
<1>0. StatementType(s)
  BY FunctionsAreTyped DEF Typed
<1>1. /\ u = [rule |-> IF s.kind = "deref" THEN "null-deref" ELSE "contract", line |-> s.line]
      /\ \/ s.kind = "deref" /\ env.ptr[s.var] = "null"
         \/ /\ s.kind = "callContract" /\ env.ptr[s.var] = "null"
            /\ \/ s.contract \in {"requires", "proposed"}
               \/ s.contract = "unless" /\ s.excuse = "fails"
         \/ /\ s.kind = "return" /\ env.ptr[s.var] = "null" /\ fn.ensures.given
            /\ Holds(fn.ensures.op, env.int[fn.ensures.place], fn.ensures.lit)
  BY DEF NullsUsed
<1>2. s.var \in PtrVar
  BY <1>0, <1>1 DEF StatementType
<1>3. /\ s.var \in DOMAIN reportingView(S)
      /\ reportingView(S)[s.var] \in {"Null", "MaybeNull"}
  <2>1. reportingView(S)[s.var] \in NullState /\ env.ptr[s.var] \in Meaning(reportingView(S)[s.var])
    BY <1>2, ViewFits
  <2> QED BY <1>1, <1>2, <2>1, NullShows, ViewFits
<1>4. CASE s.kind = "deref"
  <2>1. u.rule = "null-deref" /\ u.line = s.line /\ onStatement(S, s) = reportDerefOf(S, s.var, s.line)
    BY <1>1, <1>4 DEF onStatement
  <2>2. CASE \E g \in diags : g.rule = "null-deref" /\ g.var = s.var /\ g.line = s.line
    BY <2>1, <2>2
  <2>3. CASE ~ \E g \in diags : g.rule = "null-deref" /\ g.var = s.var /\ g.line = s.line
    <3>1. \E severity : reportDerefOf(S, s.var, s.line) = {Diag("null-deref", severity, s.var, s.line)}
      BY <1>3, <2>3 DEF reportDerefOf
    <3> QED BY <2>1, <3>1, DiagFields
  <2> QED BY <2>2, <2>3
<1>5. CASE s.kind = "callContract"
  <2>1. u.rule = "contract" /\ u.line = s.line /\ onStatement(S, s) = checkCallContracts(S, s)
    BY <1>1, <1>5 DEF onStatement
  <2>2. CASE \E g \in diags : g.rule = "contract" /\ g.line = s.line
    BY <2>1, <2>2
  <2>3. CASE ~ \E g \in diags : g.rule = "contract" /\ g.line = s.line
    <3>1. ArgState(S, s.var) \in {"Null", "MaybeNull"}
      BY <1>3 DEF ArgState
    <3>2. \E severity : checkCallContracts(S, s) = {Diag("contract", severity, s.var, s.line)}
      BY <1>1, <1>5, <2>3, <3>1 DEF checkCallContracts
    <3> QED BY <2>1, <3>2, DiagFields
  <2> QED BY <2>2, <2>3
<1>6. CASE s.kind = "return"
  <2>1. u.rule = "contract" /\ u.line = s.line /\ onStatement(S, s) = checkGuardedEnsures(S, s)
    BY <1>1, <1>6 DEF onStatement
  <2>2. CASE \E g \in diags : g.rule = "contract" /\ g.line = s.line
    BY <2>1, <2>2
  <2>3. CASE ~ \E g \in diags : g.rule = "contract" /\ g.line = s.line
    <3> DEFINE guard == compareFact(fn.ensures.place, fn.ensures.op, fn.ensures.lit)
               nulls == {d \in guardOpen(S, guard) : d.vars[s.var].st \in {"Null", "MaybeNull"}}
    <3>1. PICK d \in S : Fits(fn, {}, d, env, env.ptr)
      BY DEF FitsIn
    <3>2. d \in guardOpen(S, guard)
      BY <1>1, <1>6, <3>1, GuardIsOpen
    <3>3. d.vars[s.var].st \in NullState /\ "null" \in Meaning(d.vars[s.var].st)
      <4>1. d.vars[s.var] \in Val(fn)
        BY <1>2, DisjunctIs DEF Good
      <4> QED BY <1>1, <1>2, <3>1, <4>1 DEF Fits, Promised, Val
    <3>4. nulls # {}
      BY <3>2, <3>3, NullShows
    <3>5. \E severity : checkGuardedEnsures(S, s) = {Diag("contract", severity, s.var, s.line)}
      <4> DEFINE definite == \E c \in nulls : /\ c.vars[s.var].st = "Null"
                                              /\ \A f \in guard : factsContradict(c.facts, f.key, ~f.value)
      <4>1. checkGuardedEnsures(S, s) =
              IF ~fn.ensures.given \/ nulls = {} \/ (\E g \in diags : g.rule = "contract" /\ g.line = s.line)
                THEN {} ELSE {Diag("contract", IF definite THEN "error" ELSE "warning", s.var, s.line)}
        BY DEF checkGuardedEnsures
      <4> HIDE DEF nulls, definite
      <4> QED BY <1>1, <1>6, <2>3, <3>4, <4>1
    <3> QED BY <2>1, <3>5, DiagFields
  <2> QED BY <2>2, <2>3
<1> QED BY <1>1, <1>4, <1>5, <1>6

\* A use in a statement.
LEMMA StatementTells ==
    ASSUME Sound, NullUseReported, NEW s \in Now.stmts, Statement(s)
    PROVE  NullUseReported'
<1> SUFFICES ASSUME outside' = {}, NEW u \in uses'
             PROVE  \E g \in diags' : g.rule = u.rule /\ g.line = u.line
  BY DEF NullUseReported
<1>1. s \in fn.stmts /\ outside = {} /\ diags' = diags \cup onStatement(state, s) /\ uses' = uses \cup NullsUsed(s)
  BY NowIn DEF Sound, Statement
<1>2. CASE u \in uses
  BY <1>1, <1>2 DEF NullUseReported
<1>3. CASE u \in NullsUsed(s)
  BY <1>1, <1>3, UseIsReported DEF Sound
<1> QED BY <1>1, <1>2, <1>3

\* A use behind its guard.
LEMMA IfThenTells ==
    ASSUME Sound, NullUseReported, NEW i \in Now.ifs, IfThen(i[1], i[2])
    PROVE  NullUseReported'
<1> DEFINE c == i[1]
           s == i[2]
           entered == refineOnEdge(state, c, TRUE)
<1> SUFFICES ASSUME outside' = {}, NEW u \in uses'
             PROVE  \E g \in diags' : g.rule = u.rule /\ g.line = u.line
  BY DEF NullUseReported
<1>1. c \in fn.conds /\ s \in fn.stmts /\ Typed(fn) /\ ConditionType(c)
  BY NowIn, FunctionsAreTyped DEF Sound, Typed
<1>2. PICK taken \in Taken(c, env) :
         /\ diags' = diags \cup onStatement(entered, s)
         /\ uses' = IF taken THEN uses \cup NullsUsed(s) ELSE uses
         /\ outside' = outside \cup ConditionNotes(c, env) \cup (IF taken THEN StatementNotes(s) ELSE {})
  BY DEF IfThen
<1> HIDE DEF c, s
<1>3. taken \in BOOLEAN
  <2>1. Taken(c, env) \subseteq BOOLEAN
    BY DEF Taken, ConditionValues
  <2> QED BY <2>1
<1>4. outside = {} /\ ConditionNotes(c, env) = {}
  BY <1>2
<1>5. CASE u \in uses
  BY <1>2, <1>4, <1>5 DEF NullUseReported
<1>6. CASE taken = TRUE /\ u \in NullsUsed(s)
  <2>1. Arrives(c, env, TRUE) /\ FitsIn(fn, state, env)
    BY <1>2, <1>4, <1>6, BranchArrives DEF Sound
  <2>2. Good(fn, {}, entered) /\ FitsIn(fn, entered, env)
    BY <1>1, <2>1, EdgeKeeps DEF Sound, refineOnEdge
  <2> HIDE DEF entered
  <2>3. \E g \in diags \cup onStatement(entered, s) : g.rule = u.rule /\ g.line = u.line
    BY <1>1, <1>6, <2>2, UseIsReported DEF Sound
  <2> QED BY <1>2, <2>3
<1> QED BY <1>2, <1>3, <1>5, <1>6

\* Steps that use nothing.
LEMMA OthersTell ==
    ASSUME NullUseReported, uses' = uses, diags \subseteq diags', outside \subseteq outside'
    PROVE  NullUseReported'
BY DEF NullUseReported

\* A use is reported when it happens, and reports stay.
LEMMA NextTells == Sound /\ NullUseReported /\ [Next]_vars => NullUseReported'
<1> SUFFICES ASSUME Sound, NullUseReported, [Next]_vars PROVE NullUseReported'
  OBVIOUS
<1>1. CASE \E s \in Now.stmts : Statement(s)
  BY <1>1, StatementTells
<1>2. CASE \E s \in Now.stmts : OtherStatement(s)
  BY <1>2, OthersTell DEF OtherStatement
<1>3. CASE \E c \in Now.conds, taken \in BOOLEAN : Branch(c, taken)
  BY <1>3, OthersTell DEF Branch
<1>4. CASE \E i \in Now.ifs : IfThen(i[1], i[2])
  BY <1>4, IfThenTells
<1>5. CASE Join
  BY <1>5, OthersTell DEF Join
<1>6. CASE Widen
  BY <1>6, OthersTell DEF Widen
<1>7. CASE UNCHANGED vars
  BY <1>7, OthersTell DEF vars
<1> QED BY <1>1, <1>2, <1>3, <1>4, <1>5, <1>6, <1>7 DEF Next

\* A null whose source the rule knows is reported where it is used (NullUseReported).
THEOREM NullsAreReported == Spec => []NullUseReported
<1>1. Init => NullUseReported
  BY DEF Init, NullUseReported
<1> QED BY <1>1, Soundness, NextTells, PTL DEF Spec

-----------------------------------------------------------------------------
(* The merged analysis *)

\* All disjuncts of S give v the state st.
Says(S, v, st) == \A d \in S : d.vars[v].st = st

\* T says of the pointers outside W what S definitely says of them.
Hands(S, T, W) ==
    /\ T # {} => S # {}
    /\ \A v \in PtrVar, st \in Definite : v \notin W /\ Says(S, v, st) => Says(T, v, st)

\* No disjunct of S knows of a null.
Silent(S) == \A d \in S : \A v \in PtrVar : hasNoNullInfo(d.vars[v].st)

\* From S to T to U.
LEMMA HandsOn ==
    ASSUME NEW S, NEW T, NEW U, NEW V, NEW W, Hands(S, T, V), Hands(T, U, W)
    PROVE  Hands(S, U, V \cup W)
BY DEF Hands

\* Disjuncts that differ from those of S in the pointers of W.
LEMMA CopiesHand ==
    ASSUME NEW S, NEW T, NEW W,
           \A c \in T : \E d \in S : \A v \in PtrVar : v \in W \/ c.vars[v].st = d.vars[v].st
    PROVE  Hands(S, T, W)
<1>1. T # {} => S # {}
  OBVIOUS
<1>2. ASSUME NEW v \in PtrVar, NEW st \in Definite, v \notin W, Says(S, v, st), NEW c \in T
      PROVE  c.vars[v].st = st
  BY <1>2 DEF Says
<1> QED BY <1>1, <1>2 DEF Hands, Says

\* The disjuncts with the same facts, united (uniteSameFacts).
LEMMA UniteHands ==
    ASSUME NEW F, NEW X, NEW S, Good(F, X, S)
    PROVE  Hands(S, D!uniteSameFacts(S), {}) /\ (Silent(S) => Silent(D!uniteSameFacts(S)))
<1> DEFINE Same(facts) == {d \in S : d.facts = facts}
           united(facts) == [facts |-> facts, vars |-> mergeMeet(S, facts)]
           all == {d.facts : d \in S}
<1>1. D!uniteSameFacts(S) = {united(facts) : facts \in all}
  BY DEF D!uniteSameFacts, mergeMeet
<1>2. IsFiniteSet(S) /\ \A d \in S : d.facts \in FactsType(F) /\ d.vars \in VarMaps(F)
  BY DisjunctIs DEF Good
<1>3. ASSUME NEW facts \in all
      PROVE  AllBlend(F, X, facts, Same(facts), mergeMeet(S, facts))
  <2>1. facts \in FactsType(F) /\ Same(facts) # {}
    BY <1>2
  <2> QED BY <1>2, <2>1, MergeMeetBlends
<1>4. \A facts \in all : united(facts).vars = mergeMeet(S, facts)
  OBVIOUS
<1> HIDE DEF all, united
<1>5. ASSUME NEW c \in D!uniteSameFacts(S)
      PROVE  \A v \in PtrVar :
                /\ \A st \in Definite : Says(S, v, st) => c.vars[v].st = st
                /\ Silent(S) => hasNoNullInfo(c.vars[v].st)
  <2>1. PICK facts \in all : c = united(facts)
    BY <1>1
  <2>2. AllBlend(F, X, facts, Same(facts), c.vars)
    BY <1>3, <1>4, <2>1
  <2> TAKE v \in PtrVar
  <2>3. Blends(F, X, facts, {d.vars[v] : d \in Same(facts)}, c.vars[v])
    BY <2>2 DEF AllBlend
  <2> QED BY <2>3 DEF Blends, Says, Silent
<1>6. D!uniteSameFacts(S) # {} => S # {}
  BY <1>1 DEF all
<1> QED BY <1>5, <1>6 DEF Hands, Silent, Says

\* The collapse to one disjunct (widenGuardedOps).
LEMMA WidenHands ==
    ASSUME NEW F, NEW X, NEW S, Good(F, X, S)
    PROVE  Hands(S, D!widenGuarded(S), {}) /\ (Silent(S) => Silent(D!widenGuarded(S)))
<1>1. CASE D!Cardinality(S) <= 1
  <2>1. D!widenGuarded(S) = S
    BY <1>1 DEF D!widenGuarded
  <2> QED BY <2>1 DEF Hands
<1>2. CASE ~(D!Cardinality(S) <= 1)
  <2> DEFINE common == {f \in UNION {d.facts : d \in S} : \A d \in S : f \in d.facts}
             map == D!mergeAll(S)
             c == [facts |-> common, vars |-> map]
  <2>1. D!widenGuarded(S) = {mineGuardImplications(S, c)} /\ S # {}
    BY <1>2, EmptyCardinality DEF D!widenGuarded
  <2>2. IsFiniteSet(S) /\ \A d \in S : d.vars \in VarMaps(F)
    BY DisjunctIs DEF Good
  <2>3. AllBlend(F, X, {}, S, map)
    BY <2>1, <2>2, NoFactsType, MergeAllBlends
  <2> HIDE DEF map, common
  <2>4. map \in VarMaps(F) /\ \A v \in PtrVar : Blends(F, X, {}, {d.vars[v] : d \in S}, map[v])
    BY <2>3 DEF AllBlend
  <2>5. c.vars = map /\ DOMAIN c.vars = PtrVar
    BY <2>4 DEF VarMaps
  <2> HIDE DEF c
  <2>6. mineGuardImplications(S, c) = [c EXCEPT !.vars = MinedVars(S, map)]
    BY <2>5, MineIs
  <2> DEFINE w == mineGuardImplications(S, c)
  <2>7. w.vars = MinedVars(S, map)
    <3>1. c = [facts |-> common, vars |-> map]
      BY DEF c
    <3>2. [c EXCEPT !.vars = MinedVars(S, map)] = [facts |-> common, vars |-> MinedVars(S, map)]
      BY <3>1
    <3> QED BY <2>6, <3>2
  <2>8. \A v \in PtrVar : w.vars[v].st = map[v].st
    <3> TAKE v \in PtrVar
    <3>1. map[v] = [st |-> map[v].st, impl |-> map[v].impl]
      BY <2>4 DEF Blends, Val
    <3>2. \A new : [map[v] EXCEPT !.impl = new].st = map[v].st
      BY <3>1
    <3> HIDE DEF w
    <3> QED BY <2>7, <3>2 DEF MinedVars
  <2> HIDE DEF w
  <2>9. ASSUME NEW v \in PtrVar
        PROVE  /\ \A st \in Definite : Says(S, v, st) => w.vars[v].st = st
               /\ Silent(S) => hasNoNullInfo(w.vars[v].st)
    <3>1. Blends(F, X, {}, {d.vars[v] : d \in S}, map[v])
      BY <2>4
    <3> QED BY <2>8, <3>1 DEF Blends, Says, Silent
  <2>10. Hands(S, {w}, {}) /\ (Silent(S) => Silent({w}))
    BY <2>1, <2>9 DEF Hands, Silent, Says
  <2> QED BY <2>1, <2>10 DEF w
<1> QED BY <1>1, <1>2

\* normalizeGuardedOps.
LEMMA NormalizeHands ==
    ASSUME NEW F, NEW X, NEW S, Good(F, X, S)
    PROVE  Hands(S, D!normalizeGuarded(S), {}) /\ (Silent(S) => Silent(D!normalizeGuarded(S)))
<1> DEFINE united == D!uniteSameFacts(S)
<1>1. Good(F, X, united) /\ Hands(S, united, {}) /\ (Silent(S) => Silent(united))
  BY UniteKeeps, UniteHands
<1>2. D!normalizeGuarded(S) \in {united, D!widenGuarded(united)}
  BY DEF D!normalizeGuarded
<1> HIDE DEF united
<1>3. Hands(united, D!widenGuarded(united), {}) /\ (Silent(united) => Silent(D!widenGuarded(united)))
  BY <1>1, WidenHands
<1>4. Hands(S, D!widenGuarded(united), {})
  BY <1>1, <1>3, HandsOn DEF Hands
<1> QED BY <1>1, <1>2, <1>3, <1>4

\* The view of some disjuncts, pointer by pointer.
LEMMA ViewIs ==
    ASSUME NEW F, NEW S, Good(F, {}, S)
    PROVE  /\ reportingView(S) = [v \in IF S = {} THEN {} ELSE PtrVar |-> reportingView(S)[v]]
           /\ S # {} => \A v \in PtrVar :
                 /\ reportingView(S)[v] \in NullState
                 /\ \A st \in Definite : reportingView(S)[v] = st <=> Says(S, v, st)
                 /\ Silent(S) => hasNoNullInfo(reportingView(S)[v])
<1> DEFINE m == D!mergeAll(S)
<1>1. IsFiniteSet(S) /\ \A d \in S : d.vars \in VarMaps(F)
  BY DisjunctIs DEF Good
<1>2. reportingView(S) = [v \in DOMAIN m |-> m[v].st]
  BY DEF reportingView, D!flattenGuarded
<1>3. CASE S = {}
  <2> DEFINE P(g) == g = [s \in SUBSET {} |-> IF s = {} THEN D!NoVars ELSE MergeMaps(g[Rest(s)], Pick(s).vars)]
  <2>1. m = (CHOOSE g : P(g))[{}]
    BY <1>3 DEF D!mergeAll, D!FoldSet, D!MapThenFoldSet, Pick, Rest, MergeMaps
  <2>2. P([s \in SUBSET {} |-> D!NoVars])
    OBVIOUS
  <2> HIDE DEF P
  <2>3. P(CHOOSE g : P(g))
    BY <2>2
  <2>4. m = D!NoVars
    BY <2>1, <2>3 DEF P
  <2> HIDE DEF m
  <2>5. DOMAIN m = {}
    BY <2>4 DEF D!NoVars
  <2> QED BY <1>2, <1>3, <2>5
<1>4. CASE S # {}
  <2>1. AllBlend(F, {}, {}, S, m)
    BY <1>1, <1>4, NoFactsType, MergeAllBlends
  <2> HIDE DEF m
  <2>2. DOMAIN m = PtrVar /\ \A v \in PtrVar : Blends(F, {}, {}, {d.vars[v] : d \in S}, m[v])
    BY <2>1 DEF AllBlend, VarMaps
  <2>3. ASSUME NEW v \in PtrVar
        PROVE  /\ m[v].st \in NullState
               /\ \A st \in Definite : m[v].st = st <=> Says(S, v, st)
               /\ Silent(S) => hasNoNullInfo(m[v].st)
    <3>1. Blends(F, {}, {}, {d.vars[v] : d \in S}, m[v])
      BY <2>2
    <3> QED BY <3>1 DEF Blends, Val, Says, Silent
  <2> QED BY <1>2, <1>4, <2>2, <2>3
<1> QED BY <1>3, <1>4

-----------------------------------------------------------------------------
(* A condition on an edge keeps the definite answers and adds its own *)

\* What a leaf proves of one pointer it proves once.
LEMMA WalkAgrees ==
    ASSUME NEW leaf, NEW isTrue, NEW m \in walkNullCondition(leaf, isTrue), NEW n \in walkNullCondition(leaf, isTrue)
    PROVE  m.var = n.var => m.null = n.null
<1>1. CASE leaf.kind = "pointer"
  <2> DEFINE n1 == [var |-> leaf.ptr, null |-> (leaf.op = "EQ") = (isTrue # leaf.neg)]
  <2>1. walkNullCondition(leaf, isTrue) = {n1}
    BY <1>1 DEF walkNullCondition
  <2> HIDE DEF n1
  <2> QED BY <2>1
<1>2. CASE leaf.kind = "pointers"
  <2>1. walkNullCondition(leaf, isTrue) = {[var |-> q, null |-> FALSE] : q \in leaf.ptrs}
    BY <1>2 DEF walkNullCondition
  <2>2. \A y \in {[var |-> q, null |-> FALSE] : q \in leaf.ptrs} : y.null = FALSE
    OBVIOUS
  <2> QED BY <2>1, <2>2
<1>3. CASE leaf.kind \notin {"pointer", "pointers"}
  <2>1. walkNullCondition(leaf, isTrue) = {}
    BY <1>3 DEF walkNullCondition
  <2> QED BY <2>1
<1> QED BY <1>1, <1>2, <1>3

Answer(n) == IF n.null THEN "Null" ELSE "NonNull"

\* c keeps the definite answers of d.
Firm(d, c) == \A v \in PtrVar : d.vars[v].st \in Definite => c.vars[v].st = d.vars[v].st

\* c knows what was told.
Taught(told, c) == \A n \in told : n.var \in PtrVar => c.vars[n.var].st = Answer(n)

\* A fact that is learned touches no pointer.
LEMMA LearnVars ==
    ASSUME NEW S, NEW o, \A d \in S : d = [facts |-> d.facts, vars |-> d.vars]
    PROVE  \A c \in D!LearnOption(S, o) : c = [facts |-> c.facts, vars |-> c.vars] /\ \E d \in S : c.vars = d.vars
<1>1. CASE o = {}
  BY <1>1 DEF D!LearnOption
<1>2. CASE o # {}
  <2>1. D!LearnOption(S, o) = UNION {D!Learn(d, f) : d \in S, f \in o}
    BY <1>2 DEF D!LearnOption
  <2> SUFFICES ASSUME NEW d \in S, NEW f \in o, NEW c \in D!Learn(d, f)
               PROVE  c = [facts |-> c.facts, vars |-> c.vars] /\ c.vars = d.vars
    BY <2>1
  <2>2. c = [d EXCEPT !.facts = D!Record(@, f)]
    BY DEF D!Learn
  <2> DEFINE recorded == D!Record(d.facts, f)
  <2>3. c = [d EXCEPT !.facts = recorded]
    BY <2>2
  <2> HIDE DEF recorded
  <2>4. c = [facts |-> recorded, vars |-> d.vars]
    BY <2>3
  <2> QED BY <2>4
<1> QED BY <1>1, <1>2

\* What a leaf leaves of a disjunct (applyLeaf).
LEMMA LeafTeaches ==
    ASSUME NEW F, NEW d \in Disjunct(F, {}), NEW leaf, NEW isTrue \in BOOLEAN,
           NEW c \in D!applyLeaf(Keying(F), d, leaf, isTrue)
    PROVE  Firm(d, c) /\ Taught(walkNullCondition(leaf, isTrue), c)
<1> DEFINE said == walkNullCondition(leaf, isTrue)
           learned == D!applyFactLeaf(Keying(F), d, leaf, isTrue)
<1>0. d = [facts |-> d.facts, vars |-> d.vars] /\ DOMAIN d.vars = PtrVar
  BY DisjunctIs DEF VarMaps
<1>1. /\ ~contradictsState(d, leaf, isTrue)
      /\ \E x \in learned : c = refineByLeaf(x, leaf, isTrue)
  BY DEF D!applyLeaf
<1>2. PICK x \in learned : c = refineByLeaf(x, leaf, isTrue)
  BY <1>1
<1>3. x = [facts |-> x.facts, vars |-> x.vars] /\ x.vars = d.vars
  <2> DEFINE bound == IF isTrue # leaf.neg THEN D!unsignedStrictUpperBoundNonzero(Keying(F), leaf) ELSE {}
             first == D!LearnOption({d}, bound)
             fact == D!Valued(D!conditionFact(Keying(F), leaf), isTrue)
  <2>1. learned = D!LearnOption(first, fact)
    BY DEF D!applyFactLeaf
  <2> HIDE DEF bound, fact
  <2>2. \A y \in {d} : y = [facts |-> y.facts, vars |-> y.vars]
    BY <1>0
  <2>3. \A y \in first : y = [facts |-> y.facts, vars |-> y.vars] /\ y.vars = d.vars
    BY <2>2, LearnVars
  <2> HIDE DEF first, learned
  <2> QED BY <1>2, <2>1, <2>3, LearnVars
<1> HIDE DEF learned
<1> DEFINE told == applyConditionTo(x.vars, leaf, isTrue)
<1>4. DOMAIN told = PtrVar
  BY <1>0, <1>3 DEF applyConditionTo
<1>5. \A v \in PtrVar : c.vars[v] = activate(x.facts, told[v])
  <2> DEFINE woken == [v \in DOMAIN told |-> activate(x.facts, told[v])]
  <2>1. c = [x EXCEPT !.vars = woken]
    BY <1>2 DEF refineByLeaf
  <2> HIDE DEF woken
  <2>2. c.vars = woken
    BY <1>3, <2>1
  <2> HIDE DEF told
  <2> QED BY <1>4, <2>2 DEF woken
<1>6. \A val : val.st \in Definite => activate(x.facts, val) = val
  BY DEF activate, Definite
<1>7. ASSUME NEW v \in PtrVar, NEW m \in said, m.var = v
      PROVE  c.vars[v].st = Answer(m)
  <2> DEFINE n == CHOOSE y \in said : y.var = v
  <2>1. n \in said /\ n.var = v
    BY <1>7
  <2>2. n.null = m.null
    BY <1>7, <2>1, WalkAgrees
  <2>3. told[v] = Plain(applyCondition(n.null, x.vars[v].st))
    BY <1>0, <1>3, <1>7 DEF applyConditionTo
  <2> HIDE DEF n, told, said
  <2>4. told[v].st = Answer(m)
    BY <2>2, <2>3 DEF Plain, applyCondition, Answer
  <2>5. Answer(m) \in Definite
    BY DEF Answer, Definite
  <2> QED BY <1>5, <1>6, <2>4, <2>5
<1>8. ASSUME NEW v \in PtrVar, d.vars[v].st \in Definite
      PROVE  c.vars[v].st = d.vars[v].st
  <2>1. CASE \E m \in said : m.var = v
    <3>1. PICK m \in said : m.var = v
      BY <2>1
    <3>2. d.vars[v].st # (IF m.null THEN "NonNull" ELSE "Null")
      BY <1>0, <1>1, <3>1 DEF contradictsState
    <3>3. d.vars[v].st = Answer(m)
      BY <1>8, <3>2 DEF Answer, Definite
    <3> QED BY <1>7, <3>1, <3>3
  <2>2. CASE ~ \E m \in said : m.var = v
    <3>1. told[v] = d.vars[v]
      BY <1>0, <1>3, <2>2 DEF applyConditionTo
    <3> HIDE DEF told
    <3> QED BY <1>5, <1>6, <1>8, <3>1
  <2> QED BY <2>1, <2>2
<1> QED BY <1>7, <1>8 DEF Firm, Taught

\* From d to c to e.
LEMMA FirmOn ==
    ASSUME NEW d, NEW c, NEW e, Firm(d, c), Firm(c, e)
    PROVE  Firm(d, e) /\ \A told : Taught(told, c) => Taught(told, e)
<1>1. Firm(d, e)
  BY DEF Firm
<1>2. ASSUME NEW told, Taught(told, c), NEW n \in told, n.var \in PtrVar
      PROVE  e.vars[n.var].st = Answer(n)
  <2>1. c.vars[n.var].st = Answer(n) /\ Answer(n) \in Definite
    BY <1>2 DEF Taught, Answer, Definite
  <2> QED BY <1>2, <2>1 DEF Firm
<1> QED BY <1>1, <1>2 DEF Taught

\* What a condition leaves of a disjunct (refineDisjunctCondition).
LEMMA ConditionTeaches ==
    ASSUME NEW F, Typed(F), NEW c, ConditionType(c), NEW d \in Disjunct(F, {}), NEW isTrue \in BOOLEAN,
           NEW e \in D!refineDisjunctCondition(Keying(F), d, c, isTrue)
    PROVE  Firm(d, e) /\ Taught(proven(c, isTrue), e)
<1> DEFINE k == Keying(F)
           value == isTrue # c.neg
           lhsOut == D!refutes(k, d, c.lhs, value)
           rhsOut == D!refutes(k, d, c.rhs, value)
           both == c.join = (IF value THEN "and" ELSE "or")
           left == IF c.join = "leaf" \/ both \/ rhsOut THEN D!applyLeaf(k, d, c.lhs, value) ELSE {d}
           next == UNION {D!applyLeaf(k, x, c.rhs, value) : x \in left}
           lhs == walkNullCondition(c.lhs, value)
           rhs == walkNullCondition(c.rhs, value)
<1>1. LeafType(c.lhs) /\ (c.join # "leaf" => LeafType(c.rhs)) /\ value \in BOOLEAN /\ c.join \in {"leaf", "and", "or"}
  BY DEF ConditionType, Leaves
<1>2. proven(c, isTrue) = IF c.join = "leaf" THEN lhs ELSE IF both THEN lhs \cup rhs ELSE {}
  BY <1>1 DEF proven
<1>3. \/ e \in left /\ (c.join = "leaf" \/ ~both)
      \/ e \in next /\ c.join # "leaf"
  BY DEF D!refineDisjunctCondition
<1>4. \A x \in left : Firm(d, x) /\ (c.join = "leaf" \/ both => Taught(lhs, x))
  <2>1. \A x \in D!applyLeaf(k, d, c.lhs, value) : Firm(d, x) /\ Taught(lhs, x)
    BY <1>1, LeafTeaches
  <2>2. Firm(d, d)
    BY DEF Firm
  <2> HIDE DEF k, value, lhsOut, rhsOut, both, lhs
  <2> QED BY <2>1, <2>2
<1>5. \A x \in left : x \in Disjunct(F, {})
  <2>1. Lone(F, D!applyLeaf(k, d, c.lhs, value))
    BY <1>1, ApplyLeafKeeps
  <2> HIDE DEF k, value
  <2> QED BY <2>1 DEF Lone
<1>6. ASSUME e \in next, c.join # "leaf"
      PROVE  Firm(d, e) /\ Taught(rhs, e) /\ (both => Taught(lhs, e))
  <2>1. PICK x \in left : e \in D!applyLeaf(k, x, c.rhs, value)
    BY <1>6
  <2>2. x \in Disjunct(F, {}) /\ Firm(d, x) /\ (both => Taught(lhs, x))
    BY <1>4, <1>5
  <2> HIDE DEF left, next, both, lhs
  <2>3. Firm(x, e) /\ Taught(rhs, e)
    BY <1>1, <2>1, <2>2, LeafTeaches
  <2> QED BY <2>2, <2>3, FirmOn
<1> HIDE DEF left, next, both, lhs, rhs
<1>7. \A S, T : Taught(S, e) /\ Taught(T, e) => Taught(S \cup T, e) /\ Taught({}, e)
  BY DEF Taught
<1>8. Taught({}, e)
  BY DEF Taught
<1> QED BY <1>2, <1>3, <1>4, <1>6, <1>7, <1>8

\* What a condition leaves of the state.
LEMMA EdgeHands ==
    ASSUME NEW F, Typed(F), NEW S, Good(F, {}, S), NEW c, ConditionType(c), NEW isTrue \in BOOLEAN,
           NEW T, T = D!refineGuardedFacts(Keying(F), S, c, isTrue)
    PROVE  Hands(S, T, {}) /\ \A n \in proven(c, isTrue) : n.var \in PtrVar => Says(T, n.var, Answer(n))
<1> DEFINE narrow(d) == D!refineDisjunctCondition(Keying(F), d, c, isTrue)
           all == UNION {narrow(d) : d \in S}
<1>1. T = D!normalizeGuarded(all)
  BY DEF D!refineGuardedFacts
<1>2. \A d \in S : d \in Disjunct(F, {}) /\ Lone(F, narrow(d))
  BY RefineConditionType DEF Good
<1>3. \A d \in S : \A e \in narrow(d) : Firm(d, e) /\ Taught(proven(c, isTrue), e)
  BY <1>2, ConditionTeaches
<1> HIDE DEF narrow
<1>4. Good(F, {}, all)
  <2> DEFINE f == [d \in S |-> narrow(d)]
  <2>1. IsFiniteSet(S) /\ DOMAIN f = S /\ \A d \in S : f[d] = narrow(d) /\ IsFiniteSet(f[d])
    BY <1>2, LoneFinite DEF Good
  <2>2. all = UNION {f[d] : d \in S}
    BY <2>1
  <2>3. all \subseteq Disjunct(F, {})
    BY <1>2 DEF Lone
  <2> HIDE DEF f, all
  <2> QED BY <2>1, <2>2, <2>3, FiniteSpread DEF Good
<1>5. Hands(S, all, {})
  BY <1>3 DEF Hands, Says, Firm
<1>6. \A n \in proven(c, isTrue) : n.var \in PtrVar => Says(all, n.var, Answer(n))
  BY <1>3 DEF Says, Taught
<1> HIDE DEF all
<1>7. Hands(all, T, {})
  BY <1>1, <1>4, NormalizeHands
<1>8. Hands(S, T, {})
  BY <1>5, <1>7, HandsOn
<1>9. \A n : Answer(n) \in Definite
  BY DEF Answer, Definite
<1> QED BY <1>6, <1>7, <1>8, <1>9 DEF Hands

-----------------------------------------------------------------------------
(* A statement writes what the merged analysis writes, and no more *)

\* One pointer of a map is given a state.
LEMMA SetSays ==
    ASSUME NEW map, DOMAIN map = PtrVar, NEW v, NEW st, NEW u \in PtrVar
    PROVE  setIfTracked(map, v, st)[u].st = IF u = v THEN st ELSE map[u].st
BY DEF setIfTracked, Plain

\* What a statement writes is what it says.
LEMMA WriteSays ==
    ASSUME NEW F, NEW s, StatementType(s), NEW d \in Disjunct(F, {}), NEW u \in PtrVar
    PROVE  /\ (\A w \in written(s) : w.var # u) => write(s, d).vars[u].st = d.vars[u].st
           /\ \A w \in written(s) : w.var = u => write(s, d).vars[u].st = w.st
<1>1. CASE written(s) = {}
  BY <1>1 DEF write
<1>2. CASE written(s) # {}
  <2> DEFINE w == CHOOSE y \in written(s) : TRUE
             set == setIfTracked(d.vars, w.var, w.st)
  <2>1. w \in written(s) /\ write(s, d) = [d EXCEPT !.vars = set]
    BY <1>2 DEF write
  <2>2. \A y \in written(s) : y = w
    BY <2>1, WrittenShape
  <2>3. d = [facts |-> d.facts, vars |-> d.vars] /\ DOMAIN d.vars = PtrVar
    BY DisjunctIs DEF VarMaps
  <2> HIDE DEF w
  <2>4. set[u].st = IF u = w.var THEN w.st ELSE d.vars[u].st
    BY <2>3, SetSays
  <2> HIDE DEF set
  <2>5. write(s, d).vars = set
    BY <2>1, <2>3
  <2> QED BY <2>1, <2>2, <2>4, <2>5
<1> QED BY <1>1, <1>2

\* A statement leaves the answers about the pointers that it does not write, and makes
\* definite ones of its own.
LEMMA TransferHands ==
    ASSUME NEW F, Typed(F), NEW s \in F.stmts, NEW S, Good(F, {}, S),
           NEW T, T = transfer(Keying(F), s, S)
    PROVE  /\ Hands(S, T, {w.var : w \in mergedWrite(s)})
           /\ \A w \in mergedWrite(s) : w.var \in PtrVar /\ w.st \in Definite => Says(T, w.var, w.st)
<1> DEFINE A == D!applyStmtFacts(Keying(F), S, s)
           X == StoreKeys(F, s)
           Y == CallKeys(F, s)
           B == StoredAll(F, s, S)
           made == Made(F, s, A)
           W == {w.var : w \in mergedWrite(s)}
<1>0. StatementType(s)
  BY DEF Typed
<1>1. T = D!normalizeGuarded(made) /\ Good(F, {}, made)
  BY MadeKeeps
<1>2. A = D!normalizeGuarded(B) /\ Good(F, X, B)
  BY StoredAllGood
<1>3. Hands(S, A, {})
  <2>1. \A b \in B : \E d \in S : b.vars = d.vars
    BY DEF StoredAll, Stored
  <2> HIDE DEF B
  <2>2. Hands(S, B, {})
    BY <2>1, CopiesHand
  <2>3. Hands(B, A, {})
    BY <1>2, NormalizeHands
  <2> QED BY <2>2, <2>3, HandsOn
<1>4. \A d \in A : d \in Disjunct(F, X)
  BY <1>2, NormalizeKeeps DEF Good
<1> HIDE DEF A, B
<1>5. \A d, keys : \A v \in PtrVar : Dropped(keys, d).vars[v].st = d.vars[v].st
  BY DEF Dropped
<1>6. \A d \in A : Dropped(X, d) \in Disjunct(F, {})
  BY <1>4, DroppedKeeps
<1>7. ASSUME NEW c \in made
      PROVE  /\ \E d \in A : \A v \in PtrVar : v \in W \/ c.vars[v].st = d.vars[v].st
             /\ \A w \in mergedWrite(s) : w.var \in PtrVar /\ w.st \in Definite => c.vars[w.var].st = w.st
  <2>1. CASE Calls(s)
    <3>1. written(s) = {} /\ mergedWrite(s) = {}
      BY <1>0, <2>1, WrittenShape DEF mergedWrite, Calls
    <3>2. \A d : write(s, d) = d
      BY <3>1 DEF write
    <3>3. PICK d \in A : c = Dropped(Y, Stored(Y, {}, Dropped(X, d)))
      BY <1>7, <2>1, <3>2 DEF made, Made, Called, Written
    <3>4. \A v \in PtrVar : c.vars[v].st = d.vars[v].st
      <4>1. Stored(Y, {}, Dropped(X, d)).vars = Dropped(X, d).vars
        BY DEF Stored
      <4> HIDE DEF X, Y
      <4> QED BY <1>5, <3>3, <4>1
    <3> QED BY <3>1, <3>4
  <2>2. CASE ~Calls(s) /\ Splits(F, s)
    <3>1. mergedWrite(s) = {[var |-> s.ptr, st |-> "MaybeNull"]}
      BY <2>2 DEF mergedWrite, Splits
    <3>2. s.ptr \in W /\ \A w \in mergedWrite(s) : w.st \notin Definite
      BY <3>1 DEF Definite
    <3>3. PICK d \in A, ok \in BOOLEAN : c = SplitWhen(s, Dropped(X, d), ok)
      BY <1>7, <2>2 DEF made, Made, Split
    <3> DEFINE from == Dropped(X, d)
    <3>4. from \in Disjunct(F, {}) /\ \A v \in PtrVar : from.vars[v].st = d.vars[v].st
      BY <1>5, <1>6
    <3> HIDE DEF from, made, W, X
    <3>5. DOMAIN from.vars = PtrVar
      BY <3>4, DisjunctIs DEF VarMaps
    <3>6. c.vars = setIfTracked(from.vars, s.ptr, IF ok THEN "NonNull" ELSE "MaybeNull")
      BY <3>3 DEF SplitWhen, from
    <3>7. \A v \in PtrVar : v = s.ptr \/ c.vars[v].st = from.vars[v].st
      BY <3>5, <3>6, SetSays
    <3> QED BY <3>2, <3>4, <3>7
  <2>3. CASE ~Calls(s) /\ ~Splits(F, s)
    <3>1. PICK d \in A : c = write(s, Dropped(X, d))
      BY <1>7, <2>3 DEF made, Made, Written
    <3> DEFINE from == Dropped(X, d)
    <3>2. from \in Disjunct(F, {}) /\ \A v \in PtrVar : from.vars[v].st = d.vars[v].st
      BY <1>5, <1>6
    <3>3. /\ \A w \in written(s) : \E y \in mergedWrite(s) : y.var = w.var
          /\ \A w \in mergedWrite(s) : w \in written(s) \/ w.st \notin Definite
      <4>1. CASE s.kind = "outParam"
        <5>1. mergedWrite(s) = {[var |-> s.ptr, st |-> "MaybeNull"]} /\ written(s) = {[var |-> s.ptr, st |-> "Unknown"]}
          BY <1>0, <4>1, WrittenShape DEF mergedWrite
        <5> QED BY <5>1 DEF Definite
      <4>2. CASE s.kind # "outParam"
        BY <4>2 DEF mergedWrite
      <4> QED BY <4>1, <4>2
    <3> HIDE DEF from, made, X
    <3>4. \A v \in PtrVar : /\ (\A w \in written(s) : w.var # v) => c.vars[v].st = from.vars[v].st
                            /\ \A w \in written(s) : w.var = v => c.vars[v].st = w.st
      BY <1>0, <3>1, <3>2, WriteSays DEF from
    <3>5. ASSUME NEW v \in PtrVar
          PROVE  v \in W \/ c.vars[v].st = d.vars[v].st
      <4>1. CASE \E w \in written(s) : w.var = v
        BY <3>3, <4>1
      <4>2. CASE \A w \in written(s) : w.var # v
        BY <3>2, <3>4, <4>2
      <4> QED BY <4>1, <4>2
    <3>6. ASSUME NEW w \in mergedWrite(s), w.var \in PtrVar, w.st \in Definite
          PROVE  c.vars[w.var].st = w.st
      <4>1. w \in written(s)
        BY <3>3, <3>6
      <4> QED BY <3>4, <3>6, <4>1
    <3> QED BY <3>5, <3>6
  <2> QED BY <2>1, <2>2, <2>3
<1> HIDE DEF made, W
<1>8. Hands(A, made, W)
  BY <1>7, CopiesHand
<1>9. Hands(made, T, {})
  BY <1>1, NormalizeHands
<1>10. Hands(A, T, W)
  BY <1>8, <1>9, HandsOn DEF Hands
<1>11. Hands(S, T, W)
  BY <1>3, <1>10, HandsOn DEF Hands
<1>12. ASSUME NEW w \in mergedWrite(s), w.var \in PtrVar, w.st \in Definite
       PROVE  Says(T, w.var, w.st)
  <2>1. Says(made, w.var, w.st)
    BY <1>7, <1>12 DEF Says
  <2> QED BY <1>9, <1>12, <2>1 DEF Hands
<1> QED BY <1>11, <1>12 DEF W

-----------------------------------------------------------------------------
(* What the merged analysis may claim *)

\* The lattice is the same.
LEMMA SameLattice ==
    /\ \A a, b : Merged!mergeNullStates(a, b) = mergeNullStates(a, b)
    /\ \A isNull, s : Merged!applyCondition(isNull, s) = applyCondition(isNull, s)
    /\ \A s : Merged!Meaning(s) = Meaning(s)
    /\ Merged!Pointer = Pointer
<1>1. \A a, b : Merged!mergeNullStates(a, b) = mergeNullStates(a, b)
  BY DEF Merged!mergeNullStates, mergeNullStates
<1>2. \A isNull, s : Merged!applyCondition(isNull, s) = applyCondition(isNull, s)
  BY DEF Merged!applyCondition, applyCondition
<1>3. Merged!Pointer = Pointer
  BY DEF Merged!Pointer, Pointer
<1>4. \A s : Merged!Meaning(s) = Meaning(s)
  BY <1>3 DEF Merged!Meaning, Meaning
<1> QED BY <1>1, <1>2, <1>3, <1>4

\* Whatever g answers, the disjuncts T all say.
Backs(T, g) ==
    /\ DOMAIN g \subseteq PtrVar
    /\ T # {} => DOMAIN g = PtrVar
    /\ \A v \in DOMAIN g, st \in Definite : g[v] = st => Says(T, v, st)

\* The reporting view answers no more.
LEMMA ViewBacks ==
    ASSUME NEW F, NEW S, Good(F, {}, S)
    PROVE  Backs(S, reportingView(S))
<1> DEFINE f == reportingView(S)
<1>1. /\ DOMAIN f = IF S = {} THEN {} ELSE PtrVar
      /\ S # {} => \A v \in PtrVar, st \in Definite : f[v] = st <=> Says(S, v, st)
  BY ViewIs
<1> HIDE DEF f
<1> QED BY <1>1 DEF Backs, f

\* It answers all of it.
LEMMA BackedIsSharper ==
    ASSUME NEW F, NEW T, Good(F, {}, T), NEW g, Backs(T, g)
    PROVE  Merged!SharperMap(reportingView(T), g)
<1> DEFINE f == reportingView(T)
<1>1. /\ DOMAIN f = IF T = {} THEN {} ELSE PtrVar
      /\ T # {} => \A v \in PtrVar, st \in Definite : f[v] = st <=> Says(T, v, st)
  BY ViewIs
<1> HIDE DEF f
<1>2. ASSUME NEW v \in DOMAIN f
      PROVE  v \in DOMAIN g /\ (g[v] \in Definite => f[v] = g[v])
  BY <1>1, <1>2 DEF Backs
<1> QED BY <1>2 DEF Merged!SharperMap, Merged!Sharper, Definite, f

\* A write.
LEMMA SetBacks ==
    ASSUME NEW S, NEW T, NEW f, Backs(S, f), NEW w, Hands(S, T, {x.var : x \in w}),
           \A x \in w : x.var \in DOMAIN f /\ x.st \in Definite => Says(T, x.var, x.st)
    PROVE  Backs(T, Merged!Set(f, w))
<1> DEFINE g == Merged!Set(f, w)
           x(v) == CHOOSE y \in w : y.var = v
<1>1. g = [v \in DOMAIN f |-> IF \E y \in w : y.var = v THEN x(v).st ELSE f[v]]
  BY DEF Merged!Set
<1>2. DOMAIN g = DOMAIN f
  BY <1>1
<1>3. ASSUME NEW v \in DOMAIN g, NEW st \in Definite, g[v] = st
      PROVE  Says(T, v, st)
  <2>1. CASE \E y \in w : y.var = v
    <3>1. x(v) \in w /\ x(v).var = v
      BY <2>1
    <3>2. x(v).st = st
      BY <1>1, <1>2, <1>3, <2>1
    <3> HIDE DEF x
    <3> QED BY <1>2, <1>3, <3>1, <3>2
  <2>2. CASE ~ \E y \in w : y.var = v
    <3>1. f[v] = st /\ v \in PtrVar
      BY <1>1, <1>2, <1>3, <2>2 DEF Backs
    <3>2. v \notin {y.var : y \in w}
      BY <2>2
    <3>3. Says(S, v, st)
      BY <1>2, <1>3, <3>1 DEF Backs
    <3> QED BY <1>3, <3>1, <3>2, <3>3 DEF Hands
  <2> QED BY <2>1, <2>2
<1> HIDE DEF g
<1>4. T # {} => S # {}
  BY DEF Hands
<1> QED BY <1>2, <1>3, <1>4 DEF Backs, g

\* A statement.
LEMMA TransferBacks ==
    ASSUME NEW F, Typed(F), NEW s \in F.stmts, NEW S, Good(F, {}, S), NEW f, Backs(S, f)
    PROVE  Backs(transfer(Keying(F), s, S), Merged!Set(f, mergedWrite(s)))
<1> DEFINE T == transfer(Keying(F), s, S)
<1>1. /\ Hands(S, T, {w.var : w \in mergedWrite(s)})
      /\ \A w \in mergedWrite(s) : w.var \in PtrVar /\ w.st \in Definite => Says(T, w.var, w.st)
  BY TransferHands
<1> HIDE DEF T
<1>2. \A w \in mergedWrite(s) : w.var \in DOMAIN f /\ w.st \in Definite => Says(T, w.var, w.st)
  BY <1>1 DEF Backs
<1> QED BY <1>1, <1>2, SetBacks DEF T

\* A condition on an edge.
LEMMA EdgeBacks ==
    ASSUME NEW F, Typed(F), NEW S, Good(F, {}, S), NEW c, ConditionType(c), NEW isTrue \in BOOLEAN,
           NEW f, Backs(S, f), NEW T, T = D!refineGuardedFacts(Keying(F), S, c, isTrue)
    PROVE  Backs(T, Merged!Learned(f, c, isTrue))
<1> DEFINE told == {m \in proven(c, isTrue) : m.var \in DOMAIN f}
           w == {[var |-> n.var, st |-> applyCondition(n.null, f[n.var])] : n \in told}
<1>1. Hands(S, T, {}) /\ \A n \in proven(c, isTrue) : n.var \in PtrVar => Says(T, n.var, Answer(n))
  BY EdgeHands
<1>2. Merged!Learned(f, c, isTrue) = Merged!Set(f, w)
  BY SameLattice DEF Merged!Learned
<1>3. ASSUME NEW x \in w, x.var \in DOMAIN f
      PROVE  Says(T, x.var, x.st)
  <2>1. PICK n \in told : x = [var |-> n.var, st |-> applyCondition(n.null, f[n.var])]
    OBVIOUS
  <2>2. x.var = n.var /\ x.st = Answer(n) /\ n \in proven(c, isTrue) /\ n.var \in PtrVar
    BY <2>1 DEF applyCondition, Answer, Backs
  <2> QED BY <1>1, <2>2
<1> HIDE DEF w
<1>4. Hands(S, T, {x.var : x \in w})
  BY <1>1 DEF Hands
<1> QED BY <1>2, <1>3, <1>4, SetBacks

\* Two paths that meet.
LEMMA MergeBacks ==
    ASSUME NEW F, NEW S, NEW T, Good(F, {}, S), Good(F, {}, T), NEW f, NEW g, Backs(S, f), Backs(T, g)
    PROVE  Backs(merge(S, T), Merged!mergeMaps(f, g))
<1> DEFINE m == Merged!mergeMaps(f, g)
           U == merge(S, T)
<1>1. Good(F, {}, S \cup T)
  BY FS_Union DEF Good
<1>2. Hands(S \cup T, U, {})
  BY <1>1, NormalizeHands DEF merge, D!mergeGuarded
<1> HIDE DEF U
<1>3. /\ DOMAIN m = DOMAIN f \cup DOMAIN g
      /\ \A v \in DOMAIN m : m[v] = IF v \notin DOMAIN g THEN f[v] ELSE IF v \notin DOMAIN f THEN g[v]
                                    ELSE mergeNullStates(f[v], g[v])
  BY SameLattice DEF Merged!mergeMaps
<1> HIDE DEF m
<1>4. \A a, b : \A st \in Definite : mergeNullStates(a, b) = st => a = st /\ b = st
  BY DEF mergeNullStates, Definite
<1>5. ASSUME NEW v \in DOMAIN m, NEW st \in Definite, m[v] = st
      PROVE  Says(U, v, st)
  <2>0. v \in PtrVar
    BY <1>3 DEF Backs
  <2>1. Says(S, v, st)
    <3>1. CASE v \in DOMAIN f
      BY <1>3, <1>4, <1>5, <3>1 DEF Backs
    <3>2. CASE v \notin DOMAIN f
      BY <2>0, <3>2 DEF Backs, Says
    <3> QED BY <3>1, <3>2
  <2>2. Says(T, v, st)
    <3>1. CASE v \in DOMAIN g
      BY <1>3, <1>4, <1>5, <3>1 DEF Backs
    <3>2. CASE v \notin DOMAIN g
      BY <2>0, <3>2 DEF Backs, Says
    <3> QED BY <3>1, <3>2
  <2>3. Says(S \cup T, v, st)
    BY <2>1, <2>2 DEF Says
  <2> QED BY <1>2, <1>5, <2>0, <2>3 DEF Hands
<1>6. U # {} => S # {} \/ T # {}
  BY <1>2 DEF Hands
<1> QED BY <1>3, <1>5, <1>6 DEF Backs, m, U

\* The collapse.
LEMMA WidenBacks ==
    ASSUME NEW F, NEW S, Good(F, {}, S), NEW f, Backs(S, f)
    PROVE  Backs(widen(S), f)
<1>1. Hands(S, widen(S), {})
  BY WidenHands DEF widen
<1> DEFINE T == widen(S)
<1> HIDE DEF T
<1> QED BY <1>1 DEF Hands, Backs, T

-----------------------------------------------------------------------------
(* The initial states *)

\* A clause tells of no null.
LEMMA SeedIsSilent ==
    ASSUME NEW r, RequiresType(r), NEW S, Good(fn, {}, S), Silent(S)
    PROVE  Silent(seedRequire(S, r))
<1> DEFINE o == compareFact(r.place, r.op, r.lit)
           skipped == r.place.var \in collectUnkeyableDecls(fn) \/ o = {}
           Quiet(d) == \A v \in PtrVar : hasNoNullInfo(d.vars[v].st)
<1>0. \A d \in S : d \in Disjunct(fn, {}) /\ Quiet(d)
  BY DEF Good, Silent
<1>1. ASSUME NEW d \in Disjunct(fn, {}), Quiet(d)
      PROVE  Quiet(Given(d, r.ptr, "NonNull"))
  <2> DEFINE set == setIfTracked(d.vars, r.ptr, "NonNull")
  <2>1. d = [facts |-> d.facts, vars |-> d.vars] /\ DOMAIN d.vars = PtrVar
    BY DisjunctIs DEF VarMaps
  <2>2. \A v \in PtrVar : set[v].st = IF v = r.ptr THEN "NonNull" ELSE d.vars[v].st
    BY <2>1, SetSays
  <2> HIDE DEF set
  <2>3. Given(d, r.ptr, "NonNull").vars = set
    <3>1. Given(d, r.ptr, "NonNull") = [d EXCEPT !.vars = set]
      BY DEF Given, set
    <3> QED BY <2>1, <3>1
  <2> QED BY <1>1, <2>2, <2>3 DEF hasNoNullInfo
<1>2. CASE r.kind = "nonNull"
  <2>1. seedRequire(S, r) = {Given(d, r.ptr, "NonNull") : d \in S}
    BY <1>2, SeedIs
  <2> QED BY <1>0, <1>1, <2>1 DEF Silent
<1>3. CASE r.kind = "unless" /\ skipped
  BY <1>3, SeedIs
<1>4. CASE r.kind = "unless" /\ ~skipped
  <2>0. ClauseType(r) /\ KeyedIn(fn, r.place.var)
    BY <1>4 DEF RequiresType, ClauseType, KeyedIn
  <2>1. PICK f : o = {f} /\ f \in [key : Key(fn), value : BOOLEAN] /\ f.key.var = r.place.var
    <3>1. OptionAbout(fn, o, r.place.var)
      BY <2>0, CompareFactAbout DEF compareFact, ClauseType
    <3> HIDE DEF o
    <3> QED BY <1>4, <3>1 DEF OptionAbout
  <2> DEFINE T == {Recorded(d, f) : d \in S} \cup {Pinned(r, d, f) : d \in S}
  <2>2. seedRequire(S, r) = D!normalizeGuarded(T)
    BY <1>4, <2>1, SeedIs
  <2>3. Against(f) \in [key : Key(fn), value : BOOLEAN] /\ Against(f).key = f.key
    BY <2>1 DEF Against
  <2> HIDE DEF o
  <2>4. ASSUME NEW d \in Disjunct(fn, {}), NEW x, Quiet(d)
        PROVE  Quiet(Recorded(d, x))
    <3>1. d = [facts |-> d.facts, vars |-> d.vars]
      BY DisjunctIs
    <3> DEFINE recorded == Record(d.facts, x)
    <3>2. Recorded(d, x) = [d EXCEPT !.facts = recorded]
      BY DEF Recorded
    <3> HIDE DEF recorded
    <3>3. Recorded(d, x).vars = d.vars
      BY <3>1, <3>2
    <3> QED BY <2>4, <3>3
  <2>5. \A d \in S : Recorded(d, Against(f)) \in Disjunct(fn, {})
    BY <1>0, <2>0, <2>1, <2>3, RecordedKeeps
  <2>6. \A d \in S : Quiet(Recorded(d, f)) /\ Quiet(Pinned(r, d, f))
    BY <1>0, <1>1, <2>4, <2>5 DEF Pinned
  <2>7. Silent(T)
    BY <2>6 DEF Silent
  <2>8. Good(fn, {}, T)
    <3> DEFINE free == [d \in S |-> Recorded(d, f)]
               pin == [d \in S |-> Pinned(r, d, f)]
    <3>1. T = {free[d] : d \in S} \cup {pin[d] : d \in S}
      OBVIOUS
    <3>2. f \in compareFact(r.place, r.op, r.lit)
      BY <2>1 DEF o
    <3>3. \A d \in S : free[d] \in Disjunct(fn, {}) /\ pin[d] \in Disjunct(fn, {})
      BY <1>0, <1>4, <2>0, <3>2, HalvesKeep
    <3>4. DOMAIN free = S /\ DOMAIN pin = S /\ IsFiniteSet(S)
      BY DEF Good
    <3> HIDE DEF free, pin
    <3>5. IsFiniteSet({free[d] : d \in S}) /\ IsFiniteSet({pin[d] : d \in S})
      BY <3>4, FiniteImage
    <3> QED BY <3>1, <3>3, <3>5, FS_Union DEF Good
  <2> HIDE DEF T
  <2> QED BY <2>2, <2>7, <2>8, NormalizeHands
<1> QED BY <1>2, <1>3, <1>4 DEF RequiresType

\* The analysis starts without a null.
LEMMA InitialIsSilent ==
    ASSUME fn \in Function
    PROVE  Silent(initialState)
<1> DEFINE n == Len(fn.requires)
           h == CHOOSE g : SeededBy(g)
           T == {m \in 0 .. n : h[m] \in GoodStates /\ Silent(h[m])}
<1>0. n \in Nat /\ \A i \in 1 .. n : RequiresType(fn.requires[i])
  BY FunctionAssumption
<1>1. initialState = h[n]
  BY DEF initialState, SeededBy
<1>2. SeededBy(h)
  BY SeedingExists
<1> HIDE DEF h
<1>3. \A i \in 0 .. n : h[i] = IF i = 0 THEN Unconstrained ELSE seedRequire(h[i - 1], fn.requires[i])
  BY <1>2, Zenon DEF SeededBy
<1> HIDE DEF n
<1>4. Silent(Unconstrained)
  <2> DEFINE d == [facts |-> {}, vars |-> [v \in PtrVar |-> Plain("Unknown")]]
  <2>1. \A v \in PtrVar : d.vars[v].st = "Unknown"
    BY DEF Plain
  <2>2. Unconstrained = {d}
    BY DEF Unconstrained
  <2> HIDE DEF d
  <2> QED BY <2>1, <2>2 DEF Silent, hasNoNullInfo
<1>5. 0 \in T
  BY <1>0, <1>3, <1>4, UnconstrainedFits
<1>6. ASSUME NEW m \in 0 .. n, m # n, m \in T
      PROVE  m + 1 \in T
  <2>1. m + 1 \in 1 .. n /\ m + 1 \in 0 .. n /\ (m + 1) - 1 = m
    BY <1>0, <1>6
  <2>2. h[m + 1] = seedRequire(h[m], fn.requires[m + 1])
    BY <1>3, <2>1
  <2>3. Good(fn, {}, h[m]) /\ Silent(h[m]) /\ RequiresType(fn.requires[m + 1])
    BY <1>0, <1>6, <2>1 DEF GoodStates
  <2>4. Good(fn, {}, h[m + 1]) /\ Silent(h[m + 1])
    BY <2>2, <2>3, SeedKeeps, SeedIsSilent
  <2> QED BY <2>1, <2>4 DEF GoodStates, Good
<1>7. n \in T
  <2> HIDE DEF T
  <2>1. \A m \in 0 .. n : m \in T
    BY <1>0, <1>5, <1>6, UpTo
  <2> QED BY <1>0, <2>1
<1> QED BY <1>1, <1>7

\* The initial states are those of the merged analysis.
LEMMA InitRefines == Init => Merged!Init
<1> SUFFICES ASSUME Init PROVE Merged!Init
  OBVIOUS
<1>1. Sound /\ outside = {} /\ other = {} /\ state = initialState
  BY InitSound DEF Init
<1>2. /\ Good(fn, {}, state) /\ Silent(state) /\ FitsIn(fn, state, env)
      /\ Good(fn, {}, other) /\ EnvShape(env)
  BY <1>1, InitialIsSilent DEF Sound
<1> DEFINE flat == reportingView(state)
           otherFlat == reportingView(other)
<1>3. /\ DOMAIN flat = PtrVar
      /\ \A v \in PtrVar : flat[v] \in NullState /\ env.ptr[v] \in Meaning(flat[v])
  BY <1>2, ViewFits
<1>4. state # {}
  BY <1>2 DEF FitsIn
<1>5. flat = [v \in PtrVar |-> flat[v]] /\ \A v \in PtrVar : hasNoNullInfo(flat[v])
  BY <1>2, <1>4, ViewIs
<1>6. otherFlat = [v \in {} |-> otherFlat[v]]
  BY <1>1, <1>2, ViewIs
<1> HIDE DEF flat, otherFlat
<1>7. flat \in [PtrVar -> {"Unknown", "NonNull"}]
  BY <1>5 DEF hasNoNullInfo
<1>8. otherFlat = [v \in {} |-> "Unknown"]
  BY <1>6
<1>9. env.ptr \in [PtrVar -> Pointer]
  BY <1>2 DEF EnvShape
<1> QED BY <1>1, <1>3, <1>7, <1>8, <1>9, SameLattice DEF Merged!Init, Merged!Truthful, flat, otherFlat

-----------------------------------------------------------------------------
(* The steps *)

\* What the view says is true, if nothing outside has happened.
LEMMA ViewIsTruthful == Sound => Merged!Truthful
<1> SUFFICES ASSUME Sound PROVE Merged!Truthful
  OBVIOUS
<1>1. outside = {} => /\ DOMAIN reportingView(state) = PtrVar
                      /\ \A v \in PtrVar : env.ptr[v] \in Meaning(reportingView(state)[v])
  BY ViewFits DEF Sound
<1> QED BY <1>1, SameLattice DEF Merged!Truthful

\* A statement on the path of the execution.
LEMMA StatementRefines ==
    ASSUME Sound, Sound', NEW s \in Now.stmts, Statement(s)
    PROVE  Merged!Statement
<1>1. s \in fn.stmts /\ Typed(fn) /\ Good(fn, {}, state)
  BY NowIn, FunctionsAreTyped DEF Sound
<1>2. state' = transfer(Keying(fn), s, state) /\ other' = other /\ Good(fn, {}, state')
  BY DEF Sound, Statement
<1> DEFINE g == Merged!Set(reportingView(state), mergedWrite(s))
<1>3. Backs(state', g)
  BY <1>1, <1>2, ViewBacks, TransferBacks
<1> HIDE DEF g
<1>4. Merged!SharperMap(reportingView(state'), g)
  BY <1>2, <1>3, BackedIsSharper
<1> QED BY <1>1, <1>2, <1>4 DEF Merged!Statement, g

\* A statement on the other path.
LEMMA OtherStatementRefines ==
    ASSUME Sound, Sound', NEW s \in Now.stmts, OtherStatement(s)
    PROVE  Merged!OtherStatement
<1>1. s \in fn.stmts /\ Typed(fn) /\ Good(fn, {}, other)
  BY NowIn, FunctionsAreTyped DEF Sound
<1>2. other' = transfer(Keying(fn), s, other) /\ state' = state /\ Good(fn, {}, other')
  BY DEF Sound, OtherStatement
<1> DEFINE g == Merged!Set(reportingView(other), mergedWrite(s))
<1>3. Backs(other', g)
  BY <1>1, <1>2, ViewBacks, TransferBacks
<1> HIDE DEF g
<1>4. Merged!SharperMap(reportingView(other'), g)
  BY <1>2, <1>3, BackedIsSharper
<1> QED BY <1>1, <1>2, <1>4 DEF Merged!OtherStatement, g

\* A condition, on both paths.
LEMMA BranchRefines ==
    ASSUME Sound, Sound', NEW c \in Now.conds, NEW taken \in BOOLEAN, Branch(c, taken)
    PROVE  Merged!Branch
<1>1. c \in fn.conds /\ Typed(fn) /\ ConditionType(c) /\ Good(fn, {}, state)
  BY NowIn, FunctionsAreTyped DEF Sound, Typed
<1> DEFINE told(b) == Merged!Learned(reportingView(state), c, b)
<1>2. ASSUME NEW b \in BOOLEAN
      PROVE  Merged!SharperMap(reportingView(refineOnEdge(state, c, b)), told(b))
  <2> DEFINE T == refineOnEdge(state, c, b)
  <2>1. Good(fn, {}, T)
    BY <1>1, EdgeKeeps DEF refineOnEdge
  <2>2. T = D!refineGuardedFacts(Keying(fn), state, c, b)
    BY DEF refineOnEdge
  <2> HIDE DEF T
  <2>3. Backs(T, told(b))
    BY <1>1, <2>2, ViewBacks, EdgeBacks
  <2> HIDE DEF told
  <2>4. Merged!SharperMap(reportingView(T), told(b))
    BY <2>1, <2>3, BackedIsSharper
  <2> QED BY <2>4 DEF T
<1> HIDE DEF told
<1>3. state' = refineOnEdge(state, c, taken) /\ other' = IF other = {} THEN refineOnEdge(state, c, ~taken) ELSE other
  BY DEF Branch
<1>4. Merged!SharperMap(reportingView(state'), told(taken))
  BY <1>2, <1>3
<1>5. other' = other \/ Merged!SharperMap(reportingView(other'), told(~taken))
  BY <1>2, <1>3
<1> QED BY <1>1, <1>4, <1>5 DEF Merged!Branch, told

\* A condition with its statement, joined again.
LEMMA IfThenRefines ==
    ASSUME Sound, Sound', NEW i \in Now.ifs, IfThen(i[1], i[2])
    PROVE  Merged!IfThen
<1> DEFINE c == i[1]
           s == i[2]
           entered == refineOnEdge(state, c, TRUE)
           passed == refineOnEdge(state, c, FALSE)
           left == transfer(Keying(fn), s, entered)
           f == Merged!Learned(reportingView(state), c, TRUE)
           g == Merged!Learned(reportingView(state), c, FALSE)
           m == Merged!mergeMaps(Merged!Set(f, mergedWrite(s)), g)
<1>1. c \in fn.conds /\ s \in fn.stmts /\ Typed(fn) /\ ConditionType(c) /\ Good(fn, {}, state)
  BY NowIn, FunctionsAreTyped DEF Sound, Typed
<1>2. state' = merge(left, passed) /\ other' = other /\ Good(fn, {}, state')
  BY DEF IfThen, Sound
<1> HIDE DEF c, s
<1>3. Good(fn, {}, entered) /\ Good(fn, {}, passed)
  BY <1>1, EdgeKeeps DEF refineOnEdge
<1>4. Backs(state, reportingView(state))
  BY <1>1, ViewBacks
<1>5. Backs(entered, f) /\ Backs(passed, g)
  BY <1>1, <1>4, EdgeBacks DEF refineOnEdge
<1> HIDE DEF entered, passed, f, g
<1>6. Good(fn, {}, left) /\ Backs(left, Merged!Set(f, mergedWrite(s)))
  BY <1>1, <1>3, <1>5, TransferKeeps, TransferBacks
<1> HIDE DEF left
<1>7. Backs(state', m)
  BY <1>2, <1>3, <1>5, <1>6, MergeBacks
<1> HIDE DEF m
<1>8. Merged!SharperMap(reportingView(state'), m)
  BY <1>2, <1>7, BackedIsSharper
<1> QED BY <1>1, <1>2, <1>8 DEF Merged!IfThen, m, f, g

\* The two paths meet.
LEMMA JoinRefines ==
    ASSUME Sound, Sound', Join
    PROVE  Merged!Join
<1>1. state' = merge(state, other) /\ other' = {} /\ Good(fn, {}, state') /\ Good(fn, {}, {})
  BY FS_EmptySet DEF Join, Sound, Good
<1> DEFINE m == Merged!mergeMaps(reportingView(state), reportingView(other))
<1>2. Backs(state', m)
  BY <1>1, ViewBacks, MergeBacks DEF Sound
<1> HIDE DEF m
<1>3. Merged!SharperMap(reportingView(state'), m)
  BY <1>1, <1>2, BackedIsSharper
<1>4. DOMAIN reportingView({}) = {}
  BY <1>1, ViewIs
<1> QED BY <1>1, <1>3, <1>4 DEF Merged!Join, m

\* The head of a loop.
LEMMA WidenRefines ==
    ASSUME Sound, Sound', Widen
    PROVE  Merged!Widen
<1>1. state' = widen(state) /\ other' = other /\ Good(fn, {}, state) /\ Good(fn, {}, state')
  BY DEF Widen, Sound
<1>2. Backs(state', reportingView(state))
  BY <1>1, ViewBacks, WidenBacks
<1>3. Merged!SharperMap(reportingView(state'), reportingView(state))
  BY <1>1, <1>2, BackedIsSharper
<1> QED BY <1>1, <1>3 DEF Merged!Widen

\* A step of the rule is one of the merged analysis.
LEMMA NextRefines == Sound /\ Sound' /\ Merged!Truthful' /\ [Next]_vars => [Merged!Next]_(Merged!vars)
<1> SUFFICES ASSUME Sound, Sound', Merged!Truthful', [Next]_vars PROVE [Merged!Next]_(Merged!vars)
  OBVIOUS
<1>1. CASE Next
  <2>1. fn' = fn /\ outside \subseteq outside'
    BY <1>1 DEF Next, Statement, OtherStatement, Branch, IfThen, Join, Widen
  <2>2. (outside # {}) => (outside # {})'
    BY <2>1
  <2>3. Merged!Statement \/ Merged!OtherStatement \/ Merged!Branch \/ Merged!IfThen \/ Merged!Join \/ Merged!Widen
    BY <1>1, StatementRefines, OtherStatementRefines, BranchRefines, IfThenRefines, JoinRefines, WidenRefines DEF Next
  <2> QED BY <2>1, <2>2, <2>3 DEF Merged!Next
<1>2. CASE UNCHANGED vars
  BY <1>2 DEF vars, Merged!vars
<1> QED BY <1>1, <1>2

\* The disjuncts implement the merged analysis (RefinesMerged): collapsed, split, narrowed and
\* united, they never answer less than one state for each pointer would, and answer truly.
THEOREM MergedIsRefined == Spec => RefinesMerged
BY InitRefines, NextRefines, ViewIsTruthful, Soundness, PTL DEF Spec, RefinesMerged, Merged!Spec
=============================================================================
