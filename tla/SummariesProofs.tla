--------------------------- MODULE SummariesProofs ---------------------------
(***************************************************************************)
(* Proofs about module Summaries, for every program, call graph, order of  *)
(* the units and mode.                                                     *)
(*                                                                         *)
(* The argument: every summary there is anywhere (the table, a sweep, the  *)
(* store) claims of its function only what is true of it at run time       *)
(* (Sound).  A new summary is drawn from such summaries, and what makes    *)
(* run-time null come out of a function (Faithful) makes it sound again;   *)
(* this needs no induction over call chains, and so recursion is no        *)
(* special case.  A key of the store speaks for one function only, if keys *)
(* are distinct, and merging never strengthens.                            *)
(*                                                                         *)
(* The table is also a fixed point (FixpointInv).  Solved functions are    *)
(* closed under calls, so a new one disturbs none of them.  In a recursive *)
(* component inference is monotone and starts from nothing known: each     *)
(* sweep that changes something makes one more summary known, and it       *)
(* converges before the guard, which is above the component's size.        *)
(***************************************************************************)
EXTENDS Summaries, FiniteSetTheorems, TLAPS

Sound(claim, f) ==
    /\ claim = "NeverNull" => f \notin program.canBeNull
    /\ claim = "MaybeNull" => f \in program.hasNullSource

SoundTable(tbl) == \A f \in Fn : Sound(tbl[f], f)
SoundStore == \A f \in program.visible : Sound(store[program.key[f]], f)

IInv ==
    /\ TypeOK
    /\ program \in Program
    /\ component \subseteq Local
    /\ phase = "done" => table = NoSummary /\ component = {}
    /\ KeysDistinct => /\ SoundTable(table) /\ SoundTable(previous) /\ SoundTable(first)
                       /\ SoundStore

-----------------------------------------------------------------------------
(* Inference draws sound conclusions from sound summaries *)

\* What is looked up of a function is true of it.
LEMMA LookupSound ==
    ASSUME program \in Program, NEW tbl \in Table, SoundTable(tbl), SoundStore,
           store \in [Key -> Nullness \cup {None}], NEW g \in Fn
    PROVE  /\ Sound(lookupPrev(tbl, g), g)
           /\ lookupPrev(tbl, g) \in Nullness \cup {None}
<1>1. program.key \in [Fn -> Key] /\ program.visible \subseteq Fn
  BY ProgramAssumption DEF ProgramType
<1>2. Sound(None, g)
  BY NoneAssumption DEF Sound, Nullness
<1> QED BY <1>1, <1>2 DEF lookupPrev, lookupGlobal, SoundTable, SoundStore, Table

\* NeverNull of a call is true of every target, MaybeNull of some target.
LEMMA CallSound ==
    ASSUME program \in Program, NEW tbl \in Table, SoundTable(tbl), SoundStore,
           store \in [Key -> Nullness \cup {None}], NEW e \in Expr, e.kind = "call"
    PROVE  /\ CallSummary(tbl, e) = "NeverNull" => e.targets \cap program.canBeNull = {}
           /\ CallSummary(tbl, e) = "MaybeNull" => e.targets \cap program.hasNullSource # {}
<1> DEFINE claims == {lookupPrev(tbl, g) : g \in e.targets}
<1>1. e.targets \subseteq Fn /\ e.targets # {}
  BY DEF Expr
<1>2. \A g \in e.targets : /\ Sound(lookupPrev(tbl, g), g)
                           /\ lookupPrev(tbl, g) \in Nullness \cup {None}
  BY <1>1, LookupSound
<1>3. ASSUME CallSummary(tbl, e) = "NeverNull" PROVE e.targets \cap program.canBeNull = {}
  <2>1. claims = {"NeverNull"}
    BY <1>3, NoneAssumption DEF CallSummary, joinNullness, Nullness
  <2> QED BY <1>2, <2>1 DEF Sound
<1>4. ASSUME CallSummary(tbl, e) = "MaybeNull" PROVE e.targets \cap program.hasNullSource # {}
  <2>1. claims # {} /\ None \notin claims /\ "Unknown" \notin claims /\ claims # {"NeverNull"}
    BY <1>1, <1>4, NoneAssumption DEF CallSummary, joinNullness, Nullness
  <2>2. \A c \in claims : c \in Nullness
    BY <1>2, <2>1
  <2> HIDE DEF claims
  <2>3. "MaybeNull" \in claims
    BY <2>1, <2>2 DEF Nullness
  <2> QED BY <1>2, <2>3 DEF Sound, claims
<1> QED BY <1>3, <1>4

\* A summary drawn from sound summaries is sound.
LEMMA SummarySound ==
    ASSUME program \in Program, NEW tbl \in Table, SoundTable(tbl), SoundStore,
           store \in [Key -> Nullness \cup {None}],
           NEW f \in Fn, program.tus[f] # {}
    PROVE  Sound(summarizeFunction(f, tbl), f)
<1> DEFINE states == {vstateOf(tbl, e) : e \in program.returns[f]}
<1>1. program.returns[f] \subseteq Expr /\ Faithful(program)
  BY ProgramAssumption DEF ProgramType
<1>2. \A e \in program.returns[f] : e.kind # "call" => e.targets = {}
  BY <1>1 DEF Expr
<1>3. \A e \in program.returns[f] : e.kind \in {"null", "address", "opaque", "call"}
  BY <1>1 DEF Expr
<1>4. \A e \in program.returns[f] : e.kind = "call" =>
        /\ CallSummary(tbl, e) = "NeverNull" => e.targets \cap program.canBeNull = {}
        /\ CallSummary(tbl, e) = "MaybeNull" => e.targets \cap program.hasNullSource # {}
  BY <1>1, CallSound
<1>5. ASSUME summarizeFunction(f, tbl) = "NeverNull" PROVE f \notin program.canBeNull
  <2>1. \A e \in program.returns[f] : vstateOf(tbl, e) = "NonBad"
    BY <1>5 DEF summarizeFunction, aggregate
  <2>2. ASSUME NEW e \in program.returns[f]
        PROVE  e.kind \notin {"null", "opaque"} /\ e.targets \cap program.canBeNull = {}
    BY <1>2, <1>3, <1>4, <2>1 DEF vstateOf
  <2> QED BY <1>1, <2>2 DEF Faithful
<1>6. ASSUME summarizeFunction(f, tbl) = "MaybeNull" PROVE f \in program.hasNullSource
  <2>1. PICK e \in program.returns[f] : vstateOf(tbl, e) \in {"Bad", "MaybeBad"}
    BY <1>6 DEF summarizeFunction, aggregate
  <2>2. e.kind = "null" \/ e.targets \cap program.hasNullSource # {}
    BY <1>3, <1>4, <2>1 DEF vstateOf
  <2> QED BY <1>1, <2>2 DEF Faithful
<1> QED BY <1>5, <1>6 DEF Sound

\* A summary is one of the three claims.
LEMMA SummaryType == \A f, tbl : summarizeFunction(f, tbl) \in Nullness
BY DEF summarizeFunction, aggregate, Nullness

\* Merging keeps a claim everyone makes, or claims nothing.
LEMMA MergeWeakens ==
    ASSUME NEW claims
    PROVE  \/ claims = {} /\ mergeConservative(claims) = None
           \/ mergeConservative(claims) \in claims
           \/ mergeConservative(claims) = "Unknown"
<1>1. CASE claims = {}
  BY <1>1 DEF mergeConservative
<1>2. CASE claims # {}
  <2>1. (CHOOSE c \in claims : TRUE) \in claims
    BY <1>2
  <2>2. mergeConservative(claims) \in {CHOOSE c \in claims : TRUE, "Unknown"}
    BY <1>2 DEF mergeConservative
  <2> QED BY <2>1, <2>2
<1> QED BY <1>1, <1>2

-----------------------------------------------------------------------------
(* The steps *)

\* There is a first unit.
LEMMA UnitNumber == Cardinality(TU) \in Nat \ {0}
BY UnitAssumption, FS_CardinalityType, FS_EmptySet

\* The invariant holds when the process starts.
LEMMA InitInv == Init => IInv
<1> SUFFICES ASSUME Init PROVE IInv
  OBVIOUS
<1>1. program \in ProgramType
  BY ProgramAssumption DEF Init
<1>2. TypeOK
  <2>1. NoSummary \in Table /\ EmptyStore \in [Key -> Nullness \cup {None}]
    BY DEF Table, NoSummary, EmptyStore
  <2>2. \A f \in Fn : NoSummary[f] = None
    BY DEF NoSummary
  <2>3. pos \in DOMAIN order
    BY UnitNumber DEF Init, Permutation
  <2> QED BY <1>1, <2>1, <2>2, <2>3 DEF Init, TypeOK
<1>3. SoundTable(NoSummary) /\ SoundStore
  <2>1. \A f : Sound(None, f)
    BY NoneAssumption DEF Sound, Nullness
  <2>2. \A f \in program.visible : store[program.key[f]] = None
    BY <1>1 DEF Init, EmptyStore, ProgramType
  <2> QED BY <2>1, <2>2 DEF SoundTable, NoSummary, SoundStore
<1> QED BY <1>2, <1>3 DEF Init, IInv

\* One more solved function.
LEMMA SolveFunctionStep ==
    ASSUME IInv, SolveFunction
    PROVE  IInv'
<1>1. PICK f \in Local : table' = [table EXCEPT ![f] = summarizeFunction(f, table)]
  BY DEF SolveFunction
<1>2. f \in Fn /\ program.tus[f] # {} /\ table \in Table
  BY DEF Local, IInv, TypeOK
<1>3. UNCHANGED <<program, order, pass, pos, phase, component, previous, first, sweep, store, saved>>
  BY DEF SolveFunction
<1>4. Local' = Local
  BY <1>3 DEF Local
<1>5. table' \in Table /\ \A g \in Fn \ Local : table'[g] = None
  BY <1>1, <1>2, SummaryType DEF Table, IInv, TypeOK
<1>6. TypeOK'
  BY <1>3, <1>4, <1>5 DEF IInv, TypeOK, Table, Permutation
<1>7. ASSUME KeysDistinct PROVE SoundTable(table)'
  <2>1. Sound(summarizeFunction(f, table), f)
    BY <1>2, <1>7, SummarySound DEF IInv, TypeOK
  <2>2. \A g \in Fn : table'[g] = IF g = f THEN summarizeFunction(f, table) ELSE table[g]
    BY <1>1, <1>2 DEF Table
  <2>3. \A g \in Fn : Sound(table[g], g)
    BY <1>7 DEF IInv, SoundTable
  <2> QED BY <1>3, <2>1, <2>2, <2>3 DEF SoundTable, Sound
<1>8. phase # "done"
  BY DEF SolveFunction
<1> QED BY <1>3, <1>4, <1>6, <1>7, <1>8
        DEF IInv, KeysDistinct, SoundTable, SoundStore, Sound

\* A component starts from summaries that claim nothing.
LEMMA EnterComponentStep ==
    ASSUME IInv, EnterComponent
    PROVE  IInv'
<1>1. PICK f \in Local :
        /\ component' = ComponentOf(f)
        /\ previous' = [g \in Fn |-> IF g \in ComponentOf(f) THEN "Unknown" ELSE None]
  BY DEF EnterComponent
<1>2. /\ UNCHANGED <<program, order, pass, pos, table, first, store, saved>>
      /\ phase' = "sweep" /\ sweep' = 0
  BY DEF EnterComponent
<1>3. Local' = Local /\ component' \subseteq Local /\ Local \subseteq Fn
  BY <1>1, <1>2 DEF Local, ComponentOf
<1>4. previous' \in Table
  BY <1>1 DEF Table, Nullness
<1>5. TypeOK'
  BY <1>2, <1>3, <1>4 DEF IInv, TypeOK, Table, Permutation
<1>6. SoundTable(previous)'
  BY <1>1, <1>2, NoneAssumption DEF SoundTable, Sound, Nullness
<1> QED BY <1>2, <1>3, <1>5, <1>6 DEF IInv, KeysDistinct, SoundTable, SoundStore, Sound

\* A sweep reads sound summaries and writes sound ones.
LEMMA SweepStep ==
    ASSUME IInv, Sweep
    PROVE  IInv'
<1> DEFINE seen == [g \in Fn |-> IF g \in component THEN previous[g] ELSE table[g]]
           next == [g \in Fn |-> IF g \in component THEN summarizeFunction(g, seen) ELSE None]
           conservativeFirst == IF sweep = 0 THEN next ELSE first
<1>1. /\ UNCHANGED <<program, order, pass, pos, component, store, saved>>
      /\ first' = conservativeFirst /\ previous' = next /\ sweep' = sweep + 1
      /\ phase' \in {"sweep", "solve"}
  BY DEF Sweep
<1>2. \/ table' = table
      \/ table' = [g \in Fn |-> IF g \in component THEN next[g] ELSE table[g]]
      \/ table' = [g \in Fn |-> IF g \in component THEN conservativeFirst[g] ELSE table[g]]
  BY DEF Sweep
<1>3. /\ table \in Table /\ previous \in Table /\ first \in Table /\ sweep \in Nat
      /\ component \subseteq Local /\ Local \subseteq Fn
      /\ program \in Program /\ store \in [Key -> Nullness \cup {None}]
  BY DEF IInv, TypeOK, Local
<1>4. seen \in Table
  BY <1>3 DEF Table
<1>5. next \in Table /\ conservativeFirst \in Table
  BY <1>3, SummaryType DEF Table
<1> HIDE DEF conservativeFirst, next, seen
<1>6. table' \in Table /\ \A g \in Fn \ Local : table'[g] = None
  BY <1>2, <1>3, <1>5 DEF Table, IInv, TypeOK
<1>7. Local' = Local
  BY <1>1 DEF Local
<1>8. TypeOK'
  BY <1>1, <1>3, <1>5, <1>6, <1>7 DEF IInv, TypeOK, Permutation
<1>9. ASSUME KeysDistinct
      PROVE  SoundTable(table)' /\ SoundTable(previous)' /\ SoundTable(first)'
  <2>1. SoundTable(table) /\ SoundTable(previous) /\ SoundTable(first) /\ SoundStore
    BY <1>9 DEF IInv
  <2>2. SoundTable(seen)
    BY <2>1 DEF SoundTable, seen
  <2>3. \A g \in component : Sound(summarizeFunction(g, seen), g)
    <3> TAKE g \in component
    <3>1. g \in Fn /\ program.tus[g] # {}
      BY <1>3 DEF Local
    <3> QED BY <1>3, <1>4, <2>1, <2>2, <3>1, SummarySound
  <2>4. \A f : Sound(None, f)
    BY NoneAssumption DEF Sound, Nullness
  <2>5. SoundTable(next)
    BY <1>3, <2>3, <2>4 DEF SoundTable, next
  <2>6. SoundTable(conservativeFirst)
    BY <2>1, <2>5 DEF conservativeFirst
  <2>7. \A g \in Fn : table'[g] \in {table[g], next[g], conservativeFirst[g]}
    BY <1>2, <1>3
  <2>8. \A g \in Fn : Sound(table'[g], g)
    BY <2>1, <2>5, <2>6, <2>7 DEF SoundTable
  <2> QED BY <1>1, <2>5, <2>6, <2>8 DEF SoundTable, Sound
<1> QED BY <1>1, <1>3, <1>7, <1>8, <1>9
        DEF IInv, KeysDistinct, SoundTable, SoundStore, Sound

\* What a harvest merges into a key: the store's claim and the unit's.
Merged(k) == ({store[k]} \cup
              {table[f] : f \in {g \in Local \cap program.visible : program.key[g] = k}}) \ {None}

\* A harvest merges summaries, and stores one or none for each key.
LEMMA HarvestType ==
    ASSUME IInv
    PROVE  /\ harvestGlobal = [k \in Key |-> mergeConservative(Merged(k))]
           /\ \A k \in Key : mergeConservative(Merged(k)) \in Merged(k) \cup {None, "Unknown"}
           /\ harvestGlobal \in [Key -> Nullness \cup {None}]
<1>1. table \in Table /\ store \in [Key -> Nullness \cup {None}] /\ Local \subseteq Fn
  BY DEF IInv, TypeOK, Local
<1>2. harvestGlobal = [k \in Key |-> mergeConservative(Merged(k))]
  BY DEF harvestGlobal, Merged
<1>3. \A k \in Key : Merged(k) \subseteq Nullness
  BY <1>1 DEF Table, Merged
<1>4. \A k \in Key : mergeConservative(Merged(k)) \in Merged(k) \cup {None, "Unknown"}
  BY MergeWeakens
<1>5. \A k \in Key : mergeConservative(Merged(k)) \in Nullness \cup {None}
  BY <1>3, <1>4 DEF Nullness
<1> QED BY <1>2, <1>4, <1>5

\* What a key of the store says after a harvest is true of its function.
LEMMA HarvestSound ==
    ASSUME IInv, KeysDistinct
    PROVE  \A f \in program.visible : Sound(harvestGlobal[program.key[f]], f)
<1>1. /\ program.key \in [Fn -> Key] /\ program.visible \subseteq Fn
      /\ table \in Table /\ store \in [Key -> Nullness \cup {None}]
  BY ProgramAssumption DEF IInv, TypeOK, ProgramType
<1>2. \A f \in program.visible : \A c \in Merged(program.key[f]) : Sound(c, f)
  <2> TAKE f \in program.visible
  <2>1. Merged(program.key[f]) \subseteq {store[program.key[f]], table[f]}
    BY DEF KeysDistinct, Merged
  <2>2. Sound(store[program.key[f]], f) /\ Sound(table[f], f)
    BY <1>1 DEF IInv, SoundStore, SoundTable
  <2> QED BY <2>1, <2>2
<1>3. \A f : Sound(None, f) /\ Sound("Unknown", f)
  BY NoneAssumption DEF Sound, Nullness
<1>4. \A f \in program.visible : harvestGlobal[program.key[f]] = mergeConservative(Merged(program.key[f]))
  BY <1>1, HarvestType
<1>5. \A f \in program.visible :
        mergeConservative(Merged(program.key[f])) \in Merged(program.key[f]) \cup {None, "Unknown"}
  BY <1>1, HarvestType
<1>6. \A f \in program.visible : Sound(mergeConservative(Merged(program.key[f])), f)
  BY <1>2, <1>3, <1>5
<1> QED BY <1>4, <1>6

\* Nothing solved outlives the unit; what is stored of it is sound.
LEMMA FinishUnitStep ==
    ASSUME IInv, FinishUnit
    PROVE  IInv'
<1>1. /\ table' = NoSummary /\ component' = {}
      /\ previous' = NoSummary /\ first' = NoSummary /\ sweep' = 0
      /\ UNCHANGED <<program, order, saved>>
      /\ phase' \in {"done", "solve"} /\ pass' \in {1, 2}
  BY DEF FinishUnit, Cleared, IInv, TypeOK
<1>2. store' = harvestGlobal \/ store' = store
  BY DEF FinishUnit
<1>3. /\ order \in [1..Cardinality(TU) -> TU] /\ pos \in DOMAIN order
      /\ Cardinality(TU) \in Nat \ {0}
      /\ pos' = IF pos = Len(order) THEN 1 ELSE pos + 1
  BY UnitNumber DEF FinishUnit, IInv, TypeOK, Permutation
<1>4. pos' \in DOMAIN order'
  <2>1. Len(order) = Cardinality(TU) /\ DOMAIN order = 1..Cardinality(TU)
    BY <1>3
  <2> QED BY <1>1, <1>3, <2>1
<1>5. NoSummary \in Table /\ \A f \in Fn : NoSummary[f] = None
  BY DEF NoSummary, Table
<1>6. store' \in [Key -> Nullness \cup {None}]
  BY <1>2, HarvestType DEF IInv, TypeOK
<1>7. TypeOK'
  BY <1>1, <1>4, <1>5, <1>6 DEF IInv, TypeOK, Table, Permutation
<1>8. \A f : Sound(None, f)
  BY NoneAssumption DEF Sound, Nullness
<1>9. SoundTable(NoSummary)
  BY <1>5, <1>8 DEF SoundTable
<1>10. ASSUME KeysDistinct PROVE \A f \in program.visible : Sound(store'[program.key[f]], f)
  BY <1>2, <1>10, HarvestSound DEF IInv, SoundStore
<1> QED BY <1>1, <1>7, <1>9, <1>10 DEF IInv, KeysDistinct, SoundTable, SoundStore, Sound

\* A new process starts from an empty store.
LEMMA HarvestAgainStep ==
    ASSUME IInv, HarvestAgain
    PROVE  IInv'
<1>1. /\ UNCHANGED <<program, table, component, previous, first, sweep>>
      /\ phase = "done" /\ phase' = "solve" /\ saved' = store
      /\ order' \in Permutation /\ pass' \in {1, 2} /\ pos' = 1 /\ store' = EmptyStore
  BY DEF HarvestAgain, FreshProcess
<1>2. pos' \in DOMAIN order'
  BY <1>1, UnitNumber DEF Permutation
<1>3. table' = NoSummary /\ \A f \in Fn : NoSummary[f] = None
  BY <1>1 DEF IInv, NoSummary
<1>4. EmptyStore \in [Key -> Nullness \cup {None}] /\ \A k \in Key : EmptyStore[k] = None
  BY DEF EmptyStore
<1>5. TypeOK'
  BY <1>1, <1>2, <1>3, <1>4 DEF IInv, TypeOK, Table, Permutation
<1>6. SoundStore'
  <2>1. \A f \in program.visible : program.key[f] \in Key
    BY ProgramAssumption DEF IInv, ProgramType
  <2> QED BY <1>1, <1>4, <2>1, NoneAssumption DEF SoundStore, Sound, Nullness
<1>7. component' \subseteq Local'
  <2>1. component = {}
    BY <1>1 DEF IInv
  <2> QED BY <1>1, <2>1
<1> QED BY <1>1, <1>5, <1>6, <1>7 DEF IInv, KeysDistinct, SoundTable, Sound

\* Every step preserves the invariant.
LEMMA StepInv == IInv /\ [Next]_vars => IInv'
<1> SUFFICES ASSUME IInv, [Next]_vars PROVE IInv'
  OBVIOUS
<1>1. CASE SolveFunction
  BY <1>1, SolveFunctionStep
<1>2. CASE EnterComponent
  BY <1>2, EnterComponentStep
<1>3. CASE Sweep
  BY <1>3, SweepStep
<1>4. CASE Publish
  BY <1>4 DEF Publish, IInv, TypeOK, Local, Table, Permutation, KeysDistinct, SoundTable,
              SoundStore, Sound
<1>5. CASE FinishUnit
  BY <1>5, FinishUnitStep
<1>6. CASE HarvestAgain
  BY <1>6, HarvestAgainStep
<1>7. CASE UNCHANGED vars
  BY <1>7 DEF vars, IInv, TypeOK, Local, Table, Permutation, KeysDistinct, SoundTable,
              SoundStore, Sound
<1> QED BY <1>1, <1>2, <1>3, <1>4, <1>5, <1>6, <1>7 DEF Next

-----------------------------------------------------------------------------
(* The fixed point: what a summary depends on *)

\* A summary reads its callees in the unit, and what is not of the unit.
LEMMA SummaryDependsOnCallees ==
    ASSUME program \in Program, NEW t1, NEW t2, NEW f \in Fn,
           \A h \in Callees(f) : t1[h] = t2[h],
           \A h \in Fn \ Local : t1[h] = t2[h]
    PROVE  summarizeFunction(f, t1) = summarizeFunction(f, t2)
<1>1. \A e \in program.returns[f] : e.targets \subseteq Fn
  <2>1. program.returns[f] \subseteq Expr
    BY ProgramAssumption DEF ProgramType
  <2> QED BY <2>1 DEF Expr
<1>2. \A e \in program.returns[f] : \A h \in e.targets : t1[h] = t2[h]
  BY <1>1 DEF Callees
<1>3. \A e \in program.returns[f] : CallSummary(t1, e) = CallSummary(t2, e)
  <2> TAKE e \in program.returns[f]
  <2>1. \A h \in e.targets : lookupPrev(t1, h) = lookupPrev(t2, h)
    BY <1>2 DEF lookupPrev
  <2>2. {lookupPrev(t1, h) : h \in e.targets} = {lookupPrev(t2, h) : h \in e.targets}
    BY <2>1
  <2> QED BY <2>2 DEF CallSummary
<1>4. \A e \in program.returns[f] : vstateOf(t1, e) = vstateOf(t2, e)
  BY <1>3 DEF vstateOf
<1>5. {vstateOf(t1, e) : e \in program.returns[f]} = {vstateOf(t2, e) : e \in program.returns[f]}
  BY <1>4
<1> QED BY <1>5 DEF summarizeFunction

\* A claim says no more than another: the same, or nothing where that is known.
Below(c, d) == c = d \/ (c = "Unknown" /\ d \in Nullness)

\* Inference is monotone: it concludes no less from more.
LEMMA SummaryMonotone ==
    ASSUME NEW t1, NEW t2, NEW f, program \in Program, f \in Fn,
           \A h \in Fn : Below(t1[h], t2[h])
    PROVE  Below(summarizeFunction(f, t1), summarizeFunction(f, t2))
<1> DEFINE Under(v, w) == v = w \/ v = "Unknown"
<1>1. program.returns[f] \subseteq Expr
  BY ProgramAssumption DEF ProgramType
<1>2. \A h \in Fn : Below(lookupPrev(t1, h), lookupPrev(t2, h))
  BY NoneAssumption DEF lookupPrev, Below, Nullness
<1>3. ASSUME NEW e \in program.returns[f] PROVE Under(vstateOf(t1, e), vstateOf(t2, e))
  <2>1. e.targets \subseteq Fn
    BY <1>1 DEF Expr
  <2> DEFINE c1 == {lookupPrev(t1, h) : h \in e.targets}
             c2 == {lookupPrev(t2, h) : h \in e.targets}
  <2>2. None \in c1 <=> None \in c2
    BY <1>2, <2>1, NoneAssumption DEF Below, Nullness
  <2>3. "Unknown" \notin c1 => c1 = c2
    BY <1>2, <2>1 DEF Below
  <2>4. CallSummary(t1, e) = joinNullness(c1) /\ CallSummary(t2, e) = joinNullness(c2)
    BY DEF CallSummary
  <2> HIDE DEF c1, c2
  <2>5. CallSummary(t1, e) = CallSummary(t2, e) \/ CallSummary(t1, e) = "Unknown"
    BY <2>2, <2>3, <2>4 DEF joinNullness
  <2> QED BY <2>5 DEF vstateOf
<1> DEFINE s1 == {vstateOf(t1, e) : e \in program.returns[f]}
           s2 == {vstateOf(t2, e) : e \in program.returns[f]}
<1>4. s1 \cap {"Bad", "MaybeBad"} # {} => s2 \cap {"Bad", "MaybeBad"} # {}
  BY <1>3
<1>5. s1 = {"NonBad"} => s2 = {"NonBad"}
  BY <1>3
<1>6. s1 \cap {"Bad", "MaybeBad"} = {} \/ s1 # {"NonBad"}
  OBVIOUS
<1>7. s2 \cap {"Bad", "MaybeBad"} = {} \/ s2 # {"NonBad"}
  OBVIOUS
<1>8. summarizeFunction(f, t1) = aggregate(s1) /\ summarizeFunction(f, t2) = aggregate(s2)
  BY DEF summarizeFunction
<1> HIDE DEF s1, s2
<1> QED BY <1>4, <1>5, <1>6, <1>7, <1>8, SummaryType DEF aggregate, Below, Nullness

-----------------------------------------------------------------------------
(* The call graph *)

ClosedUnder(K, f) == K \subseteq Local /\ Callees(f) \subseteq K /\ \A h \in K : Callees(h) \subseteq K

\* A function reaches its callees, what they reach, and nothing that a set
\* closed under calls can leave out.
LEMMA ReachesFacts ==
    ASSUME NEW f
    PROVE  /\ Reaches(f) \subseteq Local
           /\ Callees(f) \subseteq Reaches(f)
           /\ \A h \in Reaches(f) : Callees(h) \subseteq Reaches(f)
           /\ \A K : ClosedUnder(K, f) => Reaches(f) \subseteq K
<1>1. \A g : Callees(g) \subseteq Local
  BY DEF Callees
<1> DEFINE closed == {K \in SUBSET Local : /\ Callees(f) \subseteq K
                                           /\ \A h \in K : Callees(h) \subseteq K}
<1>2. Reaches(f) = {g \in Local : \A K \in closed : g \in K}
  BY DEF Reaches
<1>3. Callees(f) \subseteq Reaches(f)
  BY <1>1, <1>2
<1>4. \A h \in Reaches(f) : Callees(h) \subseteq Reaches(f)
  BY <1>1, <1>2
<1>5. \A K : ClosedUnder(K, f) => K \in closed
  BY DEF ClosedUnder
<1> QED BY <1>2, <1>3, <1>4, <1>5

\* Reaching is transitive, so a function that does not reach itself is alone in
\* its component.
LEMMA ReachesTransitive ==
    ASSUME NEW f, NEW g \in Reaches(f)
    PROVE  Reaches(g) \subseteq Reaches(f)
BY ReachesFacts DEF ClosedUnder

LEMMA ComponentOfOne ==
    ASSUME NEW f \in Local, ~Recursive(f)
    PROVE  ComponentOf(f) = {f} /\ f \notin Callees(f)
BY ReachesFacts, ReachesTransitive DEF ComponentOf, Recursive

-----------------------------------------------------------------------------
(* The fixed point is inductive *)

\* Of a solved function every callee in the unit is solved, and its summary is
\* what these give.
SolvedInv ==
    \A f \in Local : table[f] # None =>
        /\ \A h \in Callees(f) : table[h] # None
        /\ table[f] = summarizeFunction(f, table)

\* What a sweep reads when its component has the summaries p, and what it writes.
Seen(p) == [g \in Fn |-> IF g \in component THEN p[g] ELSE table[g]]
Swept(p) == [g \in Fn |-> IF g \in component THEN summarizeFunction(g, Seen(p)) ELSE None]

Known(p) == {g \in component : p[g] # "Unknown"}

\* The summaries of a component only rise, and those known outnumber the sweeps.
SweepInv ==
    phase = "sweep" =>
        /\ \A g \in component : /\ table[g] = None
                                /\ previous[g] \in Nullness
                                /\ \A h \in Callees(g) \ component : table[h] # None
        /\ \A g \in Fn \ component : previous[g] = None
        /\ \A g \in Fn : Below(previous[g], Swept(previous)[g])
        /\ sweep <= Cardinality(Known(previous))

\* The rules read a table in which everything is solved.
PublishedInv == phase = "solved" => \A f \in Local : table[f] # None

FixpointInv == SolvedInv /\ SweepInv /\ PublishedInv

\* A solved function stays solved, and a solution of a set of functions whose
\* callees are in it or solved extends the fixed point.
LEMMA SolvedExtends ==
    ASSUME IInv, SolvedInv, NEW C \in SUBSET Local, NEW t \in Table,
           \A g \in C : table[g] = None /\ t[g] # None,
           \A g \in Fn \ C : t[g] = table[g],
           \A g \in C : \A h \in Callees(g) \ C : table[h] # None,
           \A g \in C : t[g] = summarizeFunction(g, t)
    PROVE  \A f \in Local : t[f] # None =>
              /\ \A h \in Callees(f) : t[h] # None
              /\ t[f] = summarizeFunction(f, t)
<1> SUFFICES ASSUME NEW f \in Local, t[f] # None
             PROVE  (\A h \in Callees(f) : t[h] # None) /\ t[f] = summarizeFunction(f, t)
  OBVIOUS
<1>1. Local \subseteq Fn /\ program \in Program /\ Callees(f) \subseteq Local
  BY DEF Local, Callees, IInv
<1>2. CASE f \in C
  BY <1>1, <1>2
<1>3. CASE f \notin C
  <2>1. table[f] # None /\ t[f] = table[f]
    BY <1>1, <1>3
  <2>2. \A h \in Callees(f) : table[h] # None /\ h \notin C
    BY <2>1 DEF SolvedInv
  <2>3. \A h \in Callees(f) : t[h] = table[h]
    BY <1>1, <2>2
  <2>4. summarizeFunction(f, t) = summarizeFunction(f, table)
    BY <1>1, <2>3, SummaryDependsOnCallees
  <2> QED BY <2>1, <2>2, <2>3, <2>4 DEF SolvedInv
<1> QED BY <1>2, <1>3

\* Within a unit the call graph and the inference do not change.
LEMMA SameUnit ==
    ASSUME UNCHANGED <<program, order, pos, store>>
    PROVE  /\ Local' = Local
           /\ \A f : Callees(f)' = Callees(f)
           /\ \A f, t : summarizeFunction(f, t)' = summarizeFunction(f, t)
<1>1. Local' = Local
  BY DEF Local
<1>2. \A f : Callees(f)' = Callees(f)
  BY <1>1 DEF Callees
<1>3. \A t, g : lookupPrev(t, g)' = lookupPrev(t, g)
  BY DEF lookupPrev, lookupGlobal
<1>4. \A t, e : CallSummary(t, e)' = CallSummary(t, e)
  BY <1>3 DEF CallSummary
<1>5. \A t, e : vstateOf(t, e)' = vstateOf(t, e)
  BY <1>4 DEF vstateOf
<1>6. \A f, t : summarizeFunction(f, t)' = summarizeFunction(f, t)
  BY <1>5 DEF summarizeFunction
<1> QED BY <1>1, <1>2, <1>6

\* One function that does not call itself.
LEMMA SolveFunctionFixes ==
    ASSUME IInv, FixpointInv, SolveFunction
    PROVE  FixpointInv'
<1>1. PICK f \in Local : /\ Ready(f) /\ ~Recursive(f)
                         /\ table' = [table EXCEPT ![f] = summarizeFunction(f, table)]
  BY DEF SolveFunction
<1>2. /\ UNCHANGED <<program, order, pos, phase, store>> /\ phase = "solve"
      /\ f \in Fn /\ program \in Program /\ table \in Table /\ Local \subseteq Fn
  BY DEF SolveFunction, IInv, TypeOK, Local
<1>3. /\ table' \in Table /\ table'[f] = summarizeFunction(f, table)
      /\ \A g \in Fn \ {f} : table'[g] = table[g]
  BY <1>1, <1>2, SummaryType DEF Table
<1>4. /\ table[f] = None /\ f \notin Callees(f)
      /\ \A h \in Callees(f) : table[h] # None
  BY <1>1, ComponentOfOne DEF Ready
<1>5. \A h \in Callees(f) : h \in Local
  BY DEF Callees
<1> DEFINE t == table'
<1>6. t[f] = summarizeFunction(f, t)
  <2>1. \A h \in Callees(f) : t[h] = table[h]
    BY <1>2, <1>3, <1>4, <1>5
  <2>2. \A h \in Fn \ Local : t[h] = table[h]
    BY <1>3
  <2>3. summarizeFunction(f, t) = summarizeFunction(f, table)
    <3> HIDE DEF t
    <3> QED BY <1>2, <2>1, <2>2, SummaryDependsOnCallees
  <2> QED BY <1>3, <2>3
<1>7. t[f] # None
  BY <1>3, SummaryType, NoneAssumption
<1>8. \A g \in Local : t[g] # None =>
         /\ \A h \in Callees(g) : t[h] # None
         /\ t[g] = summarizeFunction(g, t)
  <2> DEFINE C == {f}
  <2>1. C \in SUBSET Local /\ t \in Table
    BY <1>3
  <2>2. /\ \A g \in C : table[g] = None /\ t[g] # None
        /\ \A g \in Fn \ C : t[g] = table[g]
        /\ \A g \in C : \A h \in Callees(g) \ C : table[h] # None
        /\ \A g \in C : t[g] = summarizeFunction(g, t)
    BY <1>3, <1>4, <1>6, <1>7
  <2>3. SolvedInv
    BY DEF FixpointInv
  <2> HIDE DEF C, t
  <2> QED BY <2>1, <2>2, <2>3, SolvedExtends
<1>9. SolvedInv'
  BY <1>2, <1>8, SameUnit DEF SolvedInv
<1>10. SweepInv' /\ PublishedInv'
  BY <1>2 DEF SweepInv, PublishedInv
<1> QED BY <1>9, <1>10 DEF FixpointInv

\* A recursive component is unsolved when it is entered, for the solved functions
\* are closed under calls; nothing is known of it, so nothing can be lost.
LEMMA EnterComponentFixes ==
    ASSUME IInv, FixpointInv, EnterComponent
    PROVE  FixpointInv'
<1>1. PICK f \in Local :
        /\ Ready(f) /\ component' = ComponentOf(f)
        /\ previous' = [g \in Fn |-> IF g \in ComponentOf(f) THEN "Unknown" ELSE None]
  BY DEF EnterComponent
<1>2. /\ UNCHANGED <<program, order, pos, table, store>> /\ sweep' = 0
      /\ f \in Fn /\ program \in Program /\ table \in Table /\ Local \subseteq Fn
  BY DEF EnterComponent, IInv, TypeOK, Local
<1> DEFINE C == ComponentOf(f)
<1>3. C \subseteq Local /\ \A g \in C : \A h \in Callees(g) \ C : table[h] # None
  BY <1>1 DEF ComponentOf, Ready
<1>4. ASSUME NEW g \in C PROVE table[g] = None
  <2>1. g = f \/ f \in Reaches(g)
    BY <1>4 DEF ComponentOf
  <2>2. ASSUME table[g] # None, f \in Reaches(g) PROVE FALSE
    <3> DEFINE K == {h \in Local : table[h] # None}
    <3>1. ClosedUnder(K, g)
      BY <1>3, <2>2 DEF ClosedUnder, FixpointInv, SolvedInv, Callees
    <3>2. f \in K
      BY <2>2, <3>1, ReachesFacts
    <3> QED BY <1>1, <3>2 DEF Ready
  <2> QED BY <1>1, <2>1, <2>2 DEF Ready
<1>5. SolvedInv'
  BY <1>2, SameUnit DEF FixpointInv, SolvedInv
<1>6. \A g \in Fn : Below(previous'[g], Swept(previous)'[g])
  <2>1. Swept(previous)' = [g \in Fn |-> IF g \in component'
                                           THEN summarizeFunction(g, Seen(previous))' ELSE None]
    BY DEF Swept
  <2>2. \A g \in Fn : summarizeFunction(g, Seen(previous))' \in Nullness
    BY DEF summarizeFunction, aggregate, Nullness
  <2> QED BY <1>1, <2>1, <2>2 DEF Below
<1>7. sweep' <= Cardinality(Known(previous))'
  <2>1. Known(previous)' = {}
    BY <1>1, <1>2, <1>3 DEF Known
  <2>2. Cardinality(Known(previous))' = 0
    BY <2>1, FS_EmptySet
  <2> QED BY <1>2, <2>2
<1>8. /\ \A g \in component' : /\ table'[g] = None /\ previous'[g] \in Nullness
                               /\ \A h \in Callees(g)' \ component' : table'[h] # None
      /\ \A g \in Fn \ component' : previous'[g] = None
  <2>1. \A g \in component' : g \in Fn
    BY <1>1, <1>2, <1>3
  <2> QED BY <1>1, <1>2, <1>3, <1>4, <2>1, SameUnit DEF Nullness
<1>9. SweepInv'
  BY <1>6, <1>7, <1>8 DEF SweepInv
<1>10. PublishedInv'
  BY DEF EnterComponent, PublishedInv
<1> QED BY <1>5, <1>9, <1>10 DEF FixpointInv

\* A sweep either confirms the component's summaries, and solves it, or makes one
\* more of them known: it converges before maxSweeps.
LEMMA SweepFixes ==
    ASSUME IInv, FixpointInv, Sweep
    PROVE  FixpointInv'
<1> DEFINE next == Swept(previous)
           converged == next = previous
           conservativeFirst == IF sweep = 0 THEN next ELSE first
           result == IF converged THEN next ELSE conservativeFirst
<1>1. /\ UNCHANGED <<program, order, pos, component, store>> /\ phase = "sweep"
      /\ previous' = next /\ sweep' = sweep + 1
      /\ IF converged \/ sweep + 1 = maxSweeps
           THEN /\ table' = [g \in Fn |-> IF g \in component THEN result[g] ELSE table[g]]
                /\ phase' = "solve"
           ELSE UNCHANGED <<table, phase>>
  BY DEF Sweep, Swept, Seen
<1>2. /\ program \in Program /\ table \in Table /\ previous \in Table /\ Local \subseteq Fn
      /\ component \subseteq Local /\ sweep \in Nat
  BY DEF IInv, TypeOK, Local
<1>3. /\ \A g \in component : /\ table[g] = None
                              /\ previous[g] \in Nullness
                              /\ \A h \in Callees(g) \ component : table[h] # None
      /\ \A g \in Fn \ component : previous[g] = None
      /\ \A g \in Fn : Below(previous[g], next[g])
      /\ sweep <= Cardinality(Known(previous))
  BY <1>1 DEF FixpointInv, SweepInv
<1>4. /\ next \in Table
      /\ \A g \in component : next[g] = summarizeFunction(g, Seen(previous)) /\ next[g] \in Nullness
      /\ \A g \in Fn \ component : next[g] = None
  BY <1>2, SummaryType DEF Swept, Table
<1> HIDE DEF next
<1>5. CASE converged
  <2> DEFINE t == [g \in Fn |-> IF g \in component THEN next[g] ELSE table[g]]
  <2>1. table' = t /\ phase' = "solve"
    BY <1>1, <1>5
  <2>2. t = Seen(previous)
    BY <1>5 DEF Seen
  <2>3. /\ t \in Table
        /\ \A g \in component : table[g] = None /\ t[g] # None
        /\ \A g \in Fn \ component : t[g] = table[g]
        /\ \A g \in component : t[g] = summarizeFunction(g, t)
    BY <1>2, <1>3, <1>4, <2>2, NoneAssumption DEF Table
  <2>4. SolvedInv
    BY DEF FixpointInv
  <2> HIDE DEF t
  <2>5. \A f \in Local : t[f] # None =>
              /\ \A h \in Callees(f) : t[h] # None
              /\ t[f] = summarizeFunction(f, t)
    BY <1>2, <1>3, <2>3, <2>4, SolvedExtends
  <2>6. SolvedInv'
    BY <1>1, <2>1, <2>5, SameUnit DEF SolvedInv
  <2> QED BY <2>1, <2>6 DEF FixpointInv, SweepInv, PublishedInv
<1>6. CASE ~converged
  <2>1. IsFiniteSet(component)
    BY <1>2, FunctionAssumption, FS_Subset
  <2>2. PICK c \in component : previous[c] = "Unknown" /\ next[c] # "Unknown"
    <3>1. next = [g \in Fn |-> next[g]] /\ previous = [g \in Fn |-> previous[g]]
      BY <1>2, <1>4 DEF Table
    <3>2. \E g \in Fn : next[g] # previous[g]
      BY <1>6, <3>1
    <3> QED BY <1>3, <1>4, <3>2 DEF Below
  <2>3. Known(previous) \cup {c} \subseteq Known(next)
    BY <1>2, <1>3, <2>2 DEF Known, Below
  <2>4. Known(next) \subseteq component /\ Known(previous) \subseteq component
        /\ c \notin Known(previous)
    BY <2>2 DEF Known
  <2>5. IsFiniteSet(Known(next)) /\ IsFiniteSet(Known(previous))
    BY <2>1, <2>4, FS_Subset
  <2>6. /\ Cardinality(Known(previous) \cup {c}) = Cardinality(Known(previous)) + 1
        /\ IsFiniteSet(Known(previous) \cup {c})
    BY <2>4, <2>5, FS_AddElement
  <2>7. /\ Cardinality(Known(previous) \cup {c}) <= Cardinality(Known(next))
        /\ Cardinality(Known(next)) <= Cardinality(component)
    BY <2>1, <2>3, <2>4, <2>5, FS_Subset
  <2>8. /\ Cardinality(Known(previous)) \in Nat /\ Cardinality(Known(next)) \in Nat
        /\ Cardinality(component) \in Nat
    BY <2>1, <2>5, FS_CardinalityType
  <2>9. sweep + 1 <= Cardinality(Known(next)) /\ sweep + 1 <= Cardinality(component)
    BY <1>2, <1>3, <2>6, <2>7, <2>8
  <2>10. maxSweeps >= 4 * Cardinality(component) + 4 /\ maxSweeps \in Nat
    BY <2>8, SweepsAssumption DEF maxSweeps
  <2>11. sweep + 1 # maxSweeps
    BY <1>2, <2>8, <2>9, <2>10
  <2>12. UNCHANGED <<table, phase>>
    BY <1>1, <1>6, <2>11
  <2>13. SolvedInv'
    BY <1>1, <2>12, SameUnit DEF FixpointInv, SolvedInv
  <2>14. \A g \in Fn : Below(next[g], Swept(next)[g])
    <3>1. \A h \in Fn : Below(Seen(previous)[h], Seen(next)[h])
      BY <1>3 DEF Seen, Below
    <3>2. \A g \in component : Below(summarizeFunction(g, Seen(previous)), summarizeFunction(g, Seen(next)))
      BY <1>2, <3>1, SummaryMonotone
    <3> QED BY <1>2, <1>4, <3>2 DEF Swept, Below
  <2>15. Swept(previous)' = Swept(next) /\ Known(previous)' = Known(next)
    <3>1. Seen(previous)' = Seen(next)
      BY <1>1, <2>12 DEF Seen
    <3>2. \A g \in Fn : summarizeFunction(g, Seen(previous))' = summarizeFunction(g, Seen(next))
      BY <1>1, <3>1, SameUnit
    <3> QED BY <1>1, <3>2 DEF Swept, Known
  <2>16. SweepInv'
    BY <1>1, <1>3, <1>4, <2>9, <2>12, <2>14, <2>15, SameUnit DEF SweepInv
  <2> QED BY <1>1, <2>12, <2>13, <2>16 DEF FixpointInv, PublishedInv
<1> QED BY <1>5, <1>6

\* Every step preserves the fixed point.
LEMMA FixpointStep == IInv /\ FixpointInv /\ [Next]_vars => FixpointInv'
<1> SUFFICES ASSUME IInv, FixpointInv, [Next]_vars PROVE FixpointInv'
  OBVIOUS
<1>1. CASE SolveFunction
  BY <1>1, SolveFunctionFixes
<1>2. CASE EnterComponent
  BY <1>2, EnterComponentFixes
<1>3. CASE Sweep
  BY <1>3, SweepFixes
<1>4. CASE Publish
  <2>1. SolvedInv'
    BY <1>4, SameUnit DEF Publish, FixpointInv, SolvedInv
  <2>2. PublishedInv'
    BY <1>4, SameUnit DEF Publish, PublishedInv
  <2> QED BY <1>4, <2>1, <2>2 DEF Publish, FixpointInv, SweepInv
<1>5. CASE FinishUnit \/ HarvestAgain
  <2>1. table' = NoSummary /\ phase' # "sweep"
    BY <1>5 DEF FinishUnit, HarvestAgain, FreshProcess, Cleared, IInv
  <2>2. \A f \in Local' : table'[f] = None
    BY <2>1 DEF NoSummary, Local
  <2>3. phase' # "solved"
    BY <1>5 DEF FinishUnit, HarvestAgain, FreshProcess
  <2> QED BY <2>1, <2>2, <2>3 DEF FixpointInv, SolvedInv, SweepInv, PublishedInv
<1>6. CASE UNCHANGED vars
  <2>1. SolvedInv'
    BY <1>6, SameUnit DEF vars, FixpointInv, SolvedInv
  <2>2. Swept(previous)' = Swept(previous) /\ Known(previous)' = Known(previous)
    <3>1. Seen(previous)' = Seen(previous)
      BY <1>6 DEF Seen, vars
    <3> QED BY <1>6, <3>1, SameUnit DEF Swept, Known, vars
  <2>3. SweepInv'
    BY <1>6, <2>2, SameUnit DEF vars, FixpointInv, SweepInv
  <2>4. PublishedInv'
    BY <1>6, SameUnit DEF vars, FixpointInv, PublishedInv
  <2> QED BY <2>1, <2>3, <2>4 DEF FixpointInv
<1> QED BY <1>1, <1>2, <1>3, <1>4, <1>5, <1>6 DEF Next

-----------------------------------------------------------------------------
(* Theorems *)

\* Every summary there is, in the table, in a sweep and in the store, is true of
\* its function, at every point of every run.
THEOREM Inductive == Spec => []IInv
BY InitInv, StepInv, PTL DEF Spec

\* Every variable keeps its type, and the table has only entries of the unit.
THEOREM TypeCorrect == Spec => []TypeOK
<1>1. IInv => TypeOK
  BY DEF IInv
<1> QED BY <1>1, Inductive, PTL

\* What a rule is told of a call: if a visible function's name and number of
\* parameters are its own, NeverNull is true of every target.
THEOREM NeverNullAlways == Spec => []NeverNullIsTrue
<1>1. ASSUME IInv PROVE NeverNullIsTrue
  <2> SUFFICES ASSUME KeysDistinct, NEW e \in Told("NeverNull")
               PROVE  e.targets \cap program.canBeNull = {}
    BY DEF NeverNullIsTrue
  <2>1. e \in Expr /\ e.kind = "call" /\ CallSummary(table, e) = "NeverNull"
    BY <1>1, ProgramAssumption DEF Told, Local, IInv, ProgramType
  <2> QED BY <1>1, <2>1, CallSound DEF IInv, TypeOK
<1> QED BY <1>1, Inductive, PTL

\* And MaybeNull has a source in the code behind the call.
THEOREM MaybeNullAlways == Spec => []MaybeNullIsEarned
<1>1. ASSUME IInv PROVE MaybeNullIsEarned
  <2> SUFFICES ASSUME KeysDistinct, NEW e \in Told("MaybeNull")
               PROVE  e.targets \cap program.hasNullSource # {}
    BY DEF MaybeNullIsEarned
  <2>1. e \in Expr /\ e.kind = "call" /\ CallSummary(table, e) = "MaybeNull"
    BY <1>1, ProgramAssumption DEF Told, Local, IInv, ProgramType
  <2> QED BY <1>1, <2>1, CallSound DEF IInv, TypeOK
<1> QED BY <1>1, Inductive, PTL

\* The solved table is a fixed point, whatever calls whatever: no callee is read
\* before it is final, and a recursive component converges within maxSweeps and
\* never falls back to its first round.
THEOREM SolvedAlways == Spec => []SolvedIsFixpoint
<1>1. Init => FixpointInv
  <2> SUFFICES ASSUME Init PROVE FixpointInv
    OBVIOUS
  <2>1. \A f \in Local : table[f] = None
    BY DEF Init, NoSummary, Local
  <2> QED BY <2>1 DEF Init, FixpointInv, SolvedInv, SweepInv, PublishedInv
<1>2. Spec => []FixpointInv
  BY <1>1, FixpointStep, Inductive, PTL DEF Spec
<1>3. FixpointInv => SolvedIsFixpoint
  BY DEF FixpointInv, SolvedInv, PublishedInv, SolvedIsFixpoint, stable
<1> QED BY <1>2, <1>3, PTL
=============================================================================
