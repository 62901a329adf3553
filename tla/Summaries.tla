------------------------------ MODULE Summaries ------------------------------
(***************************************************************************)
(* The function summaries of src/src/engine/FunctionSummary.cpp, for their *)
(* return nullness: SummaryRegistry solves the call graph of a translation *)
(* unit (rebuild), rules read the solved table (lookup), and the claims on *)
(* externally visible functions are harvested into a store keyed by name   *)
(* and number of parameters, which the next units read.                    *)
(*                                                                         *)
(* Return zeroness goes through the same templates.                        *)
(***************************************************************************)
EXTENDS Naturals, Sequences, FiniteSets

CONSTANTS
    Fn,                 \* functions (declarations; overloads are distinct)
    TU,                 \* translation units
    Key,                \* what globalKey() can return
    None,               \* no summary
    kMinimumSccSweeps,
    Program             \* the programs and modes considered

Nullness == {"Unknown", "MaybeNull", "NeverNull"}

\* A returned expression, by what vstateOf tells apart.  The targets of a call
\* are its callee or what buildIndirectTargetMap resolves it to.
Expr == [kind : {"null", "address", "opaque"}, targets : {{}}]
        \cup [kind : {"call"}, targets : (SUBSET Fn) \ {{}}]

(***************************************************************************)
(* A program: the units that hold each function's body (none for a library *)
(* function, several for an inline one), the globalKey of a function, the  *)
(* externally visible ones, what they return; what is true of it at run    *)
(* time: who can return null and who can return one from a known source;   *)
(* and the mode it is analysed in.                                         *)
(***************************************************************************)
ProgramType ==
    [tus : [Fn -> SUBSET TU],
     key : [Fn -> Key],
     visible : SUBSET Fn,
     returns : [Fn -> SUBSET Expr],
     canBeNull : SUBSET Fn,
     hasNullSource : SUBSET Fn,
     wholeProgram : BOOLEAN,
     summaryOut : BOOLEAN]

\* Run-time null comes out of a function through one of its returns.
Faithful(p) ==
    \A f \in Fn : p.tus[f] # {} =>
        /\ f \in p.canBeNull =>
              \E e \in p.returns[f] :
                  e.kind \in {"null", "opaque"} \/ e.targets \cap p.canBeNull # {}
        /\ (\E e \in p.returns[f] : e.kind = "null" \/ e.targets \cap p.hasNullSource # {})
              => f \in p.hasNullSource

ASSUME ProgramAssumption == \A p \in Program : p \in ProgramType /\ Faithful(p)
ASSUME UnitAssumption == IsFiniteSet(TU) /\ TU # {}
ASSUME FunctionAssumption == IsFiniteSet(Fn)
ASSUME NoneAssumption == None \notin Nullness
ASSUME SweepsAssumption == kMinimumSccSweeps \in Nat

VARIABLES
    program,
    order,          \* source_files_
    pass,           \* 1: --whole-program's harvest, 2: the rules
    pos,            \* the unit being processed
    phase,          \* where its callback is
    table,          \* the summaries of this unit solved so far
    component,      \* the recursive component being solved
    previous,       \* its summaries of the last sweep
    first,          \* its summaries after the first sweep
    sweep,
    store,          \* globalStore_
    saved           \* the file --summary-out wrote in an earlier process

vars == <<program, order, pass, pos, phase, table, component, previous,
          first, sweep, store, saved>>

Local == {f \in Fn : order[pos] \in program.tus[f]}
NoSummary == [f \in Fn |-> None]
EmptyStore == [k \in Key |-> None]
stable == phase = "solved"

-----------------------------------------------------------------------------
(* Lookup and inference *)

lookupGlobal(g) == IF g \in program.visible THEN store[program.key[g]] ELSE None

lookupPrev(tbl, g) == IF tbl[g] # None THEN tbl[g] ELSE lookupGlobal(g)

\* Mutant: a target without a summary is left out of the join.
joinKnown(claims) ==
    LET known == claims \ {None}
    IN  IF known = {} THEN None
        ELSE IF "Unknown" \in known THEN "Unknown"
        ELSE IF known = {"NeverNull"} THEN "NeverNull" ELSE "MaybeNull"

\* mergeTargetSummaries over all targets of a call; one of them without a
\* summary leaves the call without.
joinNullness(claims) ==
    IF None \in claims THEN None
    ELSE IF "Unknown" \in claims THEN "Unknown"
    ELSE IF claims = {"NeverNull"} THEN "NeverNull" ELSE "MaybeNull"

CallSummary(tbl, e) == joinNullness({lookupPrev(tbl, g) : g \in e.targets})

vstateOf(tbl, e) ==
    LET claim == CallSummary(tbl, e)
    IN  CASE e.kind = "null"    -> "Bad"
          [] e.kind = "address" -> "NonBad"
          [] e.kind = "opaque"  -> "Unknown"
          [] e.kind = "call"    -> IF claim = "NeverNull" THEN "NonBad"
                                   ELSE IF claim = "MaybeNull" THEN "MaybeBad"
                                   ELSE "Unknown"

\* Mutant: any return that may be bad or is not understood makes the claim.
aggregateLoosely(states) ==
    IF states # {} /\ states # {"NonBad"} THEN "MaybeNull"
    ELSE IF states = {"NonBad"} THEN "NeverNull" ELSE "Unknown"

\* aggregateFlags and what the nullness makes of them.
aggregate(states) ==
    IF states \cap {"Bad", "MaybeBad"} # {} THEN "MaybeNull"
    ELSE IF states = {"NonBad"} THEN "NeverNull" ELSE "Unknown"

summarizeFunction(f, tbl) == aggregate({vstateOf(tbl, e) : e \in program.returns[f]})

-----------------------------------------------------------------------------
(* The call graph of the unit *)

Callees(f) == (UNION {e.targets : e \in program.returns[f]}) \cap Local

\* What f reaches through calls: the least set that has its callees and theirs.
Reaches(f) ==
    LET closed == {K \in SUBSET Local : /\ Callees(f) \subseteq K
                                        /\ \A h \in K : Callees(h) \subseteq K}
    IN  {g \in Local : \A K \in closed : g \in K}

ComponentOf(f) == {f} \cup {g \in Local : g \in Reaches(f) /\ f \in Reaches(g)}
Recursive(f) == f \in Reaches(f)

\* Mutant: components in source order.
ReadyAnyway(f) == table[f] = None

\* Callee components come first: SccFinder emits a component when everything
\* it calls has been emitted.
Ready(f) ==
    /\ table[f] = None
    /\ \A g \in ComponentOf(f) : \A h \in Callees(g) \ ComponentOf(f) : table[h] # None

maxSweeps ==
    LET guard == 4 * Cardinality(component) + 4
    IN  IF kMinimumSccSweeps > guard THEN kMinimumSccSweeps ELSE guard

-----------------------------------------------------------------------------
Permutation == {o \in [1..Cardinality(TU) -> TU] : \A i, k \in DOMAIN o : i # k => o[i] # o[k]}

FreshProcess ==
    /\ order' \in Permutation
    /\ pass' = IF program.wholeProgram THEN 1 ELSE 2
    /\ pos' = 1
    /\ phase' = "solve"
    /\ store' = EmptyStore

Init ==
    /\ program \in Program
    /\ order \in Permutation
    /\ pass = IF program.wholeProgram THEN 1 ELSE 2
    /\ pos = 1
    /\ phase = "solve"
    /\ table = NoSummary
    /\ component = {} /\ previous = NoSummary /\ first = NoSummary /\ sweep = 0
    /\ store = EmptyStore
    /\ saved = None

\* A component that is one function without a call to itself.
SolveFunction ==
    /\ phase = "solve"
    /\ \E f \in Local :
          /\ Ready(f) /\ ~Recursive(f)
          /\ table' = [table EXCEPT ![f] = summarizeFunction(f, table)]
    /\ UNCHANGED <<program, order, pass, pos, phase, component, previous, first,
                   sweep, store, saved>>

\* A recursive component starts from summaries that claim nothing.
EnterComponent ==
    /\ phase = "solve"
    /\ \E f \in Local :
          /\ Ready(f) /\ Recursive(f)
          /\ component' = ComponentOf(f)
          /\ previous' = [g \in Fn |-> IF g \in ComponentOf(f) THEN "Unknown" ELSE None]
    /\ phase' = "sweep"
    /\ sweep' = 0
    /\ UNCHANGED <<program, order, pass, pos, table, first, store, saved>>

\* One synchronous sweep over the component; the guard falls back to the first.
Sweep ==
    LET seen == [g \in Fn |-> IF g \in component THEN previous[g] ELSE table[g]]
        next == [g \in Fn |-> IF g \in component THEN summarizeFunction(g, seen) ELSE None]
        converged == next = previous
        lastSweep == sweep + 1 = maxSweeps
        conservativeFirst == IF sweep = 0 THEN next ELSE first
        result == IF converged THEN next ELSE conservativeFirst
    IN  /\ phase = "sweep"
        /\ first' = conservativeFirst
        /\ previous' = next
        /\ sweep' = sweep + 1
        /\ IF converged \/ lastSweep
             THEN /\ table' = [g \in Fn |-> IF g \in component THEN result[g] ELSE table[g]]
                  /\ phase' = "solve"
             ELSE UNCHANGED <<table, phase>>
        /\ UNCHANGED <<program, order, pass, pos, component, store, saved>>

\* rebuild() is complete: the rules of this unit may read the table.
Publish ==
    /\ phase = "solve"
    /\ \A f \in Local : table[f] # None
    /\ phase' = "solved"
    /\ UNCHANGED <<program, order, pass, pos, table, component, previous, first,
                   sweep, store, saved>>

\* mergeConservative of what is stored for a key with what the unit has for it.
mergeConservative(claims) ==
    CASE claims = {} -> None
      [] Cardinality(claims) = 1 -> CHOOSE c \in claims : TRUE
      [] OTHER -> "Unknown"

harvestGlobal ==
    [k \in Key |->
        mergeConservative(({store[k]} \cup
            {table[f] : f \in {g \in Local \cap program.visible : program.key[g] = k}}) \ {None})]

\* Mutant: the table outlives its unit.
NotCleared == table

\* clear(): the table is keyed by declarations of this unit.
Cleared == NoSummary

Harvests == pass = 1 \/ program.summaryOut

\* The end of a unit's callback: harvest, clear(), and on to the next unit.
FinishUnit ==
    /\ phase = "solved"
    /\ store' = IF Harvests THEN harvestGlobal ELSE store
    /\ table' = Cleared
    /\ component' = {} /\ previous' = NoSummary /\ first' = NoSummary /\ sweep' = 0
    /\ pos' = IF pos = Len(order) THEN 1 ELSE pos + 1
    /\ pass' = IF pos = Len(order) THEN 2 ELSE pass
    /\ phase' = IF pos = Len(order) /\ pass = 2 THEN "done" ELSE "solve"
    /\ UNCHANGED <<program, order, saved>>

\* saveGlobal, and a second process over the same sources, found in another order.
HarvestAgain ==
    /\ phase = "done"
    /\ program.summaryOut
    /\ saved = None
    /\ saved' = store
    /\ FreshProcess
    /\ UNCHANGED <<program, table, component, previous, first, sweep>>

Next == SolveFunction \/ EnterComponent \/ Sweep \/ Publish \/ FinishUnit \/ HarvestAgain

Spec == Init /\ [][Next]_vars
-----------------------------------------------------------------------------
(* Properties *)

Table == [Fn -> Nullness \cup {None}]

\* Types; and only functions of the unit in hand have an entry in the table.
TypeOK ==
    /\ program \in ProgramType
    /\ order \in Permutation
    /\ pass \in {1, 2} /\ pos \in DOMAIN order /\ sweep \in Nat
    /\ phase \in {"solve", "sweep", "solved", "done"}
    /\ table \in Table /\ previous \in Table /\ first \in Table
    /\ component \subseteq Fn
    /\ store \in [Key -> Nullness \cup {None}]
    /\ saved \in [Key -> Nullness \cup {None}] \cup {None}
    /\ \A f \in Fn \ Local : table[f] = None

\* No two visible functions share a key, as in a program without overloads.
KeysDistinct == \A f, g \in program.visible : program.key[f] = program.key[g] => f = g

\* What a rule is told of a call in the unit it checks.
Told(claim) ==
    {e \in UNION {program.returns[f] : f \in Local} :
        e.kind = "call" /\ CallSummary(table, e) = claim}

\* A rule drops its null warning on the strength of NeverNull: however many
\* calls, units and recursive rounds the claim has come through, and in
\* whatever order, no target of the call can return null.
NeverNullIsTrue ==
    stable /\ KeysDistinct => \A e \in Told("NeverNull") : e.targets \cap program.canBeNull = {}

\* A rule warns on the strength of MaybeNull: the null has a source in the code
\* behind the call, and not just calls the analysis cannot follow.
MaybeNullIsEarned ==
    stable /\ KeysDistinct => \A e \in Told("MaybeNull") : e.targets \cap program.hasNullSource # {}

\* The solved table is a fixed point: evaluating any function of the unit again
\* gives what the table holds, so no callee was read before it was final and no
\* recursive component stopped early or fell back to its first round.
SolvedIsFixpoint == stable => \A f \in Local : table[f] = summarizeFunction(f, table)

\* "a false strong claim (NeverNull/Frees/ReadsOnly) cannot arise from a
\* collision" (FunctionSummary.cpp, above mergeConservative): with overloads too,
\* once pass 1 has merged all that land on a key, a NeverNull that pass 2 tells
\* the rules is true.
CollisionKeepsClaimsTrue ==
    stable /\ program.wholeProgram /\ pass = 2
      => \A e \in Told("NeverNull") : e.targets \cap program.canBeNull = {}

\* "Summary files are deterministic" (docs/integrations.md): harvesting the same
\* sources again gives the same file.
HarvestIsDeterministic == phase = "done" /\ saved # None => store = saved
=============================================================================
