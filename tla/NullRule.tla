------------------------------ MODULE NullRule ------------------------------
(***************************************************************************)
(* The null rule: src/src/rules/NullDerefRule.cpp on the disjuncts of      *)
(* GuardedDisjuncts.h.  The analysis runs beside an execution of the       *)
(* function it analyses: env is what the program's variables hold, state   *)
(* is the analysis of the path taken, other that of a path not taken,      *)
(* until the two join.  Pointers are those of Nullness: the rule answers   *)
(* for a null whose source it knows.                                       *)
(***************************************************************************)
EXTENDS Execution, Nullness, Sequences

CONSTANTS
    MaxDisjuncts,   \* kMaxDisjuncts
    Mutable,        \* the members declared mutable
    Function        \* the functions analysed (see Init and Now)

ASSUME MaxDisjunctsAssumption == MaxDisjuncts \in Nat \ {0}

-----------------------------------------------------------------------------
(* The functions that can be analysed *)

\* What the text of a statement, a condition or a clause consists of.
Relation == {"EQ", "NE", "LT", "LE", "GT", "GE"}

Assignable(v) == v \in PtrVar \/ [var |-> v, field |-> NoField] \in Place

StatementType(s) ==
    CASE s.kind = "assign" -> [var |-> s.var, field |-> NoField] \in Place /\ s.lit.value \in Int
      [] s.kind \in {"step", "static"} -> [var |-> s.var, field |-> NoField] \in Place
      [] s.kind = "assignPtr" -> s.var \in PtrVar /\ s.rhs \in Rhs /\ s.zero \in BOOLEAN
      [] s.kind \in {"staticPtr", "assert", "deref", "callContract", "return"} -> s.var \in PtrVar
      [] s.kind \in {"addressOf", "refArg"} -> Assignable(s.var) /\ s.post \in {"NonNull", "Null", "Unknown"}
      [] s.kind = "outParam" -> [var |-> s.var, field |-> NoField] \in Place /\ s.ptr \in PtrVar
      [] s.kind = "storeMember" ->
            s.field # NoField /\ [var |-> s.base, field |-> s.field] \in Place /\ s.lit.value \in Int
      [] s.kind = "stepMember" -> s.field # NoField /\ [var |-> s.base, field |-> s.field] \in Place
      [] s.kind \in {"storeBase", "operatorStore", "passBase", "method", "retain"} ->
            \E p \in Place : p.var = s.base /\ ~Var(p)
      [] OTHER -> s.kind = "call"

LeafType(leaf) ==
    /\ leaf.neg \in BOOLEAN /\ leaf.plain \in BOOLEAN
    /\ CASE leaf.kind = "truth" -> leaf.place \in Place
         [] leaf.kind = "compare" -> /\ leaf.place \in Place /\ leaf.op \in Relation
                                     /\ leaf.lit.value \in Int /\ leaf.left \in BOOLEAN
         [] leaf.kind = "below" -> leaf.lower \in Unsigned /\ leaf.upper \in Unsigned
         [] leaf.kind = "pointer" -> leaf.ptr \in PtrVar /\ leaf.op \in {"EQ", "NE"}
         [] leaf.kind = "pointers" -> leaf.ptrs \subseteq PtrVar
         [] OTHER -> leaf.kind = "opaque"

ConditionType(c) == c.join \in {"leaf", "and", "or"} /\ c.neg \in BOOLEAN /\ \A leaf \in Leaves(c) : LeafType(leaf)

\* A clause about an integer, which is not volatile.
ClauseType(r) ==
    r.place \in Place /\ Var(r.place) /\ r.place.var \notin Volatile /\ r.op \in Relation /\ r.lit \in Int

RequiresType(r) == r.ptr \in PtrVar /\ (r.kind = "nonNull" \/ (r.kind = "unless" /\ ClauseType(r)))

\* A guarded ensures is checked if its guard is a fact: analyzeNullEnsuresGuards.
Enforced(f) ==
    /\ f.ensures.place.var \notin collectUnkeyableDecls(f)
    /\ compareFact(f.ensures.place, f.ensures.op, f.ensures.lit) # {}

\* What a function may run is in its text, which the collectors scan.
ASSUME FunctionAssumption ==
    \A f \in Function :
        /\ \A s \in f.stmts : StatementType(s)
        /\ \A c \in f.conds : ConditionType(c)
        /\ f.bound \in Nat /\ Len(f.script) \in Nat /\ Len(f.requires) \in Nat
        /\ \A part \in {f} \cup {f.script[i] : i \in 1 .. Len(f.script)} :
              /\ part.stmts \subseteq f.stmts /\ part.conds \subseteq f.conds
              /\ \A i \in part.ifs : i[1] \in f.conds /\ i[2] \in f.stmts
        /\ \A i \in 1 .. Len(f.requires) : RequiresType(f.requires[i])
        /\ f.ensures.given => ClauseType(f.ensures) /\ Enforced(f)

VARIABLES
    fn,         \* the function
    state,      \* the analysis along the path taken
    other,      \* the analysis of the path not taken; {} when there is none
    env,        \* what the variables hold: int and ptr
    steps,      \* statements and branches so far
    diags,      \* what the rule has reported
    uses,       \* history: the nulls that were really used, by line
    outside     \* history: what the analysis does not provide for, if it happened

vars == <<fn, state, other, env, steps, diags, uses, outside>>

-----------------------------------------------------------------------------
(* NullVal: a nullness and at most one guard implication                    *)

Plain(st) == [st |-> st, impl |-> {}]

hasNoNullInfo(st) == st \in {"NonNull", "Unknown"}

\* An implication survives a join with a side that has the same one, or that
\* knows of no null at all; the payloads merge.
mergeNullVals(a, b) ==
    LET mine == IF a.impl # {} THEN a ELSE b
        theirs == IF a.impl # {} THEN b ELSE a
        Same(i) == {j \in theirs.impl : j.key = i.key /\ j.value = i.value}
        Kept(i) == IF Same(i) # {}
                     THEN {[i EXCEPT !.cond = mergeNullStates(@, j.cond)] : j \in Same(i)}
                   ELSE IF hasNoNullInfo(theirs.st)
                     THEN {[i EXCEPT !.cond = mergeNullStates(@, theirs.st)]}
                   ELSE {}
    IN  [st |-> mergeNullStates(a.st, b.st),
         impl |-> {i \in UNION {Kept(j) : j \in mine.impl} : hasNoNullInfo(i.cond)}]

\* With the same facts on both sides it survives when these rule its condition out.
meetNullVals(facts, a, b) ==
    LET merged == mergeNullVals(a, b)
        mine == IF a.impl # {} THEN a.impl ELSE b.impl
    IN  IF merged.impl # {} THEN merged
        ELSE [merged EXCEPT !.impl = {i \in mine : factsContradict(facts, i.key, i.value)}]

compatible(pre, key, wanted) == {d \in pre : ~factsContradict(d.facts, key, wanted)}

\* What the paths of d promise of v when key = wanted.
promise(d, v, key, wanted) ==
    LET same == {i \in d.vars[v].impl : i.key = key /\ i.value = wanted}
    IN  IF same # {} THEN (CHOOSE i \in same : TRUE).cond ELSE d.vars[v].st

minable(pre, v, key, wanted) ==
    \A d \in compatible(pre, key, wanted) : hasNoNullInfo(promise(d, v, key, wanted))

\* A disjunct that decides the key, or already carries the implication, is a witness
\* that the key separates paths; one that decides against it only in a second pass.
witnessed(pre, v, key, wanted) ==
    \E d \in pre : \/ factsContradict(d.facts, key, ~wanted)
                   \/ /\ ~factsContradict(d.facts, key, wanted)
                      /\ \E i \in d.vars[v].impl : i.key = key /\ i.value = wanted

payload(pre, v, key, wanted) ==
    LET promised == {promise(d, v, key, wanted) : d \in compatible(pre, key, wanted)}
    IN  IF "Unknown" \in promised THEN "Unknown" ELSE "NonNull"

\* The correlations that the collapse of pre would lose.
mineGuardImplications(pre, widened) ==
    LET keys(v) == {f.key : f \in {g \in UNION {d.facts : d \in pre} : g.key.var # v}}
        Pass(v, loose) == {f \in [key : keys(v), value : BOOLEAN] :
            /\ minable(pre, v, f.key, f.value)
            /\ \/ witnessed(pre, v, f.key, f.value)
               \/ loose /\ \E d \in pre : factsContradict(d.facts, f.key, f.value)}
        First(found) == LET key == (CHOOSE f \in found : TRUE).key
                        IN  [key |-> key, value |-> [key |-> key, value |-> TRUE] \in found]
        Mined(v) == LET found == IF Pass(v, FALSE) # {} THEN Pass(v, FALSE) ELSE Pass(v, TRUE)
                    IN  IF found = {} THEN {}
                        ELSE LET f == First(found)
                             IN {[key |-> f.key, value |-> f.value, cond |-> payload(pre, v, f.key, f.value)]}
    IN  [widened EXCEPT !.vars =
            [v \in DOMAIN @ |-> IF @[v].st = "MaybeNull" /\ @[v].impl = {}
                                  THEN [@[v] EXCEPT !.impl = Mined(v)]
                                  ELSE @[v]]]

-----------------------------------------------------------------------------
(* What a leaf says of the pointers *)

contradictsState(d, leaf, wanted) ==
    \E n \in walkNullCondition(leaf, wanted) :
        n.var \in DOMAIN d.vars
        /\ d.vars[n.var].st = (IF n.null THEN "NonNull" ELSE "Null")

setIfTracked(known, v, st) == IF v \in DOMAIN known THEN [known EXCEPT ![v] = Plain(st)] ELSE known

applyConditionTo(known, leaf, isTrue) ==
    LET told == walkNullCondition(leaf, isTrue)
    IN  [v \in DOMAIN known |->
            IF \E n \in told : n.var = v
              THEN Plain(applyCondition((CHOOSE n \in told : n.var = v).null, known[v].st))
              ELSE known[v]]

\* Mutant: an implication waits for the exact fact.
activateExact(facts, val) ==
    IF /\ val.st \in {"Unknown", "MaybeNull"}
       /\ \E i \in val.impl : [key |-> i.key, value |-> i.value] \in facts
      THEN [val EXCEPT !.st = (CHOOSE i \in val.impl : TRUE).cond]
      ELSE val

\* The facts of the disjunct entail the condition of an implication: the pointer
\* has the state it promises.  A definite null stays one.
activate(facts, val) ==
    IF /\ val.st \in {"Unknown", "MaybeNull"}
       /\ \E i \in val.impl : factsContradict(facts, i.key, ~i.value)
      THEN [val EXCEPT !.st = (CHOOSE i \in val.impl : TRUE).cond]
      ELSE val

refineByLeaf(d, leaf, isTrue) ==
    LET told == applyConditionTo(d.vars, leaf, isTrue)
    IN  [d EXCEPT !.vars = [v \in DOMAIN told |-> activate(d.facts, told[v])]]

D == INSTANCE Disjuncts WITH MergeVal <- mergeNullVals, MeetVal <- meetNullVals,
                             Mine <- mineGuardImplications, Refutes <- contradictsState,
                             Rejects <- contradictsState, Refine <- refineByLeaf

refineOnEdge(S, c, isTrue) == D!refineGuardedFacts(Keying(fn), S, c, isTrue)
merge(S, T) == D!mergeGuarded(S, T)
widen(S) == D!widenGuarded(S)

reportingView(S) == LET merged == D!flattenGuarded(S) IN [v \in DOMAIN merged |-> merged[v].st]

-----------------------------------------------------------------------------
(* transfer *)

dropImplications(d, Stale(_)) ==
    LET Left(val) == [val EXCEPT !.impl = {i \in @ : ~Stale(i.key)}]
    IN  [d EXCEPT !.vars = [v \in DOMAIN @ |-> Left(@[v])]]

\* The keys that an assignment makes stale.
staleOnStore(s, key) ==
    \/ key.var \in assignedDecl(s)
    \/ assignedMemberFact(s) /\ key.var = s.base /\ key.field = s.field

\* The members that a call with c as an argument may write: those its summary names,
\* if it names them exactly and the whole object is passed.
writtenFields(s, field) ==
    IF s.how # "field" /\ s.exact # {} THEN \E w \in s.exact : field \in w ELSE TRUE

\* A method that is not const may write any member, a const one the mutable members.
staleOnCall(k, s, key) ==
    /\ key.field # NoField
    /\ \/ s.kind = "passBase" /\ key.var = s.base /\ s.base \in k.bases /\ writtenFields(s, key.field)
       \/ s.kind = "method" /\ key.var = s.base /\ s.base \in k.bases
          /\ (~s.const \/ key.field \in Mutable)

eraseOnCall(k, s, d) ==
    LET Stale(key) == staleOnCall(k, s, key)
    IN  dropImplications([d EXCEPT !.facts = {f \in @ : ~Stale(f.key)}], Stale)

\* rc = getaddrinfo(.., &p): zero means that p was written.
splitOnSuccess(s, d) ==
    {[facts |-> Record(d.facts, Fact([var |-> s.var, field |-> NoField], "EQ", 0, ok)),
      vars |-> setIfTracked(d.vars, s.ptr, IF ok THEN "NonNull" ELSE "MaybeNull")] : ok \in BOOLEAN}

\* The new state of a pointer that a statement writes: classifyStmt, the arguments
\* bound to non-const references, and what the callee's summary promises of them.
\* The kinds of statement that write none are left alone.
written(s) ==
    CASE s.kind = "assignPtr" -> {[var |-> s.var, st |-> evaluateNullness(s.rhs)]}
      [] s.kind = "staticPtr" -> {[var |-> s.var, st |-> "Unknown"]}
      [] s.kind \in {"addressOf", "refArg"} -> {[var |-> s.var, st |-> s.post]}
      [] s.kind = "outParam" -> {[var |-> s.ptr, st |-> "Unknown"]}
      [] s.kind = "assert" -> {[var |-> s.var, st |-> "NonNull"]}
      [] OTHER -> {}

write(s, d) == LET w == CHOOSE x \in written(s) : TRUE
               IN  IF written(s) = {} THEN d ELSE [d EXCEPT !.vars = setIfTracked(@, w.var, w.st)]

transfer(k, s, S) ==
    LET Stale(key) == staleOnStore(s, key)
        stored == {write(s, dropImplications(d, Stale)) : d \in D!applyStmtFacts(k, S, s)}
    IN  D!normalizeGuarded(
            CASE s.kind \in {"passBase", "method"} -> {eraseOnCall(k, s, d) : d \in stored}
              [] s.kind = "outParam" /\ s.var \notin k.unkeyable -> UNION {splitOnSuccess(s, d) : d \in stored}
              [] OTHER -> stored)

-----------------------------------------------------------------------------
(* The initial state: requires clauses of the function itself *)

seedRequire(S, r) ==
    LET pin(d) == [d EXCEPT !.vars = setIfTracked(@, r.ptr, "NonNull")]
        escape == compareFact(r.place, r.op, r.lit)
        Negated(f) == [f EXCEPT !.value = ~@]
    IN  CASE r.kind = "nonNull" -> {pin(d) : d \in S}
          [] r.kind = "unless" /\ (r.place.var \in collectUnkeyableDecls(fn) \/ escape = {}) -> S
          [] OTHER ->
                D!normalizeGuarded(
                    UNION {{[d EXCEPT !.facts = Record(@, f)],
                            pin([d EXCEPT !.facts = Record(@, Negated(f))])}
                              : d \in S, f \in escape})

Unconstrained == {[facts |-> {}, vars |-> [v \in PtrVar |-> Plain("Unknown")]]}

\* One clause after the other.
initialState ==
    LET seeded[i \in 0 .. Len(fn.requires)] ==
            IF i = 0 THEN Unconstrained ELSE seedRequire(seeded[i - 1], fn.requires[i])
    IN  seeded[Len(fn.requires)]

-----------------------------------------------------------------------------
(* Reports *)

Diag(rule, severity, v, line) == [rule |-> rule, severity |-> severity, var |-> v, line |-> line]

\* Mutant: one report for each pointer.
reportDerefOnce(S, v, line) ==
    LET st == reportingView(S)[v]
    IN  IF v \notin DOMAIN reportingView(S) \/ st \notin {"Null", "MaybeNull"}
           \/ \E g \in diags : g.rule = "null-deref" /\ g.var = v
          THEN {}
          ELSE {Diag("null-deref", IF st = "Null" THEN "error" ELSE "warning", v, line)}

\* One report for each pointer and line; a second possible dereference of the same
\* pointer becomes a note of the first.
reportDerefOf(S, v, line) ==
    LET st == reportingView(S)[v]
        warned == \E g \in diags : g.var = v /\ g.severity = "warning" /\ g.rule = "null-deref"
    IN  IF v \notin DOMAIN reportingView(S) \/ st \notin {"Null", "MaybeNull"}
           \/ \E g \in diags : g.rule = "null-deref" /\ g.var = v /\ g.line = line
          THEN {}
          ELSE {Diag("null-deref",
                     IF st = "Null" THEN "error" ELSE IF warned THEN "note" ELSE "warning",
                     v, line)}

ArgState(S, v) == IF v \in DOMAIN reportingView(S) THEN reportingView(S)[v] ELSE "Unknown"

\* A call of a function with a requires clause, declared or read from its own guard.
\* A relational clause is checked when the other argument is a literal that does not
\* excuse it; a guard only against a definite null.
checkCallContracts(S, s) ==
    LET st == ArgState(S, s.var)
        checked == s.contract # "unless" \/ s.excuse = "fails"
        shown == IF s.contract \in {"guardCrash", "guardReject"} THEN {"Null"} ELSE {"Null", "MaybeNull"}
        severe == st = "Null" /\ s.contract \in {"requires", "unless", "guardCrash"}
    IN  IF ~checked \/ st \notin shown \/ (\E g \in diags : g.rule = "contract" /\ g.line = s.line)
          THEN {}
          ELSE {Diag("contract", IF severe THEN "error" ELSE "warning", s.var, s.line)}

\* The disjuncts on which the guard of an ensures clause may hold.
guardOpen(S, e) == {d \in S : \A f \in e : ~factsContradict(d.facts, f.key, f.value)}

\* ensures return != null if g, at a return of v.
checkGuardedEnsures(S, s) ==
    LET guard == compareFact(fn.ensures.place, fn.ensures.op, fn.ensures.lit)
        nulls == {d \in guardOpen(S, guard) : d.vars[s.var].st \in {"Null", "MaybeNull"}}
        definite == \E d \in nulls : /\ d.vars[s.var].st = "Null"
                                     /\ \A f \in guard : factsContradict(d.facts, f.key, ~f.value)
    IN  IF ~fn.ensures.given \/ nulls = {} \/ (\E g \in diags : g.rule = "contract" /\ g.line = s.line)
          THEN {}
          ELSE {Diag("contract", IF definite THEN "error" ELSE "warning", s.var, s.line)}

onStatement(S, s) ==
    CASE s.kind = "deref" -> reportDerefOf(S, s.var, s.line)
      [] s.kind = "callContract" -> checkCallContracts(S, s)
      [] s.kind = "return" -> checkGuardedEnsures(S, s)
      [] OTHER -> {}

-----------------------------------------------------------------------------
(* The execution *)

Foreign == {"foreignValid", "foreignNull"}

Members(c) == {p \in Place : p.var = c /\ ~Var(p)}

\* The members that a call or a method really writes.
Touched(s) ==
    {p \in Members(s.base) :
        IF s.kind = "method" THEN ~s.const \/ p.field \in Mutable
        ELSE s.exact = {} \/ \E w \in s.exact : p.field \in w}

\* What a call may change behind the caller's back: the globals, the locals whose
\* address is out, the members of a struct whose address was stored.
Reachable == {p \in Place : \/ p.var \notin Local \/ p.var \in AddressTaken(fn)
                            \/ \E s \in fn.stmts : s.kind = "retain" /\ s.base = p.var}

Point(e, q, S) == {[e EXCEPT !.ptr[q] = x] : x \in S}

PostOf(post) == CASE post = "NonNull" -> {"valid"} [] post = "Null" -> {"null"}
                  [] post = "Unknown" -> Foreign

\* What executing s makes of e.
Effect(s, e) ==
    CASE s.kind = "assign" -> {Put(e, Integer(s.var), s.lit.value)}
      [] s.kind \in {"step", "static"} -> Havoc(e, {Integer(s.var)})
      [] s.kind = "assignPtr" -> Point(e, s.var, Produces(s.rhs))
      [] s.kind = "staticPtr" -> Point(e, s.var, Foreign)
      [] s.kind \in {"addressOf", "refArg"} ->
            IF s.var \in PtrVar THEN Point(e, s.var, PostOf(s.post)) ELSE Havoc(e, {Integer(s.var)})
      [] s.kind = "outParam" /\ s.var \in collectUnkeyableDecls(fn) ->
            UNION {Point(f, s.ptr, Foreign) : f \in Havoc(e, {Integer(s.var)})}
      [] s.kind = "outParam" /\ s.var \notin collectUnkeyableDecls(fn) ->
            Point(Put(e, Integer(s.var), 0), s.ptr, {"valid"})
              \cup UNION {Point(f, s.ptr, {"valid", "null"})
                            : f \in {g \in Havoc(e, {Integer(s.var)}) : g.int[Integer(s.var)] # 0}}
      [] s.kind = "storeMember" -> {Put(e, [var |-> s.base, field |-> s.field], s.lit.value)}
      [] s.kind = "stepMember" -> Havoc(e, {[var |-> s.base, field |-> s.field]})
      [] s.kind \in {"storeBase", "operatorStore"} -> Havoc(e, Members(s.base))
      [] s.kind \in {"passBase", "method"} -> Havoc(e, Touched(s))
      [] s.kind = "call" -> Havoc(e, Reachable)
      [] s.kind = "assert" -> IF IsNull(e.ptr[s.var]) THEN {} ELSE {e}
      [] OTHER -> {e}

ValuesOf(leaf, e) == LeafValues(leaf, e, LAMBDA q : IsNull(e.ptr[q]))

Taken(c, e) == ConditionValues(c, e, LAMBDA q : IsNull(e.ptr[q]))

Evaluated(c, e) == IF c.join # "leaf" /\ ((c.join = "and") \in ValuesOf(c.lhs, e))
                     THEN Leaves(c) ELSE {c.lhs}

-----------------------------------------------------------------------------
(* What the analysis does not provide for *)

Keyed(v) == v \notin collectUnkeyableDecls(fn) \cup Volatile

\* A literal that C converts on the way.
Converted(p, lit) == Convert(p, lit.value) # intLiteralValue(lit)

StatementNotes(s) ==
    Note("conversion", \/ s.kind = "assign" /\ Converted(Integer(s.var), s.lit)
                       \/ s.kind = "storeMember" /\ Converted([var |-> s.base, field |-> s.field], s.lit))
      \cup Note("reference", s.kind = "refArg" /\ Keyed(s.var) /\ s.var \notin PtrVar \ collectPtrFactDecls(fn))
      \cup Note("operator=", s.kind = "operatorStore" /\ s.base \in collectMemberFactBases(fn))
      \cup Note("global", s.kind = "call" /\ \E p \in Place : p.var \notin Local /\ Keyed(p.var))

ConditionNotes(c, e) ==
    Note("conversion", \E leaf \in Evaluated(c, e) :
            /\ leaf.kind = "compare"
            /\ ValuesOf(leaf, e) #
                  {Holds(IF leaf.left THEN leaf.op ELSE mirror(leaf.op), e.int[leaf.place],
                         intLiteralValue(leaf.lit)) # leaf.neg})

-----------------------------------------------------------------------------
(* Executions *)

\* The bound of an execution.
Last == IF fn.script = <<>> THEN fn.bound ELSE Len(fn.script)

Running == steps < Last

\* What may run next: a function with a script follows it, any other runs its
\* statements, branches and ifs in any order.
Now == IF fn.script = <<>> \/ ~Running THEN fn ELSE fn.script[steps + 1]

\* A function: its statements, conditions and `if (c) s' pairs, the places and
\* pointers whose first value matters (the other places start at 0, the other pointers
\* null), its requires and ensures clauses, and a script, or <<>> and a bound.
Admits(r, e) == \/ ~IsNull(e.ptr[r.ptr])
                \/ r.kind = "unless" /\ Holds(r.op, e.int[r.place], r.lit)

Init ==
    /\ fn \in Function
    /\ \E ints \in Inputs(fn.inputs), ptrs \in [PtrVar -> Foreign] :
          /\ \A q \in PtrVar : PtrPlace(q) \notin fn.inputs => ptrs[q] = "foreignNull"
          /\ env = [int |-> ints, ptr |-> ptrs]
          /\ \A i \in 1 .. Len(fn.requires) : Admits(fn.requires[i], env)
    /\ state = initialState
    /\ other = {}
    /\ steps = 0
    /\ diags = {}
    /\ uses = {}
    /\ outside = {}

\* The nulls that s really uses: it dereferences one, passes one where the callee
\* requires another value, or returns one against the function's own promise.
NullsUsed(s) ==
    {[rule |-> IF s.kind = "deref" THEN "null-deref" ELSE "contract", line |-> t.line]
        : t \in {u \in {s} :
            \/ u.kind = "deref" /\ env.ptr[u.var] = "null"
            \/ /\ u.kind = "callContract" /\ env.ptr[u.var] = "null"
               /\ \/ u.contract \in {"requires", "proposed"}
                  \/ u.contract = "unless" /\ u.excuse = "fails"
            \/ /\ u.kind = "return" /\ env.ptr[u.var] = "null" /\ fn.ensures.given
               /\ Holds(fn.ensures.op, env.int[fn.ensures.place], fn.ensures.lit)}}

\* A dereferenced null and a return end the execution.
Ends(s) == s.kind = "return" \/ (s.kind = "deref" /\ IsNull(env.ptr[s.var]))

Statement(s) ==
    /\ Running
    /\ state' = transfer(Keying(fn), s, state)
    /\ env' \in Effect(s, env)
    /\ steps' = IF Ends(s) THEN Last ELSE steps + 1
    /\ diags' = diags \cup onStatement(state, s)
    /\ uses' = uses \cup NullsUsed(s)
    /\ outside' = outside \cup StatementNotes(s)
    /\ UNCHANGED <<fn, other>>

OtherStatement(s) ==
    /\ Running /\ other # {}
    /\ other' = transfer(Keying(fn), s, other)
    /\ steps' = steps + 1
    /\ diags' = diags \cup onStatement(other, s)
    /\ UNCHANGED <<fn, state, env, uses, outside>>

Branch(c, taken) ==
    /\ Running
    /\ taken \in Taken(c, env)
    /\ state' = refineOnEdge(state, c, taken)
    /\ other' = IF other = {} THEN refineOnEdge(state, c, ~taken) ELSE other
    /\ steps' = steps + 1
    /\ outside' = outside \cup ConditionNotes(c, env)
    /\ UNCHANGED <<fn, env, diags, uses>>

\* if (c) s;
IfThen(c, s) ==
    /\ Running
    /\ LET entered == refineOnEdge(state, c, TRUE)
       IN \E taken \in Taken(c, env) :
          /\ state' = merge(transfer(Keying(fn), s, entered), refineOnEdge(state, c, FALSE))
          /\ env' \in IF taken THEN Effect(s, env) ELSE {env}
          /\ steps' = IF taken /\ Ends(s) THEN Last ELSE steps + 1
          /\ diags' = diags \cup onStatement(entered, s)
          /\ uses' = IF taken THEN uses \cup NullsUsed(s) ELSE uses
          /\ outside' = outside \cup ConditionNotes(c, env)
                                \cup (IF taken THEN StatementNotes(s) ELSE {})
          /\ UNCHANGED <<fn, other>>

Join ==
    /\ other # {}
    /\ state' = merge(state, other)
    /\ other' = {}
    /\ UNCHANGED <<fn, env, steps, diags, uses, outside>>

\* The engine's widening, in loops.
Widen ==
    /\ fn.script = <<>>
    /\ state' = widen(state)
    /\ UNCHANGED <<fn, other, env, steps, diags, uses, outside>>

Next ==
    \/ \E s \in Now.stmts : Statement(s)
    \/ \E s \in Now.stmts : OtherStatement(s)
    \/ \E c \in Now.conds, taken \in BOOLEAN : Branch(c, taken)
    \/ \E i \in Now.ifs : IfThen(i[1], i[2])
    \/ Join
    \/ Widen

Spec == Init /\ [][Next]_vars

-----------------------------------------------------------------------------
(* The abstract analysis *)

\* What one statement does to one nullness for each pointer.
mergedWrite(s) == IF s.kind = "outParam" THEN {[var |-> s.ptr, st |-> "MaybeNull"]} ELSE written(s)

proven(c, isTrue) ==
    LET value == isTrue # c.neg
    IN  IF c.join = "leaf" THEN walkNullCondition(c.lhs, value)
        ELSE IF (c.join = "and") = value
          THEN walkNullCondition(c.lhs, value) \cup walkNullCondition(c.rhs, value)
        ELSE {}

Merged == INSTANCE MergedNullness WITH
    writes <- {{}} \cup {mergedWrite(s) : s \in fn.stmts}, conditions <- fn.conds, Proven <- proven,
    flat <- reportingView(state), otherFlat <- reportingView(other), ptr <- env.ptr, exempt <- outside # {}

-----------------------------------------------------------------------------
(* Properties *)

NullValType(v) == /\ v.st \in NullState
                  /\ Cardinality(v.impl) <= 1
                  /\ \A i \in v.impl : hasNoNullInfo(i.cond) /\ i.value \in BOOLEAN

StateType(S) ==
    /\ Cardinality(S) <= MaxDisjuncts
    /\ \A d \in S : /\ \A f, g \in d.facts : f.key = g.key => f = g
                     /\ DOMAIN d.vars = PtrVar
                     /\ \A v \in PtrVar : NullValType(d.vars[v])

TypeOK ==
    /\ fn \in Function /\ steps \in 0 .. Last
    /\ StateType(state) /\ StateType(other)
    /\ \A p \in Place : env.int[p] \in Values(p)
    /\ env.ptr \in [PtrVar -> Pointer]
    /\ outside \subseteq {"conversion", "reference", "operator=", "global"}

\* Whether the key of a fact holds in e.
KeyHolds(e, key) ==
    IF key.var \in PtrVar THEN IsNull(e.ptr[key.var])
    ELSE Holds(key.rel, e.int[[var |-> key.var, field |-> key.field]], key.lit)

Describes(d, e) ==
    /\ \A f \in d.facts : Keyed(f.key.var) => KeyHolds(e, f.key) = f.value
    /\ \A v \in PtrVar :
          /\ e.ptr[v] \in Meaning(d.vars[v].st)
          /\ \A i \in d.vars[v].impl :
                Keyed(i.key.var) /\ KeyHolds(e, i.key) = i.value => e.ptr[v] \in Meaning(i.cond)

\* No path is lost: whatever disjuncts were dropped by a condition, merged, split on
\* a result or collapsed at the cap, one of those that remain describes the program
\* as it is: its facts hold, each pointer has the state it gives, and each guard
\* implication is true (`an upper approximation, so always sound to apply').
Covered == outside = {} => \E d \in state : Describes(d, env)

\* A null whose source the rule knows is reported where it is used: dereferenced,
\* passed where the callee requires another value, or returned against a guarded
\* ensures.  One report for each pointer and line hides no other.
NullUseReported ==
    outside = {} => \A u \in uses : \E g \in diags : g.rule = u.rule /\ g.line = u.line

\* The disjuncts implement the merged analysis: at every step, branch, join and
\* collapse their reporting view knows what one state for each point would know,
\* and it stays true.
RefinesMerged == Merged!Spec

\* Four guarded pointers are four implications in one disjunct (NullVal): in a
\* function where each use stands behind the test that made the pointer valid,
\* the collapse of the disjuncts invents no null.
CorrelationKept == fn.correlated => diags = {}
=============================================================================
