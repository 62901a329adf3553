------------------------------ MODULE Disjuncts -----------------------------
(***************************************************************************)
(* Guarded disjuncts: src/src/engine/GuardedDisjuncts.h.  The state of an  *)
(* analysis is a small set of disjuncts, each a set of facts and a map     *)
(* from variables to values.  A condition that contradicts the facts of a  *)
(* disjunct drops it; too many disjuncts collapse to one that keeps only   *)
(* the facts all agree on.                                                 *)
(*                                                                         *)
(* The value hooks are constants.  The plain functions of the header are   *)
(* the ...Ops ones with MeetVal ignoring its facts and Mine the identity.  *)
(* Merging follows the order of addresses in the code, and any fixed order *)
(* here.                                                                   *)
(***************************************************************************)
EXTENDS PathFacts, FiniteSetsExt

CONSTANTS
    MaxDisjuncts,       \* kMaxDisjuncts
    MergeVal(_, _),     \* the upper bound of two values
    MeetVal(_, _, _),   \* the same, of two disjuncts with the same facts
    Mine(_, _),         \* what the analysis saves when the set collapses
    Refutes(_, _, _),   \* a disjunct rules a value of a leaf out: extraRefutes
    Rejects(_, _, _),   \* the same test, made again on the edge itself
    Refine(_, _, _)     \* extraApply

NoVars == [v \in {} |-> {}]

mergeVarMaps(into, from, Combine(_, _)) ==
    [v \in DOMAIN into \cup DOMAIN from |->
        IF v \notin DOMAIN from THEN into[v]
        ELSE IF v \notin DOMAIN into THEN from[v]
        ELSE Combine(into[v], from[v])]

mergeAll(S) == FoldSet(LAMBDA d, acc : mergeVarMaps(acc, d.vars, MergeVal), NoVars, S)

\* The reporting view.
flattenGuarded(S) == mergeAll(S)

\* Collapse to one disjunct: the facts all agree on, the values merged, and
\* what the analysis mines from the set.
widenGuarded(S) ==
    IF Cardinality(S) <= 1 THEN S
    ELSE {Mine(S, [facts |-> {f \in UNION {d.facts : d \in S} : \A d \in S : f \in d.facts},
                   vars |-> mergeAll(S)])}

uniteSameFacts(S) ==
    {[facts |-> facts,
      vars |-> FoldSet(LAMBDA d, acc :
                          mergeVarMaps(acc, d.vars, LAMBDA a, b : MeetVal(facts, a, b)),
                       NoVars, {d \in S : d.facts = facts})]
        : facts \in {d.facts : d \in S}}

\* The header's invariant: never more disjuncts than the cap.
normalizeGuarded(S) ==
    LET united == uniteSameFacts(S)
    IN  IF Cardinality(united) > MaxDisjuncts THEN widenGuarded(united) ELSE united

mergeGuarded(S, T) == normalizeGuarded(S \cup T)

-----------------------------------------------------------------------------
(* Refinement on the edge of a branch.  What does not survive is {}.        *)

Learn(d, f) ==
    IF factsContradict(d.facts, f.key, f.value) THEN {}
    ELSE {[d EXCEPT !.facts = Record(@, f)]}

LearnOption(S, option) ==
    IF option = {} THEN S ELSE UNION {Learn(d, f) : d \in S, f \in option}

Valued(facts, isTrue) == IF isTrue THEN facts ELSE Flip(facts)

applyFactLeaf(k, d, leaf, isTrue) ==
    LET bound == IF isTrue # leaf.neg THEN unsignedStrictUpperBoundNonzero(k, leaf) ELSE {}
    IN  LearnOption(LearnOption({d}, bound), Valued(conditionFact(k, leaf), isTrue))

factsRefute(k, d, leaf, wanted) ==
    \E f \in Valued(conditionFact(k, leaf), wanted) : factsContradict(d.facts, f.key, f.value)

refutes(k, d, leaf, wanted) == factsRefute(k, d, leaf, wanted) \/ Refutes(d, leaf, wanted)

applyLeaf(k, d, leaf, isTrue) ==
    IF Rejects(d, leaf, isTrue) THEN {}
    ELSE {Refine(e, leaf, isTrue) : e \in applyFactLeaf(k, d, leaf, isTrue)}

\* Mutant: a disjunct that refutes an operand learns it and leaves the other.
refineSurvivorSwapped(k, d, c, isTrue) ==
    LET value == isTrue # c.neg
        lhsOut == refutes(k, d, c.lhs, value)
        rhsOut == refutes(k, d, c.rhs, value)
        both == c.join = (IF value THEN "and" ELSE "or")
        left == IF c.join = "leaf" \/ both \/ lhsOut THEN applyLeaf(k, d, c.lhs, value) ELSE {d}
    IN  IF c.join # "leaf" /\ (both \/ rhsOut)
          THEN UNION {applyLeaf(k, e, c.rhs, value) : e \in left}
          ELSE left

\* Both operands hold on one edge of && and ||.  On the other edge a disjunct that
\* refutes one operand learns the other, and one that refutes both is dropped.
refineDisjunctCondition(k, d, c, isTrue) ==
    LET value == isTrue # c.neg
        lhsOut == refutes(k, d, c.lhs, value)
        rhsOut == refutes(k, d, c.rhs, value)
        both == c.join = (IF value THEN "and" ELSE "or")
        left == IF c.join = "leaf" \/ both \/ rhsOut THEN applyLeaf(k, d, c.lhs, value) ELSE {d}
    IN  IF c.join # "leaf" /\ ~both /\ lhsOut /\ rhsOut THEN {}
        ELSE IF c.join # "leaf" /\ (both \/ lhsOut)
          THEN UNION {applyLeaf(k, e, c.rhs, value) : e \in left}
          ELSE left

refineGuardedFacts(k, S, c, isTrue) ==
    normalizeGuarded(UNION {refineDisjunctCondition(k, d, c, isTrue) : d \in S})

-----------------------------------------------------------------------------
(* The life of a fact across a statement *)

EraseFacts(facts, Stale(_)) == {f \in facts : ~Stale(f.key)}

applyMemberStmtFacts(k, S, s) ==
    LET place == [var |-> s.base, field |-> s.field]
        Hit(key) == key.var = s.base /\ key.field = s.field
        stamp == IF s.kind = "storeMember" THEN {Fact(place, "EQ", intLiteralValue(s.lit), TRUE)}
                                           ELSE {}
    IN  {[d EXCEPT !.facts = EraseFacts(@, Hit) \cup stamp] : d \in S}

\* Mutant: the stamp is added and the old facts stay.
applyStmtFactsStale(k, S, s) ==
    IF assignedDecl(s) = {} THEN S
    ELSE LET lit == {a \in assignedIntLiteral(s) : a.place.var \in k.stampable \cup k.ptrFacts}
             stamp == {Fact(a.place, "EQ", a.lit, TRUE) : a \in lit}
         IN  normalizeGuarded({[d EXCEPT !.facts = IF stamp = {} THEN @
                                   ELSE {f \in @ : f.key.rel # "EQ"} \cup stamp] : d \in S})

\* An assignment erases every fact on its target, of all its members if it is a
\* struct, and a literal stamps the new truth where some condition asks.
applyStmtFacts(k, S, s) ==
    LET target == assignedDecl(s)
        Hit(key) == key.var \in target
        lit == {a \in assignedIntLiteral(s) : a.place.var \in k.stampable \cup k.ptrFacts}
        stamp == {Fact(a.place, "EQ", a.lit, TRUE) : a \in lit}
    IN  normalizeGuarded(
            IF target # {} THEN {[d EXCEPT !.facts = EraseFacts(@, Hit) \cup stamp] : d \in S}
            ELSE IF assignedMemberFact(s) /\ s.base \in k.bases THEN applyMemberStmtFacts(k, S, s)
            ELSE S)
=============================================================================
