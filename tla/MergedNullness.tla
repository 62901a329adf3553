--------------------------- MODULE MergedNullness ---------------------------
(***************************************************************************)
(* What the disjuncts of the null rule promise: GuardedDisjuncts.h calls   *)
(* their reporting view `the exact counterpart of a single-state           *)
(* analysis'.  Here is that analysis, one nullness for each pointer and a  *)
(* merge at every join, and what any sharper one may do in its place: it   *)
(* keeps the definite answers, and its answers are true of the program.    *)
(***************************************************************************)
EXTENDS Nullness

CONSTANTS
    PtrVar,             \* the pointers
    Proven(_, _)        \* the pointers and nullness that a condition proves on an edge

VARIABLES
    writes,     \* what the function's statements do: {} or the pointer written and its nullness
    conditions, \* the conditions of its branches
    flat,       \* pointer -> nullness on the path taken; empty when it is refuted
    otherFlat,  \* the same on the path not taken
    ptr,        \* what the pointers hold
    exempt      \* the program did what the analysis does not provide for

vars == <<writes, conditions, flat, otherFlat, ptr, exempt>>

\* a knows at least what b does.  Unknown and MaybeNull are no answers: a path
\* that is refuted turns one into the other.
Sharper(a, b) == b \in {"Null", "NonNull"} => a = b

SharperMap(f, g) == \A v \in DOMAIN f : v \in DOMAIN g /\ Sharper(f[v], g[v])

Truthful == exempt \/ (DOMAIN flat = PtrVar /\ \A v \in PtrVar : ptr[v] \in Meaning(flat[v]))

mergeMaps(f, g) ==
    [v \in DOMAIN f \cup DOMAIN g |->
        IF v \notin DOMAIN g THEN f[v] ELSE IF v \notin DOMAIN f THEN g[v]
        ELSE mergeNullStates(f[v], g[v])]

Set(f, w) == [v \in DOMAIN f |-> IF \E x \in w : x.var = v THEN (CHOOSE x \in w : x.var = v).st ELSE f[v]]

Learned(f, c, isTrue) ==
    Set(f, {[var |-> n.var, st |-> applyCondition(n.null, f[n.var])]
               : n \in {m \in Proven(c, isTrue) : m.var \in DOMAIN f}})

Init ==
    /\ flat \in [PtrVar -> {"Unknown", "NonNull"}]
    /\ otherFlat = [v \in {} |-> "Unknown"]
    /\ ptr \in [PtrVar -> Pointer]
    /\ exempt = FALSE
    /\ Truthful

Statement == \E w \in writes : SharperMap(flat', Set(flat, w)) /\ UNCHANGED otherFlat

OtherStatement == \E w \in writes : SharperMap(otherFlat', Set(otherFlat, w)) /\ UNCHANGED flat

Branch == \E c \in conditions, taken \in BOOLEAN :
    /\ SharperMap(flat', Learned(flat, c, taken))
    /\ otherFlat' = otherFlat \/ SharperMap(otherFlat', Learned(flat, c, ~taken))

IfThen == \E c \in conditions, w \in writes :
    /\ SharperMap(flat', mergeMaps(Set(Learned(flat, c, TRUE), w), Learned(flat, c, FALSE)))
    /\ UNCHANGED otherFlat

Join == /\ SharperMap(flat', mergeMaps(flat, otherFlat))
        /\ DOMAIN otherFlat' = {}

Widen == SharperMap(flat', flat) /\ UNCHANGED otherFlat

Next == /\ (Statement \/ OtherStatement \/ Branch \/ IfThen \/ Join \/ Widen)
        /\ exempt => exempt'
        /\ UNCHANGED <<writes, conditions>>
        /\ Truthful'

Spec == Init /\ [][Next]_vars
=============================================================================
