------------------------------ MODULE Nullness ------------------------------
(***************************************************************************)
(* The nullness lattice of src/src/rules/NullDerefRule.cpp for one tracked *)
(* pointer: the merge, what an initialiser or assignment puts into it, and *)
(* what a condition on it teaches.  Concrete pointer values are abstracted *)
(* to where they came from: the rule's promise is that a null whose source *)
(* it knows is not lost, and that a pointer it knows nothing of is silent. *)
(***************************************************************************)
EXTENDS Naturals

NullState == {"Unknown", "Null", "NonNull", "MaybeNull"}

mergeNullStates(a, b) ==
    IF a = b THEN a
    ELSE IF {a, b} \cap {"Null", "MaybeNull"} # {} THEN "MaybeNull"
    ELSE "Unknown"

\* Right-hand sides, by what evaluateNullness tells apart.
Rhs == {"nullLiteral", "addressOf", "nullSource", "opaqueCall"}

evaluateNullness(rhs) ==
    CASE rhs = "nullLiteral" -> "Null"
      [] rhs = "addressOf"   -> "NonNull"
      [] rhs = "nullSource"  -> "MaybeNull"
      [] rhs = "opaqueCall"  -> "Unknown"

\* applyCondition: the edge says whether the pointer is null.
applyCondition(isNull, s) == IF isNull THEN "Null" ELSE "NonNull"

-----------------------------------------------------------------------------
\* A concrete pointer: valid or null from a source the rule knows, or the
\* same from one it does not (a parameter, an opaque call).
Pointer == {"valid", "null", "foreignValid", "foreignNull"}

IsNull(p) == p \in {"null", "foreignNull"}

\* The pointers a state stands for.
Meaning(s) ==
    CASE s = "NonNull"   -> {"valid", "foreignValid"}
      [] s = "Null"      -> {"null", "foreignNull"}
      [] s = "Unknown"   -> {"valid", "foreignValid", "foreignNull"}
      [] s = "MaybeNull" -> Pointer

\* What evaluating a right-hand side can produce.
Produces(rhs) ==
    CASE rhs = "nullLiteral" -> {"null"}
      [] rhs = "addressOf"   -> {"valid"}
      [] rhs = "nullSource"  -> {"valid", "null"}
      [] rhs = "opaqueCall"  -> {"foreignValid", "foreignNull"}
=============================================================================
