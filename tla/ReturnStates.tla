---------------------------- MODULE ReturnStates ----------------------------
(***************************************************************************)
(* What the return harvest of src/src/engine/FunctionSummary.cpp knows of  *)
(* a variable, in three dataflows of their own: whether it is bad (null,   *)
(* or zero), which parameter's entry object it denotes (0: not known), and *)
(* whether it owns what it points to.  A state is a function from the      *)
(* tracked variables to the three.                                         *)
(*                                                                         *)
(* A value is a leaf under a chain of wraps, via, the outermost first:     *)
(* casts, and calls of which the leaf is the argument their summary is     *)
(* about.  Casts that the parser inserts are left out.                     *)
(***************************************************************************)
EXTENDS Integers, Sequences

VState == {"Unknown", "Bad", "NonBad", "MaybeBad"}

OwnershipState == {"Unknown", "Owned", "Borrowed", "Null"}

\* Mutant: what differs from path to path may be bad.
mergeVStateAlarmed(a, b) == IF a = b THEN a ELSE "MaybeBad"

mergeVState(a, b) ==
    CASE a = b -> a
      [] a # b /\ {a, b} \cap {"Bad", "MaybeBad"} # {} -> "MaybeBad"
      [] OTHER -> "Unknown"

mergeOrigin(a, b) == IF a = b THEN a ELSE 0

\* Null owns nothing and borrows nothing.
mergeOwnership(a, b) ==
    CASE a = b \/ b = "Null" -> a
      [] a # b /\ a = "Null" -> b
      [] OTHER -> "Unknown"

merge(S, T) ==
    [v \in DOMAIN S |-> [bad |-> mergeVState(S[v].bad, T[v].bad),
                         origin |-> mergeOrigin(S[v].origin, T[v].origin),
                         owner |-> mergeOwnership(S[v].owner, T[v].owner)]]

-----------------------------------------------------------------------------
(* What a value is *)

\* Of the leaves, a placement new is not an allocation of its own; a choice is a ?:
\* between two variables.
LeafVState(leaf) ==
    CASE leaf.kind = "literal" -> IF leaf.n = 0 THEN "Bad" ELSE "NonBad"
      [] leaf.kind \in {"address", "new", "nothrow", "placement"} -> "NonBad"
      [] OTHER -> "Unknown"

\* A call is what its summary says, or what its argument is; casts and the minus sign
\* change nothing.
Called(w, argument) ==
    CASE w.kind # "call" -> argument
      [] w.kind = "call" /\ w.claim = "Never" -> "NonBad"
      [] w.kind = "call" /\ w.claim = "Always" -> "Bad"
      [] w.kind = "call" /\ w.claim = "Maybe" -> "MaybeBad"
      [] w.kind = "call" /\ w.claim = "Unknown" -> IF w.from THEN argument ELSE "Unknown"

\* Of vstateOf and zstateOf the part that a value of the type can reach, from the leaf
\* outwards.  A variable is not looked up.
vstateOf(e) ==
    LET known[k \in 1 .. Len(e.via) + 1] ==
          IF k > Len(e.via) THEN LeafVState(e.leaf) ELSE Called(e.via[k], known[k + 1])
    IN  known[1]

exprAsVar(e) == IF e.via = <<>> /\ e.leaf.kind = "var" THEN {e.leaf.var} ELSE {}

\* A value without a call that is not an exact alias of its argument, and without a cast
\* that may lose the object.
Traceable(e) == \A k \in DOMAIN e.via : e.via[k].kind = "cast" \/ (e.via[k].kind = "call" /\ e.via[k].alias)

\* Mutant: what either arm of ?: denotes is denoted by the whole.
originOfFirst(e, S) ==
    CASE Traceable(e) /\ e.leaf.kind = "var" /\ e.leaf.var \in DOMAIN S -> S[e.leaf.var].origin
      [] Traceable(e) /\ e.leaf.kind = "choice" -> S[e.leaf.var].origin
      [] OTHER -> 0

originOf(e, S) ==
    CASE Traceable(e) /\ e.leaf.kind = "var" /\ e.leaf.var \in DOMAIN S -> S[e.leaf.var].origin
      [] Traceable(e) /\ e.leaf.kind = "choice" -> mergeOrigin(S[e.leaf.var].origin, S[e.leaf.other].origin)
      [] OTHER -> 0

\* A variable that is not tracked has storage elsewhere.
LeafOwnership(leaf, S) ==
    CASE leaf.kind \in {"new", "nothrow", "malloc"} -> "Owned"
      [] leaf.kind = "literal" /\ leaf.n = 0 -> "Null"
      [] leaf.kind \in {"address", "this"} -> "Borrowed"
      [] leaf.kind = "var" -> IF leaf.var \in DOMAIN S THEN S[leaf.var].owner ELSE "Borrowed"
      [] leaf.kind = "choice" -> mergeOwnership(S[leaf.var].owner, S[leaf.other].owner)
      [] OTHER -> "Unknown"

Received(w, argument) ==
    CASE w.kind # "call" \/ (w.kind = "call" /\ w.alias) -> argument
      [] w.kind = "call" /\ ~w.alias -> w.owner

ownershipOf(e, S) ==
    LET known[k \in 1 .. Len(e.via) + 1] ==
          IF k > Len(e.via) THEN LeafOwnership(e.leaf, S) ELSE Received(e.via[k], known[k + 1])
    IN  known[1]

-----------------------------------------------------------------------------
(* What a statement does.  An element of the CFG is one of                     *)
(*   assign, static    a plain assignment; the initialisation of a variable,   *)
(*                     of a static one                                         *)
(*   declare           a declaration without a value                           *)
(*   change            a compound assignment, ++ or --                         *)
(*   address           the address is taken, for a call                        *)
(*   pass, byref       it is an argument, by value or by non-const reference;  *)
(*                     borrows: the summary says that the callee borrows it    *)

badAfter(s, known) ==
    CASE s.kind \in {"assign", "static"} -> vstateOf(s.value)
      [] s.kind = "address" -> "Unknown"
      [] OTHER -> known

originAfter(s, S, known) ==
    CASE s.kind \in {"assign", "static"} -> originOf(s.value, S)
      [] s.kind \in {"declare", "change", "address", "byref"} -> 0
      [] OTHER -> known

\* Mutant: an argument stays what it was, whoever takes it.
ownerAfterCall(s, S, known) ==
    CASE s.kind \in {"assign", "static"} -> ownershipOf(s.value, S)
      [] s.kind \in {"declare", "change", "address"} -> "Unknown"
      [] OTHER -> known

ownerAfter(s, S, known) ==
    CASE s.kind \in {"assign", "static"} -> ownershipOf(s.value, S)
      [] s.kind \in {"declare", "change", "address"} -> "Unknown"
      [] s.kind \in {"pass", "byref"} -> IF s.borrows THEN known ELSE "Unknown"
      [] OTHER -> known

transfer(s, S) ==
    [v \in DOMAIN S |->
        IF v # s.var THEN S[v]
        ELSE [bad |-> badAfter(s, S[v].bad),
              origin |-> originAfter(s, S, S[v].origin),
              owner |-> ownerAfter(s, S, S[v].owner)]]
=============================================================================
