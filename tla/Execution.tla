------------------------------ MODULE Execution -----------------------------
(***************************************************************************)
(* What an execution of an analysed function does with integers and        *)
(* conditions.  It is C, not code of this repository: the rules are        *)
(* compared with it.  e.int holds the integers; Nil says which pointers    *)
(* are null.                                                               *)
(***************************************************************************)
EXTENDS PathFacts

Integer(v) == [var |-> v, field |-> NoField]

Put(e, p, v) == [e EXCEPT !.int[p] = Convert(p, v)]

\* The environments that differ from e in the places of P only.
Havoc(e, P) == {[e EXCEPT !.int = [p \in Place |-> IF p \in P THEN h[p] ELSE @[p]]]
                   : h \in {g \in [P -> -(Modulus \div 2) .. Modulus - 1] : \A p \in P : g[p] \in Values(p)}}

\* The first values: of the inputs any, of the other places 0.
Inputs(inputs) ==
    {ints \in [Place -> -(Modulus \div 2) .. Modulus - 1] :
        \A p \in Place : ints[p] \in IF p \in inputs THEN Values(p) ELSE {0}}

\* The values a leaf can have; comparing a null with < ends the execution.
LeafValues(leaf, e, Nil(_)) ==
    LET value == CASE leaf.kind = "truth" -> {e.int[leaf.place] # 0}
                   [] leaf.kind = "compare" ->
                        {Compares(IF leaf.left THEN leaf.op ELSE mirror(leaf.op),
                                  leaf.place, e.int[leaf.place], leaf.lit)}
                   [] leaf.kind = "below" -> {e.int[leaf.lower] < e.int[leaf.upper]}
                   [] leaf.kind = "pointer" -> {(leaf.op = "EQ") = Nil(leaf.ptr)}
                   [] leaf.kind = "pointers" -> IF \E q \in leaf.ptrs : Nil(q) THEN {} ELSE BOOLEAN
                   [] leaf.kind = "opaque" -> BOOLEAN
    IN  {v # leaf.neg : v \in value}

ConditionValues(c, e, Nil(_)) ==
    LET stop == (c.join = "or")
        lhs == LeafValues(c.lhs, e, Nil)
    IN  {v # c.neg : v \in IF c.join = "leaf" THEN lhs
                           ELSE (lhs \cap {stop})
                                  \cup (IF (~stop) \in lhs THEN LeafValues(c.rhs, e, Nil) ELSE {})}

Note(what, happened) == IF happened THEN {what} ELSE {}
=============================================================================
