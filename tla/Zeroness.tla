------------------------------ MODULE Zeroness ------------------------------
(***************************************************************************)
(* What src/src/rules/DivByZeroRule.cpp knows of an integer: the states,   *)
(* what a value, a statement and an edge do to them, and the merge.  A     *)
(* state is a function from the tracked variables.                         *)
(*                                                                         *)
(* A value is a literal, a variable, the result of a call that is zero     *)
(* only if its argument is ("passed"), of another call ("result"), or      *)
(* anything else.  wide says that the argument is wider than the parameter.*)
(***************************************************************************)
EXTENDS Integers

\* Of the states Unknown, Zero, NonZero and MaybeZero, those that tell of a zero.
zeroInfo == {"Zero", "MaybeZero"}

evaluateAsZero(x) ==
    CASE x.kind = "literal" /\ x.n = 0 -> "Zero"
      [] x.kind = "literal" /\ x.n # 0 -> "NonZero"
      [] OTHER -> "Unknown"

\* A call is taken at the claim of its summary; without one, a source of untrusted
\* input may be zero.
evaluateAssignedValue(x) ==
    CASE x.kind = "result" /\ x.zeroness = "NeverZero" -> "NonZero"
      [] x.kind = "result" /\ x.zeroness \in {"AlwaysZero", "MaybeZero", "untrusted"} -> "MaybeZero"
      [] OTHER -> evaluateAsZero(x)

unwrapZeroPassthrough(x) == IF x.kind = "passed" /\ ~x.wide THEN [x EXCEPT !.kind = "var"] ELSE x

\* The variables x is a copy of: one or none.
getReferencedVar(x) == IF x.kind = "var" THEN {x.var} ELSE {}

CopySource(x) == getReferencedVar(unwrapZeroPassthrough(x))

\* What x is in the state S: its own claim, or that of the variable it is.
ValueIn(S, x) ==
    LET own == evaluateAssignedValue(unwrapZeroPassthrough(x))
        source == CopySource(x) \cap DOMAIN S
    IN  CASE own # "Unknown" -> own
          [] own = "Unknown" /\ source # {} -> S[CHOOSE w \in source : TRUE]
          [] OTHER -> "Unknown"

\* Statements: an assignment or initialisation, the initialisation of a static local,
\* a compound assignment or increment ("change"), an address or non-const reference that
\* is given away ("expose"), scanf into the variable ("scan").  Any other call and a store
\* through a pointer have no effect on the state.
transfer(s, S) ==
    LET effect == CASE s.kind = "assign" -> {ValueIn(S, s.value)}
                    [] s.kind = "scan" -> {"MaybeZero"}
                    [] s.kind \in {"static", "change", "expose"} -> {"Unknown"}
                    [] OTHER -> {}
    IN  [v \in DOMAIN S |-> IF v = s.var /\ effect # {} THEN CHOOSE z \in effect : TRUE ELSE S[v]]

Compares(op, x, y) ==
    CASE op = "EQ" -> x = y
      [] op = "NE" -> x # y
      [] op = "LT" -> x < y
      [] op = "LE" -> x <= y
      [] op = "GT" -> x > y
      [] op = "GE" -> x >= y

\* Mutant: an ordering that zero satisfies excludes it.
EdgeFactSatisfied(c, edge) ==
    CASE c.kind = "truth" -> {IF edge THEN "NonZero" ELSE "Zero"}
      [] c.kind = "compare" /\ c.op \in {"EQ", "NE"} ->
            LET holds == (c.op = "EQ") = edge
            IN  IF c.n = 0 THEN {IF holds THEN "Zero" ELSE "NonZero"} ELSE {z \in {"NonZero"} : holds}
      [] c.kind = "compare" /\ c.op \notin {"EQ", "NE"} -> {z \in {"NonZero"} : c.n >= 0}
      [] OTHER -> {}

\* What the edge says of the variable tested, if anything.  An ordering counts only
\* against a constant that is not negative, and where zero would take the other edge.
EdgeFact(c, edge) ==
    CASE c.kind = "truth" -> {IF edge THEN "NonZero" ELSE "Zero"}
      [] c.kind = "compare" /\ c.op \in {"EQ", "NE"} ->
            LET holds == (c.op = "EQ") = edge
            IN  IF c.n = 0 THEN {IF holds THEN "Zero" ELSE "NonZero"} ELSE {z \in {"NonZero"} : holds}
      [] c.kind = "compare" /\ c.op \notin {"EQ", "NE"} ->
            {z \in {"NonZero"} : c.n >= 0 /\ Compares(c.op, 0, c.n) # edge}
      [] OTHER -> {}

\* A condition may be negated.
applyCondition(c, isTrue, S) ==
    LET fact == EdgeFact(c, isTrue # c.neg)
    IN  [v \in DOMAIN S |-> IF v = c.var /\ fact # {} THEN CHOOSE z \in fact : TRUE ELSE S[v]]

\* Mutant: the zero of one path is certain.
mergeCertain(a, b) ==
    [v \in DOMAIN a |-> CASE a[v] = b[v] -> a[v]
                          [] a[v] # b[v] /\ {a[v], b[v]} \cap zeroInfo # {} -> "Zero"
                          [] OTHER -> "Unknown"]

\* A possible zero on any path stays one.
merge(a, b) ==
    [v \in DOMAIN a |-> CASE a[v] = b[v] -> a[v]
                          [] a[v] # b[v] /\ {a[v], b[v]} \cap zeroInfo # {} -> "MaybeZero"
                          [] OTHER -> "Unknown"]
=============================================================================
