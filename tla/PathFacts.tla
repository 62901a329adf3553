------------------------------ MODULE PathFacts -----------------------------
(***************************************************************************)
(* Facts about conditions: src/src/engine/PathFacts.cpp, with the walk     *)
(* over a condition of ConditionWalk.h.  A fact is a key, (variable REL    *)
(* literal), with a truth value.  The code keys what a function's          *)
(* conditions ask about, records the answer on each edge, and erases it    *)
(* when a statement it can see assigns the variable.                       *)
(*                                                                         *)
(* A function is the set of its statements and of its conditions (fn): the *)
(* collectors scan the body, whatever order it runs in.  A condition is a  *)
(* leaf, or two leaves joined by && or ||, under a negation; casts,        *)
(* parentheses, comma and __builtin_expect are transparent to every walk   *)
(* and left out.                                                           *)
(***************************************************************************)
EXTENDS Integers, FiniteSets

CONSTANTS
    Place,      \* integer variables [var, field |-> NoField] and members [var, field]
    NoField,    \* no member: the variable itself
    PtrVar,     \* the pointer variables
    Local,      \* the variables with local storage
    Volatile,   \* the variables declared volatile
    Unsigned,   \* the places of an unsigned type
    Bits        \* the width of int and unsigned

\* The variable itself.
Var(p) == p.field = NoField

\* A place has no more than a name and a member, and a struct is not an integer.
ASSUME PlaceAssumption ==
    /\ IsFiniteSet(Place) /\ IsFiniteSet(PtrVar)
    /\ Unsigned \subseteq Place
    /\ \A p \in Place : p.var \notin PtrVar /\ p = [var |-> p.var, field |-> p.field]
    /\ \A p, q \in Place : p.var = q.var => (Var(p) <=> Var(q))

ASSUME BitsAssumption == Bits \in Nat \ {0, 1}

-----------------------------------------------------------------------------
(* What C does with an integer *)

Modulus == 2 ^ Bits

\* What the provers, who do not know the power, need of it.
ASSUME ModulusAssumption == Modulus \in Nat \ {0}

ToSigned(v) == ((v + Modulus \div 2) % Modulus) - Modulus \div 2

\* A value stored into a place is converted to its type.
Convert(p, v) == IF p \in Unsigned THEN v % Modulus ELSE ToSigned(v)

Values(p) == IF p \in Unsigned THEN 0 .. Modulus - 1
                               ELSE -(Modulus \div 2) .. Modulus \div 2 - 1

Holds(op, a, b) ==
    CASE op = "EQ" -> a = b [] op = "NE" -> a # b
      [] op = "LT" -> a < b [] op = "LE" -> a <= b
      [] op = "GT" -> a > b [] op = "GE" -> a >= b

\* The usual arithmetic conversions: unsigned wins.
Compares(op, p, v, lit) ==
    IF p \in Unsigned \/ lit.unsigned
      THEN Holds(op, v % Modulus, lit.value % Modulus)
      ELSE Holds(op, v, lit.value)

mirror(op) == CASE op = "LT" -> "GT" [] op = "GT" -> "LT"
                [] op = "LE" -> "GE" [] op = "GE" -> "LE" [] OTHER -> op

\* The int64 the code reads from a literal: sign-extended from its own width.
intLiteralValue(lit) == IF lit.unsigned THEN ToSigned(lit.value) ELSE lit.value

-----------------------------------------------------------------------------
(* Keys and the facts of a condition.  An option is a set of at most one.   *)

Fact(p, rel, lit, value) == [key |-> [var |-> p.var, field |-> p.field, rel |-> rel, lit |-> lit],
                             value |-> value]

PtrPlace(q) == [var |-> q, field |-> NoField]

\* The unsigned identities: u <= 0 is u = 0, u > 0 is u # 0, the other two say nothing.
normalizeCompare(p, operator, lit, varOnLeft) ==
    LET mirrored == IF varOnLeft THEN operator ELSE mirror(operator)
        op == IF p \in Unsigned /\ lit = 0
                THEN CASE mirrored = "LE" -> "EQ" [] mirrored = "GT" -> "NE"
                       [] mirrored \in {"LT", "GE"} -> "nothing" [] OTHER -> mirrored
                ELSE mirrored
    IN  CASE op = "EQ" -> {Fact(p, "EQ", lit, TRUE)}
          [] op = "NE" -> {Fact(p, "EQ", lit, FALSE)}
          [] op = "LT" -> {Fact(p, "LT", lit, TRUE)}
          [] op = "GE" -> {Fact(p, "LT", lit, FALSE)}
          [] op = "LE" -> {Fact(p, "LE", lit, TRUE)}
          [] op = "GT" -> {Fact(p, "LE", lit, FALSE)}
          [] op = "nothing" -> {}

compareFact(p, op, lit) == normalizeCompare(p, op, lit, TRUE)

stableDeclRef(k, p) == Var(p) /\ p.var \notin Volatile \cup k.unkeyable

ptrDeclRef(k, q) == q \in k.ptrFacts /\ q \notin k.unkeyable \cup Volatile

\* Only a dot-member of an admitted local struct; == and != only.
memberFactRef(k, p) == ~Var(p) /\ p.var \in k.bases

Flip(facts) == {[f EXCEPT !.value = ~@] : f \in facts}

\* A leaf that is not `plain' (an assignment used as a condition, a call of an
\* identity function) refines by the walk but has no key.
leafFact(k, leaf) ==
    CASE leaf.plain /\ leaf.kind = "truth" /\ (stableDeclRef(k, leaf.place) \/ memberFactRef(k, leaf.place)) ->
            {Fact(leaf.place, "EQ", 0, FALSE)}
      [] leaf.plain /\ leaf.kind = "compare" /\ stableDeclRef(k, leaf.place) ->
            normalizeCompare(leaf.place, leaf.op, intLiteralValue(leaf.lit), leaf.left)
      [] leaf.plain /\ leaf.kind = "compare" /\ memberFactRef(k, leaf.place) /\ leaf.op \in {"EQ", "NE"} ->
            {Fact(leaf.place, "EQ", intLiteralValue(leaf.lit), leaf.op = "EQ")}
      [] leaf.plain /\ leaf.kind = "pointer" /\ ptrDeclRef(k, leaf.ptr) ->
            {Fact(PtrPlace(leaf.ptr), "EQ", 0, leaf.op = "EQ")}
      [] OTHER -> {}

\* The fact of a leaf when it is true.
conditionFact(k, leaf) == IF leaf.neg THEN Flip(leafFact(k, leaf)) ELSE leafFact(k, leaf)

\* X < n with both unsigned, when true, proves n # 0.  Under a ! the walk meets
\* the comparison with the edge already flipped.
unsignedStrictUpperBoundNonzero(k, leaf) ==
    CASE leaf.kind = "below" /\ stableDeclRef(k, leaf.upper) -> {Fact(leaf.upper, "EQ", 0, FALSE)}
      [] /\ leaf.kind = "compare" /\ leaf.lit.unsigned
         /\ leaf.place \in Unsigned /\ stableDeclRef(k, leaf.place)
         /\ "GT" = IF leaf.left THEN leaf.op ELSE mirror(leaf.op) ->
            {Fact(leaf.place, "EQ", 0, FALSE)}
      [] OTHER -> {}

\* What the stamp (x EQ a) = true says about another key on x.
Entails(known, key) ==
    CASE key.rel = "EQ" -> known.lit = key.lit
      [] key.rel = "LT" -> known.lit < key.lit
      [] key.rel = "LE" -> known.lit <= key.lit

\* An exact recording decides; otherwise a stamped equality of the same place.
factsContradict(facts, key, wanted) ==
    IF \E f \in facts : f.key = key
      THEN [key |-> key, value |-> wanted] \notin facts
      ELSE \E f \in facts :
              /\ f.key.var = key.var /\ f.key.field = key.field
              /\ f.key.rel = "EQ" /\ f.value
              /\ Entails(f.key, key) # wanted

Record(facts, f) == {g \in facts : g.key # f.key} \cup {f}

-----------------------------------------------------------------------------
(* walkCondition for a pointer domain: the nullness a leaf proves when its  *)
(* value is isTrue.  A relational comparison of two pointers proves both.   *)

walkNullCondition(leaf, isTrue) ==
    LET edge == isTrue # leaf.neg
    IN  CASE leaf.kind = "pointer" -> {[var |-> leaf.ptr, null |-> (leaf.op = "EQ") = edge]}
          [] leaf.kind = "pointers" -> {[var |-> q, null |-> FALSE] : q \in leaf.ptrs}
          [] OTHER -> {}

-----------------------------------------------------------------------------
(* What the collectors find in a function *)

Leaves(c) == IF c.join = "leaf" THEN {c.lhs} ELSE {c.lhs, c.rhs}

AllLeaves(fn) == UNION {Leaves(c) : c \in fn.conds}

\* The declaration a statement assigns, if its target is a plain variable.
assignedDecl(s) ==
    CASE s.kind \in {"assign", "step", "static", "outParam"} -> {s.var}
      [] s.kind \in {"assignPtr", "staticPtr"} -> {s.var}
      [] s.kind = "storeBase" -> {s.base}
      [] OTHER -> {}

\* Only a plain store of a literal; the initialiser of a static is not one, and of
\* the null constants only a bare 0 is.
assignedIntLiteral(s) ==
    CASE s.kind = "assign" -> {[place |-> [var |-> s.var, field |-> NoField],
                                lit |-> intLiteralValue(s.lit)]}
      [] s.kind = "assignPtr" /\ s.rhs = "nullLiteral" /\ s.zero -> {[place |-> PtrPlace(s.var), lit |-> 0]}
      [] OTHER -> {}

assignedMemberFact(s) == s.kind \in {"storeMember", "stepMember"}

AddressTaken(fn) == {s.var : s \in {t \in fn.stmts : t.kind = "addressOf"}}
                      \cup {s.ptr : s \in {t \in fn.stmts : t.kind = "outParam"}}

collectUnkeyableDecls(fn) ==
    AddressTaken(fn) \cup ((UNION {assignedDecl(s) : s \in fn.stmts}) \ Local)

\* Locals that a condition asks about.
collectFactDecls(fn) ==
    {leaf.place.var : leaf \in {l \in AllLeaves(fn) :
        l.kind \in {"truth", "compare"} /\ Var(l.place) /\ l.place.var \in Local}}

\* A pointer tested beside a partner that is keyable, or another pointer.
collectPtrFactDecls(fn) ==
    LET none == [unkeyable |-> {}, ptrFacts |-> {}, bases |-> {}]
        Partnered(l, partner) == /\ l.kind = "pointer" /\ l.plain
                                 /\ \/ partner.kind = "pointer" /\ partner.plain
                                    \/ conditionFact(none, partner) # {}
    IN  UNION {{l.ptr : l \in {m \in Leaves(c) : \E n \in Leaves(c) \ {m} : Partnered(m, n)}}
                  : c \in {d \in fn.conds : d.join # "leaf"}}

\* Local structs whose address is only ever a call's argument.
collectMemberFactBases(fn) ==
    ({p.var : p \in {q \in Place : ~Var(q)}} \cap Local)
        \ (Volatile \cup {s.base : s \in {t \in fn.stmts : t.kind = "retain"}})

Keying(fn) == [unkeyable |-> collectUnkeyableDecls(fn),
               ptrFacts |-> collectPtrFactDecls(fn),
               stampable |-> collectFactDecls(fn),
               bases |-> collectMemberFactBases(fn)]
=============================================================================
