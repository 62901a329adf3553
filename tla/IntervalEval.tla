----------------------------- MODULE IntervalEval -----------------------------
(***************************************************************************)
(* The interval evaluation of src/src/engine/IntervalEval.cpp next to an   *)
(* execution of the analysed code.  A path is what one execution of a      *)
(* function goes through: the nodes of its expressions in the order of     *)
(* evaluation, its assignments and calls, the branches it takes, and, as   *)
(* the engine adds them, the joins and widenings.  Each step does to the   *)
(* concrete values what C does and to the interval state what              *)
(* evalInterval, applyIntervalAssign, refineIntervalOnEdge and             *)
(* IntervalAnalysis do.                                                    *)
(*                                                                         *)
(* The recursion of evalInterval over an expression is a stack of operands *)
(* here.  Types are at most 64 bits wide.                                  *)
(***************************************************************************)
EXTENDS Interval, Sequences

CONSTANTS
    Var,                \* the integer variables the analysis tracks
    Type,               \* integer types
    typeOf(_),
    isSigned(_),
    lowest(_),          \* the values of a type
    highest(_),
    commonType(_, _),   \* the usual arithmetic conversions
    bitand(_, _),       \* the operator & of C
    Path

RangeOf(t) == lowest(t)..highest(t)

ASSUME TypeAssumption ==
    /\ \A v \in Var : typeOf(v) \in Type
    /\ \A t \in Type :
          /\ isSigned(t) \in BOOLEAN
          /\ lowest(t) \in Int /\ highest(t) \in Int
          /\ MinInt <= lowest(t) /\ lowest(t) <= 0
          /\ 0 < highest(t) /\ highest(t) <= 2 * MaxInt + 1
          /\ isSigned(t) => highest(t) <= MaxInt
          /\ ~isSigned(t) => lowest(t) = 0
    /\ \A t, u \in Type : commonType(t, u) \in Type

ASSUME BitandAssumption ==
    \A t \in Type : \A x, y \in RangeOf(t) :
        /\ bitand(x, y) \in RangeOf(t)
        /\ x >= 0 => bitand(x, y) \in 0..x
        /\ y >= 0 => bitand(x, y) \in 0..y

VARIABLES
    path,       \* the path this execution takes
    pc,         \* the next instruction of it
    env,        \* the value of each variable
    iv,         \* IntervalState::iv
    untrusted,  \* IntervalState::untrusted
    operands,   \* the operands evaluated so far, innermost last
    outside     \* history: what happened that the intervals do not provide for

vars == <<path, pc, env, iv, untrusted, operands, outside>>

(***************************************************************************)
(* Members of `outside'.  wrap: an unsigned operation wrapped around.      *)
(* literal: an unsigned literal has its top bit set.  comparison: a        *)
(* comparison converted an operand to a type that cannot hold its value.   *)
(* beyond: an unsigned value beyond int64 is greater than the greatest     *)
(* int64, which constrainGt takes for impossible.                          *)
(* alias: a store through a pointer.  unmatched: a scanf with a field      *)
(* width matched nothing.  stale: a source filled a variable whose type    *)
(* has no range in int64.  static: a static local kept another value than   *)
(* that of its initialiser.                                                *)
(***************************************************************************)
Outside == {"wrap", "literal", "comparison", "beyond", "alias", "unmatched", "stale", "static"}

Note(what, happened) == outside' = IF happened THEN outside \cup {what} ELSE outside

-----------------------------------------------------------------------------
(* evalInterval on one node, given its operands *)

\* intTypeRange; a 64-bit unsigned type has none.
hasRange(t) == highest(t) <= MaxInt
intTypeRange(t) == range(lowest(t), highest(t))

\* getSExtValue of an integer literal.
SignExtended(t, c) == IF ~isSigned(t) /\ 2 * c > highest(t) THEN c - highest(t) - 1 ELSE c

\* Mutant: a narrowing cast is transparent.
integralCastTransparent(t, a) == a

\* An integral cast passes an interval that fits the destination.
integralCast(t, a) ==
    IF /\ Bounded(a)
       /\ a.lo >= lowest(t)
       /\ a.hi <= Least(highest(t), MaxInt)
      THEN a ELSE top

bitAnd(l, r) ==
    LET nonNeg(a) == ~loIsInf(a) /\ a.lo >= 0
    IN  IF isSingleton(r) /\ r.lo >= 0 THEN range(0, r.lo)
        ELSE IF isSingleton(l) /\ l.lo >= 0 THEN range(0, l.lo)
        ELSE IF nonNeg(l) /\ nonNeg(r) /\ ~hiIsInf(l) /\ ~hiIsInf(r)
          THEN range(0, Least(l.hi, r.hi))
        ELSE IF nonNeg(l) /\ ~hiIsInf(l) THEN range(0, l.hi)
        ELSE IF nonNeg(r) /\ ~hiIsInf(r) THEN range(0, r.hi)
        ELSE top

Magnitude(x) == IF x < 0 THEN -x ELSE x

intRem(l, r) ==
    IF ~isSingleton(r) \/ r.lo = 0 THEN top
    ELSE IF ~loIsInf(l) /\ l.lo >= 0 THEN range(0, Magnitude(r.lo) - 1)
    ELSE range(1 - Magnitude(r.lo), Magnitude(r.lo) - 1)

\* "other" is what evalInterval does not look into: division, shifts, ?:,
\* an explicit cast, and operators of one operand, taken twice.
Arithmetic == {"add", "sub", "mul"}
Operator == Arithmetic \cup {"and", "rem", "other"}

BinaryInterval(kind, l, r) ==
    CASE kind = "add" -> add(l, r)
      [] kind = "sub" -> sub(l, r)
      [] kind = "mul" -> mul(l, r)
      [] kind = "and" -> bitAnd(l, r)
      [] kind = "rem" -> intRem(l, r)
      [] kind = "other" -> top

-----------------------------------------------------------------------------
(* What C computes *)

\* Conversion of a value to a type, in two's complement.
convert(t, x) == lowest(t) + ((x - lowest(t)) % (highest(t) - lowest(t) + 1))

\* Truncating remainder.
Remainder(x, d) == IF x >= 0 THEN x % Magnitude(d) ELSE -((-x) % Magnitude(d))

\* The mathematical results of an operator; none for a zero divisor.
Exact(kind, x, y, t) ==
    CASE kind = "add" -> {x + y}
      [] kind = "sub" -> {x - y}
      [] kind = "mul" -> {x * y}
      [] kind = "and" -> {bitand(x, y)}
      [] kind = "rem" -> IF y = 0 THEN {} ELSE {Remainder(x, y)}
      [] kind = "other" -> RangeOf(t)

\* Leaving a signed type is undefined: no execution goes on from there.
Defined(t, exact) == isSigned(t) => exact \in RangeOf(t)

-----------------------------------------------------------------------------
(* Nodes of an expression *)

\* `node' is the variable a node reads, "arith" for a sum, difference or
\* product that is not the square or difference of one variable, or "other".
Node == Var \cup {"arith", "other"}

Operand == [type : Type, value : Int, interval : Interval, derived : BOOLEAN, node : Node]

SelfSquare(kind, l, r) == kind \in {"mul", "sub"} /\ l.node = r.node /\ l.node \in Var

Operate(t, x, a, d, n) ==
    [type |-> t, value |-> x, interval |-> a, derived |-> d, node |-> n]

Here(op) == pc <= Len(path) /\ path[pc].op = op /\ pc' = pc + 1 /\ path' = path

Push(o) == operands' = Append(operands, o) /\ UNCHANGED <<env, iv, untrusted>>
Top1 == operands[Len(operands)]
Top2 == operands[Len(operands) - 1]
Replace1(o) == /\ operands' = [operands EXCEPT ![Len(operands)] = o]
               /\ UNCHANGED <<env, iv, untrusted>>
Replace2(o) == /\ operands' = Append(SubSeq(operands, 1, Len(operands) - 2), o)
               /\ UNCHANGED <<env, iv, untrusted>>

Literal ==
    LET t == path[pc].type
        c == path[pc].value
    IN  /\ Here("literal")
        /\ t \in Type /\ c \in 0..highest(t)
        /\ Push(Operate(t, c, constant(SignExtended(t, c)), FALSE, "other"))
        /\ Note("literal", SignExtended(t, c) # c)

Read ==
    LET v == path[pc].var
    IN  /\ Here("read")
        /\ v \in Var
        /\ Push(Operate(typeOf(v), env[v], iv[v], v \in untrusted, v))
        /\ UNCHANGED outside

\* atoi and its like, and the sources a project declares.
Source ==
    LET t == path[pc].type
    IN  /\ Here("source")
        /\ t \in Type
        /\ \E x \in RangeOf(t) :
              Push(Operate(t, x, IF hasRange(t) THEN intTypeRange(t) ELSE top, TRUE, "other"))
        /\ UNCHANGED outside

\* A call, a member, a variable that is not tracked.
Unknown ==
    LET t == path[pc].type
    IN  /\ Here("unknown")
        /\ t \in Type
        /\ \E x \in RangeOf(t) : Push(Operate(t, x, top, FALSE, "other"))
        /\ UNCHANGED outside

Cast ==
    LET t == path[pc].type
        o == Top1
    IN  /\ Here("cast")
        /\ t \in Type /\ operands # <<>>
        /\ Replace1(Operate(t, convert(t, o.value), integralCast(t, o.interval), o.derived,
                            IF o.node = "arith" THEN "other" ELSE o.node))
        /\ UNCHANGED outside

Minus ==
    LET o == Top1
    IN  /\ Here("minus")
        /\ operands # <<>>
        /\ Defined(o.type, -o.value)
        /\ Replace1(Operate(o.type, convert(o.type, -o.value), negate(o.interval),
                            o.derived, "other"))
        /\ Note("wrap", -o.value \notin RangeOf(o.type))

Binary ==
    LET kind == path[pc].kind
        l == Top2
        r == Top1
    IN  /\ Here("binary")
        /\ kind \in Operator /\ Len(operands) >= 2 /\ l.type = r.type
        /\ \E exact \in Exact(kind, l.value, r.value, l.type) :
              /\ Defined(l.type, exact)
              /\ Replace2(Operate(l.type, convert(l.type, exact),
                                  BinaryInterval(kind, l.interval, r.interval),
                                  l.derived \/ r.derived,
                                  IF kind \in Arithmetic /\ ~SelfSquare(kind, l, r)
                                    THEN "arith" ELSE "other"))
              /\ Note("wrap", exact \notin RangeOf(l.type))

-----------------------------------------------------------------------------
(* Statements *)

Becomes(v, x, a) == env' = [env EXCEPT ![v] = x] /\ iv' = [iv EXCEPT ![v] = a]

AtStatement(op) == Here(op) /\ operands = <<>> /\ path[pc].var \in Var /\ UNCHANGED operands

\* A parameter holds any value that its seed allows; without visible callers
\* the seed is top.
Parameter ==
    LET v == path[pc].var
        seed == path[pc].seed
    IN  /\ AtStatement("parameter")
        /\ seed \in Interval
        /\ \E x \in RangeOf(typeOf(v)) : contains(seed, x) /\ Becomes(v, x, seed)
        /\ UNCHANGED <<untrusted, outside>>

\* x = e, and a declaration with an initialiser.
Assign ==
    LET v == path[pc].var
        o == Top1
    IN  /\ Here("assign")
        /\ v \in Var /\ Len(operands) = 1 /\ o.type = typeOf(v)
        /\ Becomes(v, o.value, o.interval)
        /\ untrusted' = IF o.derived THEN untrusted \cup {v} ELSE untrusted \ {v}
        /\ operands' = <<>>
        /\ UNCHANGED outside

\* The declaration of a static local: its initialiser is applied on every pass, though
\* the variable has that value in the first call only.
Static ==
    LET v == path[pc].var
        o == Top1
    IN  /\ Here("static")
        /\ v \in Var /\ Len(operands) = 1 /\ o.type = typeOf(v)
        /\ \E x \in RangeOf(typeOf(v)) : Becomes(v, x, o.interval) /\ Note("static", x # o.value)
        /\ untrusted' = IF o.derived THEN untrusted \cup {v} ELSE untrusted \ {v}
        /\ operands' = <<>>

\* A declaration without initialiser; a compound assignment, ++ or --; &x, whose
\* use may write x; an argument bound to a non-const reference.  Only the first
\* and the last forget the origin.
Rewrite ==
    \E op \in {"declare", "modify", "addressOf", "refArg"} :
        LET v == path[pc].var
        IN  /\ AtStatement(op)
            /\ \E x \in RangeOf(typeOf(v)) : Becomes(v, x, top)
            /\ untrusted' = IF op \in {"declare", "refArg"} THEN untrusted \ {v} ELSE untrusted
            /\ UNCHANGED outside

\* *p = e, where p holds an address taken earlier: nothing is applied to x.
StoreThrough ==
    LET v == path[pc].var
    IN  /\ AtStatement("storeThrough")
        /\ \E i \in 1..(pc - 1) : path[i].op = "addressOf" /\ path[i].var = v
        /\ env' \in {[env EXCEPT ![v] = x] : x \in RangeOf(typeOf(v))}
        /\ Note("alias", TRUE)
        /\ UNCHANGED <<iv, untrusted>>

\* scanf into x, with the bound `field' its conversion and width imply.  The
\* argument &x comes first, and a conversion that matches nothing leaves x alone.
Scan ==
    LET v == path[pc].var
        field == path[pc].field
        t == typeOf(path[pc].var)
        seed == meet(intTypeRange(t), field)
        seeded == hasRange(t) /\ ~isEmpty(seed)
    IN  /\ AtStatement("scan")
        /\ field \in Interval
        /\ \E x \in {env[v]} \cup {y \in RangeOf(t) : contains(field, y)} :
              /\ env' = [env EXCEPT ![v] = x]
              /\ Note("unmatched", seeded /\ ~contains(field, x))
        /\ iv' = [iv EXCEPT ![v] = IF seeded THEN seed ELSE top]
        /\ untrusted' = IF seeded /\ ~path[pc].counts THEN untrusted \cup {v} ELSE untrusted

\* Mutant: a guard of the type's bounds is dropped.
FilledAlways(v) == intTypeRange(typeOf(v))

\* The interval of a variable that a source has filled.
Filled(v) == IF hasRange(typeOf(v)) THEN intTypeRange(typeOf(v)) ELSE iv[v]

\* A declared source fills a reference argument.
Fill ==
    LET v == path[pc].var
    IN  /\ AtStatement("fill")
        /\ \E x \in RangeOf(typeOf(v)) : Becomes(v, x, Filled(v))
        /\ untrusted' = IF hasRange(typeOf(v)) THEN untrusted \cup {v} ELSE untrusted
        /\ Note("stale", ~hasRange(typeOf(v)))

-----------------------------------------------------------------------------
(* Branches *)

Comparison == {"<", "<=", ">", ">=", "==", "!="}

Holds(cmp, x, y) ==
    CASE cmp = "<"  -> x < y
      [] cmp = "<=" -> x <= y
      [] cmp = ">"  -> x > y
      [] cmp = ">=" -> x >= y
      [] cmp = "==" -> x = y
      [] cmp = "!=" -> x # y

\* Mutant: the negation of < is >.
negateCmpStrict(cmp) ==
    CASE cmp = "<"  -> ">"
      [] cmp = "<=" -> ">"
      [] cmp = ">"  -> "<="
      [] cmp = ">=" -> "<"
      [] cmp = "==" -> "!="
      [] cmp = "!=" -> "=="

negateCmp(cmp) ==
    CASE cmp = "<"  -> ">="
      [] cmp = "<=" -> ">"
      [] cmp = ">"  -> "<="
      [] cmp = ">=" -> "<"
      [] cmp = "==" -> "!="
      [] cmp = "!=" -> "=="

constrainBy(a, cmp, c) ==
    CASE cmp = "<"  -> constrainLt(a, c)
      [] cmp = "<=" -> constrainLe(a, c)
      [] cmp = ">"  -> constrainGt(a, c)
      [] cmp = ">=" -> constrainGe(a, c)
      [] cmp = "==" -> constrainEq(a, c)
      [] cmp = "!=" -> constrainNe(a, c)

\* A constant: a literal c, its negation -c, or an expression of value c.
ConstantValue(form, t, c) == IF form = "negated" THEN convert(t, -c) ELSE c

\* foldConstInt; an expression whose value is not in int64 is not folded.
Folds(form, c) == form = "folded" => c <= MaxInt
foldConstInt(form, t, c) ==
    CASE form = "literal" -> SignExtended(t, c)
      [] form = "negated" -> IF SignExtended(t, c) = MinInt THEN MinInt ELSE -SignExtended(t, c)
      [] form = "folded"  -> c

\* An edge of `if (x < c)' and the like.
Compare ==
    LET i == path[pc]
        v == i.var
        own == ConstantValue(i.form, i.type, i.value)
        c == foldConstInt(i.form, i.type, i.value)
        common == commonType(typeOf(v), i.type)
        effective == IF i.edge THEN i.cmp ELSE negateCmp(i.cmp)
    IN  /\ AtStatement("compare")
        /\ i.type \in Type /\ i.form \in {"literal", "negated", "folded"} /\ i.cmp \in Comparison
        /\ i.value \in RangeOf(i.type) /\ (i.form # "folded" => i.value >= 0)
        /\ i.edge = Holds(i.cmp, convert(common, env[v]), convert(common, own))
        /\ iv' = IF Folds(i.form, i.value)
                   THEN [iv EXCEPT ![v] = constrainBy(@, effective, c)]
                   ELSE iv
        /\ outside' = outside
              \cup (IF convert(common, env[v]) # env[v] \/ convert(common, own) # own
                      THEN {"comparison"} ELSE {})
              \cup (IF c # own THEN {"literal"} ELSE {})
              \cup (IF effective = ">" /\ c = MaxInt /\ env[v] > MaxInt THEN {"beyond"} ELSE {})
        /\ UNCHANGED <<env, untrusted>>

\* An edge of `if (x)'.
Truth ==
    LET v == path[pc].var
    IN  /\ AtStatement("truth")
        /\ path[pc].edge = (env[v] # 0)
        /\ iv' = [iv EXCEPT ![v] = IF path[pc].edge THEN constrainNe(@, 0) ELSE constrainEq(@, 0)]
        /\ UNCHANGED <<env, untrusted, outside>>

-----------------------------------------------------------------------------
(* IntervalAnalysis, where the engine merges and widens *)

\* merge with the state of another path.
Join ==
    LET other == path[pc]
    IN  /\ Here("join")
        /\ operands = <<>>
        /\ other.iv \in [Var -> Interval] /\ other.untrusted \in SUBSET Var
        /\ iv' = [v \in Var |-> join(iv[v], other.iv[v])]
        /\ untrusted' = untrusted \cup other.untrusted
        /\ UNCHANGED <<env, operands, outside>>

Widen ==
    /\ Here("widen")
    /\ operands = <<>>
    /\ iv' = [v \in Var |-> IF isSingleton(iv[v]) THEN iv[v] ELSE top]
    /\ UNCHANGED <<env, untrusted, operands, outside>>

-----------------------------------------------------------------------------
\* The interval state of initialState() without seeds.
Init ==
    /\ path \in Path
    /\ pc = 1
    /\ env = [v \in Var |-> 0]
    /\ iv = [v \in Var |-> top]
    /\ untrusted = {}
    /\ operands = <<>>
    /\ outside = {}

Next == \/ Literal \/ Read \/ Source \/ Unknown \/ Cast \/ Minus \/ Binary
        \/ Parameter \/ Assign \/ Static \/ Rewrite \/ StoreThrough \/ Scan \/ Fill
        \/ Compare \/ Truth \/ Join \/ Widen

Spec == Init /\ [][Next]_vars
-----------------------------------------------------------------------------
(* Properties *)

TypeOK ==
    /\ pc \in Nat \ {0}
    /\ env \in [Var -> Int] /\ \A v \in Var : env[v] \in RangeOf(typeOf(v))
    /\ iv \in [Var -> Interval]
    /\ untrusted \subseteq Var
    /\ operands \in Seq(Operand)
    /\ \A i \in DOMAIN operands : operands[i].value \in RangeOf(operands[i].type)
    /\ outside \subseteq Outside

InRange ==
    /\ \A v \in Var : contains(iv[v], env[v])
    /\ \A i \in DOMAIN operands : contains(operands[i].interval, operands[i].value)

\* "The SOUNDNESS INVARIANT is absolute" (engine/Interval.h): whatever the code
\* computes, converts and branches on, the value of each variable and of each
\* subexpression is in its interval, as long as nothing in `outside' happened.
Contained == outside = {} => InRange

\* "an assignment we cannot model sets the target to top(). We never invent a
\* narrower range than the truth" (engine/IntervalEval.h:14), also for an output
\* argument of a declared source.
NeverNarrower == outside \subseteq {"stale"} => InRange

\* The same for a static local, whose value another call has left.
StaticNeverNarrower == outside \subseteq {"static"} => InRange
=============================================================================
