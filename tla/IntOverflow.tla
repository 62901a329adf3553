------------------------------ MODULE IntOverflow ------------------------------
(***************************************************************************)
(* The decision of src/src/rules/IntOverflowRule.cpp at each arithmetic    *)
(* operator and each implicit narrowing of its result, in the executions   *)
(* of module IntervalEval.                                                 *)
(***************************************************************************)
EXTENDS IntervalEval

\* Two's complement; a type narrower than 64 bits has at most 32, so that the
\* products of its values are in int64.
ASSUME WidthAssumption ==
    \A t \in Type : isSigned(t) =>
        /\ lowest(t) = -highest(t) - 1
        /\ highest(t) < MaxInt => (highest(t) + 1) * (highest(t) + 1) <= MaxInt

isReportableOp(kind, l, r) == kind \in Arithmetic /\ isSigned(l.type) /\ ~SelfSquare(kind, l, r)

\* Mutant: only the upper end counts.
escapesUpward(a, t) == ~isEmpty(a) /\ ~hiIsInf(a) /\ a.hi > highest(t)

\* The proven range reaches beyond the type; an infinite bound proves nothing.
escapesSignedFinite(a, t) ==
    /\ ~isEmpty(a)
    /\ \/ ~hiIsInf(a) /\ a.hi > highest(t)
       \/ ~loIsInf(a) /\ a.lo < lowest(t)

CornersOf(kind, l, r) ==
    { IF kind = "mul" THEN x * y ELSE x + y : x \in {l.lo, l.hi}, y \in {r.lo, r.hi} }

evalEscapes64(kind, l, r) ==
    /\ Bounded(l) /\ Bounded(r)
    /\ ~(CornersOf(kind, l, r) \subseteq Int64)

Is64(t) == highest(t) = MaxInt

\* Whether the operator is reported, given its operands.  Of several on one line the
\* first that is reported stands for the others.
Reports(kind, l, r) ==
    /\ isReportableOp(kind, l, r)
    /\ IF Is64(l.type) THEN evalEscapes64(kind, l.interval, r.interval)
       ELSE escapesSignedFinite(BinaryInterval(kind, l.interval, r.interval), l.type)

\* Whether the implicit conversion of a result to a narrower signed type is.
ReportsNarrowing(t, o) ==
    /\ o.node = "arith" /\ isSigned(o.type)
    /\ isSigned(t) /\ highest(t) < highest(o.type)
    /\ escapesSignedFinite(o.interval, t)

-----------------------------------------------------------------------------
(* Properties *)

At(op) == pc <= Len(path) /\ path[pc].op = op

AtOperator == /\ At("binary") /\ path[pc].kind \in Arithmetic
              /\ Len(operands) >= 2 /\ Top1.type = Top2.type

Overflows(kind, l, r) ==
    \E exact \in Exact(kind, l.value, r.value, l.type) : exact \notin RangeOf(l.type)

\* The analysis has bounds for the operand, and they are values of its type.
Known(o) == Bounded(o.interval) /\ {o.interval.lo, o.interval.hi} \subseteq RangeOf(o.type)

\* An overflow that an execution runs into is reported if the operands are
\* known, and so is a known result that a narrower type cannot hold: the rule
\* is silent only for want of evidence.  64-bit subtractions are left out
\* (EscapeIffCornerLeaves).
OverflowSeen ==
    outside = {} =>
      /\ AtOperator =>
            LET kind == path[pc].kind
            IN  /\ isReportableOp(kind, Top2, Top1)
                /\ Known(Top2) /\ Known(Top1)
                /\ ~(kind = "sub" /\ Is64(Top1.type))
                /\ Overflows(kind, Top2, Top1)
                => Reports(kind, Top2, Top1)
      /\ At("cast") /\ operands # <<>> =>
            LET t == path[pc].type
            IN  /\ Top1.node = "arith" /\ isSigned(Top1.type) /\ Bounded(Top1.interval)
                /\ t \in Type /\ isSigned(t) /\ highest(t) < highest(Top1.type)
                /\ Top1.value \notin RangeOf(t)
                => ReportsNarrowing(t, Top1)

\* "Escape iff a corner leaves int64" (rules/IntOverflowRule.cpp:155): a 64-bit
\* site is reported just when a sum, difference or product of the ends of its
\* operands' intervals leaves int64.
EscapeIffCornerLeaves ==
    LET kind == path[pc].kind
        l == Top2.interval
        r == Top1.interval
    IN  AtOperator /\ isReportableOp(kind, Top2, Top1) /\ Is64(Top1.type)
        /\ Bounded(l) /\ Bounded(r) =>
          (evalEscapes64(kind, l, r)
             <=> \E x \in {l.lo, l.hi}, y \in {r.lo, r.hi} :
                    \E exact \in Exact(kind, x, y, Top1.type) : exact \notin Int64)
=============================================================================
