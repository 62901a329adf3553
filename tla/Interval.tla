------------------------------- MODULE Interval -------------------------------
(***************************************************************************)
(* The interval lattice of src/src/engine/Interval.cpp: the int64 bounds,  *)
(* which may be infinite, of a set of mathematical integers.  An infinite  *)
(* bound is a value just outside int64, and the empty interval one whose   *)
(* bounds have crossed.                                                    *)
(***************************************************************************)
EXTENDS Integers, FiniteSets

CONSTANTS MinInt, MaxInt    \* INT64_MIN and INT64_MAX

ASSUME IntAssumption == /\ MinInt \in Int /\ MaxInt \in Int
                        /\ MaxInt > 0 /\ MinInt = -MaxInt - 1

Int64 == MinInt..MaxInt
NegInf == MinInt - 1
PosInf == MaxInt + 1

Interval == [lo : NegInf..MaxInt, hi : MinInt..PosInf]

top == [lo |-> NegInf, hi |-> PosInf]
bottom == [lo |-> MaxInt, hi |-> MinInt]
range(lo, hi) == IF lo > hi THEN bottom ELSE [lo |-> lo, hi |-> hi]
constant(c) == range(c, c)
atLeast(c) == [lo |-> c, hi |-> PosInf]
atMost(c) == [lo |-> NegInf, hi |-> c]

isEmpty(a) == a.lo > a.hi
loIsInf(a) == isEmpty(a) \/ a.lo = NegInf
hiIsInf(a) == isEmpty(a) \/ a.hi = PosInf
Bounded(a) == ~loIsInf(a) /\ ~hiIsInf(a)
isSingleton(a) == Bounded(a) /\ a.lo = a.hi

\* The integers an interval stands for; contains() on int64.
contains(a, v) ==
    /\ ~isEmpty(a)
    /\ loIsInf(a) \/ a.lo <= v
    /\ hiIsInf(a) \/ v <= a.hi

-----------------------------------------------------------------------------
(* Lattice operations *)

Least(x, y) == IF x <= y THEN x ELSE y
Greatest(x, y) == IF x <= y THEN y ELSE x

join(a, b) ==
    IF isEmpty(a) THEN b
    ELSE IF isEmpty(b) THEN a
    ELSE [lo |-> Least(a.lo, b.lo), hi |-> Greatest(a.hi, b.hi)]

meet(a, b) ==
    IF isEmpty(a) \/ isEmpty(b) THEN bottom
    ELSE range(Greatest(a.lo, b.lo), Least(a.hi, b.hi))

-----------------------------------------------------------------------------
(* Arithmetic; whatever leaves int64 makes the result top *)

negate(a) ==
    IF isEmpty(a) THEN a
    ELSE IF (a.hi # PosInf /\ -a.hi \notin Int64) \/ (a.lo # NegInf /\ -a.lo \notin Int64)
      THEN top
    ELSE [lo |-> IF a.hi = PosInf THEN NegInf ELSE -a.hi,
          hi |-> IF a.lo = NegInf THEN PosInf ELSE -a.lo]

add(a, b) ==
    LET loInf == a.lo = NegInf \/ b.lo = NegInf
        hiInf == a.hi = PosInf \/ b.hi = PosInf
    IN  IF isEmpty(a) \/ isEmpty(b) THEN bottom
        ELSE IF (~loInf /\ a.lo + b.lo \notin Int64) \/ (~hiInf /\ a.hi + b.hi \notin Int64)
          THEN top
        ELSE [lo |-> IF loInf THEN NegInf ELSE a.lo + b.lo,
              hi |-> IF hiInf THEN PosInf ELSE a.hi + b.hi]

sub(a, b) == add(a, negate(b))

mul(a, b) ==
    LET p == a.lo * b.lo    q == a.lo * b.hi
        r == a.hi * b.lo    s == a.hi * b.hi
    IN  IF isEmpty(a) \/ isEmpty(b) THEN bottom
        ELSE IF a = constant(0) \/ b = constant(0) THEN constant(0)
        ELSE IF ~Bounded(a) \/ ~Bounded(b) \/ ~({p, q, r, s} \subseteq Int64) THEN top
        ELSE range(Least(Least(p, q), Least(r, s)), Greatest(Greatest(p, q), Greatest(r, s)))

-----------------------------------------------------------------------------
(* Guards: the part of a that satisfies `x REL c' *)

constrainLe(a, c) == meet(a, atMost(c))
constrainLt(a, c) == IF c = MinInt THEN bottom ELSE meet(a, atMost(c - 1))
constrainGe(a, c) == meet(a, atLeast(c))
constrainGt(a, c) == IF c = MaxInt THEN bottom ELSE meet(a, atLeast(c + 1))
constrainEq(a, c) == meet(a, constant(c))

\* Only an end point can be trimmed.
constrainNe(a, c) ==
    IF isEmpty(a) THEN a
    ELSE IF a.lo = c THEN IF a.hi = c THEN bottom
                          ELSE meet(a, atLeast(IF c = MaxInt THEN c ELSE c + 1))
    ELSE IF a.hi = c THEN meet(a, atMost(IF c = MinInt THEN c ELSE c - 1))
    ELSE a
=============================================================================
