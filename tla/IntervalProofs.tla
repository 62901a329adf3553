----------------------------- MODULE IntervalProofs -----------------------------
(***************************************************************************)
(* Every operation of the interval lattice contains what it stands for, in *)
(* int64 of any width; and so, for all types, paths and executions, does   *)
(* every interval that the analysis holds.                                 *)
(***************************************************************************)
EXTENDS IntOverflow, SequenceTheorems, TLAPS

-----------------------------------------------------------------------------
(* The lattice *)

\* No integer is outside the unknown interval (Interval::top), and none is in
\* the empty one (Interval::bottom).
LEMMA TopBottom ==
    /\ top \in Interval /\ bottom \in Interval
    /\ \A v \in Int : contains(top, v)
BY IntAssumption DEF top, bottom, contains, Interval, isEmpty, loIsInf, hiIsInf, NegInf, PosInf

\* Interval::range between bounds in int64.
LEMMA RangeSound ==
    ASSUME NEW lo \in Int64, NEW hi \in Int64
    PROVE  /\ range(lo, hi) \in Interval
           /\ \A v \in Int : lo <= v /\ v <= hi => contains(range(lo, hi), v)
           /\ \A v \in Int : contains(range(lo, hi), v) => lo <= v /\ v <= hi
BY IntAssumption
   DEF range, bottom, contains, Interval, Int64, isEmpty, loIsInf, hiIsInf, NegInf, PosInf

\* Interval::constant.
LEMMA ConstantSound ==
    ASSUME NEW c \in Int64
    PROVE  constant(c) \in Interval /\ contains(constant(c), c)
BY RangeSound, IntAssumption DEF constant, Int64

\* Interval::join contains both operands.
LEMMA JoinSound ==
    ASSUME NEW a \in Interval, NEW b \in Interval
    PROVE  /\ join(a, b) \in Interval
           /\ \A v \in Int : contains(a, v) \/ contains(b, v) => contains(join(a, b), v)
BY IntAssumption
   DEF join, Least, Greatest, contains, Interval, isEmpty, loIsInf, hiIsInf, NegInf, PosInf

\* Interval::meet contains what is in both operands.
LEMMA MeetSound ==
    ASSUME NEW a \in Interval, NEW b \in Interval
    PROVE  /\ meet(a, b) \in Interval
           /\ \A v \in Int : contains(a, v) /\ contains(b, v) => contains(meet(a, b), v)
BY IntAssumption
   DEF meet, range, bottom, Least, Greatest, contains, Interval, isEmpty, loIsInf, hiIsInf, NegInf, PosInf

\* Interval::negate; the negation of INT64_MIN is not in int64.
LEMMA NegateSound ==
    ASSUME NEW a \in Interval
    PROVE  /\ negate(a) \in Interval
           /\ \A v \in Int : contains(a, v) => contains(negate(a), -v)
BY IntAssumption
   DEF negate, top, contains, Interval, Int64, isEmpty, loIsInf, hiIsInf, NegInf, PosInf

\* Interval::add.
LEMMA AddSound ==
    ASSUME NEW a \in Interval, NEW b \in Interval
    PROVE  /\ add(a, b) \in Interval
           /\ \A v, w \in Int : contains(a, v) /\ contains(b, w) => contains(add(a, b), v + w)
BY IntAssumption
   DEF add, top, bottom, contains, Interval, Int64, isEmpty, loIsInf, hiIsInf, NegInf, PosInf

\* Interval::sub is add of the negation.
LEMMA SubSound ==
    ASSUME NEW a \in Interval, NEW b \in Interval
    PROVE  /\ sub(a, b) \in Interval
           /\ \A v, w \in Int : contains(a, v) /\ contains(b, w) => contains(sub(a, b), v - w)
<1>1. negate(b) \in Interval
  BY NegateSound
<1>2. sub(a, b) \in Interval
  BY <1>1, AddSound DEF sub
<1>3. ASSUME NEW v \in Int, NEW w \in Int, contains(a, v), contains(b, w)
      PROVE  contains(sub(a, b), v - w)
  <2>1. contains(negate(b), -w)
    BY <1>3, NegateSound
  <2>2. contains(add(a, negate(b)), v + (-w))
    BY <1>1, <1>3, <2>1, AddSound
  <2>3. v + (-w) = v - w
    OBVIOUS
  <2> QED
    BY <2>2, <2>3 DEF sub
<1> QED
  BY <1>2, <1>3

\* A product is monotone in a factor, upwards or downwards by the other's sign.
LEMMA ProductMonotone ==
    ASSUME NEW p \in Int, NEW q \in Int, p <= q, NEW z \in Int
    PROVE  /\ z >= 0 => p * z <= q * z
           /\ z <= 0 => q * z <= p * z
<1>1. \A m, n \in Int : m >= 0 /\ n >= 0 => m * n >= 0
  OBVIOUS
<1>2. (q - p) * z = q * z - p * z
  OBVIOUS
<1>3. (q - p) * (-z) = p * z - q * z
  OBVIOUS
<1>4. ASSUME z >= 0 PROVE p * z <= q * z
  <2>1. (q - p) * z >= 0
    BY <1>1, <1>4
  <2> QED
    BY <1>2, <2>1
<1>5. ASSUME z <= 0 PROVE q * z <= p * z
  <2>1. (q - p) * (-z) >= 0
    BY <1>1, <1>5
  <2> QED
    BY <1>3, <2>1
<1> QED
  BY <1>4, <1>5

\* A product with one factor between two integers lies between their products.
LEMMA BetweenProducts ==
    ASSUME NEW p \in Int, NEW q \in Int, NEW x \in Int, p <= x, x <= q, NEW z \in Int
    PROVE  \/ p * z <= x * z /\ x * z <= q * z
           \/ q * z <= x * z /\ x * z <= p * z
<1>1. CASE z >= 0
  BY <1>1, ProductMonotone
<1>2. CASE z <= 0
  BY <1>2, ProductMonotone
<1> QED
  BY <1>1, <1>2

\* A product of two factors that lie in intervals is between two corners.
LEMMA BetweenCorners ==
    ASSUME NEW p \in Int, NEW q \in Int, NEW x \in Int, p <= x, x <= q,
           NEW r \in Int, NEW s \in Int, NEW y \in Int, r <= y, y <= s
    PROVE  LET corners == {p * r, p * s, q * r, q * s}
           IN  /\ \E c \in corners : c <= x * y
               /\ \E c \in corners : x * y <= c
<1> DEFINE corners == {p * r, p * s, q * r, q * s}
<1>1. \/ p * y <= x * y /\ x * y <= q * y
      \/ q * y <= x * y /\ x * y <= p * y
  BY BetweenProducts
<1>2. ASSUME NEW e \in {p, q}
      PROVE  \/ e * r <= e * y /\ e * y <= e * s
             \/ e * s <= e * y /\ e * y <= e * r
  <2>1. \/ r * e <= y * e /\ y * e <= s * e
        \/ s * e <= y * e /\ y * e <= r * e
    BY BetweenProducts
  <2>2. r * e = e * r /\ y * e = e * y /\ s * e = e * s
    OBVIOUS
  <2> QED
    BY <2>1, <2>2
<1>3. ASSUME NEW e \in {p, q}
      PROVE  /\ \E c \in corners : c <= e * y
             /\ \E c \in corners : e * y <= c
  <2>1. e * r \in corners /\ e * s \in corners
    OBVIOUS
  <2>2. (e * r <= e * y \/ e * s <= e * y) /\ (e * y <= e * r \/ e * y <= e * s)
    BY <1>2
  <2> HIDE DEF corners
  <2> QED
    BY <2>1, <2>2, Zenon
<1>4. corners \subseteq Int /\ x * y \in Int /\ p * y \in Int /\ q * y \in Int
  OBVIOUS
<1>5. /\ \E c \in corners : c <= p * y
      /\ \E c \in corners : p * y <= c
  BY <1>3
<1>6. /\ \E c \in corners : c <= q * y
      /\ \E c \in corners : q * y <= c
  BY <1>3
<1> HIDE DEF corners
<1>7. /\ \E c \in corners : c <= x * y
      /\ \E c \in corners : x * y <= c
  <2>1. PICK c1 \in corners, c2 \in corners : c1 <= p * y /\ p * y <= c2
    BY <1>5
  <2>2. PICK d1 \in corners, d2 \in corners : d1 <= q * y /\ q * y <= d2
    BY <1>6
  <2>3. c1 \in Int /\ c2 \in Int /\ d1 \in Int /\ d2 \in Int
    BY <1>4
  <2>4. (c1 <= x * y \/ d1 <= x * y) /\ (x * y <= c2 \/ x * y <= d2)
    BY <1>1, <1>4, <2>1, <2>2, <2>3
  <2> QED
    BY <2>4, Zenon
<1> QED
  BY <1>7 DEF corners

\* Interval::mul, by its corners.
LEMMA MulSound ==
    ASSUME NEW a \in Interval, NEW b \in Interval
    PROVE  /\ mul(a, b) \in Interval
           /\ \A v, w \in Int : contains(a, v) /\ contains(b, w) => contains(mul(a, b), v * w)
<1> DEFINE p == a.lo * b.lo
           q == a.lo * b.hi
           r == a.hi * b.lo
           s == a.hi * b.hi
           low == Least(Least(p, q), Least(r, s))
           high == Greatest(Greatest(p, q), Greatest(r, s))
<1>0. a.lo \in Int /\ a.hi \in Int /\ b.lo \in Int /\ b.hi \in Int
  BY IntAssumption DEF Interval, NegInf, PosInf
<1>1. p \in Int /\ q \in Int /\ r \in Int /\ s \in Int
  BY <1>0
<1>2. CASE isEmpty(a) \/ isEmpty(b)
  BY <1>2, TopBottom DEF mul, contains
<1>3. CASE ~isEmpty(a) /\ ~isEmpty(b) /\ (a = constant(0) \/ b = constant(0))
  <2>1. 0 \in Int64
    BY IntAssumption DEF Int64
  <2>2. mul(a, b) = constant(0)
    BY <1>3 DEF mul
  <2>3. \A v, w \in Int : contains(a, v) /\ contains(b, w) => v * w = 0
    <3>1. \A v \in Int : contains(constant(0), v) => v = 0
      BY <2>1, RangeSound DEF constant
    <3> QED
      BY <1>3, <3>1
  <2> QED
    BY <2>1, <2>2, <2>3, ConstantSound
<1>4. CASE /\ ~isEmpty(a) /\ ~isEmpty(b) /\ a # constant(0) /\ b # constant(0)
           /\ (~Bounded(a) \/ ~Bounded(b) \/ ~({p, q, r, s} \subseteq Int64))
  <2>1. mul(a, b) = top
    BY <1>4 DEF mul
  <2>2. \A v, w \in Int : v * w \in Int
    OBVIOUS
  <2> QED
    BY <2>1, <2>2, TopBottom
<1>5. CASE /\ ~isEmpty(a) /\ ~isEmpty(b) /\ a # constant(0) /\ b # constant(0)
           /\ Bounded(a) /\ Bounded(b) /\ {p, q, r, s} \subseteq Int64
  <2>1. mul(a, b) = range(low, high)
    BY <1>5 DEF mul
  <2>2. low \in {p, q, r, s} /\ high \in {p, q, r, s}
    BY <1>1 DEF Least, Greatest
  <2>3. \A c \in {p, q, r, s} : low <= c /\ c <= high
    <3> HIDE DEF p, q, r, s
    <3> QED
      BY <1>1 DEF Least, Greatest
  <2>4. low \in Int64 /\ high \in Int64
    BY <1>5, <2>2
  <2>5. ASSUME NEW v \in Int, NEW w \in Int, contains(a, v), contains(b, w)
        PROVE  contains(mul(a, b), v * w)
    <3>1. a.lo <= v /\ v <= a.hi /\ b.lo <= w /\ w <= b.hi
      BY <1>5, <2>5 DEF contains, Bounded
    <3>2. /\ \E c \in {p, q, r, s} : c <= v * w
          /\ \E c \in {p, q, r, s} : v * w <= c
      BY <1>0, <3>1, BetweenCorners
    <3>3. v * w \in Int /\ low \in Int /\ high \in Int
      BY <2>4, IntAssumption DEF Int64
    <3> DEFINE vw == v * w
    <3>4. low <= vw /\ vw <= high
      <4> HIDE DEF vw, low, high, p, q, r, s
      <4>1. vw \in Int /\ p \in Int /\ q \in Int /\ r \in Int /\ s \in Int
        BY <1>1, <3>3 DEF vw
      <4>2. /\ \E c \in {p, q, r, s} : c <= vw
            /\ \E c \in {p, q, r, s} : vw <= c
        BY <3>2 DEF vw
      <4> QED
        BY <2>3, <3>3, <4>1, <4>2
    <3> HIDE DEF low, high
    <3>5. contains(range(low, high), vw)
      BY <2>4, <3>3, <3>4, RangeSound
    <3> QED
      BY <2>1, <3>5
  <2> HIDE DEF low, high
  <2>6. mul(a, b) \in Interval
    BY <2>1, <2>4, RangeSound
  <2> QED
    BY <2>5, <2>6
<1> QED
  BY <1>2, <1>3, <1>4, <1>5

-----------------------------------------------------------------------------
(* Guards *)

\* Interval::atLeast and atMost.
LEMMA HalfLineSound ==
    ASSUME NEW c \in Int64
    PROVE  /\ atLeast(c) \in Interval /\ \A v \in Int : c <= v => contains(atLeast(c), v)
           /\ atMost(c) \in Interval /\ \A v \in Int : v <= c => contains(atMost(c), v)
BY IntAssumption
   DEF atLeast, atMost, contains, Interval, Int64, isEmpty, loIsInf, hiIsInf, NegInf, PosInf

\* constrainBy keeps every value for which the comparison holds, also at the
\* ends of int64; "x > MAX impossible" (constrainGt) is so for int64 values only.
LEMMA ConstrainSound ==
    ASSUME NEW a \in Interval, NEW c \in Int64, NEW cmp \in Comparison
    PROVE  /\ constrainBy(a, cmp, c) \in Interval
           /\ \A v \in Int : /\ contains(a, v) /\ Holds(cmp, v, c)
                            /\ MinInt <= v /\ (cmp = ">" /\ c = MaxInt => v <= MaxInt)
                            => contains(constrainBy(a, cmp, c), v)
<1> USE IntAssumption
<1>0. c \in Int /\ MinInt <= c /\ c <= MaxInt
  BY DEF Int64
<1>1. CASE cmp = "<="
  <2>1. \A v \in Int : Holds(cmp, v, c) => v <= c
    BY <1>1 DEF Holds
  <2>2. constrainBy(a, cmp, c) = meet(a, atMost(c))
    BY <1>1 DEF constrainBy, constrainLe
  <2> QED
    BY <2>1, <2>2, HalfLineSound, MeetSound
<1>2. CASE cmp = ">="
  <2>1. \A v \in Int : Holds(cmp, v, c) => c <= v
    BY <1>0, <1>2 DEF Holds
  <2>2. constrainBy(a, cmp, c) = meet(a, atLeast(c))
    BY <1>2 DEF constrainBy, constrainGe
  <2> QED
    BY <2>1, <2>2, HalfLineSound, MeetSound
<1>3. CASE cmp = "=="
  <2>1. \A v \in Int : Holds(cmp, v, c) => v = c
    BY <1>3 DEF Holds
  <2>2. constrainBy(a, cmp, c) = meet(a, constant(c))
    BY <1>3 DEF constrainBy, constrainEq
  <2> QED
    BY <2>1, <2>2, ConstantSound, MeetSound
<1>4. CASE cmp = "<"
  <2>1. \A v \in Int : Holds(cmp, v, c) => v <= c - 1
    BY <1>0, <1>4 DEF Holds
  <2>2. CASE c = MinInt
    BY <1>4, <2>1, <2>2, TopBottom DEF constrainBy, constrainLt
  <2>3. CASE c # MinInt
    <3>1. c - 1 \in Int64
      BY <1>0, <2>3 DEF Int64
    <3>2. constrainBy(a, cmp, c) = meet(a, atMost(c - 1))
      BY <1>4, <2>3 DEF constrainBy, constrainLt
    <3> QED
      BY <2>1, <3>1, <3>2, HalfLineSound, MeetSound
  <2> QED
    BY <2>2, <2>3
<1>5. CASE cmp = ">"
  <2>1. \A v \in Int : Holds(cmp, v, c) => c + 1 <= v
    BY <1>0, <1>5 DEF Holds
  <2>2. CASE c = MaxInt
    BY <1>5, <2>1, <2>2, TopBottom DEF constrainBy, constrainGt
  <2>3. CASE c # MaxInt
    <3>1. c + 1 \in Int64
      BY <1>0, <2>3 DEF Int64
    <3>2. constrainBy(a, cmp, c) = meet(a, atLeast(c + 1))
      BY <1>5, <2>3 DEF constrainBy, constrainGt
    <3> QED
      BY <2>1, <3>1, <3>2, HalfLineSound, MeetSound
  <2> QED
    BY <2>2, <2>3
<1>6. CASE cmp = "!="
  <2>1. \A v \in Int : Holds(cmp, v, c) => v # c
    BY <1>6 DEF Holds
  <2>2. constrainBy(a, cmp, c) = constrainNe(a, c)
    BY <1>6 DEF constrainBy
  <2>3. CASE isEmpty(a)
    BY <2>2, <2>3 DEF constrainNe
  <2>4. CASE ~isEmpty(a) /\ a.lo = c
    <3>1. CASE a.hi = c
      <4>1. constrainNe(a, c) = bottom
        BY <2>4, <3>1 DEF constrainNe
      <4>2. \A v \in Int : contains(a, v) => v = c
        BY <1>0, <2>4, <3>1 DEF contains, Interval, isEmpty, loIsInf, hiIsInf, NegInf, PosInf
      <4> QED
        BY <2>1, <2>2, <4>1, <4>2, TopBottom
    <3>2. CASE a.hi # c
      <4> DEFINE next == IF c = MaxInt THEN c ELSE c + 1
      <4>1. next \in Int64
        BY <1>0 DEF Int64
      <4>2. constrainNe(a, c) = meet(a, atLeast(next))
        BY <2>4, <3>2 DEF constrainNe
      <4>3. \A v \in Int : contains(a, v) /\ v # c => next <= v
        BY <1>0, <2>4 DEF contains, Interval, isEmpty, loIsInf, hiIsInf, NegInf, PosInf
      <4> QED
        BY <2>1, <2>2, <4>1, <4>2, <4>3, HalfLineSound, MeetSound
    <3> QED
      BY <3>1, <3>2
  <2>5. CASE ~isEmpty(a) /\ a.lo # c /\ a.hi = c
    <3> DEFINE previous == IF c = MinInt THEN c ELSE c - 1
    <3>1. previous \in Int64
      BY <1>0 DEF Int64
    <3>2. constrainNe(a, c) = meet(a, atMost(previous))
      BY <2>5 DEF constrainNe
    <3>3. \A v \in Int : contains(a, v) /\ v # c => v <= previous
      BY <1>0, <2>5 DEF contains, Interval, isEmpty, loIsInf, hiIsInf, NegInf, PosInf
    <3> QED
      BY <2>1, <2>2, <3>1, <3>2, <3>3, HalfLineSound, MeetSound
  <2>6. CASE ~isEmpty(a) /\ a.lo # c /\ a.hi # c
    BY <2>2, <2>6 DEF constrainNe
  <2> QED
    BY <2>3, <2>4, <2>5, <2>6
<1> QED
  BY <1>1, <1>2, <1>3, <1>4, <1>5, <1>6 DEF Comparison

-----------------------------------------------------------------------------
(* Expressions *)

\* A type's values are integers, int64 except at the top of a 64-bit unsigned type.
LEMMA Values ==
    ASSUME NEW t \in Type
    PROVE  /\ lowest(t) \in Int /\ highest(t) \in Int
           /\ MinInt <= lowest(t) /\ lowest(t) <= 0 /\ 0 < highest(t)
           /\ RangeOf(t) \subseteq Int
           /\ \A x \in RangeOf(t) : MinInt <= x /\ lowest(t) <= x /\ x <= highest(t)
           /\ \A x \in Int : lowest(t) <= x /\ x <= highest(t) => x \in RangeOf(t)
           /\ 0 \in RangeOf(t)
BY TypeAssumption, IntAssumption DEF RangeOf

\* A conversion gives a value of the type, and the same value if the type has it.
LEMMA ConvertSound ==
    ASSUME NEW t \in Type, NEW x \in Int
    PROVE  /\ convert(t, x) \in RangeOf(t)
           /\ x \in RangeOf(t) => convert(t, x) = x
<1> DEFINE span == highest(t) - lowest(t) + 1
           off == x - lowest(t)
<1>1. span \in Int /\ span > 0 /\ off \in Int
  BY Values
<1>2. \A m, n \in Int : n > 0 => m % n \in 0..(n - 1)
  OBVIOUS
<1>3. \A m, n \in Int : 0 <= m /\ m < n => m % n = m
  OBVIOUS
<1>4. convert(t, x) = lowest(t) + (off % span)
  BY DEF convert
<1>5. off % span \in 0..(span - 1)
  <2> HIDE DEF off, span
  <2> QED
    BY <1>1, <1>2
<1>6. convert(t, x) \in RangeOf(t)
  <2> DEFINE rest == off % span
  <2> HIDE DEF rest
  <2>1. rest \in Int /\ 0 <= rest /\ rest <= highest(t) - lowest(t)
    BY <1>1, <1>5, Values DEF rest
  <2>2. convert(t, x) = lowest(t) + rest
    BY <1>4 DEF rest
  <2> QED
    BY <2>1, <2>2, Values
<1>7. ASSUME x \in RangeOf(t) PROVE convert(t, x) = x
  <2>1. 0 <= off /\ off < span
    BY <1>7, Values
  <2>2. off % span = off
    <3> HIDE DEF off, span
    <3> QED
      BY <1>1, <1>3, <2>1
  <2>3. convert(t, x) = lowest(t) + off
    BY <1>4, <2>2
  <2> QED
    BY <2>3, Values
<1> QED
  BY <1>6, <1>7

\* The range of a type, where it has one.
LEMMA TypeRangeSound ==
    ASSUME NEW t \in Type, hasRange(t)
    PROVE  /\ intTypeRange(t) \in Interval
           /\ \A x \in RangeOf(t) : contains(intTypeRange(t), x)
<1>1. lowest(t) \in Int64 /\ highest(t) \in Int64
  BY Values, IntAssumption DEF hasRange, Int64
<1> QED
  BY <1>1, Values, RangeSound DEF intTypeRange

\* What constInt reads of a literal is in int64.
LEMMA SignExtendedSound ==
    ASSUME NEW t \in Type, NEW c \in 0..highest(t)
    PROVE  SignExtended(t, c) \in Int64
<1>1. highest(t) <= 2 * MaxInt + 1 /\ (isSigned(t) => highest(t) <= MaxInt)
  BY TypeAssumption
<1>2. c \in Int /\ 0 <= c /\ c <= highest(t)
  BY Values
<1> QED
  BY <1>1, <1>2, Values, IntAssumption DEF SignExtended, Int64

\* foldConstInt gives a constant of int64.
LEMMA FoldSound ==
    ASSUME NEW t \in Type, NEW form \in {"literal", "negated", "folded"}, NEW c \in RangeOf(t),
           form # "folded" => c >= 0, Folds(form, c)
    PROVE  foldConstInt(form, t, c) \in Int64
<1>1. c \in Int /\ MinInt <= c /\ c <= highest(t)
  BY Values
<1>2. CASE form = "literal"
  BY <1>1, <1>2, Values, SignExtendedSound DEF foldConstInt
<1>3. CASE form = "negated"
  <2>1. SignExtended(t, c) \in Int64
    BY <1>1, <1>3, Values, SignExtendedSound
  <2> QED
    BY <1>3, <2>1, IntAssumption DEF foldConstInt, Int64
<1>4. CASE form = "folded"
  BY <1>1, <1>4, IntAssumption DEF foldConstInt, Folds, Int64
<1> QED
  BY <1>2, <1>3, <1>4

\* A cast keeps an interval only if no value of it changes by the conversion.
LEMMA CastSound ==
    ASSUME NEW t \in Type, NEW a \in Interval, NEW x \in Int
    PROVE  /\ integralCast(t, a) \in Interval
           /\ contains(a, x) => contains(integralCast(t, a), convert(t, x))
<1>1. CASE ~(Bounded(a) /\ a.lo >= lowest(t) /\ a.hi <= Least(highest(t), MaxInt))
  <2>1. convert(t, x) \in Int
    BY ConvertSound, Values
  <2> QED
    BY <1>1, <2>1, TopBottom DEF integralCast
<1>2. CASE Bounded(a) /\ a.lo >= lowest(t) /\ a.hi <= Least(highest(t), MaxInt)
  <2>1. integralCast(t, a) = a
    BY <1>2 DEF integralCast
  <2>2. ASSUME contains(a, x) PROVE convert(t, x) = x
    <3>1. a.lo \in Int /\ a.hi \in Int
      BY IntAssumption DEF Interval, NegInf, PosInf
    <3>2. a.lo <= x /\ x <= a.hi
      BY <1>2, <2>2 DEF contains, Bounded
    <3>3. a.hi <= highest(t)
      BY <1>2, <3>1, Values, IntAssumption DEF Least
    <3>4. lowest(t) <= x /\ x <= highest(t)
      BY <1>2, <3>1, <3>2, <3>3, Values
    <3> QED
      BY <3>4, Values, ConvertSound
  <2> QED
    BY <2>1, <2>2
<1> QED
  BY <1>1, <1>2

\* An end of an interval that is not infinite is in int64.
LEMMA Ends ==
    ASSUME NEW a \in Interval
    PROVE  /\ a.lo \in Int /\ a.hi \in Int
           /\ ~isEmpty(a) => (~loIsInf(a) => a.lo \in Int64) /\ (~hiIsInf(a) => a.hi \in Int64)
           /\ Bounded(a) => a.lo \in Int64 /\ a.hi \in Int64 /\ ~isEmpty(a)
           /\ \A x \in Int : contains(a, x) => /\ ~isEmpty(a)
                                               /\ loIsInf(a) \/ a.lo <= x
                                               /\ hiIsInf(a) \/ x <= a.hi
           /\ \A x \in Int : contains(a, x) /\ isSingleton(a) => x = a.lo
BY IntAssumption
   DEF Interval, Int64, NegInf, PosInf, isEmpty, loIsInf, hiIsInf, Bounded, isSingleton, contains

\* bitAnd: a mask, or the lesser of two upper bounds.
LEMMA BitAndSound ==
    ASSUME NEW l \in Interval, NEW r \in Interval, NEW t \in Type
    PROVE  /\ bitAnd(l, r) \in Interval
           /\ \A x, y \in RangeOf(t) :
                 contains(l, x) /\ contains(r, y) => contains(bitAnd(l, r), bitand(x, y))
<1> DEFINE nonNeg(a) == ~loIsInf(a) /\ a.lo >= 0
<1>0. 0 \in Int64
  BY IntAssumption DEF Int64
<1>1. \A hi \in Int64 : hi >= 0 =>
         /\ range(0, hi) \in Interval
         /\ \A v \in Int : 0 <= v /\ v <= hi => contains(range(0, hi), v)
  BY <1>0, RangeSound
<1>2. \A x, y \in RangeOf(t) :
         /\ x \in Int /\ y \in Int /\ bitand(x, y) \in Int
         /\ x >= 0 => 0 <= bitand(x, y) /\ bitand(x, y) <= x
         /\ y >= 0 => 0 <= bitand(x, y) /\ bitand(x, y) <= y
  <2> SUFFICES ASSUME NEW x \in RangeOf(t), NEW y \in RangeOf(t)
               PROVE  /\ x \in Int /\ y \in Int /\ bitand(x, y) \in Int
                      /\ x >= 0 => 0 <= bitand(x, y) /\ bitand(x, y) <= x
                      /\ y >= 0 => 0 <= bitand(x, y) /\ bitand(x, y) <= y
    OBVIOUS
  <2>1. x \in Int /\ y \in Int
    BY Values
  <2>2. /\ bitand(x, y) \in RangeOf(t)
        /\ x >= 0 => bitand(x, y) \in 0..x
        /\ y >= 0 => bitand(x, y) \in 0..y
    BY BitandAssumption
  <2> QED
    BY <2>1, <2>2, Values
<1>3. CASE isSingleton(r) /\ r.lo >= 0
  <2>1. bitAnd(l, r) = range(0, r.lo) /\ r.lo \in Int64
    BY <1>3, Ends DEF bitAnd, isSingleton
  <2> QED
    BY <1>1, <1>2, <1>3, <2>1, Ends
<1>4. CASE ~(isSingleton(r) /\ r.lo >= 0) /\ isSingleton(l) /\ l.lo >= 0
  <2>1. bitAnd(l, r) = range(0, l.lo) /\ l.lo \in Int64
    BY <1>4, Ends DEF bitAnd, isSingleton
  <2> QED
    BY <1>1, <1>2, <1>4, <2>1, Ends
<1> DEFINE NoMask == ~(isSingleton(r) /\ r.lo >= 0) /\ ~(isSingleton(l) /\ l.lo >= 0)
<1>5. \A a \in {l, r} : nonNeg(a) /\ ~hiIsInf(a) =>
         /\ a.hi \in Int64 /\ a.hi >= 0
         /\ \A v \in Int : contains(a, v) => 0 <= v /\ v <= a.hi
  BY IntAssumption DEF Interval, Int64, NegInf, PosInf, isEmpty, loIsInf, hiIsInf, contains
<1> DEFINE Within(hi) == \A x, y \in RangeOf(t) :
                           contains(l, x) /\ contains(r, y) =>
                             bitand(x, y) \in Int /\ 0 <= bitand(x, y) /\ bitand(x, y) <= hi
<1>6. ASSUME NEW hi \in Int64, hi >= 0, bitAnd(l, r) = range(0, hi), Within(hi)
       PROVE  /\ bitAnd(l, r) \in Interval
              /\ \A x, y \in RangeOf(t) :
                    contains(l, x) /\ contains(r, y) => contains(bitAnd(l, r), bitand(x, y))
  BY <1>1, <1>6
<1>7. ASSUME nonNeg(l), ~hiIsInf(l) PROVE l.hi \in Int64 /\ l.hi >= 0 /\ Within(l.hi)
  <2>1. l.hi \in Int64 /\ l.hi >= 0 /\ l.hi \in Int
    BY <1>5, <1>7, IntAssumption DEF Int64
  <2>2. ASSUME NEW x \in RangeOf(t), NEW y \in RangeOf(t), contains(l, x)
        PROVE  bitand(x, y) \in Int /\ 0 <= bitand(x, y) /\ bitand(x, y) <= l.hi
    <3>1. x \in Int /\ 0 <= x /\ x <= l.hi
      BY <1>2, <1>5, <1>7, <2>2
    <3> QED
      BY <1>2, <2>1, <3>1
  <2> QED
    BY <2>1, <2>2
<1>8. ASSUME nonNeg(r), ~hiIsInf(r) PROVE r.hi \in Int64 /\ r.hi >= 0 /\ Within(r.hi)
  <2>1. r.hi \in Int64 /\ r.hi >= 0 /\ r.hi \in Int
    BY <1>5, <1>8, IntAssumption DEF Int64
  <2>2. ASSUME NEW x \in RangeOf(t), NEW y \in RangeOf(t), contains(r, y)
        PROVE  bitand(x, y) \in Int /\ 0 <= bitand(x, y) /\ bitand(x, y) <= r.hi
    <3>1. y \in Int /\ 0 <= y /\ y <= r.hi
      BY <1>2, <1>5, <1>8, <2>2
    <3> QED
      BY <1>2, <2>1, <3>1
  <2> QED
    BY <2>1, <2>2
<1>9. CASE NoMask /\ nonNeg(l) /\ nonNeg(r) /\ ~hiIsInf(l) /\ ~hiIsInf(r)
  <2>1. bitAnd(l, r) = range(0, Least(l.hi, r.hi))
    BY <1>9 DEF bitAnd
  <2>2. CASE Least(l.hi, r.hi) = l.hi
    <3>1. l.hi \in Int64 /\ l.hi >= 0 /\ Within(l.hi)
      BY <1>9, <1>7
    <3> QED
      BY <1>6, <2>1, <2>2, <3>1
  <2>3. CASE Least(l.hi, r.hi) = r.hi
    <3>1. r.hi \in Int64 /\ r.hi >= 0 /\ Within(r.hi)
      BY <1>9, <1>8
    <3> QED
      BY <1>6, <2>1, <2>3, <3>1
  <2> QED
    BY <2>2, <2>3 DEF Least
<1>10. CASE NoMask /\ nonNeg(l) /\ ~hiIsInf(l) /\ ~(nonNeg(r) /\ ~hiIsInf(r))
  <2>1. bitAnd(l, r) = range(0, l.hi)
    BY <1>10 DEF bitAnd
  <2>2. l.hi \in Int64 /\ l.hi >= 0 /\ Within(l.hi)
    BY <1>10, <1>7
  <2> QED
    BY <1>6, <2>1, <2>2
<1>11. CASE NoMask /\ nonNeg(r) /\ ~hiIsInf(r) /\ ~(nonNeg(l) /\ ~hiIsInf(l))
  <2>1. bitAnd(l, r) = range(0, r.hi)
    BY <1>11 DEF bitAnd
  <2>2. r.hi \in Int64 /\ r.hi >= 0 /\ Within(r.hi)
    BY <1>11, <1>8
  <2> QED
    BY <1>6, <2>1, <2>2
<1>12. CASE NoMask /\ ~(nonNeg(l) /\ ~hiIsInf(l)) /\ ~(nonNeg(r) /\ ~hiIsInf(r))
  <2>1. bitAnd(l, r) = top
    BY <1>12 DEF bitAnd
  <2> QED
    BY <1>2, <2>1, TopBottom
<1> QED
  BY <1>3, <1>4, <1>9, <1>10, <1>11, <1>12

\* intRem: the remainder has the dividend's sign and is less than the divisor.
LEMMA RemSound ==
    ASSUME NEW l \in Interval, NEW r \in Interval
    PROVE  /\ intRem(l, r) \in Interval
           /\ \A x, y \in Int : contains(l, x) /\ contains(r, y) /\ y # 0
                                => contains(intRem(l, r), Remainder(x, y))
<1>1. \A m, n \in Int : n > 0 => m % n \in 0..(n - 1)
  OBVIOUS
<1>2. \A d \in Int : d # 0 => Magnitude(d) \in Int /\ Magnitude(d) > 0
  BY DEF Magnitude
<1>3. \A x, y \in Int : y # 0 =>
         /\ Remainder(x, y) \in Int
         /\ 1 - Magnitude(y) <= Remainder(x, y) /\ Remainder(x, y) <= Magnitude(y) - 1
         /\ x >= 0 => 0 <= Remainder(x, y)
  <2> SUFFICES ASSUME NEW x \in Int, NEW y \in Int, y # 0
               PROVE  /\ Remainder(x, y) \in Int
                      /\ 1 - Magnitude(y) <= Remainder(x, y) /\ Remainder(x, y) <= Magnitude(y) - 1
                      /\ x >= 0 => 0 <= Remainder(x, y)
    OBVIOUS
  <2> DEFINE n == Magnitude(y)
  <2>1. n \in Int /\ n > 0
    BY <1>2
  <2> HIDE DEF n
  <2>2. x % n \in 0..(n - 1) /\ (-x) % n \in 0..(n - 1)
    BY <1>1, <2>1
  <2>3. Remainder(x, y) = IF x >= 0 THEN x % n ELSE -((-x) % n)
    BY DEF Remainder, n
  <2>4. n = Magnitude(y)
    BY DEF n
  <2> QED
    BY <2>1, <2>2, <2>3, <2>4
<1>4. CASE ~isSingleton(r) \/ r.lo = 0
  <2>1. intRem(l, r) = top
    BY <1>4 DEF intRem
  <2> QED
    BY <1>3, <2>1, TopBottom
<1>5. CASE isSingleton(r) /\ r.lo # 0
  <2> DEFINE most == Magnitude(r.lo) - 1
  <2>1. r.lo \in Int64
    BY <1>5, Ends DEF isSingleton
  <2>2. most \in Int64 /\ 0 \in Int64 /\ -most \in Int64 /\ 1 - Magnitude(r.lo) = -most
    BY <1>5, <2>1, IntAssumption DEF Int64, Magnitude
  <2>3. \A y \in Int : contains(r, y) => y = r.lo
    BY <1>5, Ends
  <2>4. \A x, y \in Int : contains(l, x) /\ contains(r, y) /\ y # 0 =>
           /\ Remainder(x, y) \in Int /\ -most <= Remainder(x, y) /\ Remainder(x, y) <= most
           /\ x >= 0 => 0 <= Remainder(x, y)
    BY <1>3, <2>2, <2>3
  <2> HIDE DEF most
  <2>5. CASE ~loIsInf(l) /\ l.lo >= 0
    <3>1. intRem(l, r) = range(0, most)
      BY <1>5, <2>5 DEF intRem, most
    <3>2. \A x \in Int : contains(l, x) => x >= 0
      BY <2>5, Ends
    <3> QED
      BY <2>2, <2>4, <3>1, <3>2, RangeSound
  <2>6. CASE ~(~loIsInf(l) /\ l.lo >= 0)
    <3>1. intRem(l, r) = range(-most, most)
      BY <1>5, <2>2, <2>6 DEF intRem, most
    <3> QED
      BY <2>2, <2>4, <3>1, RangeSound
  <2> QED
    BY <2>5, <2>6
<1> QED
  BY <1>4, <1>5

\* The interval of an operator contains its exact result.
LEMMA BinarySound ==
    ASSUME NEW kind \in Operator, NEW l \in Operand, NEW r \in Operand, l.type = r.type,
           l.value \in RangeOf(l.type), r.value \in RangeOf(r.type),
           NEW exact \in Exact(kind, l.value, r.value, l.type)
    PROVE  /\ exact \in Int
           /\ BinaryInterval(kind, l.interval, r.interval) \in Interval
           /\ contains(l.interval, l.value) /\ contains(r.interval, r.value)
                => contains(BinaryInterval(kind, l.interval, r.interval), exact)
<1> DEFINE a == l.interval   b == r.interval   x == l.value   y == r.value
<1>1. /\ a \in Interval /\ b \in Interval /\ x \in Int /\ y \in Int /\ l.type \in Type
      /\ x \in RangeOf(l.type) /\ y \in RangeOf(l.type)
  BY DEF Operand
<1> HIDE DEF a, b, x, y
<1>2. exact \in Exact(kind, x, y, l.type)
  BY DEF x, y
<1> SUFFICES /\ exact \in Int
             /\ BinaryInterval(kind, a, b) \in Interval
             /\ contains(a, x) /\ contains(b, y) => contains(BinaryInterval(kind, a, b), exact)
  BY DEF a, b, x, y
<1>3. CASE kind = "add"
  <2>1. exact = x + y /\ BinaryInterval(kind, a, b) = add(a, b)
    BY <1>2, <1>3 DEF Exact, BinaryInterval
  <2> QED
    BY <1>1, <2>1, AddSound
<1>4. CASE kind = "sub"
  <2>1. exact = x - y /\ BinaryInterval(kind, a, b) = sub(a, b)
    BY <1>2, <1>4 DEF Exact, BinaryInterval
  <2> QED
    BY <1>1, <2>1, SubSound
<1>5. CASE kind = "mul"
  <2>1. exact = x * y /\ BinaryInterval(kind, a, b) = mul(a, b)
    BY <1>2, <1>5 DEF Exact, BinaryInterval
  <2> QED
    BY <1>1, <2>1, MulSound
<1>6. CASE kind = "and"
  <2>1. exact = bitand(x, y) /\ BinaryInterval(kind, a, b) = bitAnd(a, b)
    BY <1>2, <1>6 DEF Exact, BinaryInterval
  <2>2. bitand(x, y) \in Int
    BY <1>1, BitandAssumption, Values
  <2> QED
    BY <1>1, <2>1, <2>2, BitAndSound
<1>7. CASE kind = "rem"
  <2>1. y # 0 /\ exact = Remainder(x, y) /\ BinaryInterval(kind, a, b) = intRem(a, b)
    BY <1>2, <1>7 DEF Exact, BinaryInterval
  <2>2. Remainder(x, y) \in Int
    BY <1>1, <2>1 DEF Remainder, Magnitude
  <2> QED
    BY <1>1, <2>1, <2>2, RemSound
<1>8. CASE kind = "other"
  <2>1. exact \in RangeOf(l.type) /\ BinaryInterval(kind, a, b) = top
    BY <1>2, <1>8 DEF Exact, BinaryInterval
  <2> QED
    BY <1>1, <2>1, TopBottom, Values
<1> QED
  BY <1>3, <1>4, <1>5, <1>6, <1>7, <1>8 DEF Operator, Arithmetic

-----------------------------------------------------------------------------
(* The analysis: TypeOK and Contained together are inductive *)

IInv == TypeOK /\ Contained

\* An operand that represents its value.
Good(o) == o \in Operand /\ o.value \in RangeOf(o.type)
Tight(o) == contains(o.interval, o.value)

\* History only grows, and what has not happened did not happen now.
LEMMA NoteGrows ==
    ASSUME outside \subseteq Outside, NEW what \in Outside, NEW happened, Note(what, happened)
    PROVE  /\ outside' \subseteq Outside
           /\ outside' = {} => outside = {} /\ ~happened
BY DEF Note

\* A node without operands of its own puts its value and interval on the stack.
LEMMA PushKeeps ==
    ASSUME IInv, pc' = pc + 1, NEW o, Push(o), Good(o), outside' \subseteq Outside,
           outside' = {} => outside = {} /\ Tight(o)
    PROVE  IInv'
<1>1. TypeOK'
  <2>1. operands' \in Seq(Operand) /\ Len(operands') = Len(operands) + 1
    BY DEF IInv, TypeOK, Push, Good
  <2>2. \A i \in DOMAIN operands' : operands'[i].value \in RangeOf(operands'[i].type)
    BY DEF IInv, TypeOK, Push, Good
  <2> QED
    BY <2>1, <2>2 DEF IInv, TypeOK, Push
<1>2. ASSUME outside' = {} PROVE InRange'
  <2>1. InRange /\ Tight(o)
    BY <1>2 DEF IInv, Contained
  <2>2. \A i \in DOMAIN operands' : contains(operands'[i].interval, operands'[i].value)
    BY <2>1 DEF IInv, TypeOK, Push, InRange, Tight
  <2> QED
    BY <2>1, <2>2 DEF InRange, Push
<1> QED
  BY <1>1, <1>2 DEF IInv, Contained

\* A node with one operand replaces it.
LEMMA Replace1Keeps ==
    ASSUME IInv, pc' = pc + 1, operands # <<>>, NEW o, Replace1(o), Good(o), outside' \subseteq Outside,
           outside' = {} => outside = {} /\ Tight(o)
    PROVE  IInv'
<1>0. operands \in Seq(Operand) /\ Len(operands) \in 1..Len(operands)
  BY DEF IInv, TypeOK
<1>1. TypeOK'
  <2>1. operands' \in Seq(Operand)
    BY <1>0 DEF Replace1, Good
  <2>2. \A i \in DOMAIN operands' : operands'[i].value \in RangeOf(operands'[i].type)
    BY <1>0 DEF IInv, TypeOK, Replace1, Good
  <2> QED
    BY <2>1, <2>2 DEF IInv, TypeOK, Replace1
<1>2. ASSUME outside' = {} PROVE InRange'
  <2>1. InRange /\ Tight(o)
    BY <1>2 DEF IInv, Contained
  <2>2. \A i \in DOMAIN operands' : contains(operands'[i].interval, operands'[i].value)
    BY <1>0, <2>1 DEF Replace1, InRange, Tight
  <2> QED
    BY <2>1, <2>2 DEF InRange, Replace1
<1> QED
  BY <1>1, <1>2 DEF IInv, Contained

\* An operator replaces two.
LEMMA Replace2Keeps ==
    ASSUME IInv, pc' = pc + 1, Len(operands) >= 2, NEW o, Replace2(o), Good(o), outside' \subseteq Outside,
           outside' = {} => outside = {} /\ Tight(o)
    PROVE  IInv'
<1> DEFINE n == Len(operands) - 2
           below == SubSeq(operands, 1, n)
<1>0. operands \in Seq(Operand) /\ n \in Nat
  BY DEF IInv, TypeOK
<1>1. /\ below \in Seq(Operand) /\ Len(below) = n
      /\ \A i \in 1..n : below[i] = operands[i] /\ i \in DOMAIN operands
  <2>1. n <= Len(operands)
    BY <1>0
  <2> HIDE DEF n
  <2>2. \A i \in 1..n : operands[i] \in Operand
    BY <1>0, <2>1
  <2>3. /\ below \in Seq(Operand)
        /\ Len(below) = IF 1 <= n THEN n - 1 + 1 ELSE 0
        /\ \A i \in 1..(n - 1 + 1) : below[i] = operands[1 + i - 1]
    BY <1>0, <2>2, SubSeqProperties
  <2>4. \A i \in 1..n : 1 + i - 1 = i /\ i \in DOMAIN operands
    BY <1>0, <2>1
  <2>5. n - 1 + 1 = n
    BY <1>0
  <2> QED
    BY <1>0, <2>3, <2>4, <2>5
<1>2. operands' = Append(below, o)
  BY DEF Replace2
<1> HIDE DEF n, below
<1>3. /\ operands' \in Seq(Operand) /\ DOMAIN operands' = 1..(n + 1)
      /\ \A i \in 1..n : operands'[i] = operands[i] /\ i \in DOMAIN operands
      /\ operands'[n + 1] = o
  BY <1>0, <1>1, <1>2 DEF Good
<1>4. \A i \in 1..(n + 1) : i \in 1..n \/ i = n + 1
  BY <1>0
<1>5. TypeOK'
  <2>1. \A i \in DOMAIN operands' : operands'[i].value \in RangeOf(operands'[i].type)
    BY <1>3, <1>4 DEF IInv, TypeOK, Good
  <2> QED
    BY <1>3, <2>1 DEF IInv, TypeOK, Replace2
<1>6. ASSUME outside' = {} PROVE InRange'
  <2>1. InRange /\ Tight(o)
    BY <1>6 DEF IInv, Contained
  <2>2. \A i \in DOMAIN operands' : contains(operands'[i].interval, operands'[i].value)
    BY <1>3, <1>4, <2>1 DEF InRange, Tight
  <2> QED
    BY <2>1, <2>2 DEF InRange, Replace2
<1> QED
  BY <1>5, <1>6 DEF IInv, Contained

\* A statement gives a variable a value and an interval.
LEMMA BecomesKeeps ==
    ASSUME IInv, pc' = pc + 1, NEW v \in Var, NEW x \in RangeOf(typeOf(v)), NEW a \in Interval,
           Becomes(v, x, a), operands' \in {operands, <<>>}, untrusted' \subseteq Var,
           outside' \subseteq Outside,
           outside' = {} => outside = {} /\ contains(a, x)
    PROVE  IInv'
<1>0. x \in Int
  BY TypeAssumption, Values
<1>1. /\ operands' \in Seq(Operand)
      /\ \A i \in DOMAIN operands' : operands'[i].value \in RangeOf(operands'[i].type)
  <2>1. CASE operands' = operands
    BY <2>1 DEF IInv, TypeOK
  <2>2. CASE operands' = <<>>
    BY <2>2
  <2> QED
    BY <2>1, <2>2
<1>2. TypeOK'
  <2>1. env' \in [Var -> Int] /\ iv' \in [Var -> Interval]
    BY <1>0 DEF IInv, TypeOK, Becomes
  <2>2. \A w \in Var : env'[w] \in RangeOf(typeOf(w))
    BY DEF IInv, TypeOK, Becomes
  <2>3. pc' \in Nat \ {0}
    BY DEF IInv, TypeOK
  <2> QED
    BY <1>1, <2>1, <2>2, <2>3 DEF TypeOK
<1>3. ASSUME outside' = {} PROVE InRange'
  <2>1. InRange /\ contains(a, x)
    BY <1>3 DEF IInv, Contained
  <2>2. \A w \in Var : contains(iv'[w], env'[w])
    BY <2>1 DEF IInv, TypeOK, Becomes, InRange
  <2>3. \A i \in DOMAIN operands' : contains(operands'[i].interval, operands'[i].value)
    BY <2>1 DEF InRange
  <2> QED
    BY <2>2, <2>3 DEF InRange
<1> QED
  BY <1>2, <1>3 DEF IInv, Contained

\* The topmost operands are operands, tight as long as nothing is outside.
LEMMA TopOperands ==
    ASSUME IInv
    PROVE  /\ operands # <<>> => Good(Top1) /\ (outside = {} => Tight(Top1))
           /\ Len(operands) >= 2 => Good(Top2) /\ (outside = {} => Tight(Top2))
<1>1. ASSUME NEW i \in DOMAIN operands
      PROVE  Good(operands[i]) /\ (outside = {} => Tight(operands[i]))
  BY DEF IInv, TypeOK, Contained, InRange, Good, Tight
<1>2. operands \in Seq(Operand)
  BY DEF IInv, TypeOK
<1>3. operands # <<>> => Len(operands) \in DOMAIN operands
  BY <1>2
<1>4. Len(operands) >= 2 => Len(operands) - 1 \in DOMAIN operands
  BY <1>2
<1> QED
  BY <1>1, <1>3, <1>4 DEF Top1, Top2

\* What an operand built by Operate is.
LEMMA OperateGood ==
    ASSUME NEW t \in Type, NEW x \in RangeOf(t), NEW a \in Interval, NEW d \in BOOLEAN, NEW n \in Node
    PROVE  Good(Operate(t, x, a, d, n)) /\ (Tight(Operate(t, x, a, d, n)) <=> contains(a, x))
BY Values DEF Good, Tight, Operate, Operand

\* The nodes of an expression keep the invariant.
LEMMA ExpressionKeeps ==
    ASSUME IInv, Literal \/ Read \/ Source \/ Unknown \/ Cast \/ Minus \/ Binary
    PROVE  IInv'
<1> USE DEF Here
<1>0. "other" \in Node /\ "arith" \in Node /\ outside \subseteq Outside
  BY DEF Node, IInv, TypeOK
<1>1. CASE Literal
  <2> DEFINE t == path[pc].type
             c == path[pc].value
             o == Operate(t, c, constant(SignExtended(t, c)), FALSE, "other")
  <2>1. t \in Type /\ c \in 0..highest(t) /\ Push(o) /\ pc' = pc + 1
        /\ Note("literal", SignExtended(t, c) # c)
    BY <1>1 DEF Literal
  <2>2. SignExtended(t, c) \in Int64
    BY <2>1, SignExtendedSound
  <2>3. c \in RangeOf(t)
    BY <2>1, Values
  <2>4. Good(o) /\ (Tight(o) <=> contains(constant(SignExtended(t, c)), c))
    BY <1>0, <2>1, <2>2, <2>3, ConstantSound, OperateGood
  <2>5. outside' \subseteq Outside /\ (outside' = {} => outside = {} /\ SignExtended(t, c) = c)
    BY <1>0, <2>1, NoteGrows DEF Outside
  <2> HIDE DEF o, t, c
  <2>6. outside' = {} => outside = {} /\ Tight(o)
    BY <2>2, <2>4, <2>5, ConstantSound
  <2> QED
    BY <2>1, <2>4, <2>5, <2>6, PushKeeps
<1>2. CASE Read
  <2> DEFINE v == path[pc].var
             o == Operate(typeOf(v), env[v], iv[v], v \in untrusted, v)
  <2>1. v \in Var /\ Push(o) /\ pc' = pc + 1 /\ outside' = outside
    BY <1>2 DEF Read
  <2>2. typeOf(v) \in Type /\ v \in Node
    BY <2>1, TypeAssumption DEF Node
  <2>3. env[v] \in RangeOf(typeOf(v)) /\ iv[v] \in Interval
    BY <2>1 DEF IInv, TypeOK
  <2>4. (v \in untrusted) \in BOOLEAN
    OBVIOUS
  <2>5. Good(o) /\ (Tight(o) <=> contains(iv[v], env[v]))
    BY <2>2, <2>3, <2>4, OperateGood
  <2>6. outside = {} => contains(iv[v], env[v])
    BY <2>1 DEF IInv, Contained, InRange
  <2> HIDE DEF o
  <2> QED
    BY <1>0, <2>1, <2>5, <2>6, PushKeeps
<1>3. CASE Source
  <2> DEFINE t == path[pc].type
             a == IF hasRange(t) THEN intTypeRange(t) ELSE top
  <2>1. t \in Type /\ pc' = pc + 1 /\ outside' = outside
    BY <1>3 DEF Source
  <2>2. PICK x \in RangeOf(t) : Push(Operate(t, x, a, TRUE, "other"))
    BY <1>3 DEF Source
  <2>3. a \in Interval /\ contains(a, x)
    BY <2>1, <2>2, TypeRangeSound, TopBottom, Values
  <2>4. Good(Operate(t, x, a, TRUE, "other")) /\ Tight(Operate(t, x, a, TRUE, "other"))
    BY <1>0, <2>1, <2>2, <2>3, OperateGood
  <2> QED
    BY <1>0, <2>1, <2>2, <2>4, PushKeeps
<1>4. CASE Unknown
  <2> DEFINE t == path[pc].type
  <2>1. t \in Type /\ pc' = pc + 1 /\ outside' = outside
    BY <1>4 DEF Unknown
  <2>2. PICK x \in RangeOf(t) : Push(Operate(t, x, top, FALSE, "other"))
    BY <1>4 DEF Unknown
  <2>3. top \in Interval /\ contains(top, x)
    BY <2>1, <2>2, TopBottom, Values
  <2>4. Good(Operate(t, x, top, FALSE, "other")) /\ Tight(Operate(t, x, top, FALSE, "other"))
    BY <1>0, <2>1, <2>2, <2>3, OperateGood
  <2> QED
    BY <1>0, <2>1, <2>2, <2>4, PushKeeps
<1>5. CASE Cast
  <2> DEFINE t == path[pc].type
             s == Top1
             n == IF s.node = "arith" THEN "other" ELSE s.node
             o == Operate(t, convert(t, s.value), integralCast(t, s.interval), s.derived, n)
  <2>1. t \in Type /\ operands # <<>> /\ Replace1(o) /\ pc' = pc + 1 /\ outside' = outside
    BY <1>5 DEF Cast
  <2>2. Good(s) /\ (outside = {} => contains(s.interval, s.value))
    BY <2>1, TopOperands DEF Tight
  <2>3. s.value \in Int /\ s.interval \in Interval /\ s.derived \in BOOLEAN /\ n \in Node
    BY <1>0, <2>2 DEF Good, Operand
  <2> HIDE DEF s, n, t
  <2>4. convert(t, s.value) \in RangeOf(t) /\ integralCast(t, s.interval) \in Interval
    BY <2>1, <2>3, ConvertSound, CastSound
  <2>5. Good(o) /\ (Tight(o) <=> contains(integralCast(t, s.interval), convert(t, s.value)))
    BY <2>1, <2>3, <2>4, OperateGood
  <2>6. outside = {} => Tight(o)
    BY <2>1, <2>2, <2>3, <2>5, CastSound
  <2> HIDE DEF o
  <2> QED
    BY <1>0, <2>1, <2>5, <2>6, Replace1Keeps
<1>6. CASE Minus
  <2> DEFINE s == Top1
             o == Operate(s.type, convert(s.type, -s.value), negate(s.interval), s.derived, "other")
  <2>1. operands # <<>> /\ Replace1(o) /\ pc' = pc + 1 /\ Note("wrap", -s.value \notin RangeOf(s.type))
    BY <1>6 DEF Minus
  <2>2. Good(s) /\ (outside = {} => contains(s.interval, s.value))
    BY <2>1, TopOperands DEF Tight
  <2>3. s.value \in Int /\ s.interval \in Interval /\ s.derived \in BOOLEAN /\ s.type \in Type
    BY <2>2 DEF Good, Operand
  <2> HIDE DEF s
  <2>4. -s.value \in Int /\ negate(s.interval) \in Interval
    BY <2>3, NegateSound
  <2>5. convert(s.type, -s.value) \in RangeOf(s.type)
    BY <2>3, <2>4, ConvertSound
  <2>6. Good(o) /\ (Tight(o) <=> contains(negate(s.interval), convert(s.type, -s.value)))
    BY <1>0, <2>3, <2>4, <2>5, OperateGood
  <2>7. outside' \subseteq Outside /\ (outside' = {} => outside = {} /\ -s.value \in RangeOf(s.type))
    BY <1>0, <2>1, NoteGrows DEF Outside
  <2>8. outside' = {} => outside = {} /\ Tight(o)
    BY <2>2, <2>3, <2>4, <2>6, <2>7, NegateSound, ConvertSound
  <2> HIDE DEF o
  <2> QED
    BY <2>1, <2>6, <2>7, <2>8, Replace1Keeps
<1>7. CASE Binary
  <2> DEFINE kind == path[pc].kind
             l == Top2
             r == Top1
             a == BinaryInterval(kind, l.interval, r.interval)
             d == l.derived \/ r.derived
             n == IF kind \in Arithmetic /\ ~SelfSquare(kind, l, r) THEN "arith" ELSE "other"
  <2>1. kind \in Operator /\ Len(operands) >= 2 /\ l.type = r.type /\ pc' = pc + 1
    BY <1>7 DEF Binary
  <2>2. PICK exact \in Exact(kind, l.value, r.value, l.type) :
            /\ Replace2(Operate(l.type, convert(l.type, exact), a, d, n))
            /\ Note("wrap", exact \notin RangeOf(l.type))
    BY <1>7 DEF Binary
  <2>3. operands # <<>>
    BY <2>1 DEF IInv, TypeOK
  <2>4. /\ Good(l) /\ (outside = {} => contains(l.interval, l.value))
        /\ Good(r) /\ (outside = {} => contains(r.interval, r.value))
    BY <2>1, <2>3, TopOperands DEF Tight
  <2>5. /\ l \in Operand /\ r \in Operand /\ l.type \in Type /\ d \in BOOLEAN
        /\ l.value \in RangeOf(l.type) /\ r.value \in RangeOf(r.type)
    BY <2>4 DEF Good, Operand
  <2>6. n \in Node
    BY <1>0
  <2> HIDE DEF kind, l, r, d, n
  <2>7. /\ exact \in Int /\ a \in Interval
        /\ contains(l.interval, l.value) /\ contains(r.interval, r.value) => contains(a, exact)
    BY <2>1, <2>2, <2>5, BinarySound
  <2>8. /\ convert(l.type, exact) \in RangeOf(l.type)
        /\ exact \in RangeOf(l.type) => convert(l.type, exact) = exact
    BY <2>5, <2>7, ConvertSound
  <2> HIDE DEF a
  <2> DEFINE o == Operate(l.type, convert(l.type, exact), a, d, n)
  <2>9. Good(o) /\ (Tight(o) <=> contains(a, convert(l.type, exact)))
    BY <2>5, <2>6, <2>7, <2>8, OperateGood
  <2>10. outside' \subseteq Outside /\ (outside' = {} => outside = {} /\ exact \in RangeOf(l.type))
    BY <1>0, <2>2, NoteGrows DEF Outside
  <2>11. outside' = {} => outside = {} /\ Tight(o)
    BY <2>4, <2>7, <2>8, <2>9, <2>10
  <2>12. Replace2(o)
    BY <2>2
  <2> HIDE DEF o
  <2> QED
    BY <2>1, <2>9, <2>10, <2>11, <2>12, Replace2Keeps
<1> QED
  BY <1>1, <1>2, <1>3, <1>4, <1>5, <1>6, <1>7

\* What AtStatement says.
LEMMA StatementFacts ==
    ASSUME IInv, NEW op, AtStatement(op)
    PROVE  /\ path[pc].var \in Var /\ typeOf(path[pc].var) \in Type
           /\ pc' = pc + 1 /\ path' = path /\ operands' = operands
BY TypeAssumption DEF AtStatement, Here

\* Assignments, and whatever else writes a variable, keep the invariant.
LEMMA StatementKeeps ==
    ASSUME IInv, Parameter \/ Assign \/ Static \/ Rewrite \/ Scan \/ Fill
    PROVE  IInv'
<1> DEFINE v == path[pc].var
<1>0. outside \subseteq Outside /\ untrusted \subseteq Var
  BY DEF IInv, TypeOK
<1>1. CASE Parameter
  <2> DEFINE seed == path[pc].seed
  <2>1. /\ v \in Var /\ pc' = pc + 1 /\ operands' = operands /\ seed \in Interval
        /\ untrusted' = untrusted /\ outside' = outside
    BY <1>1, StatementFacts DEF Parameter
  <2>2. PICK x \in RangeOf(typeOf(v)) : contains(seed, x) /\ Becomes(v, x, seed)
    BY <1>1 DEF Parameter
  <2> HIDE DEF v, seed
  <2> QED
    BY <1>0, <2>1, <2>2, BecomesKeeps
<1>2. CASE Assign
  <2> DEFINE o == Top1
  <2>1. /\ v \in Var /\ pc' = pc + 1 /\ operands' = <<>> /\ outside' = outside
        /\ Len(operands) = 1 /\ o.type = typeOf(v) /\ Becomes(v, o.value, o.interval)
        /\ untrusted' \subseteq Var
    BY <1>0, <1>2 DEF Assign, Here
  <2>2. operands # <<>>
    <3>1. Len(<<>>) = 0
      OBVIOUS
    <3>2. Len(operands) # 0
      BY <2>1
    <3> QED
      BY <3>1, <3>2, Zenon
  <2>3. Good(o) /\ (outside = {} => contains(o.interval, o.value))
    BY <2>2, TopOperands DEF Tight
  <2>4. o.value \in RangeOf(typeOf(v)) /\ o.interval \in Interval
    BY <2>1, <2>3 DEF Good, Operand
  <2> HIDE DEF v, o
  <2> QED
    BY <1>0, <2>1, <2>3, <2>4, BecomesKeeps
<1>3. CASE Rewrite
  <2>1. PICK op : /\ AtStatement(op)
                  /\ \E x \in RangeOf(typeOf(v)) : Becomes(v, x, top)
                  /\ untrusted' = IF op \in {"declare", "refArg"} THEN untrusted \ {v} ELSE untrusted
                  /\ outside' = outside
    BY <1>3 DEF Rewrite
  <2>2. PICK x \in RangeOf(typeOf(v)) : Becomes(v, x, top)
    BY <2>1
  <2>3. v \in Var /\ typeOf(v) \in Type /\ pc' = pc + 1 /\ operands' = operands
    BY <2>1, StatementFacts
  <2>4. top \in Interval /\ contains(top, x)
    BY <2>3, TopBottom, Values
  <2> HIDE DEF v
  <2> QED
    BY <1>0, <2>1, <2>2, <2>3, <2>4, BecomesKeeps
<1>4. CASE Scan
  <2> DEFINE field == path[pc].field
             t == typeOf(v)
             seed == meet(intTypeRange(t), field)
             seeded == hasRange(t) /\ ~isEmpty(seed)
             a == IF seeded THEN seed ELSE top
  <2>1. /\ v \in Var /\ t \in Type /\ pc' = pc + 1 /\ operands' = operands /\ field \in Interval
        /\ untrusted' \subseteq Var
    BY <1>0, <1>4, StatementFacts DEF Scan
  <2>2. PICK x \in {env[v]} \cup {y \in RangeOf(t) : contains(field, y)} :
            /\ env' = [env EXCEPT ![v] = x]
            /\ Note("unmatched", seeded /\ ~contains(field, x))
    BY <1>4 DEF Scan
  <2>3. Becomes(v, x, a)
    BY <1>4, <2>2 DEF Scan, Becomes
  <2>4. x \in RangeOf(t) /\ x \in Int
    BY <2>1, <2>2, Values DEF IInv, TypeOK
  <2>5. a \in Interval
    BY <2>1, TypeRangeSound, MeetSound, TopBottom
  <2>6. /\ outside' \subseteq Outside
        /\ outside' = {} => outside = {} /\ (seeded => contains(field, x))
    BY <1>0, <2>2, NoteGrows DEF Outside
  <2>7. (seeded => contains(field, x)) => contains(a, x)
    <3>1. CASE seeded
      <4>1. contains(intTypeRange(t), x)
        BY <2>1, <2>4, <3>1, TypeRangeSound
      <4>2. intTypeRange(t) \in Interval
        BY <2>1, <3>1, TypeRangeSound
      <4>3. contains(field, x) => contains(seed, x)
        BY <2>1, <2>4, <4>1, <4>2, MeetSound
      <4> QED
        BY <3>1, <4>3
    <3>2. CASE ~seeded
      BY <2>4, <3>2, TopBottom
    <3> QED
      BY <3>1, <3>2
  <2>8. outside' = {} => outside = {} /\ contains(a, x)
    BY <2>6, <2>7
  <2> HIDE DEF v, a, seeded, seed, field
  <2> QED
    BY <2>1, <2>3, <2>4, <2>5, <2>6, <2>8, BecomesKeeps
<1>5. CASE Fill
  <2> DEFINE t == typeOf(v)
  <2>1. /\ v \in Var /\ t \in Type /\ pc' = pc + 1 /\ operands' = operands
        /\ untrusted' \subseteq Var
    BY <1>0, <1>5, StatementFacts DEF Fill
  <2>2. PICK x \in RangeOf(t) : Becomes(v, x, Filled(v))
    BY <1>5 DEF Fill
  <2>3. outside' \subseteq Outside /\ (outside' = {} => outside = {} /\ hasRange(t))
    BY <1>0, <1>5, NoteGrows DEF Fill, Outside
  <2>4. Filled(v) \in Interval
    BY <2>1, TypeRangeSound DEF Filled, IInv, TypeOK
  <2>5. outside' = {} => outside = {} /\ contains(Filled(v), x)
    BY <2>1, <2>2, <2>3, TypeRangeSound DEF Filled
  <2> HIDE DEF v
  <2> QED
    BY <2>1, <2>2, <2>3, <2>4, <2>5, BecomesKeeps
<1>6. CASE Static
  <2> DEFINE o == Top1
  <2>1. /\ v \in Var /\ pc' = pc + 1 /\ operands' = <<>>
        /\ Len(operands) = 1 /\ o.type = typeOf(v)
        /\ untrusted' \subseteq Var
    BY <1>0, <1>6 DEF Static, Here
  <2>2. PICK x \in RangeOf(typeOf(v)) : Becomes(v, x, o.interval) /\ Note("static", x # o.value)
    BY <1>6 DEF Static
  <2>3. operands # <<>>
    <3>1. Len(<<>>) = 0
      OBVIOUS
    <3>2. Len(operands) # 0
      BY <2>1
    <3> QED
      BY <3>1, <3>2, Zenon
  <2>4. Good(o) /\ (outside = {} => contains(o.interval, o.value))
    BY <2>3, TopOperands DEF Tight
  <2>5. o.interval \in Interval
    BY <2>4 DEF Good, Operand
  <2>6. outside' \subseteq Outside /\ (outside' = {} => outside = {} /\ x = o.value)
    BY <1>0, <2>2, NoteGrows DEF Outside
  <2>7. outside' = {} => outside = {} /\ contains(o.interval, x)
    BY <2>4, <2>6
  <2> HIDE DEF v, o
  <2> QED
    BY <2>1, <2>2, <2>5, <2>6, <2>7, BecomesKeeps
<1> QED
  BY <1>1, <1>2, <1>3, <1>4, <1>5, <1>6

\* A step that writes no variable and leaves the operands alone.
LEMMA NarrowKeeps ==
    ASSUME IInv, pc' = pc + 1, env' = env, operands' = operands, untrusted' \subseteq Var,
           iv' \in [Var -> Interval], outside' \subseteq Outside,
           outside' = {} => /\ outside = {}
                            /\ \A w \in Var : contains(iv[w], env[w]) => contains(iv'[w], env[w])
    PROVE  IInv'
<1>1. TypeOK'
  BY DEF IInv, TypeOK
<1>2. ASSUME outside' = {} PROVE InRange'
  BY <1>2 DEF IInv, Contained, InRange
<1> QED
  BY <1>1, <1>2 DEF IInv, Contained

\* A comparison that converts neither side holds of the values themselves, and
\* its negation on the other edge.
LEMMA EdgeHolds ==
    ASSUME NEW cmp \in Comparison, NEW x \in Int, NEW c \in Int, NEW edge, edge = Holds(cmp, x, c)
    PROVE  LET effective == IF edge THEN cmp ELSE negateCmp(cmp)
           IN  effective \in Comparison /\ Holds(effective, x, c)
<1>1. /\ negateCmp(cmp) \in Comparison
      /\ Holds(cmp, x, c) \in BOOLEAN
      /\ ~Holds(cmp, x, c) => Holds(negateCmp(cmp), x, c)
  <2>1. CASE cmp = "<"
    BY <2>1 DEF Comparison, negateCmp, Holds
  <2>2. CASE cmp = "<="
    BY <2>2 DEF Comparison, negateCmp, Holds
  <2>3. CASE cmp = ">"
    BY <2>3 DEF Comparison, negateCmp, Holds
  <2>4. CASE cmp = ">="
    BY <2>4 DEF Comparison, negateCmp, Holds
  <2>5. CASE cmp = "=="
    BY <2>5 DEF Comparison, negateCmp, Holds
  <2>6. CASE cmp = "!="
    BY <2>6 DEF Comparison, negateCmp, Holds
  <2> QED
    BY <2>1, <2>2, <2>3, <2>4, <2>5, <2>6 DEF Comparison
<1>2. CASE edge
  BY <1>2
<1>3. CASE ~edge
  BY <1>1, <1>3
<1> QED
  BY <1>1, <1>2, <1>3

\* Guards, joins and widening, and a store through a pointer, keep the invariant.
LEMMA BranchKeeps ==
    ASSUME IInv, StoreThrough \/ Compare \/ Truth \/ Join \/ Widen
    PROVE  IInv'
<1> DEFINE v == path[pc].var
<1>0. /\ outside \subseteq Outside /\ untrusted \subseteq Var
      /\ env \in [Var -> Int] /\ iv \in [Var -> Interval]
      /\ \A w \in Var : env[w] \in RangeOf(typeOf(w))
  BY DEF IInv, TypeOK
<1>1. CASE StoreThrough
  <2>1. /\ v \in Var /\ typeOf(v) \in Type /\ pc' = pc + 1 /\ operands' = operands
        /\ iv' = iv /\ untrusted' = untrusted /\ Note("alias", TRUE)
    BY <1>1, StatementFacts DEF StoreThrough
  <2>2. PICK x \in RangeOf(typeOf(v)) : env' = [env EXCEPT ![v] = x]
    BY <1>1 DEF StoreThrough
  <2>3. Becomes(v, x, iv[v])
    BY <1>0, <2>1, <2>2 DEF Becomes
  <2>4. outside' \subseteq Outside /\ outside' # {}
    BY <1>0, <2>1, NoteGrows DEF Outside
  <2>5. iv[v] \in Interval
    BY <1>0, <2>1
  <2> HIDE DEF v
  <2> QED
    BY <1>0, <2>1, <2>3, <2>4, <2>5, BecomesKeeps
<1>2. CASE Compare
  <2> DEFINE i == path[pc]
             own == ConstantValue(i.form, i.type, i.value)
             c == foldConstInt(i.form, i.type, i.value)
             common == commonType(typeOf(v), i.type)
             effective == IF i.edge THEN i.cmp ELSE negateCmp(i.cmp)
             held == Holds(i.cmp, convert(common, env[v]), convert(common, own))
             lost == effective = ">" /\ c = MaxInt /\ env[v] > MaxInt
             converted == convert(common, env[v]) # env[v] \/ convert(common, own) # own
  <2>1. /\ v \in Var /\ typeOf(v) \in Type /\ pc' = pc + 1 /\ operands' = operands
        /\ env' = env /\ untrusted' = untrusted
    BY <1>2, StatementFacts DEF Compare
  <2>2. /\ i.type \in Type /\ i.form \in {"literal", "negated", "folded"} /\ i.cmp \in Comparison
        /\ i.value \in RangeOf(i.type) /\ (i.form # "folded" => i.value >= 0)
        /\ i.edge = held
    BY <1>2 DEF Compare
  <2>3. iv' = IF Folds(i.form, i.value) THEN [iv EXCEPT ![v] = constrainBy(@, effective, c)] ELSE iv
    BY <1>2 DEF Compare
  <2>4. outside' = outside \cup (IF converted THEN {"comparison"} ELSE {})
                           \cup (IF c # own THEN {"literal"} ELSE {})
                           \cup (IF lost THEN {"beyond"} ELSE {})
    BY <1>2 DEF Compare
  <2>5. own \in Int /\ env[v] \in Int /\ MinInt <= env[v]
    <3>1. i.value \in Int /\ -i.value \in Int
      BY <2>2, Values
    <3>2. convert(i.type, -i.value) \in Int
      BY <2>2, <3>1, ConvertSound, Values
    <3>3. env[v] \in Int /\ MinInt <= env[v]
      BY <1>0, <2>1, Values
    <3> QED
      BY <3>1, <3>2, <3>3 DEF ConstantValue
  <2>6. common \in Type
    BY <2>1, <2>2, TypeAssumption
  <2>7. Folds(i.form, i.value) => c \in Int64
    BY <2>2, FoldSound
  <2>8. outside' \subseteq Outside /\ (outside' = {} => outside = {} /\ ~converted /\ c = own /\ ~lost)
    <3> HIDE DEF converted, lost, c, own
    <3> QED
      BY <1>0, <2>4 DEF Outside
  <2>9. effective \in Comparison
    <3>1. convert(common, env[v]) \in Int /\ convert(common, own) \in Int
      BY <2>5, <2>6, ConvertSound, Values
    <3> QED
      BY <2>2, <3>1, EdgeHolds
  <2>10. outside' = {} => Holds(effective, env[v], c)
    <3> SUFFICES ASSUME outside' = {} PROVE Holds(effective, env[v], c)
      OBVIOUS
    <3>1. held = Holds(i.cmp, env[v], c) /\ c \in Int
      BY <2>5, <2>8
    <3> QED
      BY <2>2, <2>5, <3>1, EdgeHolds
  <2> HIDE DEF v, c, own, effective, common, held, converted
  <2>11. Folds(i.form, i.value) => constrainBy(iv[v], effective, c) \in Interval
    BY <1>0, <2>1, <2>7, <2>9, ConstrainSound
  <2>12. iv' \in [Var -> Interval]
    BY <1>0, <2>1, <2>3, <2>11
  <2>13. outside' = {} => \A w \in Var : contains(iv[w], env[w]) => contains(iv'[w], env[w])
    <3> SUFFICES ASSUME outside' = {}, NEW w \in Var, contains(iv[w], env[w])
                 PROVE  contains(iv'[w], env[w])
      OBVIOUS
    <3>1. CASE w = v /\ Folds(i.form, i.value)
      <4>1. iv'[w] = constrainBy(iv[v], effective, c)
        BY <1>0, <2>3, <3>1
      <4>2. effective = ">" /\ c = MaxInt => env[v] <= MaxInt
        BY <2>5, <2>8, IntAssumption
      <4> QED
        BY <1>0, <2>5, <2>7, <2>9, <2>10, <3>1, <4>1, <4>2, ConstrainSound
    <3>2. CASE ~(w = v /\ Folds(i.form, i.value))
      BY <1>0, <2>3, <3>2
    <3> QED
      BY <3>1, <3>2
  <2> QED
    BY <1>0, <2>1, <2>8, <2>12, <2>13, NarrowKeeps
<1>3. CASE Truth
  <2> DEFINE edge == path[pc].edge
             a == IF edge THEN constrainNe(iv[v], 0) ELSE constrainEq(iv[v], 0)
  <2>1. /\ v \in Var /\ typeOf(v) \in Type /\ pc' = pc + 1 /\ operands' = operands
        /\ env' = env /\ untrusted' = untrusted /\ outside' = outside
        /\ edge = (env[v] # 0)
    BY <1>3, StatementFacts DEF Truth
  <2>2. iv' = [iv EXCEPT ![v] = a]
    BY <1>0, <1>3, <2>1 DEF Truth
  <2>3. 0 \in Int64 /\ 0 # MaxInt
    BY IntAssumption DEF Int64
  <2>4. /\ env[v] \in Int /\ MinInt <= env[v] /\ iv[v] \in Interval
    BY <1>0, <2>1, Values
  <2>5. CASE edge
    <3>1. a = constrainBy(iv[v], "!=", 0) /\ Holds("!=", env[v], 0) /\ "!=" \in Comparison
      BY <2>1, <2>5 DEF constrainBy, Holds, Comparison
    <3>2. a \in Interval /\ (contains(iv[v], env[v]) => contains(a, env[v]))
      BY <2>3, <2>4, <3>1, ConstrainSound
    <3> HIDE DEF v, a
    <3> QED
      BY <1>0, <2>1, <2>2, <3>2, NarrowKeeps
  <2>6. CASE ~edge
    <3>1. a = constrainBy(iv[v], "==", 0) /\ Holds("==", env[v], 0) /\ "==" \in Comparison
      BY <2>1, <2>6 DEF constrainBy, Holds, Comparison
    <3>2. a \in Interval /\ (contains(iv[v], env[v]) => contains(a, env[v]))
      BY <2>3, <2>4, <3>1, ConstrainSound
    <3> HIDE DEF v, a
    <3> QED
      BY <1>0, <2>1, <2>2, <3>2, NarrowKeeps
  <2> QED
    BY <2>5, <2>6
<1>4. CASE Join
  <2> DEFINE other == path[pc]
  <2>1. /\ pc' = pc + 1 /\ operands' = operands /\ env' = env /\ outside' = outside
        /\ other.iv \in [Var -> Interval] /\ other.untrusted \in SUBSET Var
        /\ iv' = [w \in Var |-> join(iv[w], other.iv[w])]
        /\ untrusted' = untrusted \cup other.untrusted
    BY <1>4 DEF Join, Here
  <2>2. \A w \in Var : /\ join(iv[w], other.iv[w]) \in Interval
                       /\ contains(iv[w], env[w]) => contains(join(iv[w], other.iv[w]), env[w])
    BY <1>0, <2>1, JoinSound
  <2> HIDE DEF other
  <2> QED
    BY <1>0, <2>1, <2>2, NarrowKeeps
<1>5. CASE Widen
  <2>1. /\ pc' = pc + 1 /\ operands' = operands /\ env' = env /\ outside' = outside
        /\ iv' = [w \in Var |-> IF isSingleton(iv[w]) THEN iv[w] ELSE top]
        /\ untrusted' = untrusted
    BY <1>5 DEF Widen, Here
  <2> QED
    BY <1>0, <2>1, TopBottom, NarrowKeeps
<1> QED
  BY <1>1, <1>2, <1>3, <1>4, <1>5

-----------------------------------------------------------------------------
(* The theorems *)

LEMMA InitSound == Init => IInv
<1> SUFFICES ASSUME Init PROVE IInv
  OBVIOUS
<1>1. \A v \in Var : typeOf(v) \in Type /\ 0 \in RangeOf(typeOf(v))
  BY TypeAssumption, Values
<1>2. TypeOK
  BY <1>1, TopBottom DEF Init, TypeOK
<1>3. InRange
  BY TopBottom DEF Init, InRange
<1> QED
  BY <1>2, <1>3 DEF IInv, Contained

LEMMA StutterSound == IInv /\ UNCHANGED vars => IInv'
BY DEF IInv, TypeOK, Contained, InRange, vars

\* The invariant holds whatever the types, the path and the values.
THEOREM Inductive == Spec => []IInv
<1>1. IInv /\ [Next]_vars => IInv'
  BY ExpressionKeeps, StatementKeeps, BranchKeeps, StutterSound DEF Next
<1> QED
  BY <1>1, InitSound, PTL DEF Spec

\* Intervals stay in int64 and values in their types.
THEOREM TypeCorrect == Spec => []TypeOK
<1>1. IInv => TypeOK
  BY DEF IInv
<1> QED
  BY <1>1, Inductive, PTL

\* The soundness of the interval analysis: for every width of int64, all types
\* up to 64 bits, every path and every value, what the analysis holds of a
\* variable or an expression contains its value, unless one of the things that
\* `outside' names has happened.
THEOREM ContainedAlways == Spec => []Contained
<1>1. IInv => Contained
  BY DEF IInv
<1> QED
  BY <1>1, Inductive, PTL

-----------------------------------------------------------------------------
(* The overflow rule *)

\* Products of integers of magnitude at most h have magnitude at most h * h.
LEMMA ProductBound ==
    ASSUME NEW h \in Int, NEW x \in Int, -h <= x, x <= h, NEW y \in Int, -h <= y, y <= h
    PROVE  x * y \in Int /\ -(h * h) <= x * y /\ x * y <= h * h
<1> DEFINE corners == {(-h) * (-h), (-h) * h, h * (-h), h * h}
<1>1. (\E c \in corners : c <= x * y) /\ (\E c \in corners : x * y <= c)
  BY BetweenCorners
<1>2. h >= 0 /\ h * h \in Int /\ x * y \in Int
  OBVIOUS
<1>3. (-h) * (-h) = h * h /\ (-h) * h = -(h * h) /\ h * (-h) = -(h * h)
  OBVIOUS
<1>4. h * h >= 0
  <2>1. 0 * h <= h * h
    BY <1>2, ProductMonotone
  <2> QED
    BY <1>2, <2>1
<1>5. \A c \in corners : c \in Int /\ -(h * h) <= c /\ c <= h * h
  BY <1>2, <1>3, <1>4
<1> HIDE DEF corners
<1>6. PICK c \in corners, d \in corners : c <= x * y /\ x * y <= d
  BY <1>1
<1> QED
  BY <1>2, <1>5, <1>6

\* Below 64 bits, bounds that are values of the type have a bounded result.
LEMMA NarrowBounded ==
    ASSUME NEW kind \in Arithmetic, NEW t \in Type, isSigned(t), ~Is64(t),
           NEW a \in Interval, Bounded(a), a.lo \in RangeOf(t), a.hi \in RangeOf(t),
           NEW b \in Interval, Bounded(b), b.lo \in RangeOf(t), b.hi \in RangeOf(t)
    PROVE  Bounded(BinaryInterval(kind, a, b))
<1> DEFINE h == highest(t) + 1
<1>1. h \in Int /\ h >= 2 /\ highest(t) < MaxInt /\ lowest(t) = -h
  BY TypeAssumption, WidthAssumption, Values, IntAssumption DEF Is64
<1>2. h * h \in Int /\ h * h <= MaxInt
  BY <1>1, WidthAssumption
<1>3. h + h <= MaxInt
  <2>1. 2 * h <= h * h
    BY <1>1, ProductMonotone
  <2>2. 2 * h = h + h
    BY <1>1
  <2> QED
    BY <1>1, <1>2, <2>1, <2>2, IntAssumption
<1>4. \A e \in {a.lo, a.hi, b.lo, b.hi} : e \in Int /\ -h <= e /\ e <= h
  BY <1>1, Values
<1>5. ~isEmpty(a) /\ ~isEmpty(b)
  BY Ends
<1>6. a.lo # NegInf /\ a.hi # PosInf /\ b.lo # NegInf /\ b.hi # PosInf
  BY DEF Bounded, loIsInf, hiIsInf
<1>7. CASE kind = "add"
  <2>1. a.lo + b.lo \in Int64 /\ a.hi + b.hi \in Int64
    <3> HIDE DEF h
    <3> QED
      BY <1>1, <1>3, <1>4, IntAssumption DEF Int64
  <2>2. add(a, b) = [lo |-> a.lo + b.lo, hi |-> a.hi + b.hi]
    BY <1>5, <1>6, <2>1 DEF add
  <2>3. BinaryInterval(kind, a, b) = add(a, b)
    BY <1>7 DEF BinaryInterval
  <2> QED
    BY <1>4, <1>5, <2>1, <2>2, <2>3, IntAssumption
       DEF Bounded, loIsInf, hiIsInf, isEmpty, Int64, NegInf, PosInf
<1>8. CASE kind = "sub"
  <2>1. -b.hi \in Int64 /\ -b.lo \in Int64
    <3> HIDE DEF h
    <3> QED
      BY <1>1, <1>3, <1>4, IntAssumption DEF Int64
  <2>2. negate(b) = [lo |-> -b.hi, hi |-> -b.lo]
    BY <1>5, <1>6, <2>1 DEF negate
  <2> DEFINE n == negate(b)
  <2>3. n.lo # NegInf /\ n.hi # PosInf /\ n.lo <= n.hi /\ n.lo \in Int /\ n.hi \in Int
        /\ -h <= n.lo /\ n.hi <= h
    <3> HIDE DEF h
    <3> QED
      BY <1>1, <1>4, <1>5, <2>1, <2>2, IntAssumption DEF isEmpty, Int64, NegInf, PosInf
  <2>4. ~isEmpty(n)
    BY <2>3 DEF isEmpty
  <2> HIDE DEF n
  <2>5. a.lo + n.lo \in Int64 /\ a.hi + n.hi \in Int64
    <3>1. a.lo <= a.hi
      BY <1>4, <1>5 DEF isEmpty
    <3> HIDE DEF h
    <3> QED
      BY <1>1, <1>3, <1>4, <2>3, <3>1, IntAssumption DEF Int64
  <2>6. add(a, n) = [lo |-> a.lo + n.lo, hi |-> a.hi + n.hi]
    BY <1>5, <1>6, <2>3, <2>4, <2>5 DEF add
  <2>7. BinaryInterval(kind, a, b) = add(a, n)
    BY <1>8 DEF BinaryInterval, sub, n
  <2> QED
    BY <1>4, <1>5, <2>3, <2>5, <2>6, <2>7, IntAssumption
       DEF Bounded, loIsInf, hiIsInf, isEmpty, Int64, NegInf, PosInf
<1>9. CASE kind = "mul"
  <2> DEFINE p == a.lo * b.lo   q == a.lo * b.hi
             r == a.hi * b.lo   s == a.hi * b.hi
  <2>1. \A e \in {a.lo, a.hi}, f \in {b.lo, b.hi} :
           e * f \in Int /\ -(h * h) <= e * f /\ e * f <= h * h
    <3> HIDE DEF h
    <3> QED
      BY <1>1, <1>4, ProductBound
  <2>2. \A z \in Int : -(h * h) <= z /\ z <= h * h => z \in Int64
    <3> DEFINE hh == h * h
    <3>1. hh \in Int /\ hh <= MaxInt
      BY <1>2
    <3> HIDE DEF hh
    <3>2. \A z \in Int : -hh <= z /\ z <= hh => z \in Int64
      BY <3>1, IntAssumption DEF Int64
    <3> QED
      BY <3>2 DEF hh
  <2>3. {p, q, r, s} \subseteq Int64
    BY <2>1, <2>2
  <2> DEFINE low == Least(Least(p, q), Least(r, s))
             high == Greatest(Greatest(p, q), Greatest(r, s))
  <2>4. mul(a, b) \in {constant(0), range(low, high)}
    BY <1>5, <2>3 DEF mul
  <2> HIDE DEF p, q, r, s
  <2>5. low \in Int64 /\ high \in Int64 /\ low <= high /\ 0 \in Int64
    BY <2>3, IntAssumption DEF Least, Greatest, Int64
  <2> HIDE DEF low, high
  <2>6. \A e, f \in Int64 : e <= f => Bounded(range(e, f))
    BY IntAssumption DEF range, Bounded, loIsInf, hiIsInf, isEmpty, Int64, NegInf, PosInf
  <2>7. BinaryInterval(kind, a, b) = mul(a, b)
    BY <1>9 DEF BinaryInterval
  <2>8. Bounded(constant(0))
    BY <2>5, <2>6, IntAssumption DEF constant
  <2> QED
    BY <2>4, <2>5, <2>6, <2>7, <2>8
<1> QED
  BY <1>7, <1>8, <1>9 DEF Arithmetic

\* A bounded interval that contains something the type cannot hold escapes it.
LEMMA EscapeSeen ==
    ASSUME NEW t \in Type, NEW a \in Interval, Bounded(a), NEW x \in Int, contains(a, x),
           x \notin RangeOf(t)
    PROVE  escapesSignedFinite(a, t)
<1>1. a.lo \in Int /\ a.hi \in Int /\ a.lo <= x /\ x <= a.hi /\ ~isEmpty(a)
  BY Ends DEF Bounded
<1>2. x < lowest(t) \/ highest(t) < x
  BY Values
<1> QED
  BY <1>1, <1>2, Values DEF Bounded, escapesSignedFinite

\* At 64 bits, a sum or product outside int64 has a corner outside int64.
LEMMA CornerSeen ==
    ASSUME NEW kind \in {"add", "mul"},
           NEW a \in Interval, Bounded(a), NEW x \in Int, contains(a, x),
           NEW b \in Interval, Bounded(b), NEW y \in Int, contains(b, y),
           (IF kind = "mul" THEN x * y ELSE x + y) \notin Int64
    PROVE  evalEscapes64(kind, a, b)
<1>1. /\ a.lo \in Int /\ a.hi \in Int /\ a.lo <= x /\ x <= a.hi
      /\ b.lo \in Int /\ b.hi \in Int /\ b.lo <= y /\ y <= b.hi
  BY Ends DEF Bounded
<1>2. CASE kind = "mul"
  <2> DEFINE corners == {a.lo * b.lo, a.lo * b.hi, a.hi * b.lo, a.hi * b.hi}
  <2>1. corners = CornersOf(kind, a, b)
    BY <1>2 DEF CornersOf
  <2>2. (\E c \in corners : c <= x * y) /\ (\E c \in corners : x * y <= c)
    <3> DEFINE al == a.lo   ah == a.hi   bl == b.lo   bh == b.hi
    <3>1. /\ al \in Int /\ ah \in Int /\ al <= x /\ x <= ah
          /\ bl \in Int /\ bh \in Int /\ bl <= y /\ y <= bh
      BY <1>1
    <3>2. corners = {al * bl, al * bh, ah * bl, ah * bh}
      OBVIOUS
    <3> HIDE DEF al, ah, bl, bh, corners
    <3> QED
      BY <3>1, <3>2, BetweenCorners
  <2>3. x * y \in Int /\ x * y \notin Int64
    BY <1>2
  <2> HIDE DEF corners
  <2>4. PICK c \in corners, d \in corners : c <= x * y /\ x * y <= d
    BY <2>2
  <2>5. ASSUME corners \subseteq Int64 PROVE FALSE
    <3>1. c \in Int64 /\ d \in Int64
      BY <2>5
    <3> DEFINE xy == x * y
    <3>2. xy \in Int /\ xy \notin Int64 /\ c <= xy /\ xy <= d
      BY <2>3, <2>4
    <3> HIDE DEF xy
    <3> QED
      BY <3>1, <3>2, IntAssumption DEF Int64
  <2> QED
    BY <2>1, <2>5 DEF evalEscapes64
<1>3. CASE kind = "add"
  <2>1. a.lo + b.lo \in CornersOf(kind, a, b) /\ a.hi + b.hi \in CornersOf(kind, a, b)
    BY <1>3 DEF CornersOf
  <2>2. a.lo + b.lo \notin Int64 \/ a.hi + b.hi \notin Int64
    BY <1>1, <1>3, IntAssumption DEF Int64
  <2> QED
    BY <2>1, <2>2 DEF evalEscapes64
<1> QED
  BY <1>2, <1>3

\* The overflow rule misses no overflow that an execution runs into, for all
\* types and paths, if it knows bounds for the operands; except in 64-bit
\* subtractions, which evalEscapes64 decides by their sums.
THEOREM OverflowSeenAlways == Spec => []OverflowSeen
<1>1. IInv => OverflowSeen
  <2> SUFFICES ASSUME IInv, outside = {} PROVE OverflowSeen
    BY DEF OverflowSeen
  <2> DEFINE kind == path[pc].kind
             l == Top2
             r == Top1
  <2>1. ASSUME AtOperator, isReportableOp(kind, l, r), Known(l), Known(r),
               ~(kind = "sub" /\ Is64(r.type)), Overflows(kind, l, r)
        PROVE  Reports(kind, l, r)
    <3> DEFINE t == l.type
               a == l.interval   b == r.interval   x == l.value   y == r.value
    <3>1. kind \in Arithmetic /\ Len(operands) >= 2 /\ l.type = r.type /\ isSigned(t)
      BY <2>1 DEF AtOperator, isReportableOp
    <3>2. operands # <<>>
      BY <3>1 DEF IInv, TypeOK
    <3>3. /\ Good(l) /\ contains(a, x) /\ Good(r) /\ contains(b, y)
      BY <3>1, <3>2, TopOperands DEF Tight
    <3>4. /\ l \in Operand /\ r \in Operand /\ t \in Type
          /\ a \in Interval /\ b \in Interval /\ x \in Int /\ y \in Int
          /\ l.value \in RangeOf(l.type) /\ r.value \in RangeOf(r.type)
      BY <3>1, <3>3 DEF Good, Operand
    <3>5. /\ Bounded(a) /\ a.lo \in RangeOf(t) /\ a.hi \in RangeOf(t)
          /\ Bounded(b) /\ b.lo \in RangeOf(t) /\ b.hi \in RangeOf(t)
      BY <2>1, <3>1 DEF Known
    <3>6. PICK exact \in Exact(kind, x, y, t) : exact \notin RangeOf(t)
      BY <2>1 DEF Overflows
    <3>7. CASE ~Is64(t)
      <4>1. exact \in Int /\ BinaryInterval(kind, a, b) \in Interval
            /\ contains(BinaryInterval(kind, a, b), exact)
        <5>1. kind \in Operator
          BY <3>1 DEF Operator
        <5> HIDE DEF kind, l, r
        <5> QED
          BY <5>1, <3>1, <3>3, <3>4, <3>6, BinarySound
      <4>2. Bounded(BinaryInterval(kind, a, b))
        <5> HIDE DEF a, b, t, kind
        <5> QED
          BY <3>1, <3>4, <3>5, <3>7, NarrowBounded
      <4>3. escapesSignedFinite(BinaryInterval(kind, a, b), t)
        <5> HIDE DEF a, b, t, kind
        <5> QED
          BY <3>4, <3>6, <4>1, <4>2, EscapeSeen
      <4> QED
        BY <2>1, <3>7, <4>3 DEF Reports
    <3>8. CASE Is64(t)
      <4>1. kind \in {"add", "mul"}
        BY <2>1, <3>1, <3>8 DEF Arithmetic
      <4>2. RangeOf(t) = Int64
        BY <3>1, <3>4, <3>8, WidthAssumption, IntAssumption DEF Is64, RangeOf, Int64
      <4>3. exact = IF kind = "mul" THEN x * y ELSE x + y
        BY <3>6, <4>1 DEF Exact
      <4>4. evalEscapes64(kind, a, b)
        <5> HIDE DEF a, b, x, y, kind
        <5> QED
          BY <3>3, <3>4, <3>5, <3>6, <4>1, <4>2, <4>3, CornerSeen
      <4> QED
        BY <2>1, <3>8, <4>4 DEF Reports
    <3> QED
      BY <3>7, <3>8
  <2>2. ASSUME operands # <<>>, r.node = "arith", isSigned(r.type), Bounded(r.interval),
               NEW t, isSigned(t), highest(t) < highest(r.type), r.value \notin RangeOf(t),
               t \in Type
        PROVE  ReportsNarrowing(t, r)
    <3>1. Good(r) /\ contains(r.interval, r.value)
      BY <2>2, TopOperands DEF Tight
    <3>2. r.interval \in Interval /\ r.value \in Int
      BY <3>1 DEF Good, Operand
    <3>3. escapesSignedFinite(r.interval, t)
      BY <2>2, <3>1, <3>2, EscapeSeen
    <3> QED
      BY <2>2, <3>3 DEF ReportsNarrowing
  <2> QED
    BY <2>1, <2>2 DEF OverflowSeen
<1> QED
  BY <1>1, Inductive, PTL
=============================================================================
