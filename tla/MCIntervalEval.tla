---------------------------- MODULE MCIntervalEval ----------------------------
(***************************************************************************)
(* Module IntOverflow with an int64 of 6 bits, and types of 2 to 6 bits.   *)
(* The paths are expressions over two variables, converted and stored;     *)
(* guards with every kind of constant before one; a loop; and every way to *)
(* write a variable that the analysis knows or does not know.              *)
(***************************************************************************)
EXTENDS IntOverflow, TLC

MCMinInt == -32

MCType == {"char", "int", "unsigned", "long", "ulong"}
MCVar == {"c", "x", "y", "u", "l", "m", "n"}

MCtypeOf(v) ==
    CASE v = "c" -> "char" [] v \in {"x", "y"} -> "int" [] v = "u" -> "unsigned"
      [] v \in {"l", "m"} -> "long" [] v = "n" -> "ulong"

Width(t) == CASE t = "char" -> 2 [] t \in {"int", "unsigned"} -> 3 [] t \in {"long", "ulong"} -> 6
MCisSigned(t) == t \notin {"unsigned", "ulong"}
MClowest(t) == IF MCisSigned(t) THEN -(2^(Width(t) - 1)) ELSE 0
MChighest(t) == IF MCisSigned(t) THEN 2^(Width(t) - 1) - 1 ELSE 2^Width(t) - 1
MCcommonType(t, u) ==
    IF "ulong" \in {t, u} THEN "ulong" ELSE IF "long" \in {t, u} THEN "long"
    ELSE IF "unsigned" \in {t, u} THEN "unsigned" ELSE "int"

\* Two's complement of seven bits, enough for every type.
MCbitand(x, y) ==
    LET bit(z, i) == ((z % 128) \div 2^i) % 2
        both[i \in 0..6] == (IF i = 0 THEN 0 ELSE both[i - 1])
                            + (IF bit(x, i) + bit(y, i) = 2 THEN 2^i ELSE 0)
    IN  IF both[6] > 63 THEN both[6] - 128 ELSE both[6]

-----------------------------------------------------------------------------
Par(v, seed) == [op |-> "parameter", var |-> v, seed |-> seed]
Lit(t, c) == [op |-> "literal", type |-> t, value |-> c]
Of(op, t) == [op |-> op, type |-> t]
On(op, v) == [op |-> op, var |-> v]
Bin(kind) == [op |-> "binary", kind |-> kind]
If(v, cmp, form, t, c, edge) ==
    [op |-> "compare", var |-> v, cmp |-> cmp, form |-> form, type |-> t, value |-> c, edge |-> edge]

Minused == [op |-> "minus"]

Ints == {top, range(-4, 3), range(0, 3), constant(2), range(-3, -1), atLeast(1)}
Longs == {range(20, 31), constant(-32), constant(31), range(-2, 1), atLeast(30)}

\* x op y, stored in the same type or a narrower or wider one.
Expressions ==
    { <<Par("x", s), Par("y", r), On("read", "x"), On("read", "y"), Bin(k)>>
        \o (IF v = "x" THEN <<>> ELSE <<Of("cast", MCtypeOf(v))>>) \o <<On("assign", v)>> :
        s, r \in Ints, k \in Operator, v \in {"x", "c", "u", "l"} }
    \cup { <<Par("l", s), Par("m", r), On("read", "l"), On("read", "m"), Bin(k), On("assign", "m")>> :
             s, r \in Longs, k \in Operator }
    \cup { <<Par("l", s), On("read", "l"), On("read", "l"), Bin(k), Of("cast", "int"), On("assign", "x")>> :
             s \in Longs, k \in Operator }
    \cup { <<Par("x", s), On("read", "x"), Minused, Of("cast", "char"), Of("cast", "int"),
             Lit("int", 1), Bin("add"), On("assign", "y")>> : s \in Ints }

\* Unsigned operands and literals.
Unsigned ==
    { <<Par("u", range(lo, 7)), On("read", "u"), Lit("unsigned", c), Bin(k), On("assign", "u"),
        On("read", "u"), Of("cast", "int"), On("assign", "x")>> :
        lo \in {0, 6}, c \in {1, 3, 7}, k \in Operator }

\* A guard, then the division or product it is there for.
Guards ==
    { <<Par("x", s), If("x", cmp, f, t, c, edge), On("read", "x"), Lit("int", 3), Bin("mul"),
        Of("cast", "char"), On("assign", "c")>> :
        s \in {top, range(-4, 3), range(0, 3)}, cmp \in Comparison, edge \in BOOLEAN,
        f \in {"literal", "negated", "folded"}, t \in {"int", "unsigned", "long", "ulong"}, c \in {0, 2, 40} }
    \cup { <<Par("x", s), [op |-> "truth", var |-> "x", edge |-> edge],
             On("read", "x"), On("read", "x"), Bin("mul"), On("assign", "y")>> :
             s \in {range(-4, 0), range(0, 3), constant(0), constant(1)}, edge \in BOOLEAN }

\* x = 0; while (x < 3) x = x + 1, joined with the state of a later turn.
Loop ==
    { <<Lit("int", 0), On("assign", "x"),
        [op |-> "join", iv |-> [v \in MCVar |-> IF v = "x" THEN other ELSE top], untrusted |-> {}]>>
        \o w \o
      <<If("x", "<", "literal", "int", 3, TRUE), On("read", "x"), Lit("int", 1), Bin("add"),
        On("assign", "x")>> :
        other \in {constant(1), range(0, 3), bottom}, w \in {<<>>, <<[op |-> "widen"]>>} }

\* What is written, then a guard that makes it bounded, then a use of it.
Writes ==
    { <<Par("x", constant(before))>> \o write
      \o <<If("x", "<=", "literal", "int", 2, TRUE), If("x", ">", "literal", "int", 0, TRUE),
           On("read", "x"), Lit("int", 2), Bin(k), On("assign", "y")>> :
        before \in {1, 3}, k \in {"add", "mul"},
        write \in { <<On(op, "x")>> : op \in {"declare", "modify", "addressOf", "refArg", "fill"} }
                  \cup { <<Lit("int", 1), On("static", "x")>> }
                  \cup { <<On("addressOf", "x"), If("x", "==", "literal", "int", 1, TRUE),
                           On("storeThrough", "x")>> }
                  \cup { <<[op |-> "scan", var |-> "x", field |-> f, counts |-> n]>> :
                           f \in {top, range(0, 2)}, n \in BOOLEAN }
                  \cup { <<Of(op, "int"), On("assign", "x")>> : op \in {"source", "unknown"} } }
    \cup { <<Lit("ulong", 1), On("assign", "n"), On("fill", "n"), On("read", "n"), Lit("ulong", 1),
             Bin("add"), On("assign", "n")>> }
    \cup { <<Of("source", "ulong"), On("assign", "n"), If("n", cmp, "literal", "long", c, edge),
             On("read", "n"), Of("cast", "int"), On("assign", "x")>> :
             cmp \in Comparison, c \in {3, 31}, edge \in BOOLEAN }

MCPath == Expressions \cup Unsigned \cup Guards \cup Loop \cup Writes
=============================================================================
