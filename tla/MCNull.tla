------------------------------- MODULE MCNull -------------------------------
(***************************************************************************)
(* An instance of NullRule: functions with the idioms that the disjuncts,  *)
(* the facts and the guard implications were made for.                     *)
(***************************************************************************)
EXTENDS NullRule

none == "none"
V(v) == [var |-> v, field |-> none]
cf == [var |-> "c", field |-> "f"]
cm == [var |-> "c", field |-> "m"]
MCPlace == {V("x"), V("u"), V("n"), V("g"), cf, cm}
MCUnsigned == {V("u"), V("n")}
MCLocal == {"x", "u", "n", "c", "p", "q"}

L(v) == [value |-> v, unsigned |-> FALSE]
LU(v) == [value |-> v, unsigned |-> TRUE]

\* Leaves and conditions.
Truth(p) == [kind |-> "truth", place |-> p, neg |-> FALSE, plain |-> TRUE]
Cmp(p, op, lit) == [kind |-> "compare", place |-> p, op |-> op, lit |-> lit, left |-> TRUE,
                    neg |-> FALSE, plain |-> TRUE]
Mirrored(leaf) == [leaf EXCEPT !.left = FALSE]
IsNil(q) == [kind |-> "pointer", ptr |-> q, op |-> "EQ", neg |-> FALSE, plain |-> TRUE]
Ptr(q) == [IsNil(q) EXCEPT !.op = "NE"]
Below(a, b) == [kind |-> "below", lower |-> a, upper |-> b, neg |-> FALSE, plain |-> TRUE]
Ordered(q, r) == [kind |-> "pointers", ptrs |-> {q, r}, neg |-> FALSE, plain |-> TRUE]
Opaque == [kind |-> "opaque", neg |-> FALSE, plain |-> TRUE]
Neg(leaf) == [leaf EXCEPT !.neg = ~@]
Called(leaf) == [leaf EXCEPT !.plain = FALSE]
If(leaf) == [join |-> "leaf", neg |-> FALSE, lhs |-> leaf, rhs |-> leaf]
And(a, b) == [join |-> "and", neg |-> FALSE, lhs |-> a, rhs |-> b]
Or(a, b) == [join |-> "or", neg |-> FALSE, lhs |-> a, rhs |-> b]
Not(c) == [c EXCEPT !.neg = ~@]

\* Statements.
Assign(v, lit) == [kind |-> "assign", var |-> v, lit |-> lit]
Step(v) == [kind |-> "step", var |-> v]
Nil(q) == [kind |-> "assignPtr", var |-> q, rhs |-> "nullLiteral", zero |-> TRUE]
NilPtr(q) == [Nil(q) EXCEPT !.zero = FALSE]
Addr(q) == [kind |-> "assignPtr", var |-> q, rhs |-> "addressOf", zero |-> FALSE]
Malloc(q) == [kind |-> "assignPtr", var |-> q, rhs |-> "nullSource", zero |-> FALSE]
Copy(q) == [kind |-> "assignPtr", var |-> q, rhs |-> "opaqueCall", zero |-> FALSE]
Static(v) == [kind |-> "static", var |-> v, lit |-> L(1)]
StaticPtr(q) == [kind |-> "staticPtr", var |-> q]
AddressOf(v, post) == [kind |-> "addressOf", var |-> v, post |-> post]
RefArg(v, post) == [kind |-> "refArg", var |-> v, post |-> post]
OutParam(rc, q) == [kind |-> "outParam", var |-> rc, ptr |-> q]
Store(p, lit) == [kind |-> "storeMember", base |-> p.var, field |-> p.field, lit |-> lit]
Bump(p) == [kind |-> "stepMember", base |-> p.var, field |-> p.field]
Whole(c) == [kind |-> "storeBase", base |-> c]
OperatorStore(c) == [kind |-> "operatorStore", base |-> c]
Pass(c, how, exact) == [kind |-> "passBase", base |-> c, how |-> how, exact |-> exact]
Method(c, const) == [kind |-> "method", base |-> c, const |-> const]
Retain(c) == [kind |-> "retain", base |-> c]
Call == [kind |-> "call"]
Assert(q) == [kind |-> "assert", var |-> q]
Deref(q, line) == [kind |-> "deref", var |-> q, line |-> line]
Require(q, contract, excuse, line) ==
    [kind |-> "callContract", var |-> q, contract |-> contract, excuse |-> excuse, line |-> line]
Return(q) == [kind |-> "return", var |-> q, line |-> 9]

NoEnsures == [given |-> FALSE, place |-> V("x"), op |-> "NE", lit |-> 0]
Fn(bound, inputs, stmts, conds, ifs) ==
    [stmts |-> stmts \cup {i[2] : i \in ifs}, conds |-> conds \cup {i[1] : i \in ifs}, ifs |-> ifs,
     inputs |-> inputs, requires |-> <<>>, ensures |-> NoEnsures, script |-> <<>>, bound |-> bound, correlated |-> FALSE]

Do(s) == [stmts |-> {s}, conds |-> {}, ifs |-> {}]
DoIf(c, s) == [stmts |-> {}, conds |-> {}, ifs |-> {<<c, s>>}]
\* A function that runs the steps of a script, each use behind its guard.
Scripted(script, inputs) ==
    [Fn(0, inputs, UNION {step.stmts : step \in {script[i] : i \in DOMAIN script}}, {},
        UNION {step.ifs : step \in {script[i] : i \in DOMAIN script}})
        EXCEPT !.script = script, !.correlated = TRUE]

-----------------------------------------------------------------------------
\* A flag and a pointer.
Flags == Fn(4, {V("x")}, {Assign("x", L(1)), Step("x"), Malloc("p"), Deref("p", 1)},
            {If(Truth(V("x")))},
            {<<If(Cmp(V("x"), "EQ", L(1))), Addr("p")>>, <<If(Cmp(V("x"), "GE", L(1))), Deref("p", 2)>>})

\* Short-circuit conditions that arrive as a value, identity calls, two pointers.
ShortCircuit == Fn(3, {V("x"), V("p"), V("q")}, {Nil("p"), NilPtr("q"), Copy("q")},
            {Not(Not(Or(Ptr("p"), Cmp(V("x"), "LE", L(0))))), And(Neg(Ptr("p")), Ptr("q"))},
            {<<If(Cmp(V("x"), "GT", L(0))), Deref("p", 2)>>})
Identity == Fn(3, {V("x"), V("q")}, {NilPtr("q"), Copy("q"), Deref("p", 1)},
            {If(Called(Ptr("q"))), If(Ordered("p", "q")), If(Mirrored(Cmp(V("x"), "LT", L(0)))), Or(Opaque, Ptr("p"))}, {})

\* Unsigned bounds and literals that C converts.
Unsigneds == Fn(3, {V("u"), V("n")}, {Assign("u", L(-1)), Assign("u", L(1)), Assign("n", L(0))},
            {If(Below(V("u"), V("n"))), If(Cmp(V("u"), "GT", L(0))), If(Cmp(V("u"), "LE", L(0))),
             If(Cmp(V("u"), "LT", LU(2))), If(Mirrored(Cmp(V("n"), "LT", LU(1))))}, {})

\* What a function may change behind the facts: references, addresses, globals.
Behind == Fn(3, {}, {RefArg("x", "Unknown"), RefArg("p", "Unknown"), AddressOf("u", "Unknown"), Call, Nil("p")},
            {If(Truth(V("x"))), If(Truth(V("u"))), If(Truth(V("g"))), Or(Ptr("p"), Truth(V("x")))}, {})
Globals == Fn(3, {V("g")}, {Step("g"), Call, Malloc("p"), Retain("c"), Store(cf, L(1))},
              {If(Truth(V("g"))), If(Truth(cf))}, {})

\* Members of a local struct.
Stores == Fn(3, {cf}, {Store(cf, L(1)), Bump(cf), Store(cm, L(0)), Whole("c"), OperatorStore("c"), Malloc("p")},
             {If(Truth(cf)), If(Cmp(cm, "EQ", L(0)))}, {<<If(Cmp(cf, "NE", L(0))), Addr("p")>>})
Passes == Fn(3, {cf}, {Pass("c", "address", {{"m"}}), Pass("c", "field", {{"m"}}), Pass("c", "reference", {}),
                       Method("c", TRUE), Method("c", FALSE)},
             {If(Truth(cf)), If(Cmp(cm, "EQ", L(0)))}, {})

\* Results, posts, statics and asserts.
Results == Fn(3, {V("q")}, {OutParam("x", "p"), AddressOf("p", "NonNull"), RefArg("q", "Null"), Static("x"),
               StaticPtr("q"), Assert("q"), Deref("p", 1), Deref("q", 2)},
              {If(Truth(V("x"))), If(Cmp(V("x"), "EQ", L(0))), If(Cmp(V("x"), "NE", L(0)))}, {})
ResultInGlobal == Fn(4, {}, {OutParam("g", "p"), Deref("p", 1), Call}, {If(Truth(V("g")))}, {})

\* Contracts of the function and of those it calls.
Unless(q, op, n) == [kind |-> "unless", ptr |-> q, place |-> V("n"), op |-> op, lit |-> n]
Contracted ==
    [Fn(3, {V("n"), V("p")}, {Step("n"), Nil("p"), Malloc("q"), Require("p", "requires", none, 1),
         Require("q", "unless", "fails", 2), Require("q", "unless", "holds", 3),
         Require("p", "guardCrash", none, 4), Require("p", "guardReject", none, 5),
         Require("q", "proposed", none, 6), Deref("p", 7), Return("p"), Return("q")},
        {If(Cmp(V("n"), "EQ", L(0)))}, {<<If(Cmp(V("n"), "GT", L(0))), Deref("p", 8)>>})
        EXCEPT !.requires = <<Unless("p", "EQ", 0)>>,
               !.ensures = [given |-> TRUE, place |-> V("n"), op |-> "GT", lit |-> 0]]
Required ==
    [Contracted EXCEPT !.requires = <<[kind |-> "nonNull", ptr |-> "p"]>>, !.ensures = NoEnsures]

\* Two clauses that split the start into more disjuncts than there may be.
Clauses ==
    [Fn(3, {V("n"), V("p"), V("q")}, {Deref("p", 1), Deref("q", 2)},
        {If(Cmp(V("n"), "EQ", L(0))), If(Cmp(V("n"), "GT", L(0)))}, {})
        EXCEPT !.requires = <<Unless("p", "EQ", 0), Unless("q", "GT", 0)>>]

\* More guards than disjuncts: two flags and two pointers, then their uses.
Guarded == Scripted(<<Do(NilPtr("p")), Do(NilPtr("q")),
                      DoIf(If(Truth(V("x"))), Addr("p")), DoIf(If(Truth(V("n"))), Addr("q")),
                      DoIf(If(Opaque), Call), DoIf(If(Truth(V("x"))), Deref("p", 1)),
                      DoIf(If(Truth(V("n"))), Deref("q", 2))>>, {V("x"), V("n")})
\* The same with a flag that is stamped.
Stamped == Scripted(<<Do(NilPtr("p")), Do(Assign("x", L(0))), DoIf(If(Opaque), Call),
                      DoIf(If(Truth(V("n"))), Addr("p")), DoIf(If(Truth(V("u"))), Assign("x", L(1))),
                      DoIf(If(Cmp(V("n"), "EQ", L(1))), Deref("p", 1))>>, {V("u"), V("n")})

MCFunction == {Flags, ShortCircuit, Identity, Unsigneds, Behind, Globals, Stores, Passes, Results, ResultInGlobal,
               Contracted, Required, Clauses, Guarded, Stamped}
=============================================================================
