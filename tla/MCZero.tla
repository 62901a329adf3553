------------------------------- MODULE MCZero -------------------------------
(***************************************************************************)
(* An instance of ZeroRule: a function that reads, copies, tests and       *)
(* divides, in all the ways these combine; loops; contracts; and chains of *)
(* calls longer than the passes reach; variables that others write.        *)
(***************************************************************************)
EXTENDS ZeroRule

none == "none"
Value(kind, n, v, wide, zeroness) == [kind |-> kind, n |-> n, var |-> v, wide |-> wide, zeroness |-> zeroness]
Lit(n) == Value("literal", n, none, FALSE, none)
Of(v) == Value("var", 0, v, FALSE, none)
Through(v, wide) == Value("passed", 0, v, wide, none)
Result(z) == Value("result", 0, none, FALSE, z)
Other == Value("other", 0, none, FALSE, none)

Cond(kind, v, op, n, neg) == [kind |-> kind, var |-> v, op |-> op, n |-> n, neg |-> neg]
Truth(v, neg) == Cond("truth", v, "EQ", 0, neg)
Test(v, op, n) == Cond("compare", v, op, n, FALSE)
Flag == Cond("other", none, "EQ", 0, FALSE)

\* A statement on a line of its own that is followed by the next one.
Node(kind, v, x) ==
    [kind |-> kind, var |-> v, value |-> x, cond |-> Flag, callee |-> none, args |-> <<>>, line |-> 0, next |-> 0, alt |-> 0]
Set(v, x) == Node("assign", v, x)
Do(kind, v) == Node(kind, v, Other)
Div(x) == Node("divide", none, x)
CallOf(g, args) == [Node("call", none, Other) EXCEPT !.callee = g, !.args = args]
If(c, alt) == [Node("branch", none, Other) EXCEPT !.cond = c, !.alt = alt]
Jump(s, n) == [s EXCEPT !.next = n]
OnLine(s, l) == [s EXCEPT !.line = l]

Code(nodes) ==
    [n \in DOMAIN nodes |-> [nodes[n] EXCEPT !.next = IF @ = 0 THEN n + 1 ELSE @, !.line = IF @ = 0 THEN n ELSE @]]

Fn(params, nodes) == [params |-> params, visible |-> FALSE, taken |-> FALSE, requires |-> {}, code |-> Code(nodes)]
Main(params, nodes) == [Fn(params, nodes) EXCEPT !.visible = TRUE]
Required1(f) == [f EXCEPT !.requires = {1}]

-----------------------------------------------------------------------------
\* x gets a value, is perhaps tested, is perhaps copied or changed; then x or y divides.
Sources == {Set("x", Lit(0)), Set("x", Lit(2)), Set("x", Of("p")), Set("x", Through("p", FALSE)),
            Set("x", Through("p", TRUE)), Do("scan", "x"), Do("static", "x"), Set("x", Other)}
             \cup {Set("x", Result(z)) : z \in {"AlwaysZero", "NeverZero", "MaybeZero", "untrusted", "nothing"}}
Tests == {Flag, Truth("x", TRUE)} \cup {Test("x", op, n) : op \in {"EQ", "GE"}, n \in {-1, 0, 1}}
           \cup {Test("x", "NE", 0), Test("x", "LT", 1), Test("x", "LE", 1), Test("x", "GT", 0), Truth("p", FALSE)}
Changes == {Set("y", Of("x")), Set("y", Through("x", FALSE)), Set("x", Lit(0)), Do("change", "x"), Do("expose", "x"),
            Set("y", Lit(1))}

Straight ==
    {[main |-> Main(<<"p">>, <<s, Set("y", Of("x")), If(c, 5), t, Div(Of(v))>>)] :
        s \in Sources, c \in Tests, t \in Changes, v \in {"x", "y"}}

\* Three divisions on a line, a bit that a value is cut down to, a loop, and a value that
\* only a call returns.
Lines == [main |-> Main(<<"p">>, <<Set("x", Lit(0)), If(Truth("p", FALSE), 4), OnLine(Div(Of("p")), 9), OnLine(Div(Of("x")), 9),
                                   OnLine(Div(Lit(0)), 9)>>)]
Cut == [main |-> Main(<<"p">>, <<If(Test("p", "GT", 0), 4), Set("b", Of("p")), Div(Of("b")), Div(Lit(0))>>)]
Returned == [main |-> Main(<<"p">>, <<Do("scan", "x"), Set("y", Through("x", FALSE)), Div(Of("y"))>>)]
Loop == [main |-> Main(<<"p">>, <<Set("x", Lit(0)), If(Flag, 6), Set("y", Of("x")), Set("x", Of("z")), Jump(Set("z", Of("p")), 2),
                                  Div(Of("y"))>>)]

\* A value goes from main over a call to a function that divides or hands it on.
Handlers == {<<Div(Of("p"))>>, <<If(Truth("p", FALSE), 3), Div(Of("p"))>>, <<If(Test("p", "GT", 1), 3), Div(Of("p")), Div(Of("p"))>>}
Passing ==
    {[main |-> Main(<<"p">>, <<s, If(c, 4), Set("y", Of("x")), CallOf("g", <<a>>)>>), g |-> [Fn(<<"p">>, h) EXCEPT !.taken = t]] :
        s \in {Set("x", Lit(0)), Set("x", Lit(1)), Set("x", Of("p")), Do("scan", "x"), Set("x", Result("nothing"))},
        c \in {Flag, Test("x", "EQ", 0)}, a \in {Of("x"), Of("y"), Through("x", FALSE), Lit(0), Result("untrusted"), Other},
        h \in Handlers, t \in BOOLEAN}

\* Four hops, and a recursion.
Chain == [main |-> Main(<<"p">>, <<CallOf("a", <<Of("p"), Lit(0)>>), CallOf("d", <<Lit(1)>>)>>),
          a |-> Fn(<<"p", "x">>, <<CallOf("b", <<Of("x")>>), Div(Of("x"))>>),
          b |-> Fn(<<"p">>, <<If(Flag, 3), Div(Of("p")), CallOf("c", <<Of("p")>>)>>),
          c |-> Fn(<<"x">>, <<If(Flag, 3), Div(Of("x")), CallOf("d", <<Of("x")>>)>>),
          d |-> Fn(<<"x">>, <<If(Test("x", "GE", 1), 3), Div(Of("x"))>>)]
Again == [main |-> Main(<<>>, <<CallOf("g", <<Lit(1), Result("untrusted")>>)>>),
          g |-> Fn(<<"x", "y">>, <<If(Flag, 3), CallOf("g", <<Of("y"), Lit(1)>>), Div(Of("x"))>>)]

\* Parameters that must not be zero, with calls on one line.
Contracts ==
    {[main |-> Main(<<"p">>, <<s, Set("y", Of("x")), If(Truth("p", FALSE), 5), OnLine(CallOf("g", <<a>>), 9),
                               OnLine(CallOf("g", <<b>>), 9)>>),
      g |-> Required1(Fn(<<"p">>, <<CallOf("h", <<Of("p")>>), Div(Of("p"))>>)), h |-> Fn(<<"x">>, <<Div(Of("x"))>>)] :
        s \in {Set("x", Lit(0)), Set("x", Of("p")), Do("scan", "x")}, a \in {Of("x"), Of("y"), Lit(0), Lit(1)},
        b \in {Of("x"), Of("p"), Other}}

\* A global and a local whose address is known elsewhere, written by main, by a function of
\* the unit or by others, before one of them divides; and a static local that a recursion
\* writes.
Sharing ==
    {[main |-> Main(<<"p">>, <<s, Do("expose", "x"), t, If(c, 6), o, Div(Of(v))>>), g |-> Main(<<>>, h)] :
        s \in {Set("w", Lit(0)), Set("w", Lit(2)), Set("w", Of("p"))}, t \in {Set("x", Lit(0)), Set("x", Of("w"))},
        c \in {Flag, Test("w", "NE", 0)}, o \in {Do("opaque", none), CallOf("g", <<>>)}, v \in {"w", "x"},
        h \in {<<Set("w", Lit(0))>>, <<Div(Of("w"))>>, <<Do("opaque", none), Div(Of("w"))>>}}
Counter == [main |-> Main(<<"p">>, <<Do("static", "x"), If(Truth("p", FALSE), 4), Jump(Set("x", Lit(0)), 7),
                                     If(Truth("x", FALSE), 7), CallOf("main", <<Lit(0)>>), Div(Of("x"))>>)]

MCProgram == {Counter} \cup Sharing \cup Straight \cup Passing \cup Contracts \cup {Lines, Cut, Loop, Returned, Chain, Again}
MCVal == -1 .. 2
=============================================================================
