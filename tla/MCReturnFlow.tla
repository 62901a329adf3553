---------------------------- MODULE MCReturnFlow ----------------------------
(***************************************************************************)
(* An instance of ReturnFlow: functions that get a value, test it, change  *)
(* it, hand it to a call and return it or something else; loops; switches  *)
(* and comparisons around the return of a null.                            *)
(***************************************************************************)
EXTENDS ReturnFlow, TLC

none == "none"
Leaf(kind, n, v, w) == [kind |-> kind, n |-> n, var |-> v, other |-> w]
Value(kind) == [leaf |-> Leaf(kind, 0, none, none), via |-> <<>>]
Lit(n) == [leaf |-> Leaf("literal", n, none, none), via |-> <<>>]
Of(v) == [leaf |-> Leaf("var", 0, v, none), via |-> <<>>]
Choice(v, w) == [leaf |-> Leaf("choice", 0, v, w), via |-> <<>>]
Null == Lit(0)
Address == Value("address")
Opaque == Value("opaque")

Wrap(kind, wide) == [kind |-> kind, wide |-> wide, param |-> TRUE, claim |-> "Unknown", from |-> FALSE,
                     alias |-> FALSE, owner |-> "Unknown"]
In(w, e) == [e EXCEPT !.via = <<w>> \o @]
Cast(e) == In(Wrap("cast", TRUE), e)
Call(claim, from, alias, owner) == [Wrap("call", TRUE) EXCEPT !.claim = claim, !.from = from, !.alias = alias, !.owner = owner]
Plain(claim) == Call(claim, FALSE, FALSE, "Unknown")
Through == Call("Unknown", TRUE, FALSE, "Unknown")
ThroughBit == [Through EXCEPT !.param = FALSE]
Alias == Call("Unknown", TRUE, TRUE, "Unknown")
SureAlias == Call("Never", FALSE, TRUE, "Unknown")
Owning == Call("Unknown", FALSE, FALSE, "Owned")
Borrowing == Call("Unknown", FALSE, FALSE, "Borrowed")

Cond(kind, v, op, n, neg, unsigned) == [kind |-> kind, var |-> v, op |-> op, n |-> n, neg |-> neg, unsigned |-> unsigned]
Truth(v, neg) == Cond("truth", v, "EQ", 0, neg, FALSE)
Test(v, op, n) == Cond("compare", v, op, n, FALSE, FALSE)
Flag == Cond("other", none, "EQ", 0, FALSE, FALSE)

\* A statement that is followed by the next one.
Node(kind, v, e) == [kind |-> kind, var |-> v, value |-> e, borrows |-> FALSE, cond |-> Flag, cases |-> <<>>,
                     under |-> <<>>, next |-> 0, alt |-> 0]
Set(v, e) == Node("assign", v, e)
Do(kind, v) == Node(kind, v, Null)
Lend(s) == [s EXCEPT !.borrows = TRUE]
If(c, alt) == [Do("branch", none) EXCEPT !.cond = c, !.alt = alt]
Ret(e) == Node("return", none, e)
RetUnder(e, guards) == [Ret(e) EXCEPT !.under = guards]
Jump(s, n) == [s EXCEPT !.next = n]
Switching(v, cases, alt) == [Do("switch", v) EXCEPT !.cases = cases, !.alt = alt]
Skip == Node("pass", "r", Null)

Code(nodes) == [n \in DOMAIN nodes |-> [nodes[n] EXCEPT !.next = IF @ = 0 THEN n + 1 ELSE @]]
Fn(type, params, nodes) == [type |-> type, wide |-> TRUE, params |-> params, code |-> Code(nodes)]
PF(nodes) == Fn("pointer", <<"p", "q">>, nodes)
XF(nodes) == Fn("pointer", <<"x">>, nodes)
NF(nodes) == Fn("integer", <<"x", "y">>, nodes)
Bit(f) == [f EXCEPT !.wide = FALSE]

-----------------------------------------------------------------------------
\* r gets a value, is perhaps tested; it or something else is returned.
Sources == {Null, Address, Value("new"), Value("malloc"), Of("p"), Of("g"), Choice("p", "q"), Choice("q", "q"), Cast(Null),
            In(Wrap("dynamic", TRUE), Of("p")), In(Wrap("hop", TRUE), Of("p")), In(Wrap("dynamic", TRUE), Address),
            Value("nothrow"), Value("this"), Value("placement"), Opaque}
             \cup {In(w, Of("p")) : w \in {Plain("Never"), Plain("Maybe"), Through, Alias, SureAlias, Owning, Borrowing}}
             \cup {In(Through, Null), In(Through, In(Alias, Of("p"))), In(Borrowing, Value("malloc"))}
Others == {Of("p"), Null, Address}

Tested ==
    {PF(<<Set("r", s), If(c, 4), Ret(e), Ret(o)>>) :
        s \in Sources, c \in {Flag, Truth("r", TRUE), Truth("p", FALSE)}, e \in {Of("r"), Cast(Of("r"))}, o \in Others}

\* r is changed, handed to a call, or given away under another name.
Changes == {Do("change", "r"), Do("address", "r"), Do("byref", "r"), Lend(Do("byref", "r")), Do("pass", "r"), Lend(Do("pass", "r")),
            Set("g", Of("r")), Set("p", Of("r")), Set("r", Of("q"))}
Changed ==
    {PF(<<Set("r", s), If(Flag, 4), t, u, Ret(e)>>) :
        s \in {Address, Value("malloc"), Null, Of("p"), In(Owning, Null)}, t \in Changes, u \in {Lend(Skip), Do("pass", "p")},
        e \in {Of("r"), In(Alias, Of("r")), In(Through, Of("p"))}}

\* Returns that the text tells apart, with parameters that are written or not.
Direct ==
    {PF(<<t, If(c, 4), Ret(e), Ret(o)>>) :
        t \in {Skip, Do("change", "p"), Do("address", "p"), Set("p", Of("q")), Do("byref", "p")}, c \in {Flag, Truth("p", FALSE)},
        e \in {Of("p"), Cast(Of("p")), In(Through, Of("p")), In(Wrap("dynamic", TRUE), Of("p")), In(Wrap("hop", TRUE), Of("p")),
               In(Wrap("hop", TRUE), In(Wrap("dynamic", TRUE), Address))},
        o \in {Of("q"), Address, In(Plain("Never"), Of("q")), In(Alias, Of("p")), Null, Value("nothrow")}}

\* Loops: the parameters are exchanged, a block is replaced; a static; an address that a
\* later call writes to.
Loops ==
    {PF(<<Set("r", Of("p")), If(Flag, 6), Set("p", Of("q")), Set("q", Of("r")), Jump(Lend(Skip), 2), Ret(e)>>) : e \in {Of("p"), Of("r"), Choice("p", "r")}}
      \cup {PF(<<Do(t, "g"), Set("r", Of("g")), Ret(e)>>) : t \in {"address", "byref", "pass"}, e \in {Of("g"), Of("r")}}
      \cup {PF(<<Set("r", s), If(Flag, 5), t, Jump(Set("r", u), 2), Ret(Of("r"))>>) :
              s \in {Null, Address, Value("malloc")}, t \in {Do("pass", "r"), Lend(Do("pass", "r")), If(Truth("r", FALSE), 5)}, u \in {Value("new"), Address, Of("p")}}
      \cup {PF(<<Node("static", "r", s), If(Truth("r", FALSE), 4), Set("r", Value("malloc")), Ret(Of("r"))>>) : s \in {Null, Address, Of("p")}}
      \cup {PF(<<Do("declare", "r"), If(Flag, 4), Jump(Set("r", s), 5), Set("r", Value("malloc")), If(c, 1), Ret(Of("r"))>>) :
              s \in {Null, Address, Of("p"), Value("new")}, c \in {Flag, Truth("r", TRUE)}}
      \cup {PF(<<Set("r", Null), Do("address", "r"), Set("r", s), Do("pass", "q"), Ret(Of("r"))>>) : s \in {Address, Of("p"), Value("new")}}

-----------------------------------------------------------------------------
\* Integers: width, sign, tests and changes.
Narrowed(e) == In(Wrap("cast", FALSE), e)
Minus(e) == In(Wrap("minus", TRUE), e)
Integers == {Lit(0), Lit(2), Of("x"), Opaque, Minus(Lit(1)), Narrowed(Lit(2)), In(ThroughBit, Lit(2)), In(Through, Lit(0))}
              \cup {In(w, Of("x")) : w \in {Plain("Always"), Plain("Never"), Plain("Maybe"), Through}}
IntTests == {Flag, Truth("i", TRUE), Test("i", "EQ", 0), Test("i", "NE", 1), Test("i", "GE", 1), Test("i", "LT", -1), Test("x", "GT", 0)}
Numbers ==
    {NF(<<Set("i", s), If(c, 4), Ret(Of("i")), Ret(o)>>) : s \in Integers, c \in IntTests, o \in {Of("x"), Lit(1), Lit(0)}}
      \cup {Bit(NF(<<Set("i", s), Ret(Of("i"))>>)) : s \in {Lit(2), Of("x")}}
      \cup {NF(<<Set("b", s), t, Ret(Of("b"))>>) : s \in {Lit(2), Of("x"), Lit(0)}, t \in {Lend(Skip), Do("change", "b"), Do("byref", "b")}}
      \cup {NF(<<Set("i", Lit(0)), If(Flag, 4), Jump(t, 2), Ret(Of("i"))>>) : t \in {Do("change", "i"), Set("i", Lit(1)), Set("i", Of("x"))}}
Returned2 == {Of("x"), Minus(Of("x")), Narrowed(Of("x")), In(Through, Of("x")), In(ThroughBit, Of("x")), In(Through, In(ThroughBit, Of("x"))),
              Cast(Narrowed(Of("x"))), Narrowed(In(Through, Of("x")))}
Passed ==
    {IF w THEN f ELSE Bit(f) : w \in BOOLEAN,
        f \in {NF(<<t, If(Flag, 4), Ret(e), Ret(o)>>) : t \in {Lend(Skip), Do("change", "x"), Do("byref", "x")}, e \in Returned2,
                    o \in {Lit(1), Of("y"), Of("x"), In(Plain("Never"), Of("y"))}}}

-----------------------------------------------------------------------------
\* Null is returned in the default of a switch, or under a comparison.
Default(n) == [kind |-> "default", at |-> n, taken |-> TRUE]
Arm(n, taken) == [kind |-> "if", at |-> n, taken |-> taken]
Cases == {(0 :> 2), (0 :> 2 @@ 1 :> 4), (0 :> 2 @@ 1 :> 3), (0 :> 2 @@ 2 :> 3), (-1 :> 3 @@ 0 :> 2 @@ 1 :> 3)}
Switches ==
    {XF(<<Switching("x", k, 4), t, Ret(Address), RetUnder(Null, <<Default(1)>>)>>) :
        k \in Cases, t \in {Ret(Address), Jump(Lend(Skip), 4), Do("change", "x"), Jump(Lend(Skip), 3)}}
Guards ==
    {XF(<<t, If(c, 4), RetUnder(e, <<Arm(2, TRUE)>>), RetUnder(IF e = Null THEN o ELSE Null, u)>>) :
        t \in {Lend(Skip), Do("change", "x"), Do("byref", "x")},
        c \in {Cond("compare", "x", op, 1, neg, FALSE) : op \in {"LT", "LE", "GT", "GE", "EQ", "NE"}, neg \in BOOLEAN}
                \cup {Cond("compare", "x", op, 1, FALSE, TRUE) : op \in {"LT", "GE"}},
        e \in {Null, Address}, o \in {Address, In(Plain("Maybe"), Address)}, u \in {<<Arm(2, FALSE)>>}}
Nested == {XF(<<If(Test("x", "GT", 0), 5), If(c, 4), RetUnder(Null, <<Arm(2, TRUE), Arm(1, TRUE)>>), Ret(Address), Ret(Address)>>) :
              c \in {Flag, Test("x", "LT", 2), Test("x", "EQ", 1)}}

MCProgram == Tested \cup Changed \cup Direct \cup Loops \cup Numbers \cup Passed \cup Switches \cup Guards \cup Nested
MCVal == -1 .. 2
=============================================================================
