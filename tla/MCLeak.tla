------------------------------- MODULE MCLeak -------------------------------
(***************************************************************************)
(* An instance of LeakRule: functions that acquire, copy, release, give    *)
(* away and reallocate blocks, with owners, branches and references.       *)
(***************************************************************************)
EXTENDS LeakRule

none == "none"
X == [var |-> "x", field |-> none]
MCPlace == {X}
MCLocal == {"x", "p", "q", "r", "a"}

Stmt(kind) == [kind |-> kind, var |-> none, from |-> none, exact |-> TRUE, family |-> "", familyKnown |-> TRUE,
               size |-> none, nonZero |-> FALSE, by |-> "free", owner |-> none, move |-> FALSE, replace |-> FALSE,
               lit |-> [value |-> 0, unsigned |-> FALSE], line |-> 0]
On(kind, v) == [Stmt(kind) EXCEPT !.var = v]

Malloc(v, line) == [On("acquire", v) EXCEPT !.line = line]
Pool(v, line) == [Malloc(v, line) EXCEPT !.family = "pool"]
Wrapped(v, line) == [Malloc(v, line) EXCEPT !.familyKnown = FALSE]
Realloc(v, from, line) == [Malloc(v, line) EXCEPT !.kind = "realloc", !.from = from]
Sized(s, place) == [s EXCEPT !.size = place]
NonZero(s) == [s EXCEPT !.nonZero = TRUE]
Copy(v, w) == [On("copy", v) EXCEPT !.from = w]
Cast(v, w) == [Copy(v, w) EXCEPT !.exact = FALSE]
Null(v) == Copy(v, none)
BindRef(a, v) == [On("bindRef", a) EXCEPT !.from = v]
Release(v, by, line) == [On("release", v) EXCEPT !.by = by, !.line = line]
Free(v, line) == Release(v, "free", line)
Deref(v, line) == [On("deref", v) EXCEPT !.line = line]
Hand(v) == On("give", v)
Owner(kind, o, line) == [Stmt(kind) EXCEPT !.owner = o, !.line = line]
Adopt(o, v) == [On("adopt", v) EXCEPT !.owner = o]
Custom(o, v) == [Adopt(o, v) EXCEPT !.exact = FALSE]
Share(o, s, line) == [Owner("ownerCopy", o, line) EXCEPT !.from = s]
Move(o, s, line) == [Share(o, s, line) EXCEPT !.move = TRUE]
Replacing(s) == [s EXCEPT !.replace = TRUE]
Reset(o, v, line) == [Owner("ownerReset", o, line) EXCEPT !.var = v]
Get(o, v) == [Owner("ownerGet", o, 0) EXCEPT !.var = v]
Detach(o, v) == [Owner("ownerRelease", o, 0) EXCEPT !.var = v]
Return(v) == [On("return", v) EXCEPT !.line = 98]
End == Return(none)
Assign(v, n) == [On("assign", v) EXCEPT !.lit.value = n]

If(leaf) == [join |-> "leaf", neg |-> FALSE, lhs |-> leaf, rhs |-> leaf]
Flag == If([kind |-> "truth", place |-> X, neg |-> FALSE, plain |-> TRUE])
NilTest(v) == [kind |-> "pointer", ptr |-> v, op |-> "EQ", neg |-> FALSE, plain |-> TRUE]
Either(v, w) == [join |-> "or", neg |-> FALSE, lhs |-> NilTest(v), rhs |-> NilTest(w)]

Fn(bound, stmts, conds) == [bound |-> bound, stmts |-> stmts \cup {End}, conds |-> conds,
                            inputs |-> IF Flag \in conds THEN {X} ELSE {}]

-----------------------------------------------------------------------------
Releases == Fn(4, {Malloc("p", 1), Free("p", 2), Deref("p", 3), Null("p")}, {If(NilTest("p")), Flag})
Aliases == Fn(5, {Malloc("p", 1), Copy("q", "p"), Copy("p", "q"), Null("p"), Free("q", 2), Deref("p", 3)}, {})
Casts == Fn(5, {Malloc("p", 1), Cast("q", "p"), Free("q", 2), Deref("q", 3)}, {If(NilTest("q"))})
Escaping == Fn(4, {Malloc("p", 1), Copy("q", "p"), Hand("q"), On("addressOf", "p"), On("refArg", "q"),
                   Free("p", 2), Return("q")}, {If(NilTest("p"))})
Families == Fn(4, {Pool("p", 1), Wrapped("q", 2), Release("p", "pool", 3), Release("q", "wrapper", 4),
                   Free("p", 5), Release("p", "wrapper", 6), Realloc("q", "p", 7),
                  Realloc("p", "p", 8)}, {})
Grow == Fn(5, {Malloc("p", 1), NonZero(Realloc("q", "p", 2)), Free("q", 4), Copy("p", "q")},
           {If(NilTest("q"))})
Sizes == Fn(4, {Malloc("p", 1), Sized(Realloc("q", "p", 2), "x")},
           {Flag, If(NilTest("q"))})
Unique == Fn(5, {Malloc("p", 1), Adopt("o", "p"), Free("p", 2), Owner("scopeEnd", "o", 3), Deref("p", 4),
                 Reset("o", none, 5)}, {If(NilTest("p"))})
Shared == Fn(5, {Malloc("p", 1), Adopt("o", "p"), Share("s", "o", 2), Replacing(Move("s", "o", 3)),
                 Replacing(Share("o", "s", 4)), Owner("scopeEnd", "o", 5), Deref("p", 6)}, {})
Results == Fn(5, {Malloc("p", 1), Adopt("o", "p"), Get("o", "q"), Detach("o", "q"), Free("q", 2), Deref("p", 3),
                  Reset("o", "q", 4), Stmt("throw")}, {})
Foreign == Fn(4, {Malloc("p", 1), Custom("o", "p"), Adopt("o", "p"), Adopt("s", "p"), Owner("ownerGive", "o", 2),
                  Move("s", "o", 3)}, {Flag})
References == Fn(4, {Malloc("p", 1), BindRef("a", "p"), Copy("a", "q"), Malloc("a", 2), Copy("q", "a"), Free("a", 3),
                     Free("p", 4)}, {})
Paired == Fn(4, {Malloc("p", 1), Malloc("q", 2), Free("p", 3)}, {Either("p", "q")})

Rebound == Fn(6, {Malloc("p", 1), Malloc("r", 2), Copy("q", "p"), Copy("p", "r"), Free("r", 3), Deref("q", 4)}, {})

MCRebound == {Rebound}

MCFunction == {Releases, Aliases, Casts, Escaping, Families, Grow, Sizes, Unique, Shared, Results, Foreign,
               References, Paired}
=============================================================================
