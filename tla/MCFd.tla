-------------------------------- MODULE MCFd --------------------------------
(***************************************************************************)
(* An instance of FdRule: functions that open, copy, test, hand away and   *)
(* close descriptors, with branches and loops.                             *)
(***************************************************************************)
EXTENDS FdRule

none == "none"
Value(v, o, n) == [var |-> v, origin |-> o, value |-> n]
Of(v) == Value(v, none, 0)
Const(n) == Value(none, none, n)
Anything == Const(MaxFd + 1)
Call(o) == Value(none, o, 0)

Stmt(kind, v, x) == [kind |-> kind, var |-> v, rhs |-> x, ownership |-> "Unknown"]
Set(v, x) == Stmt("assign", v, x)
Keep(x) == Set(none, x)
Pass(x, ownership) == [Stmt("call", none, x) EXCEPT !.ownership = ownership]
Close(x) == Pass(x, "Consumed")
Return(x) == Stmt("return", none, x)
End == Return(Anything)

Test(v, op, n, neg) == [kind |-> "constant", var |-> v, with |-> none, op |-> op, value |-> n, neg |-> neg]
Equal(v, w, op, neg) == [kind |-> "equal", var |-> v, with |-> w, op |-> op, value |-> 0, neg |-> neg]
Flag == [kind |-> "other", var |-> none, with |-> none, op |-> "EQ", value |-> 0, neg |-> FALSE]

Fn(bound, stmts, conds) == [bound |-> bound, stmts |-> stmts \cup {End}, conds |-> conds]

-----------------------------------------------------------------------------
Tested == Fn(6, {Set("f", Call("o")), Close(Of("f")), Set("f", Const(-1))},
             {Test("f", "LT", 0, FALSE), Test("f", "GT", -1, TRUE), Test("f", "GT", 0, FALSE)})
Copied == Fn(6, {Set("f", Call("o")), Set("g", Of("f")), Close(Of("g")), Set("f", Const(-1)), Set("f", Of("g")),
                Set("g", Of("h"))},
             {Test("g", "NE", -1, FALSE)})
Two == Fn(6, {Set("f", Call("o")), Set("g", Call("p")), Set("f", Of("g")), Close(Of("f")), Close(Of("g"))},
          {Test("f", "EQ", -1, FALSE)})
Compared == Fn(6, {Set("f", Call("o")), Set("g", Const(-1)), Set("h", Of("g")), Set("g", Call("p")), Set("g", Anything)},
               {Equal("f", "h", "EQ", FALSE), Equal("g", "f", "NE", FALSE)})
Ended == Fn(4, {Keep(Call("o")), Set("f", Call("p")), Keep(Of("f")), Return(Of("f"))}, {Flag})
Unkept == Fn(4, {Pass(Call("o"), "Unknown"), Return(Call("p"))}, {Flag})
Shut == Fn(4, {Close(Call("o")), Pass(Call("p"), "Transferred")}, {Flag})
Again == Fn(6, {Set("f", Call("o")), Set("g", Of("f")), Set("h", Call("p"))},
            {Test("h", "LT", 0, FALSE), Equal("g", "h", "EQ", FALSE)})
Passed == Fn(5, {Set("f", Call("o")), Pass(Of("f"), "Borrowed"), Pass(Of("f"), "Transferred"), Close(Of("f")),
                 Set("g", Of("f"))}, {Flag})
Wrapped == Fn(5, {Set("f", Call("o")), Set("n", Const(-1)), Set("n", Of("f")), Stmt("bump", "g", Anything),
                  Set("g", Const(-1))}, {Equal("f", "n", "EQ", FALSE), Equal("f", "g", "EQ", FALSE)})

MCFunction == {Tested, Copied, Two, Compared, Ended, Unkept, Shut, Again, Passed, Wrapped}
=============================================================================
