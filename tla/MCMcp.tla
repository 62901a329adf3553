------------------------------- MODULE MCMcp -------------------------------
(***************************************************************************)
(* An instance of McpServer: sessions that mix what a client may send, on  *)
(* two files, which a directory holds; the cache holds two trees.          *)
(***************************************************************************)
EXTENDS McpServer

CONSTANT MCLines    \* the bound of a session

MCSize == [plain |-> 1, hard |-> 1, broken |-> 2]

MCSources == [dir |-> {"a", "b"}, a |-> {"a"}, missing |-> {}]

-----------------------------------------------------------------------------
\* Lines
NoArgs == [fault |-> "missing", path |-> Nothing, build |-> Nothing, options |-> Defaults, summaries |-> Nothing]
Args(path, opts, summaries) ==
    [fault |-> Nothing, path |-> path, build |-> "build", options |-> opts, summaries |-> summaries]
Faulty(fault) == [NoArgs EXCEPT !.fault = fault]

Message(form, id, method, tool, args) == [form |-> form, id |-> id, method |-> method, tool |-> tool, args |-> args]
Text0(form) == Message(form, Nothing, Nothing, Nothing, NoArgs)
Call(tool, args) == Message("object", 7, "tools/call", tool, args)
Analyze(path, opts, summaries) == Call("analyze", Args(path, opts, summaries))

InBuild(l, build) == [l EXCEPT !.args.build = build]

Filtered == [Defaults EXCEPT !["functions"] = "f"]

Requests ==
    {Analyze("dir", Defaults, Nothing), Analyze("dir", Filtered, "saved"), InBuild(Analyze("a", Defaults, "unreadable"), "other"),
     Analyze("missing", Filtered, "saved")}

\* What needs no analysis.
Plain ==
    {Text0("blank"), Text0("garbage"), Text0("not an object"),
     Message("object", Nothing, Nothing, Nothing, NoArgs), Message("object", Nothing, "other", Nothing, NoArgs),
     Message("object", 7, Nothing, Nothing, NoArgs), Message("object", 7, "other", Nothing, NoArgs),
     Message("object", 7, "initialize", Nothing, NoArgs),
     Call(Nothing, NoArgs), Call("other", NoArgs)}
     \cup {Call("analyze", Faulty(fault)) : fault \in {"missing", "unknown field", "not a string", "empty path", "lines"}}

\* Requests in every order, or one of them among lines of the other kinds.
MCSession ==
    {s \in SeqOf(Requests, MCLines) : Len(s) = MCLines}
     \cup {<<l, Analyze("a", Defaults, "saved"), l>> : l \in Plain}
=============================================================================
