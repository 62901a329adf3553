---------------------------- MODULE MCAnalysisRun ----------------------------
(***************************************************************************)
(* Module AnalysisRun for a project of two source files and a header, with *)
(* two runs in a row and an edit between them.                             *)
(***************************************************************************)
EXTENDS AnalysisRun, TLC

CONSTANTS SeveralCommands       \* may a file have several compile commands

MCFile == {"a.c", "b.c"}

\* h1 and h2: the same text on two lines of the header; x: experimental;
\* m: found in a.c with the summaries of b.c.
MCFinding == {"h1", "h2", "x", "m"}

MCKeyV1(d) == <<"line", d>>
MCKeyV2(d) == <<"text", IF d = "h2" THEN "h1" ELSE d>>

Own(d) == [finding |-> d, needs |-> {}]
Cross(d, f) == [finding |-> d, needs |-> {f}]

\* What the rules find: the header is included by both files or by one.
Programs ==
    { ("a.c" :> ea @@ "b.c" :> eb) :
        ea \in {<<>>, <<Own("h1")>>, <<Own("h1"), Own("h2"), Own("x")>>, <<Cross("m", "b.c")>>},
        eb \in {<<>>, <<Own("x"), Own("h1")>>} }

Compilations ==
    { ("a.c" :> <<"ok">> @@ "b.c" :> cb) : cb \in {<<"ok">>, <<"broken">>, <<"lost">>, <<>>} }
    \cup (IF SeveralCommands THEN { "a.c" :> <<"ok", "ok">> @@ "b.c" :> <<"lost">> } ELSE {})
    \cup { "a.c" :> <<"broken">> @@ "b.c" :> <<"broken">>, "a.c" :> <<"ok", "broken">> @@ "b.c" :> <<"ok">> }

Plain(emits, commands) ==
    [files |-> <<"a.c", "b.c">>, commands |-> commands, emits |-> emits,
     rests |-> [f \in MCFile |-> {}], gaps |-> {}, hidden |-> {}, low |-> {}, reportOnly |-> {"x"},
     rulesEnabled |-> TRUE, wholeProgram |-> FALSE,
     analyzeBroken |-> FALSE, acceptPartial |-> FALSE,
     summaryIn |-> "none", summaryOut |-> "none",
     writeBaseline |-> "none", useBaseline |-> FALSE, reportWritable |-> TRUE]

\* One or two options away from the plain request.
Variants(r) ==
    { r, [r EXCEPT !.files = <<>>], [r EXCEPT !.rulesEnabled = FALSE],
      [r EXCEPT !.files = <<"b.c", "a.c">>],
      [r EXCEPT !.wholeProgram = TRUE], [r EXCEPT !.analyzeBroken = TRUE],
      [r EXCEPT !.wholeProgram = TRUE, !.analyzeBroken = TRUE],
      [r EXCEPT !.acceptPartial = TRUE], [r EXCEPT !.gaps = {"b.c"}],
      [r EXCEPT !.hidden = {"h1"}], [r EXCEPT !.low = {"h1"}],
      [r EXCEPT !.reportWritable = FALSE],
      [r EXCEPT !.useBaseline = TRUE], [r EXCEPT !.useBaseline = TRUE, !.low = {"h1"}] }
    \cup { [r EXCEPT !.summaryIn = s] : s \in {"fresh", "stale", "unreadable"} }
    \cup { [r EXCEPT !.summaryOut = s] : s \in {"writable", "unwritable"} }
    \cup { [r EXCEPT !.writeBaseline = w] : w \in {"writable", "unwritable", "full"} }

\* Whole-program mode, with the files in either order, and b.c's summaries inferred from
\* those of a.c or not; what is harvested is merged with what was loaded before, or
\* harvested again in pass 2.
WholePrograms ==
    { [Plain("a.c" :> <<Cross("m", "b.c")>> @@ "b.c" :> <<>>, [f \in MCFile |-> <<"ok">>]) EXCEPT
          !.files = order, !.rests["b.c"] = rests, !.wholeProgram = TRUE,
          !.summaryIn = saved[1], !.summaryOut = saved[2]] :
        order \in {<<"a.c", "b.c">>, <<"b.c", "a.c">>}, rests \in {{}, {"a.c"}},
        saved \in {<<"none", "none">>, <<"fresh", "none">>, <<"none", "writable">>} }

MCRequest == WholePrograms \cup UNION { Variants(Plain(e, c)) : e \in Programs, c \in Compilations }

MCNoBaseline == {NoBaseline}

\* No baseline, or one of the old form that knows h1 by its line number.
MCFirstBaseline ==
    { NoBaseline,
      [present |-> TRUE, count |-> [k \in Key |-> IF k = MCKeyV1("h1") THEN 1 ELSE 0]] }
=============================================================================
