------------------------------ MODULE ZeroRule ------------------------------
(***************************************************************************)
(* The division rule: src/src/rules/DivByZeroRule.cpp.  One translation    *)
(* unit is analysed: the passes that tell from the visible calls which     *)
(* parameters may be zero, then every function.  An execution of the       *)
(* functions follows, beside which the results are read.                   *)
(*                                                                         *)
(* A function has its parameters, its `requires p != 0` clauses, and its   *)
(* code: statements with a next and, for a condition, an alt(ernative).    *)
(***************************************************************************)
EXTENDS Zeroness, Sequences, SequencesExt, FiniteSets, FiniteSetsExt

CONSTANTS
    Var,                \* the integer variables
    Global,             \* those outside of the functions
    Narrow,             \* those that hold one bit
    Val,                \* the integers
    MaxSteps,           \* the bound of an execution
    kMaxZeronessPasses, \* how often the parameters are seeded at most
    Program             \* the units analysed

ASSUME ZeroAssumption ==
    /\ Val \subseteq Int /\ {0, 1} \subseteq Val /\ Narrow \cup Global \subseteq Var
    /\ MaxSteps \in Nat /\ kMaxZeronessPasses \in Nat

VARIABLES
    unit,       \* the functions, by name
    phase,      \* "seeding", "analysing", "running" or "stopped"
    pass,       \* the passes made
    seeds,      \* the parameters that may be zero, as <<function, index>>
    flow,       \* the state before every statement of every function
    reports,    \* the diagnostics
    stack,      \* the active calls, the innermost last
    steps,      \* statements executed
    trapped,    \* the division by zero that ended the execution, if one did
    broken,     \* history: the known zeros passed to a parameter that must not be zero
    outside     \* history: what the analysis does not provide for, if it happened

vars == <<unit, phase, pass, seeds, flow, reports, stack, steps, trapped, broken, outside>>

Fns == DOMAIN unit

Nodes(f) == DOMAIN unit[f].code

At(f, n) == unit[f].code[n]

Params(f) == unit[f].params

ParamIndex == UNION {DOMAIN Params(f) : f \in Fns}

Calls(f) == {n \in Nodes(f) : At(f, n).kind = "call"}

-----------------------------------------------------------------------------
(* Tracked variables *)

\* The variables in T and, transitively, those that they are copies of.
CopyClosure(f, T) ==
    LET Step(S) == S \cup UNION {CopySource(At(f, n).value) : n \in {m \in Nodes(f) : /\ At(f, m).kind = "assign"
                                                                                  /\ At(f, m).var \in S}}
    IN  FoldSet(LAMBDA v, S : Step(S), T, Var)

\* Mutant: a divisor that is the result of a call is not followed.
collectDivisorVarsPlain(f) ==
    LET divisors == UNION {getReferencedVar(At(f, n).value) : n \in {m \in Nodes(f) : At(f, m).kind = "divide"}}
        Plain(S) == S \cup UNION {getReferencedVar(At(f, n).value) : n \in {m \in Nodes(f) : /\ At(f, m).kind = "assign"
                                                                                         /\ At(f, m).var \in S}}
    IN  FoldSet(LAMBDA v, S : Plain(S), divisors, Var)

collectDivisorVars(f) ==
    CopyClosure(f, UNION {getReferencedVar(At(f, n).value) : n \in {m \in Nodes(f) : At(f, m).kind = "divide"}})

\* The clauses that the call at n must meet: the indices of parameters.
Clauses(f, n) == unit[At(f, n).callee].requires

contractArgVars(f) ==
    UNION {UNION {getReferencedVar(At(f, n).args[i]) : i \in Clauses(f, n)} : n \in Calls(f)}

TrackedVars(f) == collectDivisorVars(f) \cup contractArgVars(f)

-----------------------------------------------------------------------------
(* Dataflow over a function, from the state of its entry: {S} before each      *)
(* statement, or {} where it is not reached.                                   *)

Join(states) == IF states = {} THEN {} ELSE {FoldSet(merge, CHOOSE S \in states : TRUE, states)}

\* What the statement m hands to n.
Handed(f, m, n, S) ==
    LET s == At(f, m)
    IN  IF s.kind = "branch"
          THEN {applyCondition(s.cond, t, S) : t \in {u \in BOOLEAN : n = IF u THEN s.next ELSE s.alt}}
        ELSE {transfer(s, S) : x \in {y \in {0} : n = s.next}}

RECURSIVE Solve(_, _, _)
Solve(f, entry, known) ==
    LET next == [n \in Nodes(f) |->
                    Join({entry : x \in {0} \cap {n - 1}}
                           \cup UNION {UNION {Handed(f, m, n, S) : S \in known[m]} : m \in Nodes(f)})]
    IN  IF next = known THEN known ELSE Solve(f, entry, next)

runDataflow(f, entry) == Solve(f, entry, [n \in Nodes(f) |-> {}])

-----------------------------------------------------------------------------
(* Which parameters may be zero *)

\* The callees all of whose calls are visible.
trackedFns == {f \in Fns : ~unit[f].visible /\ ~unit[f].taken}

argVars(f) ==
    UNION {UNION {CopySource(At(f, n).args[i]) : i \in DOMAIN At(f, n).args} :
              n \in {m \in Calls(f) : At(f, m).callee \in trackedFns}}

SeededAt(f, v, prev) == \E i \in DOMAIN Params(f) : Params(f)[i] = v /\ <<f, i>> \in prev

passFlow(f, prev) == runDataflow(f, [v \in argVars(f) |-> IF SeededAt(f, v, prev) THEN "MaybeZero" ELSE "Unknown"])

\* Mutant: what is not known to be nonzero may be zero.
runZeronessPassUnknown(prev) ==
    LET known == [f \in Fns |-> passFlow(f, prev)]
        Passed(f, n, i) == ValueIn(IF known[f][n] = {} THEN <<>> ELSE CHOOSE S \in known[f][n] : TRUE, At(f, n).args[i])
    IN  {<<g, i>> \in trackedFns \X ParamIndex :
            \E f \in Fns : \E n \in Calls(f) :
                At(f, n).callee = g /\ i \in DOMAIN At(f, n).args /\ Passed(f, n, i) # "NonZero"}

\* The parameters to which some call passes a possible zero, if those in prev may be zero.
runZeronessPass(prev) ==
    LET known == [f \in Fns |-> passFlow(f, prev)]
        Passed(f, n, i) == ValueIn(IF known[f][n] = {} THEN <<>> ELSE CHOOSE S \in known[f][n] : TRUE, At(f, n).args[i])
    IN  {<<g, i>> \in trackedFns \X ParamIndex :
            \E f \in Fns : \E n \in Calls(f) :
                At(f, n).callee = g /\ i \in DOMAIN At(f, n).args /\ Passed(f, n, i) \in zeroInfo}

-----------------------------------------------------------------------------
(* The function's diagnostics *)

Required(f) == {Params(f)[i] : i \in unit[f].requires}

initialState(f) ==
    [v \in TrackedVars(f) |->
        CASE v \in Required(f) -> "NonZero"
          [] v \notin Required(f) /\ SeededAt(f, v, seeds) -> "MaybeZero"
          [] OTHER -> "Unknown"]

\* One for each key.
FirstOfEach(cand, Key(_)) == {d \in cand : \A e \in cand : Key(e) = Key(d) => e.node >= d.node}

Diagnostic(f, n, i, z) == [fn |-> f, node |-> n, param |-> i, severity |-> IF z = "Zero" THEN "Error" ELSE "Warning"]

\* What is known of a divisor or an argument that is a variable, where it is reached.
StateOf(known, n, x) == UNION {{S[v] : v \in getReferencedVar(x) \cap DOMAIN S} : S \in known[n]}

\* Division by a literal zero is found first, and a line is reported once.
divisionReports(f, known) ==
    LET line(d) == At(f, d.node).line
        divisions == {n \in Nodes(f) : At(f, n).kind = "divide"}
        literal == FirstOfEach({Diagnostic(f, n, 0, "Zero") : n \in {m \in divisions : evaluateAsZero(At(f, m).value) = "Zero"}},
                               line)
        variable == UNION {{Diagnostic(f, n, 0, z) : z \in StateOf(known, n, At(f, n).value) \cap zeroInfo} : n \in divisions}
    IN  literal \cup FirstOfEach({d \in variable : \A e \in literal : line(e) # line(d)}, line)

\* Of the clauses of one text that are violated on a line, the first is reported.
contractReports(f, known) ==
    LET text(d) == <<At(f, d.node).line, Params(At(f, d.node).callee)[d.param]>>
        Claim(n, x) == {z \in {evaluateAsZero(x)} : known[n] # {} /\ z # "Unknown"} \cup StateOf(known, n, x)
    IN  FirstOfEach(UNION {UNION {{Diagnostic(f, n, i, z) : z \in Claim(n, At(f, n).args[i]) \cap zeroInfo} :
                                      i \in Clauses(f, n)} : n \in Calls(f)}, text)

-----------------------------------------------------------------------------
(* The execution.  A frame has the values of the variables and, for those that *)
(* the function knows to be possibly zero, over how many calls it knows (hops),*)
(* through which variables the value came in the function (via), and whether   *)
(* a copy before one of those calls was none of argVars (untracked).  Others   *)
(* than the function may write what is shared: globals, static locals, and     *)
(* locals whose address or reference was given away.                           *)

Lost == [hops |-> -1, via |-> {}, untracked |-> FALSE]

Source == [hops |-> 0, via |-> {}, untracked |-> FALSE]

Top == Last(stack)

Statics(f) == {At(f, n).var : n \in {m \in Nodes(f) : At(f, m).kind = "static"}}

\* The frames in which v is the variable that it is in the frame k.
Holders(k, v) ==
    {j \in DOMAIN stack : \/ j = k \/ v \in Global
                          \/ /\ v \in Statics(stack[k].fn) \cap stack[j].shared
                             /\ stack[j].fn = stack[k].fn}

\* In frames, v of the frame k becomes y; known is what that frame knows of it if it is zero.
Put(frames, k, v, y, known) ==
    [j \in DOMAIN frames |->
        IF j \in Holders(k, v)
          THEN [frames[j] EXCEPT !.env[v] = y, !.zero[v] = IF j = k /\ y = 0 THEN known ELSE Lost]
        ELSE frames[j]]

Stored(v, y) == IF v \in Narrow THEN y % 2 ELSE y

\* What x may evaluate to.
Values(env, x) ==
    CASE x.kind = "literal" -> {x.n}
      [] x.kind = "var" -> {env[x.var]}
      [] x.kind = "passed" -> LET argument == IF x.wide THEN env[x.var] % 2 ELSE env[x.var]
                              IN  {y \in Val : y = 0 => argument = 0}
      [] x.kind = "result" /\ x.zeroness = "AlwaysZero" -> {0}
      [] x.kind = "result" /\ x.zeroness = "NeverZero" -> Val \ {0}
      [] OTHER -> Val

\* How it is known that x, which is zero, may be.
Origin(frame, x) ==
    LET source == {w \in CopySource(x) : frame.zero[w].hops >= 0}
    IN  CASE evaluateAssignedValue(unwrapZeroPassthrough(x)) \in zeroInfo -> Source
          [] source # {} -> LET w == CHOOSE u \in source : TRUE
                            IN  [frame.zero[w] EXCEPT !.via = @ \cup {w}]
          [] OTHER -> Lost

\* The parameter knows what as many passes as there are can tell it.
Relayed(frame, x, g) ==
    LET origin == Origin(frame, x)
    IN  IF origin.hops \in 0 .. kMaxZeronessPasses - 1 /\ g \in trackedFns
          THEN [hops |-> origin.hops + 1, via |-> {},
                untracked |-> origin.untracked \/ ~(origin.via \subseteq argVars(frame.fn))]
        ELSE Lost

Note(what, happened) == IF happened THEN {what} ELSE {}

\* A frame of f with the given values of its parameters, what is known of them, and the
\* values of the globals.
Frame(f, args, zero, world) ==
    [fn |-> f, node |-> 1, shared |-> Global,
     env |-> [v \in Var |-> CASE v \in Global -> world[v]
                              [] v \notin Global /\ \E i \in DOMAIN args : Params(f)[i] = v
                                   -> Stored(v, args[CHOOSE i \in DOMAIN args : Params(f)[i] = v])
                              [] OTHER -> 0],
     zero |-> [v \in Var |-> IF \E i \in DOMAIN args : Params(f)[i] = v
                               THEN zero[CHOOSE i \in DOMAIN args : Params(f)[i] = v] ELSE Lost]]

\* The innermost frame goes on at n.
Goes(n) == [stack EXCEPT ![Len(stack)].node = n]

-----------------------------------------------------------------------------
(* Behaviours *)

Init ==
    /\ unit \in Program
    /\ phase = "seeding" /\ pass = 0 /\ seeds = {}
    /\ flow = <<>> /\ reports = {}
    /\ stack = <<>> /\ steps = 0 /\ trapped = {} /\ broken = {} /\ outside = {}

\* The passes end when nothing changes.
ZeronessPass ==
    /\ phase = "seeding"
    /\ LET next == runZeronessPass(seeds)
       IN  IF next = seeds
             THEN phase' = "analysing" /\ UNCHANGED <<pass, seeds>>
           ELSE /\ seeds' = next /\ pass' = pass + 1
                /\ phase' = IF pass' = kMaxZeronessPasses THEN "analysing" ELSE "seeding"
    /\ UNCHANGED <<unit, flow, reports, stack, steps, trapped, broken, outside>>

Analyse ==
    /\ phase = "analysing"
    /\ flow' = [f \in Fns |-> runDataflow(f, initialState(f))]
    /\ reports' = UNION {divisionReports(f, flow'[f]) \cup contractReports(f, flow'[f]) : f \in Fns}
    /\ phase' = "running"
    /\ UNCHANGED <<unit, pass, seeds, stack, steps, trapped, broken, outside>>

\* A caller elsewhere keeps to the contract; globals are as others left them.
Start(f, args, world) ==
    /\ phase = "running" /\ stack = <<>> /\ steps = 0
    /\ unit[f].visible \/ unit[f].taken
    /\ \A i \in unit[f].requires : Stored(Params(f)[i], args[i]) # 0
    /\ stack' = <<Frame(f, args, [i \in DOMAIN args |-> Lost], world)>>
    /\ UNCHANGED <<unit, phase, pass, seeds, flow, reports, steps, trapped, broken, outside>>

Running(kinds) ==
    /\ phase = "running" /\ stack # <<>> /\ steps < MaxSteps
    /\ Top.node \in Nodes(Top.fn) /\ At(Top.fn, Top.node).kind \in kinds
    /\ steps' = steps + 1
    /\ UNCHANGED <<unit, pass, seeds, flow, reports>>

\* The initialiser of a static local has run, unless another call of the function is
\* active, in an earlier one.
Write ==
    /\ Running({"assign", "static", "change", "expose", "scan"})
    /\ LET s == At(Top.fn, Top.node)
           k == Len(stack)
           known == CASE s.kind = "assign" -> Origin(Top, s.value)
                      [] s.kind = "scan" -> Source
                      [] OTHER -> Lost
           others == Holders(k, s.var) \ {k}
           values == CASE s.kind = "assign" -> Values(Top.env, s.value)
                       [] s.kind = "static" /\ others # {} -> {stack[j].env[s.var] : j \in others}
                       [] OTHER -> Val
           shares == IF s.kind \in {"static", "expose"} THEN {s.var} ELSE {}
       IN  \E y \in values :
              /\ stack' = Put([Goes(s.next) EXCEPT ![k].shared = @ \cup shares], k, s.var, Stored(s.var, y),
                              IF y = 0 THEN known ELSE Lost)
              /\ outside' = outside
                               \cup Note("narrowed", s.kind = "assign" /\ y # 0 /\ Stored(s.var, y) = 0)
                               \cup Note("mixed", s.kind = "assign" /\ s.value.kind = "passed" /\ y # 0
                                                    /\ Top.env[s.value.var] = 0)
                               \cup Note("global", \E j \in others : stack[j].env[s.var] # Stored(s.var, y))
    /\ UNCHANGED <<phase, trapped, broken>>

\* A function elsewhere is called or a pointer is stored through: it may change any one
\* shared variable of any active call.  The state stays as it is.
Elsewhere ==
    /\ Running({"opaque"})
    /\ LET next == Goes(At(Top.fn, Top.node).next)
       IN  \/ stack' = next /\ UNCHANGED outside
           \/ \E k \in DOMAIN stack : \E v \in stack[k].shared : \E y \in Val :
                 /\ stack[k].env[v] # Stored(v, y)
                 /\ stack' = Put(next, k, v, Stored(v, y), Lost)
                 /\ outside' = outside \cup {IF v \in Global \cup Statics(stack[k].fn) THEN "global" ELSE "alias"}
    /\ UNCHANGED <<phase, trapped, broken>>

\* Division by zero ends the execution.
Divide ==
    /\ Running({"divide"})
    /\ LET s == At(Top.fn, Top.node)
       IN  \E y \in Values(Top.env, s.value) :
              IF y # 0 THEN stack' = Goes(s.next) /\ UNCHANGED <<phase, trapped>>
              ELSE /\ phase' = "stopped"
                   /\ trapped' = {[fn |-> Top.fn, node |-> Top.node,
                                   known |-> \/ s.value.kind = "literal"
                                             \/ \E v \in getReferencedVar(s.value) : Top.zero[v].hops >= 0,
                                   tracked |-> \A v \in getReferencedVar(s.value) : ~Top.zero[v].untracked]}
                   /\ UNCHANGED stack
    /\ UNCHANGED <<broken, outside>>

Branch(taken) ==
    /\ Running({"branch"})
    /\ LET s == At(Top.fn, Top.node)
           c == s.cond
           holds == CASE c.kind = "truth" -> {Top.env[c.var] # 0}
                      [] c.kind = "compare" -> {Compares(c.op, Top.env[c.var], c.n)}
                      [] OTHER -> BOOLEAN
       IN  /\ taken \in {h # c.neg : h \in holds}
           /\ stack' = IF EdgeFact(c, taken # c.neg) = {"Zero"}
                         THEN [Goes(IF taken THEN s.next ELSE s.alt) EXCEPT ![Len(stack)].zero[c.var] = Source]
                       ELSE Goes(IF taken THEN s.next ELSE s.alt)
    /\ UNCHANGED <<phase, trapped, broken, outside>>

\* A parameter that must not be zero is not known to be.
Call ==
    /\ Running({"call"})
    /\ LET s == At(Top.fn, Top.node)
           x == s.args
           zeros(args) == {i \in Clauses(Top.fn, Top.node) : Stored(Params(s.callee)[i], args[i]) = 0}
           known == {i \in DOMAIN x : \/ evaluateAsZero(x[i]) = "Zero"
                                      \/ getReferencedVar(x[i]) # {} /\ Origin(Top, x[i]).hops >= 0}
           tracked(i) == /\ Origin(Top, x[i]).via \subseteq TrackedVars(Top.fn)
                         /\ ~Origin(Top, x[i]).untracked
       IN  \E args \in [DOMAIN x -> Val] :
              /\ \A i \in DOMAIN x : args[i] \in Values(Top.env, x[i])
              /\ stack' = Append(Goes(s.next),
                                 Frame(s.callee, args, [i \in DOMAIN x |->
                                     IF args[i] # 0 \/ i \in unit[s.callee].requires THEN Lost
                                     ELSE Relayed(Top, x[i], s.callee)],
                                       [v \in Global |-> Top.env[v]]))
              /\ broken' = broken \cup {[fn |-> Top.fn, node |-> Top.node, param |-> i, tracked |-> tracked(i)] :
                                           i \in {j \in zeros(args) \cap known : outside = {} /\ args[j] = 0}}
              /\ outside' = outside \cup Note("contract", zeros(args) # {})
    /\ UNCHANGED <<phase, trapped>>

Return ==
    /\ phase = "running" /\ stack # <<>> /\ Top.node \notin Nodes(Top.fn)
    /\ stack' = Front(stack)
    /\ phase' = IF Len(stack) = 1 THEN "stopped" ELSE phase
    /\ UNCHANGED <<unit, pass, seeds, flow, reports, steps, trapped, broken, outside>>

Next ==
    \/ ZeronessPass
    \/ Analyse
    \/ \E f \in Fns : \E args \in [DOMAIN Params(f) -> Val], world \in [Global -> Val] : Start(f, args, world)
    \/ Write
    \/ Elsewhere
    \/ Divide
    \/ \E taken \in BOOLEAN : Branch(taken)
    \/ Call
    \/ Return

Spec == Init /\ [][Next]_vars

-----------------------------------------------------------------------------
(* Properties *)

\* What the analysis says of a variable is so wherever an execution comes, as long as nothing
\* that outside names has happened: one that is NonZero is not zero, and one that is Zero is.
\* In a parameter this rests on the calls; a variable that others than the function have
\* written since (global, alias) is not covered.
ClaimsHold ==
    outside = {} =>
        \A k \in DOMAIN stack : LET frame == stack[k] IN frame.node \in Nodes(frame.fn) =>
            /\ flow[frame.fn][frame.node] # {}
            /\ \A S \in flow[frame.fn][frame.node] : \A v \in DOMAIN S :
                  /\ S[v] = "NonZero" => frame.env[v] # 0
                  /\ S[v] = "Zero" => frame.env[v] = 0

\* Where an error is reported, what divides or is passed is zero.
ErrorsHold ==
    stack # <<>> => \A d \in reports : d.severity = "Error" /\ d.fn = Top.fn /\ d.node = Top.node =>
        LET s == At(d.fn, d.node)
        IN  Values(Top.env, IF s.kind = "call" THEN s.args[d.param] ELSE s.value) = {0}

\* An error is certain: whenever an execution comes to where one is reported, what divides
\* is zero, as long as each variable was written by the function itself and nothing else that
\* outside names has happened.
ErrorsAreReal == outside = {} => ErrorsHold

\* This also holds where a value went through a function that returns its argument on some
\* paths and something else on others.
MixedErrorsAreReal == outside \subseteq {"mixed"} => ErrorsHold

\* It also holds where a function elsewhere, another call or a store through a pointer has
\* changed the global, the static local or the local whose address was taken.
SharedErrorsAreReal == outside \subseteq {"global", "alias"} => ErrorsHold

ReportedTrap(t) ==
    \E d \in reports : d.fn = t.fn /\ d.param = 0 /\ At(d.fn, d.node).line = At(t.fn, t.node).line

ReportedBreach(b) ==
    \E d \in reports :
        /\ d.fn = b.fn /\ d.param # 0 /\ At(d.fn, d.node).line = At(b.fn, b.node).line
        /\ Params(At(d.fn, d.node).callee)[d.param] = Params(At(b.fn, b.node).callee)[b.param]

\* A zero that came from a literal, from a call that may return zero, from the input or
\* from a test, is reported where it divides: through any copies in the function that divides,
\* and over at most kMaxZeronessPasses calls of functions all of whose calls are visible, if
\* the copies before each of these calls are arguments of such calls themselves.  Where
\* it is passed to a parameter that must not be zero, it is reported if all its copies in
\* the function are divisors, arguments of that kind, or what a divisor is copied from.
ProvenZeroReported ==
    /\ outside = {} => \A t \in trapped : t.known /\ t.tracked => ReportedTrap(t)
    /\ \A b \in broken : b.tracked => ReportedBreach(b)

\* The same of a zero that is copied before it is passed: "every transitive var-to-var copy
\* source must be tracked too" (rules/DivByZeroRule.cpp:222).
CopiedZeroReported ==
    /\ outside = {} => \A t \in trapped : t.known => ReportedTrap(t)
    /\ \A b \in broken : ReportedBreach(b)

\* The evidence there is in the text of f, if the parameters in given may be zero: the
\* variables that are somewhere assigned or tested to be a possible zero, or a copy of one.
Evidence(f, given) ==
    LET own == {v \in Var :
                  \/ \E i \in DOMAIN Params(f) : Params(f)[i] = v /\ <<f, i>> \in given
                  \/ \E n \in Nodes(f) : At(f, n).kind = "scan" /\ At(f, n).var = v
                  \/ \E n \in Nodes(f) : /\ At(f, n).kind = "branch" /\ At(f, n).cond.var = v
                                         /\ \E t \in BOOLEAN : EdgeFact(At(f, n).cond, t) = {"Zero"}
                  \/ \E n \in Nodes(f) : /\ At(f, n).kind = "assign" /\ At(f, n).var = v
                                         /\ evaluateAssignedValue(At(f, n).value) \in zeroInfo}
        Copies(S) == S \cup {v \in Var : \E n \in Nodes(f) : /\ At(f, n).kind = "assign" /\ At(f, n).var = v
                                                             /\ CopySource(At(f, n).value) \cap S # {}}
    IN  FoldSet(LAMBDA v, S : Copies(S), own, Var)

Earned(given) ==
    {<<g, i>> \in Fns \X ParamIndex :
        \E f \in Fns : \E n \in Calls(f) :
            /\ At(f, n).callee = g /\ i \in DOMAIN At(f, n).args
            /\ \/ evaluateAssignedValue(At(f, n).args[i]) \in zeroInfo
               \/ CopySource(At(f, n).args[i]) \cap Evidence(f, given) # {}}

\* A parameter is taken for possibly zero only on evidence: over a chain of as many calls
\* as there were passes, it gets a value that the text shows to be a possible zero.
SeedsAreEarned ==
    LET Chain[k \in 0 .. kMaxZeronessPasses] == IF k = 0 THEN {} ELSE Earned(Chain[k - 1])
    IN  seeds \subseteq Chain[pass]
=============================================================================
