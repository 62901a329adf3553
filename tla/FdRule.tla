------------------------------- MODULE FdRule -------------------------------
(***************************************************************************)
(* The descriptor rule: src/src/rules/FdResourceRule.cpp.  The analysis of *)
(* one function runs beside an execution of it: state is the analysis of   *)
(* the path taken, other that of a path not taken, until the two join (an  *)
(* if, or the entry of a loop and its back edge), at the latest in the     *)
(* exit block.                                                             *)
(*                                                                         *)
(* A call site that acquires is an Origin; the life of an origin stands    *)
(* for the descriptors of all its calls.                                   *)
(***************************************************************************)
EXTENDS Integers, FiniteSets, Functions

CONSTANTS
    Var,        \* the integer variables with local storage
    Narrow,     \* those of a type that wraps a negative value around
    Origin,     \* the calls that acquire a descriptor
    NoVar,      \* no variable
    NoOrigin,   \* no such call
    MaxFd,      \* the bound of the descriptors
    Function    \* the functions analysed

ASSUME FdAssumption ==
    /\ IsFiniteSet(Var) /\ Narrow \subseteq Var
    /\ NoVar \notin Var /\ NoOrigin \notin Origin
    /\ MaxFd \in Nat

Fd == 0 .. MaxFd

(***************************************************************************)
(* A function: its statements and conditions, and the bound on the steps   *)
(* of an execution.  A value is a variable, a call that acquires, a        *)
(* constant or anything else; programs write no descriptor as a constant.  *)
(***************************************************************************)
Operand == [var : {NoVar}, origin : Origin, value : {0}]
             \cup [var : Var, origin : {NoOrigin}, value : {0}]
             \cup [var : {NoVar}, origin : {NoOrigin}, value : Int \ Fd]

StatementType ==
    [kind : {"assign", "return", "call", "bump"}, var : Var \cup {NoVar}, rhs : Operand,
     ownership : {"Borrowed", "Unknown", "Consumed", "Transferred"}]

Relation == {"EQ", "NE", "LT", "LE", "GT", "GE"}

ConditionType ==
    [kind : {"constant"}, var : Var, with : {NoVar}, op : Relation, value : Int, neg : BOOLEAN]
      \cup [kind : {"equal"}, var : Var, with : Var, op : {"EQ", "NE"}, value : Int, neg : BOOLEAN]
      \cup [kind : {"other"}, var : {NoVar}, with : {NoVar}, op : Relation, value : Int, neg : BOOLEAN]

\* A call expression is in one place of the program.
OneSite(f) ==
    \A s, t \in f.stmts : s.rhs.origin = t.rhs.origin /\ s.rhs.origin # NoOrigin => s = t

ASSUME FunctionAssumption ==
    \A f \in Function :
        f \in [bound : Nat, stmts : SUBSET StatementType, conds : SUBSET ConditionType] /\ OneSite(f)

VARIABLES
    fn,         \* the function
    state,      \* the analysis along the path taken
    other,      \* that of the path not taken
    joining,    \* whether there is such a path
    joined,     \* history: whether the state has been merged
    env,        \* the variables and the open descriptors
    ended,      \* how the path taken ended: "no", "returned", "exited"
    otherEnded, \* whether the other path has returned
    steps,      \* statements and branches so far
    leaks,      \* the origins reported
    outside     \* history: what the analysis does not provide for, if it happened

vars == <<fn, state, other, joining, joined, env, ended, otherEnded, steps, leaks, outside>>

Life == {"None", "Open", "Closed", "Escaped"}

-----------------------------------------------------------------------------
(* State.  Every origin has a life; bindings are kept for the variables      *)
(* assigned so far, witnesses for the origins acquired into a variable.      *)

EmptyState ==
    [resources |-> [o \in Origin |-> "None"], bindings |-> <<>>, negative |-> {}, copies |-> {}, witnesses |-> <<>>]

Unknown == [origins |-> {}, opaque |-> TRUE]

\* Mutant: what one path has not acquired is not open.
mergeLifeBoth(a, b) ==
    CASE a = b -> a
      [] "Escaped" \in {a, b} -> "Escaped"
      [] OTHER -> "None"

mergeLife(a, b) ==
    CASE a = b -> a
      [] "Escaped" \in {a, b} -> "Escaped"
      [] "Open" \in {a, b} -> "Open"
      [] OTHER -> "None"

\* A variable bound on one side only may hold something else on the other, if that
\* side has acquired from the same origins.
mergeBindings(a, b, v) ==
    LET bound == {S \in {a, b} : v \in DOMAIN S.bindings}
        origins == UNION {S.bindings[v].origins : S \in bound}
    IN  [origins |-> origins,
         opaque |-> \/ \E S \in bound : S.bindings[v].opaque
                    \/ \E S \in {a, b} \ bound : \E o \in origins : S.resources[o] # "None"]

\* The witnesses of an origin: those of the side that has acquired from it, or the
\* common ones if both have.
mergeWitnesses(a, b, o) ==
    LET live == {S \in {a, b} : S.resources[o] # "None"}
        known == {S \in live : o \in DOMAIN S.witnesses}
    IN  IF live = {} \/ known # live THEN {} ELSE {v \in Var : \A S \in known : v \in S.witnesses[o]}

mergeStates(a, b) ==
    [resources |-> [o \in Origin |-> mergeLife(a.resources[o], b.resources[o])],
     bindings |-> [v \in DOMAIN a.bindings \cup DOMAIN b.bindings |-> mergeBindings(a, b, v)],
     negative |-> a.negative \cap b.negative,
     copies |-> a.copies \cap b.copies,
     witnesses |-> [o \in {p \in DOMAIN a.witnesses \cup DOMAIN b.witnesses :
                              /\ {a.resources[p], b.resources[p]} # {"None"}
                              /\ \A S \in {a, b} : S.resources[p] # "None" => p \in DOMAIN S.witnesses}
                       |-> mergeWitnesses(a, b, o)]]

\* Mutant: the copies of v keep standing for its old value.
forgetValueHalf(S, v) ==
    [S EXCEPT !.negative = @ \ {v}, !.copies = {c \in @ : c.target # v},
              !.witnesses = [o \in DOMAIN @ |-> @[o] \ {v}]]

forgetValue(S, v) ==
    [S EXCEPT !.negative = @ \ {v}, !.copies = {c \in @ : v \notin {c.target, c.source}},
              !.witnesses = [o \in DOMAIN @ |-> @[o] \ {v}]]

rememberValueCopy(S, target, source) ==
    LET n == forgetValue(S, target)
    IN  [n EXCEPT !.copies = IF source \in Var \ {target} THEN @ \cup {[target |-> target, source |-> source]} ELSE @,
                  !.negative = IF source \in S.negative THEN @ \cup {target} ELSE @]

\* The variables linked to v by copies, in either direction.
Equivalents(S, v) ==
    {w \in Var : \A K \in SUBSET Var :
        v \in K /\ (\A c \in S.copies : c.target \in K <=> c.source \in K) => w \in K}

markNegativeEquivalents(S, v) == [S EXCEPT !.negative = @ \cup Equivalents(S, v)]

\* What was negative before an acquisition cannot be the descriptor acquired.
rememberNegativeWitnesses(S, o, target) ==
    LET now == S.negative \ {target}
        all == IF o \in DOMAIN S.witnesses THEN S.witnesses[o] \cap now ELSE now
    IN  [S EXCEPT !.witnesses = [p \in DOMAIN @ \cup {o} |-> IF p = o THEN all ELSE @[p]]]

bindingFor(S, v) == IF v \in DOMAIN S.bindings THEN S.bindings[v] ELSE Unknown

bind(S, v, binding) ==
    [S EXCEPT !.bindings = [w \in DOMAIN @ \cup {v} |-> IF w = v THEN binding ELSE @[w]]]

settle(S, origins, life) ==
    [S EXCEPT !.resources = [o \in Origin |-> IF o \in origins THEN life ELSE @[o]]]

escape(S, binding) == settle(S, binding.origins, "Escaped")

\* Mutant: an imprecise binding closes all it may hold.
releaseAll(S, binding) == settle(S, binding.origins, "Closed")

release(S, binding) ==
    IF binding.opaque \/ Cardinality(binding.origins) # 1 THEN escape(S, binding)
    ELSE settle(S, binding.origins, "Closed")

-----------------------------------------------------------------------------
(* Statements *)

isAcquisition(x) == x.origin # NoOrigin

isTrackableLocal(v) == v \in Var

\* A descriptor is passed to a call that is known to treat it so.
applyOwnershipToExpr(S, x, ownership) ==
    CASE ownership \in {"Borrowed", "Unknown"} -> S
      [] ownership = "Consumed" /\ isAcquisition(x) -> settle(S, {x.origin}, "Closed")
      [] ownership = "Consumed" /\ ~isAcquisition(x) -> release(S, bindingFor(S, x.var))
      [] ownership = "Transferred" /\ isAcquisition(x) -> settle(S, {x.origin}, "Escaped")
      [] ownership = "Transferred" /\ ~isAcquisition(x) -> escape(S, bindingFor(S, x.var))

\* Mutant: a copy is not bound to what it copies.
assignUnbound(S, v, x) ==
    LET copied == rememberValueCopy(S, v, x.var)
    IN  IF isAcquisition(x)
          THEN bind(settle(forgetValue(rememberNegativeWitnesses(S, x.origin, v), v), {x.origin}, "Open"),
                    v, [origins |-> {x.origin}, opaque |-> FALSE])
        ELSE bind(IF x.value < 0 THEN [copied EXCEPT !.negative = @ \cup {v}] ELSE copied, v, Unknown)

\* v = x
assign(S, v, x) ==
    LET copied == rememberValueCopy(S, v, x.var)
    IN  IF isAcquisition(x)
          THEN bind(settle(forgetValue(rememberNegativeWitnesses(S, x.origin, v), v), {x.origin}, "Open"),
                    v, [origins |-> {x.origin}, opaque |-> FALSE])
        ELSE bind(IF x.value < 0 THEN [copied EXCEPT !.negative = @ \cup {v}] ELSE copied,
                  v, bindingFor(S, x.var))

\* Increments, compound assignments and writes through pointers and references have
\* no effect; an acquiring call is an element of its own before the statement it is in.
transfer(S, s) ==
    LET called == IF isAcquisition(s.rhs) THEN settle(S, {s.rhs.origin}, "Open") ELSE S
    IN  CASE s.kind = "assign" /\ isTrackableLocal(s.var) -> assign(called, s.var, s.rhs)
          [] s.kind = "return" \/ (s.kind = "assign" /\ ~isTrackableLocal(s.var)) ->
                applyOwnershipToExpr(called, s.rhs, "Transferred")
          [] s.kind = "call" -> applyOwnershipToExpr(called, s.rhs, s.ownership)
          [] OTHER -> called

\* Conditions: v against a constant, v against another variable, or anything else.
\* failureEdge gives the value of the condition on the edge where v is negative.
failureEdge(c) ==
    LET value == CASE <<c.op, c.value>> \in {<<"EQ", -1>>, <<"LT", 0>>, <<"LE", -1>>} -> {TRUE}
                   [] <<c.op, c.value>> \in {<<"NE", -1>>, <<"GE", 0>>, <<"GT", -1>>} -> {FALSE}
                   [] OTHER -> {}
    IN  IF c.kind = "constant" THEN {t # c.neg : t \in value} ELSE {}

equalityEdge(c) == IF c.kind = "equal" THEN {(c.op = "EQ") # c.neg} ELSE {}

discardImpossibleEquality(S, resourceVar, negativeVar) ==
    settle(S, {o \in bindingFor(S, resourceVar).origins :
                  \/ negativeVar \in S.negative
                  \/ o \in DOMAIN S.witnesses /\ negativeVar \in S.witnesses[o]}, "None")

refineOnEdge(S, c, isTrue) ==
    LET failed == IF isTrue \in failureEdge(c)
                    THEN settle(markNegativeEquivalents(S, c.var), bindingFor(S, c.var).origins, "None")
                    ELSE S
    IN  IF isTrue \in equalityEdge(c)
          THEN discardImpossibleEquality(discardImpossibleEquality(failed, c.var, c.with), c.with, c.var)
        ELSE failed

\* At the exit block.
reportLeaks(S) == {o \in Origin : S.resources[o] = "Open"}

-----------------------------------------------------------------------------
(* The execution.  open holds the open descriptors with the call that acquired *)
(* them, last what each call returned last, out the descriptors handed away.   *)

Stored(v, x) == IF v \in Narrow /\ x < 0 THEN MaxFd ELSE x

Unused(e) == Fd \ DOMAIN e.open

Opened(e, o, fd) ==
    [e EXCEPT !.open = [f \in DOMAIN @ \cup {fd} |-> IF f = fd THEN o ELSE @[f]], !.last[o] = fd, !.out = @ \ {fd}]

\* The lowest descriptor that is not in use, or a failure; and the value returned.
Acquire(e, o) ==
    {[env |-> [e EXCEPT !.last[o] = -1], value |-> -1]}
      \cup {[env |-> Opened(e, o, fd), value |-> fd] : fd \in {f \in Unused(e) : \A g \in Unused(e) : f <= g}}

\* What an operand evaluates to.
Evaluate(e, x) ==
    IF isAcquisition(x) THEN Acquire(e, x.origin)
    ELSE {[env |-> e, value |-> IF x.var # NoVar THEN e.val[x.var] ELSE x.value]}

Closed(e, fd) == [e EXCEPT !.open = Restrict(@, DOMAIN @ \ {fd}), !.out = @ \ {fd}]

HandedOut(e, fd) == [e EXCEPT !.out = @ \cup ({fd} \cap DOMAIN e.open)]

\* A callee that keeps a descriptor may close it.
Effect(s, e) ==
    CASE s.kind = "bump" -> {[e EXCEPT !.val[s.var] = x] : x \in -1 .. MaxFd}
      [] s.kind = "assign" /\ s.var \in Var -> {[r.env EXCEPT !.val[s.var] = Stored(s.var, r.value)] : r \in Evaluate(e, s.rhs)}
      [] s.kind = "return" \/ (s.kind = "assign" /\ s.var \notin Var) ->
            {HandedOut(r.env, r.value) : r \in Evaluate(e, s.rhs)}
      [] s.kind = "call" /\ s.ownership = "Consumed" -> {Closed(r.env, r.value) : r \in Evaluate(e, s.rhs)}
      [] s.kind = "call" /\ s.ownership = "Transferred" ->
            UNION {{HandedOut(r.env, r.value), Closed(r.env, r.value)} : r \in Evaluate(e, s.rhs)}
      [] OTHER -> {r.env : r \in Evaluate(e, s.rhs)}

Compares(op, x, y) ==
    CASE op = "EQ" -> x = y
      [] op = "NE" -> x # y
      [] op = "LT" -> x < y
      [] op = "LE" -> x <= y
      [] op = "GT" -> x > y
      [] op = "GE" -> x >= y

ConditionValues(c, e) ==
    CASE c.kind = "constant" -> {Compares(c.op, e.val[c.var], c.value) # c.neg}
      [] c.kind = "equal" -> {Compares(c.op, e.val[c.var], e.val[c.with]) # c.neg}
      [] OTHER -> BOOLEAN

Note(what, happened) == IF happened THEN {what} ELSE {}

\* The descriptor that the last call of o returned is open and in the function's hands.
Held(e, o) == e.last[o] \in DOMAIN e.open \ e.out /\ e.open[e.last[o]] = o

\* v has kept a number beyond its descriptor: one that is closed and may be in use
\* again, or the one before the last that its call returned.
Stale(v) ==
    LET binding == bindingFor(state, v)
        number == env.val[v]
    IN  /\ ~binding.opaque /\ Cardinality(binding.origins) = 1
        /\ \E o \in binding.origins : \/ Held(env, o) /\ env.last[o] # number
                                      \/ number \in DOMAIN env.open /\ env.open[number] # o

\* What the right-hand side of s was in this step.
Result(s) ==
    IF isAcquisition(s.rhs) THEN env'.last[s.rhs.origin]
    ELSE IF s.rhs.var # NoVar THEN env.val[s.rhs.var] ELSE s.rhs.value

StatementNotes(s) ==
    Note("unseen", s.kind = "bump")
      \cup Note("narrowed", s.kind = "assign" /\ s.var \in Narrow /\ Result(s) < 0)
      \cup Note("stale", /\ s.kind \in {"call", "return"} \/ (s.kind = "assign" /\ s.var \notin Var)
                         /\ s.rhs.var # NoVar /\ Stale(s.rhs.var))

\* A variable is taken for the failure of a call though it holds something else than
\* what the call returned last: an older result, or that of another path's call.
ConditionNotes(c, isTrue) ==
    LET refined == refineOnEdge(state, c, isTrue)
    IN  Note("mistaken", \E o \in Origin :
                /\ Held(env, o) /\ state.resources[o] # "None" /\ refined.resources[o] = "None"
                /\ \A v \in {c.var, c.with} \cap Var :
                       o \in bindingFor(state, v).origins => env.last[o] # env.val[v])

-----------------------------------------------------------------------------
(* Behaviours *)

Init ==
    /\ fn \in Function
    /\ state = EmptyState /\ other = EmptyState
    /\ joining = FALSE /\ joined = FALSE
    /\ env = [val |-> [v \in Var |-> -1], open |-> <<>>, last |-> [o \in Origin |-> -1], out |-> {}]
    /\ ended = "no" /\ otherEnded = FALSE
    /\ steps = 0 /\ leaks = {} /\ outside = {}

Running == steps < fn.bound

Statement(s) ==
    /\ Running /\ ended = "no"
    /\ state' = transfer(state, s)
    /\ env' \in Effect(s, env)
    /\ ended' = IF s.kind = "return" THEN "returned" ELSE "no"
    /\ steps' = steps + 1
    /\ outside' = outside \cup StatementNotes(s)
    /\ UNCHANGED <<fn, other, joining, joined, otherEnded, leaks>>

OtherStatement(s) ==
    /\ Running /\ joining /\ ~otherEnded
    /\ other' = transfer(other, s)
    /\ otherEnded' = (s.kind = "return")
    /\ steps' = steps + 1
    /\ UNCHANGED <<fn, state, joining, joined, env, ended, leaks, outside>>

Branch(c, taken) ==
    /\ Running /\ ended = "no"
    /\ taken \in ConditionValues(c, env)
    /\ state' = refineOnEdge(state, c, taken)
    /\ other' = IF joining THEN other ELSE refineOnEdge(state, c, ~taken)
    /\ joining' = TRUE
    /\ steps' = steps + 1
    /\ outside' = outside \cup ConditionNotes(c, taken)
    /\ UNCHANGED <<fn, joined, env, ended, otherEnded, leaks>>

Join ==
    /\ joining /\ ended = IF otherEnded THEN "returned" ELSE "no"
    /\ state' = mergeStates(state, other)
    /\ joining' = FALSE /\ joined' = TRUE /\ other' = EmptyState /\ otherEnded' = FALSE
    /\ UNCHANGED <<fn, env, ended, steps, leaks, outside>>

\* The other path may also not reach the exit.
Exit ==
    /\ ended = "returned"
    /\ ended' = "exited"
    /\ leaks' = reportLeaks(state)
    /\ UNCHANGED <<fn, state, other, joining, joined, env, otherEnded, steps, outside>>

Next ==
    \/ \E s \in fn.stmts : Statement(s)
    \/ \E s \in fn.stmts : OtherStatement(s)
    \/ \E c \in fn.conds, taken \in BOOLEAN : Branch(c, taken)
    \/ Join
    \/ Exit

Spec == Init /\ [][Next]_vars

-----------------------------------------------------------------------------
(* Properties *)

StateType(S) ==
    /\ S.resources \in [Origin -> Life]
    /\ DOMAIN S.bindings \subseteq Var
    /\ \A v \in DOMAIN S.bindings : S.bindings[v] \in [origins : SUBSET Origin, opaque : BOOLEAN]
    /\ S.negative \subseteq Var
    /\ S.copies \subseteq [target : Var, source : Var]
    /\ \A v \in Var : Cardinality({c \in S.copies : c.target = v}) <= 1
    /\ DOMAIN S.witnesses \subseteq Origin /\ \A o \in DOMAIN S.witnesses : S.witnesses[o] \subseteq Var \cup {NoVar}

\* Types: a variable is the copy of at most one other, and never of itself.
TypeOK ==
    /\ fn \in Function /\ steps \in 0 .. fn.bound
    /\ StateType(state) /\ StateType(other)
    /\ \A c \in state.copies : c.target # c.source
    /\ joining \in BOOLEAN /\ joined \in BOOLEAN /\ otherEnded \in BOOLEAN
    /\ ended \in {"no", "returned", "exited"}
    /\ leaks \subseteq Origin

\* What the state says is true on the path taken, merges included: a descriptor in the
\* function's hands is open or has escaped in the state; negative variables and
\* witnesses are negative; a copy is equal to its source.
Covered ==
    outside = {} =>
        /\ \A o \in Origin : Held(env, o) => state.resources[o] \in {"Open", "Escaped"}
        /\ \A v \in state.negative : env.val[v] < 0
        /\ \A c \in state.copies : env.val[c.target] = env.val[c.source]
        /\ \A o \in DOMAIN state.witnesses : Held(env, o) => \A v \in state.witnesses[o] : env.val[v] < 0

\* A descriptor that a call returned last and the function still holds at its end is
\* reported, unless its origin has escaped.
LeakReported ==
    ended = "exited" /\ outside = {} =>
        \A o \in Origin : Held(env, o) => o \in leaks \/ state.resources[o] = "Escaped"

\* Where no paths have been merged, what is reported is a descriptor that was never
\* closed or handed away, or a failure that nobody tested for.
LeakIsReal ==
    ended = "exited" /\ ~joined /\ outside = {} => \A o \in leaks : Held(env, o) \/ env.last[o] = -1
=============================================================================
