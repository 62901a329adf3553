----------------------------- MODULE ReturnFlow -----------------------------
(***************************************************************************)
(* What the summary of a function says of its result: the return harvests  *)
(* of src/src/engine/FunctionSummary.cpp, from its dataflows and from the  *)
(* text.  Then an execution of the function, with which it is compared.    *)
(*                                                                         *)
(* A function returns a pointer or an integer.  Its code is a sequence of  *)
(* statements with a next; a condition has an alt(ernative), a switch its  *)
(* cases with alt the default.  under names, from the innermost outwards,  *)
(* the arms of if and the default labels that a return stands directly in. *)
(*                                                                         *)
(* A pointer is 0, the parameter's entry object 1, 2, .., a block that was *)
(* allocated, or Elsewhere.                                                *)
(***************************************************************************)
EXTENDS ReturnStates, FiniteSets, FiniteSetsExt

CONSTANTS
    Var,            \* the variables
    Pointer,        \* those that are pointers; the others are integers
    Global,         \* those that the function does not declare
    Narrow,         \* integers of one bit
    Val,            \* the integers
    Block,          \* the blocks that can be allocated
    Elsewhere,      \* an address outside
    Modulus,        \* what a negative integer gains when it is converted to unsigned
    MaxSteps,       \* the bound of an execution
    Program         \* the functions

ASSUME ReturnAssumption ==
    /\ Pointer \subseteq Var /\ Global \subseteq Var /\ Narrow \subseteq Var \ Pointer
    /\ Val \subseteq Int /\ {0, 1} \subseteq Val /\ MaxSteps \in Nat
    /\ Modulus \in Nat /\ \A y \in Val : -Modulus < y /\ y < Modulus
    /\ Block \subseteq Nat \ Val /\ Elsewhere \in Nat \ (Block \cup {0})

-----------------------------------------------------------------------------
(* The text of a function: what the compiler accepts of it.  Values, conditions   *)
(* and assigned variables have the type that is returned; pointers have no width. *)

Typed(f) == IF f.type = "pointer" THEN Pointer ELSE Var \ Pointer

TypedLeaf(f, leaf) ==
    CASE leaf.kind = "literal" -> leaf.n \in (IF f.type = "pointer" THEN {0} ELSE Val)
      [] leaf.kind = "var" -> leaf.var \in Typed(f)
      [] leaf.kind = "choice" -> {leaf.var, leaf.other} \subseteq Typed(f) \ Global
      [] leaf.kind = "opaque" -> TRUE
      [] OTHER -> f.type = "pointer" /\ leaf.kind \in {"address", "this", "placement", "new", "nothrow", "malloc"}

Wraps ==
    {w \in [kind : {"cast", "dynamic", "hop", "minus", "call"}, wide : BOOLEAN, param : BOOLEAN, from : BOOLEAN, alias : BOOLEAN,
            claim : {"Unknown", "Never", "Maybe", "Always"}, owner : OwnershipState \ {"Null"}] : w.from => w.claim = "Unknown"}

TypedWrap(f, w) ==
    IF f.type = "pointer" THEN w.kind # "minus" /\ w.claim # "Always" /\ w.wide /\ w.param
    ELSE w.kind \notin {"dynamic", "hop"} /\ ~w.alias /\ w.owner = "Unknown" /\ (w.kind = "minus" => w.wide)

TypedValue(f, e) == TypedLeaf(f, e.leaf) /\ e.via \in Seq({w \in Wraps : TypedWrap(f, w)})

TypedCond(c) ==
    /\ {c.neg, c.unsigned} \subseteq BOOLEAN
    /\ CASE c.kind = "truth" -> c.var \in Var
         [] c.kind = "compare" -> c.var \in Var \ Pointer /\ c.op \in {"EQ", "NE", "LT", "LE", "GT", "GE"} /\ c.n \in Int
         [] OTHER -> c.kind = "other"

Regions(s) == {s.alt} \cup {s.cases[k] : k \in DOMAIN s.cases}

Targets(s) ==
    CASE s.kind = "branch" -> {s.next, s.alt}
      [] s.kind = "switch" -> Regions(s)
      [] s.kind = "return" -> {}
      [] OTHER -> {s.next}

\* What is declared is neither global nor a parameter.
TypedStatement(f, s) ==
    /\ s.kind \in {"static", "declare"} => s.var \in Var \ (Global \cup {f.params[i] : i \in DOMAIN f.params})
    /\ CASE s.kind \in {"assign", "static"} -> s.var \in Typed(f) /\ TypedValue(f, s.value)
         [] s.kind \in {"declare", "change"} -> s.var \in Var
         [] s.kind \in {"address", "pass", "byref"} -> s.var \in Var /\ s.borrows \in BOOLEAN
         [] s.kind = "branch" -> TypedCond(s.cond)
         [] s.kind = "switch" -> s.var \in Var \ Pointer /\ IsFiniteSet(DOMAIN s.cases) /\ DOMAIN s.cases \subseteq Int
         [] OTHER -> s.kind = "return" /\ TypedValue(f, s.value)

\* The statement n is reached from the first one in steps from m to step[m].
Leads(step, n) == \A R \in SUBSET DOMAIN step : 1 \in R /\ (\A m \in R : step[m] \subseteq R) => n \in R

Mentions(s, v) ==
    CASE s.kind = "branch" -> s.cond.var = v
      [] s.kind = "return" -> FALSE
      [] OTHER -> s.var = v

Steps(f) == [m \in DOMAIN f.code |-> Targets(f.code[m])]

\* Before a variable is declared nothing mentions it.
Scoped(f, n) ==
    LET unmentioned(v) == [m \in DOMAIN f.code |-> IF Mentions(f.code[m], v) THEN {} ELSE Steps(f)[m]]
    IN  f.code[n].kind = "declare" /\ Leads(Steps(f), n) => Leads(unmentioned(f.code[n].var), n)

\* The steps but those into an arm of an if through its condition, or to the default's label:
\* what is in the arm or the default is not reached in them.
Around(f, u) ==
    LET s == f.code[u.at]
        others(m) == CASE u.kind = "default" -> Steps(f)[m] \ {s.alt}
                       [] u.kind = "if" /\ m = u.at -> {IF u.taken THEN s.alt ELSE s.next}
                       [] OTHER -> Steps(f)[m]
    IN  [m \in DOMAIN f.code |-> others(m)]

TypedUnder(f, n) ==
    \A k \in DOMAIN f.code[n].under :
        LET u == f.code[n].under[k]
        IN  /\ k \in Nat /\ u.at \in DOMAIN f.code
            /\ \/ u.kind = "default" /\ f.code[u.at].kind = "switch"
               \/ u.kind = "if" /\ u.taken \in BOOLEAN /\ f.code[u.at].kind = "branch"
            /\ ~Leads(Around(f, u), n)

TypedFunction(f) ==
    /\ f.type \in {"pointer", "integer"} /\ f.wide \in BOOLEAN /\ (f.type = "pointer" => f.wide)
    /\ f.params \in Seq(Var \ Global) /\ DOMAIN f.params \cap Block = {} /\ IsInjective(f.params)
    /\ IsFiniteSet(DOMAIN f.code) /\ 1 \in DOMAIN f.code
    /\ \A n \in DOMAIN f.code :
            /\ TypedStatement(f, f.code[n]) /\ Targets(f.code[n]) \subseteq DOMAIN f.code
            /\ Scoped(f, n)
            /\ f.code[n].kind = "return" => TypedUnder(f, n)

ASSUME ProgramAssumption == \A f \in Program : TypedFunction(f)

-----------------------------------------------------------------------------
VARIABLES
    func,       \* the function
    phase,      \* "flow", "harvest", "ready", "running" or "returned"
    flow,       \* the state before every statement; none where it is not reached
    summary,    \* what is claimed
    entry,      \* the arguments
    env,        \* the values of the variables
    at,         \* the statement that comes next
    made,       \* the blocks allocated
    kept,       \* those that somebody else has or has freed
    exposed,    \* the variables whose address is known elsewhere
    result,     \* what was returned
    steps,      \* statements executed
    outside     \* history: what the harvest does not provide for, if it happened

vars == <<func, phase, flow, summary, entry, env, at, made, kept, exposed, result, steps, outside>>

execution == <<entry, env, at, made, kept, exposed, result, steps, outside>>

Nodes == DOMAIN func.code

At(n) == func.code[n]

Params == {func.params[i] : i \in DOMAIN func.params}

ParamIndex(v) == CHOOSE i \in DOMAIN func.params : func.params[i] = v

returns == {n \in Nodes : At(n).kind = "return"}

-----------------------------------------------------------------------------
(* The dataflow: a set of at most one state before each statement *)

\* Variables of the kind that is returned; bool is not an integer here.
collectTypedVars == Typed(func) \ Global

initialState ==
    [v \in collectTypedVars |->
        [bad |-> "Unknown",
         origin |-> IF v \in Params THEN ParamIndex(v) ELSE 0,
         owner |-> IF v \in Params THEN "Borrowed" ELSE "Unknown"]]

Z == INSTANCE Zeroness

\* The truth of the tested variable on an edge: walkZeroCondition, and for the truth of a
\* pointer walkNullCondition.
EdgeFact(c, edge) == {IF z = "Zero" THEN "Bad" ELSE "NonBad" : z \in Z!EdgeFact(c, edge # c.neg)}

refineOnEdge(c, edge, S) ==
    LET fact == EdgeFact(c, edge)
    IN  [v \in DOMAIN S |-> IF v = c.var /\ fact # {} THEN [S[v] EXCEPT !.bad = CHOOSE z \in fact : TRUE] ELSE S[v]]

\* What the statement m hands to n.
Handed(m, n, S) ==
    LET s == At(m)
    IN  CASE n \notin Targets(s) -> {}
          [] n \in Targets(s) /\ s.kind = "branch" ->
                {refineOnEdge(s.cond, t, S) : t \in {u \in BOOLEAN : n = IF u THEN s.next ELSE s.alt}}
          [] n \in Targets(s) /\ s.kind = "switch" -> {S}
          [] OTHER -> {transfer(s, S)}

Join(states) == IF states = {} THEN {} ELSE {FoldSet(merge, CHOOSE S \in states : TRUE, states)}

Swept == [n \in Nodes |-> Join({initialState : x \in {1} \cap {n}} \cup UNION {UNION {Handed(m, n, S) : S \in flow[m]} : m \in Nodes})]

-----------------------------------------------------------------------------
(* The flow's contribution to the claims *)

contribution(n, S) ==
    LET known == exprAsVar(At(n).value) \cap DOMAIN S
    IN  IF known # {} THEN S[CHOOSE v \in known : TRUE].bad ELSE vstateOf(At(n).value)

\* The text alone, unless some return names a variable.
computeReturnFlow ==
    IF \A n \in returns : exprAsVar(At(n).value) = {}
      THEN {vstateOf(At(n).value) : n \in returns}
    ELSE UNION {{contribution(n, S) : S \in flow[n]} : n \in returns}

\* Mutant: paths that are not known do not count.
aggregateKnown(states) ==
    CASE states = {} -> "Unknown"
      [] states = {"Bad"} /\ func.type = "integer" -> "Always"
      [] states \cap {"Bad", "MaybeBad"} # {} /\ (states # {"Bad"} \/ func.type = "pointer") -> "Maybe"
      [] states \cap {"Bad", "MaybeBad"} = {} /\ "NonBad" \in states -> "Never"
      [] OTHER -> "Unknown"

aggregate(states) ==
    CASE states = {} -> "Unknown"
      [] states = {"Bad"} /\ func.type = "integer" -> "Always"
      [] states \cap {"Bad", "MaybeBad"} # {} /\ (states # {"Bad"} \/ func.type = "pointer") -> "Maybe"
      [] states = {"NonBad"} -> "Never"
      [] OTHER -> "Unknown"

\* All returns that are reached denote one parameter's entry object.
computeReturnAliasParam ==
    LET origins == UNION {{originOf(At(n).value, S) : S \in flow[n]} : n \in returns}
    IN  IF func.type = "pointer" /\ Cardinality(origins) = 1 THEN CHOOSE i \in origins : TRUE ELSE 0

computeReturnOwnership ==
    LET owners == UNION {{ownershipOf(At(n).value, S) : S \in flow[n]} : n \in returns}
        whole == FoldSet(mergeOwnership, "Null", owners)
    IN  IF func.type = "pointer" /\ whole \in {"Owned", "Borrowed"} THEN whole ELSE "Unknown"

-----------------------------------------------------------------------------
(* Claims that depend on a parameter, from the text *)

\* Parameters that keep their entry value: nothing in the text writes them.
unwrittenParams == Params \ {At(n).var : n \in {m \in Nodes : At(m).kind \in {"assign", "change", "address"}}}

Ends(w) == w.kind = "call" /\ (w.claim = "Never" \/ ~w.from)

NonNull == 0
Blocked == -1

\* A parameter's index, NonNull (or not zero) or Blocked: what is at the first wrap from
\* the outside that is not handed through, or at the leaf.
ResolvedAt(e, stops, AtLeaf) ==
    IF stops = {} THEN AtLeaf
    ELSE LET w == e.via[Min(stops)]
         IN  CASE w.kind = "call" /\ w.claim = "Never" -> NonNull
               [] w.kind = "hop" /\ vstateOf(e) = "NonBad" -> NonNull
               [] OTHER -> Blocked

ResolvedLeaf(e) ==
    CASE e.leaf.kind = "var" /\ e.leaf.var \in unwrittenParams -> ParamIndex(e.leaf.var)
      [] e.leaf.kind # "var" /\ LeafVState(e.leaf) = "NonBad" -> NonNull
      [] OTHER -> Blocked

resolveNullReturn(e) ==
    ResolvedAt(e, {k \in DOMAIN e.via : e.via[k].kind \in {"dynamic", "hop"} \/ Ends(e.via[k])}, ResolvedLeaf(e))

\* The width of a node: of a cast and of a call's result its own, of a minus that of int.
Width(wide) == IF wide THEN 2 ELSE 1

NodeWidth(e, k) ==
    CASE k <= Len(e.via) -> Width(e.via[k].wide)
      [] k > Len(e.via) /\ e.leaf.kind = "var" -> Width(e.leaf.var \notin Narrow)
      [] OTHER -> 2

\* The width of the slot that a node flows into: the function's result, a cast, or the
\* parameter of a call.
SlotWidth(e) ==
    LET slot[k \in 1 .. Len(e.via) + 1] ==
          IF k > 1 /\ e.via[k - 1].kind = "minus" THEN slot[k - 1]
          ELSE CASE k = 1 -> Width(func.wide)
                 [] k > 1 /\ e.via[k - 1].kind = "call" -> Width(e.via[k - 1].param)
                 [] OTHER -> NodeWidth(e, k - 1)
    IN  slot

\* Mutant: only the outermost width counts.
NarrowsOutside(e, k) == k = 1 /\ NodeWidth(e, k) > SlotWidth(e)[k]

Narrows(e, k) == NodeWidth(e, k) > SlotWidth(e)[k]

\* Narrowing blocks at the node itself, before a summary is looked at.
resolveZeroReturn(e) ==
    LET narrow == {k \in 1 .. Len(e.via) + 1 : Narrows(e, k)}
        ends == {k \in DOMAIN e.via : Ends(e.via[k])}
    IN  IF \E k \in narrow : \A j \in ends : k <= j THEN Blocked
        ELSE ResolvedAt(e, ends, ResolvedLeaf(e))

\* Of nullFromParam and zeroFromParam that of the type: the one parameter that is
\* returned, if all else is NonNull.
passthroughParam ==
    LET resolved == {IF func.type = "pointer" THEN resolveNullReturn(At(n).value) ELSE resolveZeroReturn(At(n).value) : n \in returns}
        passed == resolved \ {NonNull}
    IN  IF Cardinality(passed) = 1 /\ Blocked \notin passed THEN CHOOSE i \in passed : TRUE ELSE 0

-----------------------------------------------------------------------------
(* Null only if a parameter is outside a range *)

IntParams == unwrittenParams \ Pointer

\* A region of the switch at n runs into another.
FallsThrough(n) == \E m \in Nodes \ {n} : Targets(At(m)) \cap Regions(At(n)) # {}

\* Mutant: the hull of any cases.
matchSwitchHull(n) ==
    LET cases == DOMAIN At(n).cases
    IN  IF At(n).var \in IntParams /\ ~FallsThrough(n) /\ cases # {}
          THEN {[param |-> ParamIndex(At(n).var), range |-> Min(cases) .. Max(cases)]} ELSE {}

\* The cases are contiguous: a value within the hull of the cases is never the default's.
matchSwitchDefaultGuard(n) ==
    LET cases == DOMAIN At(n).cases
        hull == Min(cases) .. Max(cases)
    IN  IF At(n).var \in IntParams /\ ~FallsThrough(n) /\ cases # {} /\ hull = cases
          THEN {[param |-> ParamIndex(At(n).var), range |-> cases]} ELSE {}

\* The safe zone is where the return is not: one interval, or no claim.
SafeZone(op, k, nullWhenTrue) ==
    LET below(b) == {v \in Val : v <= b}
        above(b) == {v \in Val : v >= b}
    IN  CASE op = "LT" -> {IF nullWhenTrue THEN above(k) ELSE below(k - 1)}
          [] op = "LE" -> {IF nullWhenTrue THEN above(k + 1) ELSE below(k)}
          [] op = "GT" -> {IF nullWhenTrue THEN below(k) ELSE above(k + 1)}
          [] op = "GE" -> {IF nullWhenTrue THEN below(k - 1) ELSE above(k)}
          [] op = "EQ" -> {{k} : x \in {FALSE} \cap {nullWhenTrue}}
          [] op = "NE" -> {{k} : x \in {TRUE} \cap {nullWhenTrue}}

matchComparisonGuard(n, taken) ==
    LET c == At(n).cond
    IN  IF c.kind = "compare" /\ c.var \in IntParams
          THEN {[param |-> ParamIndex(c.var), range |-> zone] : zone \in SafeZone(c.op, c.n, taken # c.neg)}
        ELSE {}

guard(u) == IF u.kind = "default" THEN matchSwitchDefaultGuard(u.at) ELSE matchComparisonGuard(u.at, u.taken)

\* The innermost guard that is recognised.
findGuardAbove(n) ==
    LET found == {k \in DOMAIN At(n).under : guard(At(n).under[k]) # {}}
    IN  IF found = {} THEN {} ELSE guard(At(n).under[Min(found)])

\* Just one return is null by its text, all others are not.
detectNullCondition ==
    LET bad == {n \in returns : vstateOf(At(n).value) # "NonBad"}
    IN  IF Cardinality(bad) = 1 /\ \A n \in bad : vstateOf(At(n).value) = "Bad"
          THEN UNION {findGuardAbove(n) : n \in bad} ELSE {}

-----------------------------------------------------------------------------
(* The execution *)

Stored(v, y) == IF v \in Narrow THEN y % 2 ELSE y

Cut(wide, y) == IF wide THEN y ELSE y % 2

Free == Block \ made

\* The objects that the function has not allocated.
Foreign == {0, Elsewhere} \cup {entry[i] : i \in {j \in DOMAIN entry : func.params[j] \in Pointer}}

Anything == IF func.type = "pointer" THEN Foreign \cup Free \cup {env[v] : v \in Pointer} ELSE Val

LeafValues(leaf) ==
    CASE leaf.kind = "literal" -> {leaf.n}
      [] leaf.kind \in {"address", "this", "placement"} -> {Elsewhere}
      [] leaf.kind = "new" -> Free
      [] leaf.kind \in {"nothrow", "malloc"} -> Free \cup {0}
      [] leaf.kind = "var" -> {env[leaf.var]}
      [] leaf.kind = "choice" -> {env[leaf.var], env[leaf.other]}
      [] leaf.kind = "opaque" -> Anything

\* What a call may return that keeps to its summary.
Returned(w, y) ==
    {z \in Anything \cup {y} :
        /\ w.claim = "Never" => z # 0
        /\ w.claim = "Always" => z = 0
        /\ w.claim = "Unknown" /\ w.from => (z = 0 => Cut(w.param, y) = 0)
        /\ w.alias => z = y
        /\ w.owner = "Owned" => z \in Free \cup {0}
        /\ w.owner = "Borrowed" => z \in Foreign \cup {y}
        /\ z = Cut(w.wide, z)}

Wrapped(w, ys) ==
    CASE w.kind = "call" -> UNION {Returned(w, y) : y \in ys}
      [] w.kind = "dynamic" -> ys \cup {0}
      [] w.kind = "minus" -> {y \in Val : -y \in ys}
      [] w.kind = "cast" /\ func.type = "integer" -> {Cut(w.wide, y) : y \in ys}
      [] OTHER -> ys

\* The values at each wrap of e, and at its leaf.
ValuesAt(e) ==
    LET values[k \in 1 .. Len(e.via) + 1] ==
          IF k > Len(e.via) THEN LeafValues(e.leaf) ELSE Wrapped(e.via[k], values[k + 1])
    IN  values

Values(e) == ValuesAt(e)[1]

\* The blocks that only this function has.
own == made \ kept

Note(what, happened) == IF happened THEN {what} ELSE {}

\* The k-th wrap may cut a value down to zero.
CutsDown(e, k) ==
    LET w == e.via[k]
        cuts == (w.kind = "cast" /\ ~w.wide) \/ (w.kind = "call" /\ ~w.param)
    IN  func.type = "integer" /\ cuts /\ \E y \in ValuesAt(e)[k + 1] : y # 0 /\ Cut(FALSE, y) = 0

\* What the harvest does not see in the value y of e: it was cut down, it is not zero though
\* the argument is, it is the null of a dynamic_cast (perhaps under a cast to an integer and
\* back) or of a nothrow new, or a block that a call returned which had borrowed it.
Surprises(e, y) ==
    Note("narrowed", \E k \in DOMAIN e.via : CutsDown(e, k))
      \cup Note("mixed", /\ func.type = "integer" /\ y # 0
                         /\ \E k \in DOMAIN e.via : e.via[k].kind = "call" /\ e.via[k].from /\ 0 \in ValuesAt(e)[k + 1])
      \cup Note("dynamic", y = 0 /\ \E k \in DOMAIN e.via : e.via[k].kind = "dynamic")
      \cup Note("round trip", y = 0 /\ \E k \in DOMAIN e.via : \E j \in 1 .. k : e.via[j].kind = "hop" /\ e.via[k].kind = "dynamic")
      \cup Note("nothrow", y = 0 /\ e.leaf.kind = "nothrow")
      \cup Note("came back", /\ y \in Block \ kept
                             /\ \E k \in DOMAIN e.via : LET w == e.via[k] IN w.kind = "call" /\ w.owner = "Borrowed" /\ ~w.alias)

\* The blocks of the globals are in other hands.
Published(v, y) == IF v \in Global THEN {y} \cap Block ELSE {}

\* The variable v gets the value y.
Gets(v, y) ==
    /\ env' = [env EXCEPT ![v] = Stored(v, y)]
    /\ made' = made \cup ({y} \cap Block)
    /\ kept' = kept \cup Published(v, y)

-----------------------------------------------------------------------------
(* Behaviours *)

Init ==
    /\ func \in Program /\ phase = "flow"
    /\ flow = [n \in Nodes |-> {}] /\ summary = <<>>
    /\ entry = <<>> /\ env = [v \in Var |-> 0] /\ at = 1
    /\ made = {} /\ kept = {} /\ exposed = {} /\ result = {} /\ steps = 0 /\ outside = {}

\* A round of the dataflow, until nothing changes.
Sweep ==
    /\ phase = "flow"
    /\ flow' = Swept
    /\ phase' = IF Swept = flow THEN "harvest" ELSE "flow"
    /\ UNCHANGED <<func, summary, execution>>

\* summarizeFunction, as far as the result is concerned.
Harvest ==
    /\ phase = "harvest"
    /\ LET claim == aggregate(computeReturnFlow)
       IN  summary' = [claim |-> claim,
                       from |-> IF claim = "Unknown" /\ returns # {} THEN passthroughParam ELSE 0,
                       alias |-> computeReturnAliasParam,
                       owner |-> computeReturnOwnership,
                       null |-> IF func.type = "pointer" /\ claim = "Maybe" THEN detectNullCondition ELSE {}]
    /\ phase' = "ready"
    /\ UNCHANGED <<func, flow, execution>>

Inputs(v) == IF v \in Pointer THEN {0, Elsewhere} ELSE {Stored(v, y) : y \in Val}

Arguments(i) == IF func.params[i] \in Pointer THEN {0, i} ELSE Inputs(func.params[i])

Start(args, globals) ==
    /\ phase = "ready" /\ phase' = "running"
    /\ entry' = args
    /\ env' = [v \in Var |-> CASE v \in Params -> args[ParamIndex(v)]
                               [] v \in Global -> globals[v]
                               [] OTHER -> 0]
    /\ UNCHANGED <<func, flow, summary, at, made, kept, exposed, result, steps, outside>>

Running(kinds) ==
    /\ phase = "running" /\ steps < MaxSteps
    /\ At(at).kind \in kinds
    /\ steps' = steps + 1
    /\ UNCHANGED <<func, flow, summary, entry>>

\* The local pointers other than v that hold the block y.
Sharing(v, y) == y \in Block /\ \E w \in Pointer \ (Global \cup {v}) : env[w] = y

\* A static variable is initialised by the first call; later ones find what was left.
Assign ==
    /\ Running({"assign", "static"})
    /\ LET s == At(at)
       IN  \E y \in Values(s.value) \cup (IF s.kind = "static" THEN Inputs(s.var) ELSE {}) :
              /\ Gets(s.var, y)
              /\ outside' = outside \cup Surprises(s.value, y)
                               \cup Note("narrowed", y # 0 /\ Stored(s.var, y) = 0)
                               \cup Note("shared", s.var \in Global /\ Sharing(s.var, y))
                               \cup Note("static", s.kind = "static")
    /\ at' = At(at).next
    /\ UNCHANGED <<phase, exposed, result>>

\* A pointer that is incremented is not null.
Change ==
    /\ Running({"declare", "change"})
    /\ LET s == At(at)
       IN  /\ s.kind = "change" /\ s.var \in Pointer => env[s.var] # 0
           /\ \E y \in IF s.kind = "change" /\ s.var \in Pointer THEN {Elsewhere} ELSE Inputs(s.var) : Gets(s.var, y)
           /\ outside' = outside \cup Note("changed", s.kind = "change" /\ s.var \notin Pointer)
    /\ at' = At(at).next
    /\ UNCHANGED <<phase, exposed, result>>

\* A callee that does not borrow the argument may keep the block or free it, and may
\* write through an address that it had before.
Pass ==
    /\ Running({"pass"})
    /\ LET s == At(at)
           block == {env[s.var]} \cap Block
       IN  /\ kept' \in IF s.borrows \/ s.var \notin Pointer THEN {kept} ELSE {kept, kept \cup block}
           /\ \/ env' = env /\ outside' = outside \cup Note("shared", kept' # kept /\ Sharing(s.var, env[s.var]))
              \/ \E v \in exposed : \E y \in Inputs(v) :
                    env' = [env EXCEPT ![v] = y] /\ outside' = outside \cup {"retained"}
    /\ at' = At(at).next
    /\ UNCHANGED <<phase, made, exposed, result>>

\* The callee may write the variable, and keep or free the block that was there.
Expose ==
    /\ Running({"address", "byref"})
    /\ LET s == At(at)
           block == {env[s.var]} \cap Block
       IN  \E y \in Inputs(s.var) \cup {env[s.var]} \cup (IF s.var \in Pointer THEN Free ELSE {}), given \in {{}, block \ kept} :
              /\ env' = [env EXCEPT ![s.var] = y]
              /\ made' = made \cup ({y} \cap Block)
              /\ kept' = kept \cup given \cup Published(s.var, y)
              /\ exposed' = IF s.kind = "address" THEN exposed \cup {s.var} ELSE exposed
              /\ outside' = outside \cup Note("reference", s.kind = "byref")
                               \cup Note("borrowed", s.kind = "byref" /\ s.borrows)
                               \cup Note("shared", given # {} /\ Sharing(s.var, env[s.var]))
    /\ at' = At(at).next
    /\ UNCHANGED <<phase, result>>

\* In a comparison with an unsigned constant a negative value is a large one.
Branch(taken) ==
    /\ Running({"branch"})
    /\ LET c == At(at).cond
           large == c.kind = "compare" /\ c.unsigned /\ env[c.var] < 0
           holds == CASE c.kind = "truth" -> {env[c.var] # 0}
                      [] c.kind = "compare" ->
                            {Z!Compares(c.op, IF large THEN env[c.var] + Modulus ELSE env[c.var], c.n)}
                      [] OTHER -> BOOLEAN
       IN  /\ taken \in {h # c.neg : h \in holds}
           /\ outside' = outside \cup Note("converted", large)
    /\ at' = IF taken THEN At(at).next ELSE At(at).alt
    /\ UNCHANGED <<phase, env, made, kept, exposed, result>>

\* A case may share the statement of the default.
Switch ==
    /\ Running({"switch"})
    /\ LET s == At(at)
           listed == env[s.var] \in DOMAIN s.cases
       IN  /\ at' = IF listed THEN s.cases[env[s.var]] ELSE s.alt
           /\ outside' = outside \cup Note("labelled", listed /\ at' = s.alt)
    /\ UNCHANGED <<phase, env, made, kept, exposed, result>>

Return ==
    /\ Running({"return"})
    /\ \E y \in Values(At(at).value) :
          /\ result' = {IF func.type = "pointer" THEN y ELSE Cut(func.wide, y)}
          /\ made' = made \cup ({y} \cap Block)
          /\ outside' = outside \cup Surprises(At(at).value, y) \cup Note("narrowed", y # 0 /\ 0 \in result')
    /\ phase' = "returned"
    /\ UNCHANGED <<env, at, kept, exposed>>

Next ==
    \/ Sweep
    \/ Harvest
    \/ \E args \in [DOMAIN func.params -> UNION {Arguments(i) : i \in DOMAIN func.params}] :
          \E globals \in [Global -> UNION {Inputs(v) : v \in Global}] :
             /\ \A i \in DOMAIN args : args[i] \in Arguments(i)
             /\ \A v \in Global : globals[v] \in Inputs(v)
             /\ Start(args, globals)
    \/ Assign
    \/ Change
    \/ Pass
    \/ Expose
    \/ \E taken \in BOOLEAN : Branch(taken)
    \/ Switch
    \/ Return

Spec == Init /\ [][Next]_vars

-----------------------------------------------------------------------------
(* Properties *)

\* A result that is claimed never to be null or zero is not, one that is claimed always
\* to be zero is.  The dataflow does not see changes in place.
ReturnClaimsHold ==
    outside \cap {"changed", "reference", "retained", "static", "narrowed", "mixed", "dynamic", "nothrow"} = {} =>
        \A y \in result :
            /\ summary.claim = "Never" => y # 0
            /\ summary.claim = "Always" => y = 0

\* The same where a variable is changed in place.
ChangedClaimsHold ==
    outside \subseteq {"changed"} =>
        \A y \in result :
            /\ summary.claim = "Never" => y # 0
            /\ summary.claim = "Always" => y = 0

\* Of a claim that names a parameter, its argument decides: the result is bad only if the
\* argument is, or the result is the argument.  An argument inside the range excludes null.
ParameterClaimsHold ==
    \A y \in result :
        /\ summary.from # 0 /\ outside \cap {"reference", "nothrow", "round trip"} = {} => (y = 0 => entry[summary.from] = 0)
        /\ summary.alias # 0 /\ outside \cap {"retained", "static"} = {} => y = entry[summary.alias]
        /\ outside \cap {"reference", "converted", "labelled", "dynamic", "nothrow"} = {} =>
              \A c \in summary.null : entry[c.param] \in c.range => y # 0

\* An index that is compared with an unsigned bound is covered as well.
BoundCheckHolds ==
    outside \subseteq {"converted"} => \A y \in result : \A c \in summary.null : entry[c.param] \in c.range => y # 0

\* Null is returned in the default alone, although a case has the same statement.
LabelsHold ==
    outside \subseteq {"labelled"} => \A y \in result : \A c \in summary.null : entry[c.param] \in c.range => y # 0

\* What is returned as owned is a block that the function allocated and nobody else has:
\* to free it is the caller's.  What is returned as borrowed is not: the caller must not.
OwnershipHolds ==
    outside \cap {"shared", "static", "came back", "borrowed", "retained"} = {} =>
        \A y \in result \ {0} :
            /\ summary.owner = "Owned" => y \in own
            /\ summary.owner = "Borrowed" => y \notin own

\* The statement m, if it is reached, leaves v bad on its way to n: a bad value is assigned
\* or found, or v may be bad before it and is neither written nor tested.
PassesBad(m, n, v, before) ==
    LET s == At(m)
        edges == {t \in BOOLEAN : n = IF t THEN s.next ELSE s.alt}
    IN  CASE s.kind = "branch" /\ s.cond.var = v ->
                \E t \in edges : "Bad" \in EdgeFact(s.cond, t) \/ (EdgeFact(s.cond, t) = {} /\ before)
          [] s.kind \in {"assign", "static"} /\ s.var = v -> vstateOf(s.value) \in {"Bad", "MaybeBad"}
          [] s.kind = "address" /\ s.var = v -> FALSE
          [] OTHER -> before

\* The statements before which v may be bad on evidence in the text, along some path: the
\* least set that each statement hands it on in.
Evidence(v) ==
    {n \in Nodes : \A E \in SUBSET Nodes :
        (\A m \in Nodes : flow[m] # {} => {t \in Targets(At(m)) : PassesBad(m, t, v, m \in E)} \subseteq E) => n \in E}

\* A claim that the result may be bad, or is always zero, rests on a bad value in the text:
\* one that is returned, or that reaches a variable which is.
MaybeIsEarned ==
    phase = "ready" /\ summary.claim \in {"Maybe", "Always"} =>
        \E n \in returns : \/ vstateOf(At(n).value) \in {"Bad", "MaybeBad"}
                           \/ \E v \in exprAsVar(At(n).value) : n \in Evidence(v)
=============================================================================
