------------------------------ MODULE MCDataflow ------------------------------
(***************************************************************************)
(* Module DataflowSoundness on the nullness lattice, for functions of at   *)
(* most eight blocks whose shapes are the ones the engine has code for: a  *)
(* join, a loop, a ?: diamond, a pruned edge, a block that dies, an edge   *)
(* the flags refute.                                                       *)
(***************************************************************************)
EXTENDS DataflowSoundness, Nullness, TLC, SequencesExt, FiniteSetsExt

CONSTANTS Late      \* also a ?: whose condition block is visited twice

MCBlock == 1..8

\* Every block of these shapes is reached within this many edges.
MaxPath == 8

\* Statements of a block: an assignment to the pointer, nothing, or one that
\* the analysis follows imprecisely and not monotonically.
Stmt == Rhs \cup {"keep", "flip"}

BlockXfer(stmt) ==
    [s \in NullState |->
        CASE stmt = "keep" -> s
          [] stmt = "flip" -> IF s = "NonNull" THEN "Unknown" ELSE "NonNull"
          [] stmt \in Rhs  -> evaluateNullness(stmt)]

MCRun(j, b, c) ==
    LET stmt == CHOOSE t \in Stmt : BlockXfer(t) = j.xfer[b]
    IN  CASE stmt = "keep" -> {c}
          [] stmt = "flip" -> {"valid"}
          [] stmt \in Rhs  -> Produces(stmt)

\* A branch tests the pointer, or something the analysis does not see.
BlockRefine(tests) ==
    [side \in BOOLEAN |->
        [s \in NullState |-> IF tests THEN applyCondition(~side, s) ELSE s]]

MCTakes(j, b, side) ==
    IF <<b, side>> \in j.infeasible THEN {}
    ELSE {c \in Pointer : j.refine[b] = BlockRefine(TRUE) => (side <=> ~IsNull(c))}

MCWiden(s) == s

\* A shape lists the successors of each block; blocks it leaves out are
\* unreachable and have none.
Shapes ==
    [join |-> 1 :> <<2>> @@ 2 :> <<3, 4>> @@ 3 :> <<5>> @@ 4 :> <<5>> @@ 5 :> <<6>>,
     loop |-> 1 :> <<2>> @@ 2 :> <<3, 6>> @@ 3 :> <<4, 5>> @@ 4 :> <<2>> @@ 5 :> <<2>>,
     forever |-> 1 :> <<2>> @@ 2 :> <<3, NoBlock>> @@ 3 :> <<2>>,
     tail |-> 1 :> <<6>> @@ 6 :> <<7>> @@ 7 :> <<2>> @@ 2 :> <<3, 4>> @@ 3 :> <<2>>,
     late |-> 1 :> <<2, 3>> @@ 2 :> <<7>> @@ 7 :> <<8>> @@ 8 :> <<3>>
              @@ 3 :> <<4, 5>> @@ 4 :> <<6>> @@ 5 :> <<6>>]

SuccOf(shape) == [b \in MCBlock |-> IF b \in DOMAIN Shapes[shape] THEN Shapes[shape][b] ELSE <<>>]
PredOf(succ) ==
    [b \in MCBlock |-> SetToSortSeq({a \in MCBlock : b \in Elements(succ[a])}, <)]

Function(shape, stmts, tested, ternary, dies, infeasible, widens) ==
    LET succ == SuccOf(shape)
        branch == {b \in MCBlock : Len(succ[b]) = 2}
    IN  [body |-> "cfg", succ |-> succ, pred |-> PredOf(succ),
         branch |-> branch, ternary |-> ternary, infeasible |-> infeasible,
         dies |-> dies,
         xfer |-> [b \in MCBlock |-> BlockXfer(IF b \in DOMAIN stmts THEN stmts[b] ELSE "keep")],
         refine |-> [b \in MCBlock |-> BlockRefine(b \in tested)],
         widens |-> widens, height |-> 3]

\* An arm of a ?: that assigns what its edge already says is taken for one that
\* does nothing (p ? 0 : (p = NULL)); it is left out of the arms tried here.
Straight ==
    UNION {
    { Function("join", 1 :> s1 @@ 3 :> s3 @@ 4 :> s4, tested, {}, dies, infeasible, FALSE) :
        s1 \in Rhs \cup {"keep"}, s3, s4 \in {"keep", "nullLiteral", "addressOf"},
        tested \in {{}, {2}}, dies \in {{}, {3}}, infeasible \in {{}, {<<2, FALSE>>}} },
    { Function("join", 1 :> s1 @@ 3 :> s3 @@ 4 :> s4, tested, {2}, {}, infeasible, FALSE) :
        s1 \in Rhs \cup {"keep"}, s3 \in {"keep", "nullLiteral", "opaqueCall"},
        s4 \in {"keep", "addressOf"}, tested \in {{}, {2}}, infeasible \in {{}, {<<2, FALSE>>}} } }

Loops ==
    { Function("loop", 1 :> s1 @@ 4 :> s4 @@ 5 :> s5, tested, {}, dies, {}, "flip" \in {s4, s5}) :
        s1 \in {"keep", "addressOf"}, s4 \in {"keep", "nullSource", "addressOf", "flip"},
        s5 \in {"keep", "opaqueCall", "nullLiteral"},
        tested \in SUBSET {2, 3}, dies \in {{}, {4}} }

\* A short loop behind a long prologue, which leaves widening its share of the
\* iteration cap.
Widening ==
    { Function("tail", 1 :> s1 @@ 3 :> "flip", tested, {}, {}, {}, TRUE) :
        s1 \in Rhs, tested \in {{}, {2}} }

\* void f(p) { if (a) { <some control flow>; p = malloc(n); } x = p ? 1 : 0; ... }
LateTernary ==
    { Function("late", 8 :> s8, {3}, {3}, {}, {}, FALSE) : s8 \in {"keep", "nullSource"} }

\* while (1), whose false edge getReachableBlock() prunes.
Forever ==
    { Function("forever", 1 :> s1 @@ 3 :> s3, {}, {}, {}, {}, FALSE) : s1, s3 \in Rhs }

NoBody ==
    { [Function("join", <<>>, {}, {}, {}, {}, FALSE) EXCEPT !.body = b] :
        b \in {"missing", "dependent"} }

MCJob == Straight \cup Loops \cup Widening \cup Forever \cup NoBody \cup (IF Late THEN LateTernary ELSE {})

-----------------------------------------------------------------------------
\* The (block, pointer) pairs an execution can enter, when a condition on the
\* pointer is taken at its word, as the engine takes it.
Crosses(j, p, b, c) ==
    IF p \notin j.branch THEN {c}
    ELSE LET side == b = j.succ[p][1]
         IN  IF <<p, side>> \in j.infeasible THEN {}
             ELSE IF j.refine[p] = BlockRefine(TRUE) THEN {d \in Pointer : IsNull(d) # side}
             ELSE {c}

Reachable(j) ==
    LET Onward(e) ==
            IF e[1] \in j.dies THEN {}
            ELSE UNION { {<<b, d>> : d \in Crosses(j, e[1], b, c)} :
                            b \in Elements(j.succ[e[1]]) \ {NoBlock}, c \in Run(j, e[1], e[2]) }
        after[n \in 0..MaxPath] ==
            IF n = 0 THEN {<<Entry, c>> : c \in Meaning("Unknown")}
                     ELSE LET r == after[n - 1] IN r \cup UNION {Onward(e) : e \in r}
    IN  after[MaxPath]

\* The engine raises no alarm on its own: where a rule would report a null or
\* possibly null pointer, some execution of the function arrives with a null.
\* What a dying block or a refuted edge knew is never part of the report.
NoFalseAlarm ==
    phase = "done" /\ job.body = "cfg" /\ ~job.widens /\ at = NoBlock =>
        LET reach == Reachable(job)
        IN  \A b \in Block : reported[b] \in {"Null", "MaybeNull"}
                                => \E c \in Pointer : <<b, c>> \in reach /\ IsNull(c)
=============================================================================
