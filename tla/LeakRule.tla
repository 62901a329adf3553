------------------------------ MODULE LeakRule ------------------------------
(***************************************************************************)
(* The leak rule: src/src/rules/MemoryLeakRule_Ex.cpp on the disjuncts of  *)
(* GuardedDisjuncts.h.  As in NullRule, the analysis runs beside an        *)
(* execution of the function it analyses: state is the analysis of the     *)
(* path taken, other that of a path not taken, until the two join, at the  *)
(* latest in the exit block.                                               *)
(*                                                                         *)
(* Each pointer variable carries the life of the last block it acquired;   *)
(* a binding says whose block it holds now.  Pointers are automatic and of *)
(* one type.  Owners are smart pointers of the standard library.           *)
(***************************************************************************)
EXTENDS Execution, FiniteSetsExt

CONSTANTS
    MaxDisjuncts,   \* kMaxDisjuncts
    RefVar,         \* the pointer variables that are references to pointers
    OwnerVar,       \* the smart pointers
    NoVar,          \* no variable
    MaxBlock,       \* the bound of the blocks acquired
    Function        \* the functions analysed

ASSUME LeakAssumption ==
    /\ RefVar \subseteq PtrVar /\ NoVar \notin PtrVar
    /\ MaxDisjuncts \in Nat \ {0} /\ MaxBlock \in Nat

VARIABLES
    fn,         \* the function
    state,      \* the analysis along the path taken
    other,      \* that of the path not taken; {} when there is none
    env,        \* what the variables and the heap hold
    ended,      \* how the path taken ended: "no", "returned" or "undefined"
    otherEnded, \* whether the other path has returned
    steps,      \* statements and branches so far
    diags,      \* what the rule has reported
    crimes,     \* history: blocks that an owner released a second time
    wrong,      \* history: errors reported where the execution did nothing wrong
    waived,     \* history: blocks that the analysis has given up on
    outside     \* history: what the analysis does not provide for, if it happened

vars == <<fn, state, other, env, ended, otherEnded, steps, diags, crimes, wrong, waived, outside>>

AllocState == {"None", "Allocated", "Freed", "Escaped"}

Block == 1 .. MaxBlock

-----------------------------------------------------------------------------
(* LifetimeState and its merge *)

Unacquired == [alloc |-> "None", binding |-> NoVar, ref |-> FALSE, realloc |-> NoVar,
               family |-> "", familyKnown |-> TRUE, owners |-> {}, ownersKnown |-> TRUE]

mergeAllocStates(a, b) ==
    CASE a = b -> a
      [] "Escaped" \in {a, b} -> "Escaped"
      [] "Allocated" \in {a, b} -> "Allocated"
      [] OTHER -> "None"

\* Mutant: owners that disagree stay known.
mergeLifetimesKnown(a, b) ==
    [alloc |-> mergeAllocStates(a.alloc, b.alloc),
     binding |-> IF a.binding = b.binding /\ a.ref = b.ref THEN a.binding ELSE NoVar,
     ref |-> a.binding = b.binding /\ a.ref = b.ref /\ a.ref,
     realloc |-> IF a.realloc = b.realloc THEN a.realloc ELSE NoVar,
     family |-> a.family, familyKnown |-> a.familyKnown,
     owners |-> a.owners \cap b.owners, ownersKnown |-> TRUE]

\* A side with no allocation has no say about the family and the owners; sides that
\* disagree about the owners make an allocation escape.
mergeLifetimeStates(a, b) ==
    LET sides == CASE a.alloc = "None" /\ b.alloc # "None" -> {b}
                   [] b.alloc = "None" /\ a.alloc # "None" -> {a}
                   [] OTHER -> {a, b}
        family == {[name |-> l.family, known |-> l.familyKnown] : l \in sides}
        owners == {[set |-> l.owners, known |-> l.ownersKnown] : l \in sides}
        Agreed(S) == Cardinality(S) = 1 /\ (Cardinality(sides) = 1 \/ \A x \in S : x.known)
        merged == mergeAllocStates(a.alloc, b.alloc)
        bound == a.binding = b.binding /\ a.ref = b.ref
    IN  [alloc |-> IF ~Agreed(owners) /\ merged = "Allocated" THEN "Escaped" ELSE merged,
         binding |-> IF bound THEN a.binding ELSE NoVar,
         ref |-> bound /\ a.ref,
         realloc |-> IF a.realloc = b.realloc THEN a.realloc ELSE NoVar,
         family |-> IF Agreed(family) THEN (CHOOSE x \in family : TRUE).name ELSE "",
         familyKnown |-> Agreed(family) /\ \A x \in family : x.known,
         owners |-> IF Agreed(owners) THEN (CHOOSE x \in owners : TRUE).set ELSE {},
         ownersKnown |-> Agreed(owners) /\ \A x \in owners : x.known]

D == INSTANCE Disjuncts WITH MergeVal <- mergeLifetimeStates,
                             MeetVal <- LAMBDA facts, a, b : mergeLifetimeStates(a, b),
                             Mine <- LAMBDA pre, widened : widened,
                             Refutes <- LAMBDA d, leaf, wanted : FALSE,
                             Rejects <- LAMBDA d, leaf, isTrue : FALSE,
                             Refine <- LAMBDA d, leaf, isTrue : d

merge(S, T) == D!mergeGuarded(S, T)
widen(S) == D!widenGuarded(S)
flattenState(S) == D!flattenGuarded(S)

-----------------------------------------------------------------------------
(* Bindings.  m is a map from the tracked variables to their lifetimes.     *)

\* The variable whose block v holds: through references to the variable they name,
\* through copies to a variable that acquired, even if it has moved on since.
RECURSIVE Follow(_, _, _, _)
Follow(m, v, seen, copied) ==
    IF v \in seen \/ v \notin DOMAIN m THEN NoVar
    ELSE IF m[v].ref THEN Follow(m, m[v].binding, seen \cup {v}, FALSE)
    ELSE IF m[v].binding = NoVar THEN (IF copied /\ m[v].alloc # "None" THEN v ELSE NoVar)
    ELSE IF m[v].binding = v THEN v
    ELSE Follow(m, m[v].binding, seen \cup {v}, TRUE)

resolveBinding(m, v) == Follow(m, v, {}, FALSE)

\* The same, or v itself if it has acquired.
allocationRoot(m, v) ==
    LET root == resolveBinding(m, v)
    IN  IF root # NoVar THEN root
        ELSE IF v \in DOMAIN m /\ m[v].alloc # "None" THEN v
        ELSE NoVar

invalidateReallocRelations(m, v) ==
    [w \in DOMAIN m |-> IF w = v \/ m[w].realloc = v THEN [m[w] EXCEPT !.realloc = NoVar] ELSE m[w]]

\* w reaches v along bindings, all taken as they were (the code walks a chain while
\* it cuts others; a chain has one link unless its root was bound again).
RECURSIVE DependsOn(_, _, _, _)
DependsOn(m, w, v, seen) ==
    /\ w \in DOMAIN m \ seen /\ m[w].binding # NoVar
    /\ m[w].binding = v \/ DependsOn(m, m[w].binding, v, seen \cup {w})

\* Mutant: copies go on standing for v.
invalidateBindingDependentsKept(m, v) == invalidateReallocRelations(m, v)

\* v acquires again: its copies hold a block that v no longer stands for.
invalidateBindingDependents(m, v) ==
    LET n == invalidateReallocRelations(m, v)
    IN  [w \in DOMAIN n |-> IF w # v /\ w \notin RefVar /\ DependsOn(n, w, v, {})
                              THEN [n[w] EXCEPT !.binding = NoVar] ELSE n[w]]

\* A pointer is declared or assigned: rhs is the exact pointer copied, or NoVar.
applyBindingUpdate(m, lhs, rhs, throughReference) ==
    LET n == invalidateReallocRelations(m, lhs)
        overwritten == resolveBinding(n, lhs)
        named == IF rhs \in RefVar THEN (IF rhs \in DOMAIN n THEN n[rhs].binding ELSE NoVar) ELSE rhs
    IN  CASE lhs \notin DOMAIN m \/ rhs = lhs -> m
          [] throughReference ->
                IF overwritten = NoVar THEN n
                ELSE [n EXCEPT ![overwritten] = [@ EXCEPT !.alloc = "Escaped", !.binding = NoVar, !.ref = FALSE]]
          [] OTHER ->
                [n EXCEPT ![lhs].binding = IF lhs \in RefVar THEN named ELSE resolveBinding(n, rhs),
                          ![lhs].ref = lhs \in RefVar /\ named # NoVar]

-----------------------------------------------------------------------------
(* Owners *)

rootsOwnedBy(m, o) == {v \in DOMAIN m : m[v].ownersKnown /\ o \in m[v].owners}

GiveUp(m, roots) ==
    [v \in DOMAIN m |->
        LET l == [m[v] EXCEPT !.realloc = IF v \in roots \/ @ \in roots THEN NoVar ELSE @]
        IN  IF v \in roots THEN [l EXCEPT !.alloc = "Escaped", !.owners = {}, !.ownersKnown = FALSE]
            ELSE l]

escapeOwner(m, o) == GiveUp(m, rootsOwnedBy(m, o))

escapeOwnersAtUnmodelledThrow(m) ==
    GiveUp(m, {v \in DOMAIN m : m[v].ownersKnown /\ m[v].owners # {}})

\* An owner lets go: the last one of an allocation frees it.
releaseOwner(m, o, freesLast) ==
    [v \in DOMAIN m |->
        IF v \notin rootsOwnedBy(m, o) THEN m[v]
        ELSE [m[v] EXCEPT !.owners = @ \ {o},
                          !.alloc = IF freesLast /\ m[v].owners = {o} /\ @ = "Allocated" THEN "Freed" ELSE @]]

escapeRoot(m, root) ==
    IF root = NoVar THEN m
    ELSE [m EXCEPT ![root] = [@ EXCEPT !.alloc = "Escaped", !.owners = {}, !.ownersKnown = FALSE]]

adoptOwner(m, o, raw, compatible) ==
    LET root == allocationRoot(m, raw)
    IN  IF root = NoVar THEN m
        ELSE IF \/ ~compatible \/ ~m[root].familyKnown \/ m[root].family # ""
                \/ ~m[root].ownersKnown \/ m[root].owners # {}
          THEN escapeRoot(m, root)
        ELSE IF m[root].alloc \notin {"Allocated", "Freed"} THEN m
        ELSE [m EXCEPT ![root].owners = {o}]

\* q = o.get() or q = o.release(): q holds what o owned, if that is one tracked block.
bindOwnerResult(m, result, root) ==
    IF result \notin DOMAIN m THEN m
    ELSE [invalidateBindingDependents(m, result) EXCEPT ![result].binding = root, ![result].ref = FALSE]

ownerResult(m, s) ==
    LET roots == rootsOwnedBy(m, s.owner)
        root == CHOOSE v \in roots : TRUE
    IN  IF Cardinality(roots) # 1 THEN escapeOwner(m, s.owner)
        ELSE bindOwnerResult(IF s.kind = "ownerRelease" THEN releaseOwner(m, s.owner, FALSE) ELSE m,
                             s.var, root)

\* o = s, o(s), and with std::move of s.
ownerCopy(m, s) ==
    LET roots == rootsOwnedBy(m, s.from)
        root == CHOOSE v \in roots : TRUE
        n == IF s.replace THEN releaseOwner(m, s.owner, TRUE) ELSE m
    IN  IF s.owner = s.from THEN m
        ELSE IF Cardinality(roots) # 1 THEN (IF roots = {} THEN n ELSE escapeOwner(n, s.from))
        ELSE [n EXCEPT ![root].owners = (IF s.move THEN @ \ {s.from} ELSE @) \cup {s.owner}]

ownerReset(m, s) ==
    LET n == releaseOwner(m, s.owner, TRUE)
        root == allocationRoot(n, s.var)
    IN  IF s.var = NoVar THEN n
        ELSE IF s.exact THEN adoptOwner(n, s.owner, s.var, TRUE)
        ELSE IF root = NoVar THEN n
        ELSE [n EXCEPT ![root].alloc = "Escaped"]

\* Several owners let go, at the end of the function.
releaseOwners(m, owners) ==
    [v \in DOMAIN m |->
        IF ~m[v].ownersKnown \/ m[v].owners \cap owners = {} THEN m[v]
        ELSE [m[v] EXCEPT !.owners = @ \ owners,
                          !.alloc = IF m[v].owners \subseteq owners /\ @ = "Allocated" THEN "Freed" ELSE @]]

-----------------------------------------------------------------------------
(* Effects of a statement on the blocks *)

\* Which release functions answer for a family; a wrapper is one whose summary says
\* that it consumes its argument.
releaseAuthority(l, by) ==
    CASE ~l.familyKnown -> "Unknown"
      [] l.familyKnown /\ l.family \in {"", by} -> "Match"
      [] OTHER -> IF by = "wrapper" THEN "Unknown" ELSE "Mismatch"

provesNonZeroRequest(d, s) ==
    s.kind = "realloc" /\ IF s.size = NoVar THEN s.nonZero
                          ELSE Fact(Integer(s.size), "EQ", 0, FALSE) \in d.facts

\* The variable acquires a block.  A realloc that is known to ask for something keeps
\* the old block's variable: what became of it shows when the result is tested.
Allocates(d, s) ==
    LET m == d.vars
        source == IF s.kind = "realloc" THEN allocationRoot(m, s.from) ELSE NoVar
        plain(v) == m[v].familyKnown /\ m[v].family = ""
        held == source # NoVar /\ m[source].alloc = "Allocated"
        taken == [Unacquired EXCEPT
                    !.alloc = "Allocated", !.binding = s.var,
                    !.family = s.family, !.familyKnown = s.familyKnown,
                    !.realloc = IF provesNonZeroRequest(d, s) /\ held /\ source # s.var /\ plain(source)
                                  THEN source ELSE NoVar]
        unknown == [Unacquired EXCEPT !.alloc = "Escaped", !.familyKnown = FALSE, !.ownersKnown = FALSE]
    IN  [d EXCEPT !.vars = [invalidateBindingDependents(m, s.var) EXCEPT
                                ![s.var] = IF held /\ ~plain(source) THEN unknown ELSE taken]]

Frees(m, v, by) ==
    LET owner == resolveBinding(m, v)
        authority == releaseAuthority(m[owner], by)
    IN  IF owner = NoVar THEN m
        ELSE CASE authority = "Match" -> [m EXCEPT ![owner].alloc = "Freed"]
               [] authority = "Unknown" -> [invalidateReallocRelations(m, owner) EXCEPT ![owner].alloc = "Escaped"]
               [] OTHER -> m

Escapes(m, v) ==
    LET owner == resolveBinding(m, v)
    IN  IF owner = NoVar THEN m ELSE escapeRoot(invalidateReallocRelations(m, owner), owner)

\* Assigned pointers, for the facts: every kind that writes one.
AsStored(s) ==
    IF s.kind \in {"acquire", "realloc", "copy", "ownerRelease", "ownerGet"}
       /\ s.var \notin RefVar \cup {NoVar}
      THEN [kind |-> "assignPtr", var |-> s.var, rhs |-> "nullLiteral", 
            zero |-> s.kind = "copy" /\ s.from = NoVar /\ s.exact]
      ELSE s

Assigned(m, s) ==
    IF s.var \notin RefVar \/ s.kind = "bindRef"
      THEN applyBindingUpdate(m, s.var, IF s.kind \in {"copy", "bindRef"} /\ s.exact THEN s.from ELSE NoVar, FALSE)
      ELSE applyBindingUpdate(m, s.var, IF s.kind = "copy" /\ s.exact THEN s.from ELSE NoVar, TRUE)

\* A realloc call is an element of its own, before the assignment of its result: its
\* argument escapes, unless the request is known not to be zero.
Called(d, s) ==
    IF s.kind = "realloc" /\ ~provesNonZeroRequest(d, s) THEN [d EXCEPT !.vars = Escapes(@, s.from)] ELSE d

\* What s makes of a disjunct: bindings, then owners, then effects, then the bindings
\* that a call may have changed.
transferDisjunct(d, s) ==
    LET m == d.vars
    IN  CASE s.kind = "acquire" -> Allocates([d EXCEPT !.vars = Assigned(m, s)], s)
          [] s.kind = "realloc" -> Allocates([d EXCEPT !.vars = Assigned(Called(d, s).vars, s)], s)
          [] s.kind \in {"copy", "bindRef"} -> [d EXCEPT !.vars = Assigned(m, s)]
          [] s.kind = "release" -> [d EXCEPT !.vars = Frees(m, s.var, s.by)]
          [] s.kind \in {"give", "store"} -> [d EXCEPT !.vars = Escapes(m, s.var)]
          [] s.kind \in {"addressOf", "refArg"} ->
                [d EXCEPT !.vars = applyBindingUpdate(Escapes(m, s.var), s.var, NoVar, FALSE)]
          [] s.kind = "adopt" /\ s.exact -> [d EXCEPT !.vars = adoptOwner(m, s.owner, s.var, TRUE)]
          [] s.kind = "adopt" /\ ~s.exact ->
                LET escaped == Escapes(m, s.var) IN [d EXCEPT !.vars = escapeRoot(escaped, allocationRoot(escaped, s.var))]
          [] s.kind = "ownerCopy" -> [d EXCEPT !.vars = ownerCopy(m, s)]
          [] s.kind = "ownerReset" -> [d EXCEPT !.vars = ownerReset(m, s)]
          [] s.kind \in {"ownerRelease", "ownerGet"} -> [d EXCEPT !.vars = ownerResult(m, s)]
          [] s.kind = "ownerGive" -> [d EXCEPT !.vars = escapeOwner(m, s.owner)]
          [] s.kind = "scopeEnd" -> [d EXCEPT !.vars = releaseOwner(m, s.owner, TRUE)]
          [] s.kind = "throw" -> [d EXCEPT !.vars = releaseOwners(escapeOwnersAtUnmodelledThrow(m), OwnerVar)]
          [] s.kind = "return" -> [d EXCEPT !.vars = releaseOwners(Escapes(m, s.var), OwnerVar)]
          [] OTHER -> d

\* Every tracked pointer has facts.
Tracked ==
    LET Acquiring == {s.var : s \in {t \in fn.stmts : t.kind \in {"acquire", "realloc", "ownerRelease", "ownerGet"}
                                                        /\ t.var \notin RefVar \cup {NoVar}}}
        Linked(v, w) == \E s \in fn.stmts : s.kind \in {"copy", "bindRef"} /\ {s.var, s.from} = {v, w}
        Reach[n \in 0 .. Cardinality(PtrVar)] ==
            IF n = 0 THEN Acquiring
            ELSE Reach[n - 1] \cup {v \in PtrVar : \E w \in Reach[n - 1] : Linked(v, w)}
    IN  Reach[Cardinality(PtrVar)]

LeakKeying == [Keying(fn) EXCEPT !.ptrFacts = Tracked, !.bases = {}]

transfer(s, S) == {transferDisjunct(d, s) : d \in D!applyStmtFacts(LeakKeying, S, AsStored(s))}

initialState == {[facts |-> {}, vars |-> [v \in Tracked |-> Unacquired]]}

-----------------------------------------------------------------------------
(* Conditions *)

\* A null result is no block.  The test of a pending realloc decides about the old
\* block: gone if the result is valid, still there if it is null.
applyNullCondition(m, v, isNull) ==
    LET root == resolveBinding(m, v)
        result == IF root # NoVar THEN root ELSE v
        source == m[result].realloc
        settled == [m EXCEPT ![result].realloc = NoVar]
    IN  IF result \in DOMAIN m /\ source # NoVar
          THEN IF isNull THEN [settled EXCEPT ![result].alloc = "None"]
               ELSE IF settled[source].alloc = "Allocated" THEN [settled EXCEPT ![source].alloc = "Freed"]
               ELSE settled
        ELSE IF isNull /\ root # NoVar /\ m[root].alloc = "Allocated" THEN [m EXCEPT ![root].alloc = "None"]
        ELSE m

\* The leaves that the walk visits when c is isTrue.
Proven(c, isTrue) ==
    LET value == isTrue # c.neg
    IN  IF c.join = "leaf" THEN walkNullCondition(c.lhs, value)
        ELSE IF (c.join = "and") = value
          THEN walkNullCondition(c.lhs, value) \cup walkNullCondition(c.rhs, value)
        ELSE {}

refineOnEdge(S, c, isTrue) ==
    {[d EXCEPT !.vars = FoldSet(LAMBDA n, m : applyNullCondition(m, n.var, n.null), @, Proven(c, isTrue))]
        : d \in D!refineGuardedFacts(LeakKeying, S, c, isTrue)}

-----------------------------------------------------------------------------
(* Reports: one for each variable and line *)

Diag(rule, v, line) == [rule |-> rule, var |-> v, line |-> line]

\* A block acquired over one that is still allocated; p = realloc(p, n) only when it
\* may fail, that is, when n is known not to be zero.
overwrites(S, s) ==
    LET before == {Called(d, s) : d \in S}
        flat == flattenState(before)
        held == {d \in before : d.vars[s.var].alloc = "Allocated"}
        ownBlock == s.kind = "realloc"
                      /\ \A d \in held : s.var \in {s.from, resolveBinding(d.vars, s.from)}
    IN  /\ s.kind \in {"acquire", "realloc"} /\ s.var \in DOMAIN flat /\ flat[s.var].alloc = "Allocated"
        /\ ownBlock => \E d \in held : provesNonZeroRequest(d, s)

releasedTwice(flat, s) ==
    LET owner == resolveBinding(flat, s.var)
    IN  /\ s.kind = "release" /\ owner # NoVar
        /\ flat[owner].alloc = "Freed" /\ releaseAuthority(flat[owner], s.by) = "Match"

usedAfterFree(flat, s) ==
    LET owner == resolveBinding(flat, s.var)
    IN  s.kind = "deref" /\ owner # NoVar /\ flat[owner].alloc = "Freed"

\* Owners whose block, on some disjunct, was freed by other means.
ownersLettingGo(s) ==
    CASE s.kind \in {"ownerReset", "scopeEnd"} \/ (s.kind = "ownerCopy" /\ s.replace) -> {s.owner}
      [] s.kind = "return" -> OwnerVar
      [] OTHER -> {}

\* Mutant: only a block that every disjunct has freed.
ownedTwiceEverywhere(S, s) ==
    {v \in DOMAIN flattenState(S) :
        \A d \in S : d.vars[v].alloc = "Freed" /\ d.vars[v].ownersKnown
                       /\ d.vars[v].owners # {} /\ d.vars[v].owners \subseteq ownersLettingGo(s)}

ownedTwice(S, s) ==
    UNION {{v \in DOMAIN d.vars : /\ d.vars[v].alloc = "Freed" /\ d.vars[v].ownersKnown
                                  /\ d.vars[v].owners # {} /\ d.vars[v].owners \subseteq ownersLettingGo(s)}
             : d \in S}

\* What onStatement and onCFGElement report of s in S.
Found(S, s) ==
    LET flat == flattenState(S)
    IN  {Diag("double-free", v, s.line) : v \in ownedTwice(S, s)}
          \cup (IF overwrites(S, s) THEN {Diag("memory-leak", s.var, s.line)} ELSE {})
          \cup (IF releasedTwice(flat, s) THEN {Diag("double-free", s.var, s.line)} ELSE {})
          \cup (IF usedAfterFree(flat, s) THEN {Diag("use-after-free", s.var, s.line)} ELSE {})

onStatement(S, s) ==
    {g \in Found(S, s) : ~\E h \in diags : h.var = g.var /\ h.line = g.line}

EndLine == 99

\* Mutant: a pending realloc covers its source, whatever became of the result.
leaksAtExitCovered(S) ==
    LET flat == flattenState(S)
    IN {v \in DOMAIN flat :
        /\ flat[v].alloc = "Allocated"
        /\ \E d \in S : /\ d.vars[v].alloc = "Allocated"
                        /\ ~\E w \in DOMAIN d.vars : d.vars[w].realloc = v}

\* At the exit: still allocated on some disjunct where no pending realloc result,
\* reported itself, stands for it.
leaksAtExit(S) ==
    LET flat == flattenState(S)
    IN {v \in DOMAIN flat :
        /\ flat[v].alloc = "Allocated"
        /\ \E d \in S : /\ d.vars[v].alloc = "Allocated"
                        /\ ~\E w \in DOMAIN d.vars :
                              w # v /\ d.vars[w].alloc = "Allocated" /\ d.vars[w].realloc = v}

-----------------------------------------------------------------------------
(* The execution.  A pointer is a block, 0 when it is null, Stray when it points    *)
(* to nothing that the function acquired; last[v] is what v last acquired.      *)

Stray == -1

Home(e, v) == IF v \in RefVar THEN e.refers[v] ELSE v

ValueIn(e, v) == e.ptr[Home(e, v)]

IsNil(e, v) == ValueIn(e, v) = 0

Blocks(e, v) == {ValueIn(e, v)} \cap Block

OwnersOf(e, b) == {o \in OwnerVar : e.owns[o] = b}

Point(e, v, x) == [e EXCEPT !.ptr[Home(e, v)] = x]

\* A new block, or a failure.
Acquire(e, s) ==
    {[Point(e, s.var, 0) EXCEPT !.last[s.var] = 0]}
      \cup (IF e.next > MaxBlock THEN {}
            ELSE {[Point(e, s.var, e.next) EXCEPT
                      !.last[s.var] = e.next, !.next = @ + 1,
                      !.life[e.next] = "live", !.origin[e.next] = s.var, !.family[e.next] = s.family]})

\* The owners in O let go of their blocks.
LetGo(e, O) ==
    [e EXCEPT !.life = [b \in Block |-> IF @[b] = "live" /\ OwnersOf(e, b) # {} /\ OwnersOf(e, b) \subseteq O
                                          THEN "freed" ELSE @[b]],
              !.owns = [o \in OwnerVar |-> IF o \in O THEN 0 ELSE @[o]]]

\* Blocks that an owner in O frees though they are gone.
FreedTwice(e, O) ==
    {b \in Block : e.life[b] = "freed" /\ OwnersOf(e, b) # {} /\ OwnersOf(e, b) \subseteq O}

\* Others may free, keep or hand out what they are given.
Give(e, B) ==
    {[e EXCEPT !.out = @ \cup B, !.life = [b \in Block |-> IF b \in F /\ @[b] = "live" THEN "freed" ELSE @[b]]]
        : F \in SUBSET B}

Own(e, o, b) == [e EXCEPT !.owns[o] = b]

BlockOr0(e, v) == IF v # NoVar /\ Blocks(e, v) # {} THEN ValueIn(e, v) ELSE 0

\* realloc(p, 0) may free p and return null.
Reallocate(e, s) ==
    LET b == BlockOr0(e, s.from)
        zero == IF s.size = NoVar THEN ~s.nonZero ELSE e.int[Integer(s.size)] = 0
        gone == IF b = 0 THEN e ELSE [e EXCEPT !.life[b] = "freed"]
        moved == {f \in Acquire(gone, s) : f.last[s.var] # 0}
        failed == [Point(e, s.var, 0) EXCEPT !.last[s.var] = 0]
    IN  moved \cup {failed} \cup (IF zero THEN {[Point(gone, s.var, 0) EXCEPT !.last[s.var] = 0]} ELSE {})

\* What executing s makes of e; an owner that is given away may come back empty.
Effect(s, e) ==
    CASE s.kind = "assign" -> {Put(e, Integer(s.var), s.lit.value)}
      [] s.kind = "step" -> Havoc(e, {Integer(s.var)})
      [] s.kind = "acquire" -> Acquire(e, s)
      [] s.kind = "realloc" -> Reallocate(e, s)
      [] s.kind = "copy" -> {Point(e, s.var, IF s.from = NoVar THEN 0 ELSE ValueIn(e, s.from))}
      [] s.kind = "bindRef" -> {[e EXCEPT !.refers[s.var] = Home(e, s.from)]}
      [] s.kind = "release" -> {[e EXCEPT !.life = [b \in Block |-> IF b \in Blocks(e, s.var) THEN "freed" ELSE @[b]]]}
      [] s.kind \in {"give", "store"} -> Give(e, Blocks(e, s.var))
      [] s.kind \in {"addressOf", "refArg"} ->
            LET given == Give(e, Blocks(e, s.var)) IN given \cup {Point(f, s.var, Stray) : f \in given}
      [] s.kind = "adopt" /\ s.exact /\ OwnersOf(e, BlockOr0(e, s.var)) = {} -> {Own(e, s.owner, BlockOr0(e, s.var))}
      [] s.kind = "adopt" -> {[f EXCEPT !.out = @ \cup Blocks(e, s.var)] : f \in {e}}
      [] s.kind = "ownerCopy" ->
            IF s.owner = s.from THEN {e}
            ELSE LET n == IF s.replace THEN LetGo(e, {s.owner}) ELSE e
                     m == Own(n, s.owner, e.owns[s.from])
                 IN  {IF s.move THEN Own(m, s.from, 0) ELSE m}
      [] s.kind = "ownerReset" ->
            LET n == LetGo(e, {s.owner})
                b == BlockOr0(e, s.var)
            IN  IF OwnersOf(n, b) # {} \/ ~s.exact THEN {[n EXCEPT !.out = @ \cup ({b} \ {0})]}
                ELSE {Own(n, s.owner, b)}
      [] s.kind \in {"ownerRelease", "ownerGet"} ->
            LET n == IF s.kind = "ownerRelease" THEN Own(e, s.owner, 0) ELSE e
            IN  {IF s.var = NoVar THEN n ELSE Point(n, s.var, e.owns[s.owner])}
      [] s.kind = "ownerGive" ->
            LET given == Give(e, {e.owns[s.owner]} \ {0}) IN given \cup {Own(f, s.owner, 0) : f \in given}
      [] s.kind = "scopeEnd" -> {LetGo(e, {s.owner})}
      [] s.kind \in {"throw", "return"} ->
            {LetGo(f, OwnerVar) : f \in {[e EXCEPT !.out = @ \cup (IF s.var = NoVar THEN {} ELSE Blocks(e, s.var))]}}
      [] OTHER -> {e}

\* An undefined step: a block used or released after it was freed, or released by
\* the wrong function, a null dereferenced, an owner that frees again.
Undefined(s, e) ==
    LET b == IF s.kind \in {"release", "deref"} THEN BlockOr0(e, s.var)
             ELSE IF s.kind = "realloc" THEN BlockOr0(e, s.from) ELSE 0
        family == IF b = 0 THEN "" ELSE e.family[b]
        right == CASE s.kind = "release" -> s.by \in {"wrapper", IF family = "" THEN "free" ELSE family}
                   [] s.kind = "realloc" -> family = ""
                   [] OTHER -> TRUE
    IN  \/ b # 0 /\ (e.life[b] = "freed" \/ ~right)
        \/ s.kind = "deref" /\ IsNil(e, s.var)
        \/ FreedTwice(e, ownersLettingGo(s)) # {}

\* References are bound where they are declared, owners are constructed once.
Possible(s, e) ==
    /\ \A v \in {w \in RefVar : e.refers[w] = NoVar} :
          s.from # v /\ (s.var = v => s.kind = "bindRef")
    /\ s.kind = "adopt" \/ (s.kind = "ownerCopy" /\ ~s.replace) => e.owns[s.owner] = 0

\* An error where the pointer is neither null nor gone.  What an owner frees again counts
\* on one disjunct, which the execution need not be on.
FalseAlarm(s) ==
    /\ s.kind \in {"release", "deref"}
    /\ LET flat == flattenState(state) IN releasedTwice(flat, s) \/ usedAfterFree(flat, s)
    /\ ~IsNil(env, s.var)
    /\ \A b \in Blocks(env, s.var) : env.life[b] # "freed"

\* The blocks whose variable escaped, or whose owners are not known, in the reporting
\* view.
GivenUp(S, e) ==
    LET flat == flattenState(S)
        lost == {v \in DOMAIN flat : flat[v].alloc = "Escaped" \/ ~flat[v].ownersKnown}
    IN  {b \in Block : \E v \in lost : e.last[v] = b}

\* Blocks freed in S that the merge T keeps as allocated.
Blurred(S, T) ==
    LET Freed(U) == {b \in Block : \E d \in U : \E v \in DOMAIN d.vars :
                                      env.last[v] = b /\ d.vars[v].alloc = "Freed"}
    IN  Freed(S) \ Freed(T)

\* A pointer that the analysis cannot follow is released, a variable whose block an
\* owner holds acquires another, or a request over its own block may be for nothing.
LostTrack(s) ==
    CASE s.kind = "release" /\ resolveBinding(flattenState(state), s.var) = NoVar -> Blocks(env, s.var)
      [] s.kind \in {"acquire", "realloc"} -> {b \in Block : b = env.last[s.var] /\ (OwnersOf(env, b) # {} \/ s.from = s.var)}
      [] OTHER -> {}

Notes(s) ==
    Note("rebound", /\ s.kind = "copy" /\ s.exact /\ s.var \notin RefVar
                    /\ \E d \in D!applyStmtFacts(LeakKeying, state, AsStored(s)), w \in Tracked \ (RefVar \cup {s.var}) :
                          /\ d.vars[w].binding = s.var
                          /\ resolveBinding(d.vars, s.from) \notin {NoVar, s.var})
      \cup Note("ownerResult", /\ s.kind \in {"ownerRelease", "ownerGet"} /\ s.var # NoVar
                               /\ \E d \in D!applyStmtFacts(LeakKeying, state, AsStored(s)) :
                                                   /\ Cardinality(rootsOwnedBy(d.vars, s.owner)) # 1
                                                   /\ d.vars[s.var].binding # NoVar)
      \cup Note("moved on", \E d \in D!applyStmtFacts(LeakKeying, state, AsStored(s)) :
                /\ s.kind \in {"realloc", "adopt", "ownerReset"}
                /\ LET v == IF s.kind = "realloc" THEN s.from ELSE s.var
                       m == IF s.kind = "realloc" THEN Assigned(d.vars, s) ELSE d.vars
                   IN  /\ s.kind = "realloc" => v # s.var
                       /\ resolveBinding(m, v) # allocationRoot(m, v))
      \cup Note("reference", /\ s.kind \in {"acquire", "realloc", "copy", "refArg"}
                             /\ s.kind = "refArg" \/ s.var \in RefVar
                             /\ \/ s.kind \in {"acquire", "realloc"}
                                \/ \E d \in state : \E f \in d.facts : f.key.var = Home(env, s.var))

-----------------------------------------------------------------------------
(* Behaviours *)

Init ==
    /\ fn \in Function
    /\ \E ints \in Inputs(fn.inputs) :
          env = [int |-> ints, ptr |-> [v \in PtrVar \ RefVar |-> 0],
                 refers |-> [v \in RefVar |-> NoVar], last |-> [v \in PtrVar |-> 0],
                 life |-> [b \in Block |-> "unused"], origin |-> [b \in Block |-> NoVar],
                 family |-> [b \in Block |-> ""], owns |-> [o \in OwnerVar |-> 0], out |-> {}, next |-> 1]
    /\ state = initialState /\ other = {}
    /\ ended = "no" /\ otherEnded = FALSE
    /\ steps = 0
    /\ diags = {} /\ crimes = {} /\ wrong = {} /\ waived = {} /\ outside = {}

Running == steps < fn.bound

Departs(s) == s.kind \in {"return", "throw"}

Statement(s) ==
    /\ Running /\ ended = "no" /\ Possible(s, env)
    /\ state' = transfer(s, state)
    /\ env' \in IF Undefined(s, env) THEN {env} ELSE Effect(s, env)
    /\ ended' = IF Undefined(s, env) THEN "undefined" ELSE IF Departs(s) THEN "returned" ELSE "no"
    /\ steps' = steps + 1
    /\ diags' = diags \cup onStatement(state, s)
    /\ crimes' = crimes \cup {[block |-> b, line |-> s.line] : b \in FreedTwice(env, ownersLettingGo(s)) \ waived}
    /\ wrong' = wrong \cup Note(s.kind, FalseAlarm(s))
    /\ waived' = waived \cup LostTrack(s) \cup GivenUp(state', env')
                     \cup Blurred(state, D!applyStmtFacts(LeakKeying, state, AsStored(s)))
    /\ outside' = outside \cup Notes(s)
    /\ UNCHANGED <<fn, other, otherEnded>>

OtherStatement(s) ==
    /\ Running /\ other # {} /\ ~otherEnded
    /\ other' = transfer(s, other)
    /\ otherEnded' = Departs(s)
    /\ steps' = steps + 1
    /\ diags' = diags \cup onStatement(other, s)
    /\ UNCHANGED <<fn, state, env, ended, crimes, wrong, waived, outside>>

Branch(c, taken) ==
    /\ Running /\ ended = "no"
    /\ taken \in ConditionValues(c, env, LAMBDA v : IsNil(env, v))
    /\ state' = refineOnEdge(state, c, taken)
    /\ other' = IF other = {} THEN refineOnEdge(state, c, ~taken) ELSE other
    /\ steps' = steps + 1
    /\ waived' = waived \cup GivenUp(state', env)
    /\ UNCHANGED <<fn, env, ended, otherEnded, diags, crimes, wrong, outside>>

Join ==
    /\ other # {}
    /\ ended = IF otherEnded THEN "returned" ELSE "no"
    /\ state' = merge(state, other)
    /\ other' = {} /\ otherEnded' = FALSE
    /\ waived' = waived \cup GivenUp(state', env) \cup Blurred(state, state')
    /\ UNCHANGED <<fn, env, ended, steps, diags, crimes, wrong, outside>>

Widen ==
    /\ Cardinality(state) > 1 /\ ended = "no"
    /\ state' = widen(state)
    /\ waived' = waived \cup GivenUp(state', env) \cup Blurred(state, state')
    /\ UNCHANGED <<fn, other, env, ended, otherEnded, steps, diags, crimes, wrong, outside>>

\* The exit block: analyzeFunction's leak check.
Exit ==
    /\ ended = "returned" /\ other = {}
    /\ ended' = "exited"
    /\ diags' = diags \cup {Diag("memory-leak", v, EndLine) : v \in leaksAtExit(state)}
    /\ UNCHANGED <<fn, state, other, env, otherEnded, steps, crimes, wrong, waived, outside>>

Next ==
    \/ \E s \in fn.stmts : Statement(s)
    \/ \E s \in fn.stmts : OtherStatement(s)
    \/ \E c \in fn.conds, taken \in BOOLEAN : Branch(c, taken)
    \/ Join
    \/ Widen
    \/ Exit

Spec == Init /\ [][Next]_vars

-----------------------------------------------------------------------------
(* Properties *)

LifetimeType(l) ==
    /\ l.alloc \in AllocState
    /\ {l.binding, l.realloc} \subseteq PtrVar \cup {NoVar}
    /\ l.ref => l.binding # NoVar
    /\ l.owners \subseteq OwnerVar
    /\ {l.ref, l.familyKnown, l.ownersKnown} \subseteq BOOLEAN

TypeOK ==
    /\ fn \in Function /\ steps \in 0 .. fn.bound
    /\ ended \in {"no", "returned", "undefined", "exited"} /\ otherEnded \in BOOLEAN
    /\ \A S \in {state, other} :
          /\ Cardinality(S) <= MaxDisjuncts
          /\ \A d \in S : DOMAIN d.vars = Tracked /\ \A v \in Tracked : LifetimeType(d.vars[v])
    /\ outside \subseteq {"rebound", "ownerResult", "moved on", "reference"}

KeyHolds(e, key) ==
    IF key.var \in PtrVar THEN IsNil(e, key.var)
    ELSE Holds(key.rel, e.int[[var |-> key.var, field |-> key.field]], key.lit)

\* A disjunct tells the truth about the last block of v: freed is gone (or was never
\* there), none is no live block, the owners are exactly those, a variable bound to v
\* holds that block, and a pending realloc result that exists took its source's place.
Describes(d, e, v) ==
    LET l == d.vars[v]
        b == e.last[v]
    IN  /\ l.alloc \in {"None", "Freed"} => b = 0 \/ e.life[b] # "live"
        /\ l.alloc \in {"Allocated", "Freed"} /\ l.ownersKnown /\ b # 0 => OwnersOf(e, b) = l.owners
        /\ \A w \in DOMAIN d.vars :
              resolveBinding(d.vars, w) = v /\ l.alloc \in {"Allocated", "Freed"} => ValueIn(e, w) = b
        /\ \A w \in DOMAIN d.vars :
              d.vars[w].realloc = v /\ d.vars[w].alloc = "Allocated" /\ e.last[w] # 0 => b = 0 \/ e.life[b] # "live"

\* No path is lost, and bindings are must-aliases (`present only while an exact local
\* pointer copy remains unchanged on every path represented by the disjunct'): some
\* disjunct describes the execution.
Covered ==
    ended # "undefined" /\ outside = {} =>
        \E d \in state : /\ \A f \in d.facts : f.key.var \notin collectUnkeyableDecls(fn) =>
                                                  KeyHolds(env, f.key) = f.value
                         /\ \A v \in DOMAIN d.vars : Describes(d, env, v)

\* Double-free and use-after-free are errors: where one is reported on a pointer that is
\* released or dereferenced, it is gone, or null because its acquisition failed.
ErrorsAreReal == outside = {} => wrong = {}

\* The same with no exception for pointers that are bound again.
AliasErrorsAreReal == outside \subseteq {"rebound"} => wrong = {}

\* A block that an owner frees again, after it was released behind the owner's back
\* or by another owner, is reported there.
OwnerDoubleFreeReported ==
    outside = {} =>
        \A c \in crimes : \E g \in diags :
            g.rule = "double-free" /\ g.var = env.origin[c.block] /\ g.line = c.line

\* A block that is live when the function ends, was given to nobody, and did not
\* escape from the reporting view, is reported: on its variable, or on the realloc
\* result that stands for it.
LeakReported ==
    ended = "exited" /\ outside = {} =>
        \A b \in {x \in Block : env.life[x] = "live"} \ (env.out \cup waived) :
            \E g \in diags : /\ g.rule = "memory-leak"
                             /\ \/ g.var = env.origin[b]
                                \/ \E d \in state : d.vars[g.var].realloc = env.origin[b]
=============================================================================
