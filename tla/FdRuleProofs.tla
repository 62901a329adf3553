---------------------------- MODULE FdRuleProofs ----------------------------
(***************************************************************************)
(* Proofs about module FdRule, for every function of every length, every   *)
(* set of variables and every number of descriptors.                       *)
(*                                                                         *)
(* The argument: what the state says is true of the execution (Agrees), is *)
(* kept by each statement and each edge, and by a merge whatever the other *)
(* path says, because a merge only ever weakens.  Two facts carry it:      *)
(* witnesses exist only for calls that are assigned to a variable          *)
(* (Assigned), and are negative as long as the descriptor is held.  Before *)
(* the first merge a binding names exactly one call, and the state has no  *)
(* open origin without a descriptor or a failure (Exact).                  *)
(***************************************************************************)
EXTENDS FdRule, FiniteSetTheorems, TLAPS

Binding == [origins : SUBSET Origin, opaque : BOOLEAN]

\* The states of the analysis.
StateSet ==
    [resources : [Origin -> Life],
     bindings : UNION {[D -> Binding] : D \in SUBSET Var},
     negative : SUBSET Var,
     copies : SUBSET [target : Var, source : Var],
     witnesses : UNION {[D -> SUBSET Var] : D \in SUBSET Origin}]

\* The environments of the execution.
EnvSet ==
    [val : [Var -> Int],
     open : UNION {[D -> Origin] : D \in SUBSET Fd},
     last : [Origin -> Fd \cup {-1}],
     out : SUBSET Int]

\* A variable is the copy of at most one other, and never of itself.
CopyShape(S) ==
    \A c, d \in S.copies : c.target # c.source /\ (c.target = d.target => c = d)

\* There are witnesses only for the calls that the function assigns to a variable.
Assigned(S) ==
    \A o \in DOMAIN S.witnesses :
        \E s \in fn.stmts : s.kind = "assign" /\ s.var \in Var /\ s.rhs.origin = o

\* What the state says of the execution.
Covers(S, e) == \A o \in Origin : Held(e, o) => S.resources[o] \in {"Open", "Escaped"}
NegativeOK(S, e) == \A v \in S.negative : e.val[v] < 0
CopiesOK(S, e) == \A c \in S.copies : e.val[c.target] = e.val[c.source]
WitnessesOK(S, e) ==
    \A o \in DOMAIN S.witnesses : Held(e, o) => \A v \in S.witnesses[o] : e.val[v] < 0
Agrees(S, e) == Covers(S, e) /\ NegativeOK(S, e) /\ CopiesOK(S, e) /\ WitnessesOK(S, e)

\* What it says before the first merge: what is open is held or has failed, a
\* binding names one call, and no descriptor is in a variable without one.
OpenIsReal(S, e) == \A o \in Origin : S.resources[o] = "Open" => Held(e, o) \/ e.last[o] = -1
BindingsExact(S, e) ==
    \A v \in Var : IF bindingFor(S, v).opaque THEN e.val[v] \notin Fd
                   ELSE \E o \in Origin : bindingFor(S, v).origins = {o}
Exact(S, e) == OpenIsReal(S, e) /\ BindingsExact(S, e)

Shape ==
    /\ fn \in Function /\ steps \in 0 .. fn.bound
    /\ state \in StateSet /\ other \in StateSet
    /\ CopyShape(state) /\ CopyShape(other)
    /\ Assigned(state) /\ Assigned(other)
    /\ joining \in BOOLEAN /\ joined \in BOOLEAN /\ otherEnded \in BOOLEAN
    /\ ended \in {"no", "returned", "exited"}
    /\ leaks \subseteq Origin
    /\ env \in EnvSet

Truth ==
    outside = {} => Agrees(state, env) /\ (~joined => Exact(state, env))

ReportOK == ended = "exited" => leaks = reportLeaks(state)

IInv == Shape /\ Truth /\ ReportOK

-----------------------------------------------------------------------------
(* States *)

\* The parts of a state, with a domain for the bindings and the witnesses.
LEMMA StateParts ==
    ASSUME NEW S \in StateSet
    PROVE  /\ S.resources \in [Origin -> Life]
           /\ DOMAIN S.bindings \subseteq Var /\ S.bindings \in [DOMAIN S.bindings -> Binding]
           /\ S.negative \subseteq Var
           /\ S.copies \subseteq [target : Var, source : Var]
           /\ DOMAIN S.witnesses \subseteq Origin /\ S.witnesses \in [DOMAIN S.witnesses -> SUBSET Var]
<1>1. PICK D \in SUBSET Var : S.bindings \in [D -> Binding]
  BY DEF StateSet
<1>2. PICK W \in SUBSET Origin : S.witnesses \in [W -> SUBSET Var]
  BY DEF StateSet
<1>3. S.resources \in [Origin -> Life] /\ S.negative \subseteq Var
      /\ S.copies \subseteq [target : Var, source : Var]
  BY DEF StateSet
<1> QED BY <1>1, <1>2, <1>3

\* Parts of the right types make a state.
Parts(r, b, n, c, w) ==
    /\ r \in [Origin -> Life]
    /\ b \in UNION {[D -> Binding] : D \in SUBSET Var}
    /\ n \in SUBSET Var
    /\ c \in SUBSET [target : Var, source : Var]
    /\ w \in UNION {[D -> SUBSET Var] : D \in SUBSET Origin}

LEMMA StateMade ==
    ASSUME NEW r, NEW b, NEW n, NEW c, NEW w, Parts(r, b, n, c, w),
           NEW T, T = [resources |-> r, bindings |-> b, negative |-> n, copies |-> c, witnesses |-> w]
    PROVE  /\ T \in StateSet
           /\ T.resources = r /\ T.bindings = b /\ T.negative = n /\ T.copies = c /\ T.witnesses = w
BY DEF StateSet, Parts

LEMMA StateOpened ==
    ASSUME NEW S \in StateSet
    PROVE  /\ Parts(S.resources, S.bindings, S.negative, S.copies, S.witnesses)
           /\ \E r, b, n, c, w : S = [resources |-> r, bindings |-> b, negative |-> n, copies |-> c, witnesses |-> w]
BY DEF StateSet, Parts

\* The fields of T that are those of S.
SameButResources(S, T) ==
    T.bindings = S.bindings /\ T.negative = S.negative /\ T.copies = S.copies /\ T.witnesses = S.witnesses

LEMMA SettleFacts ==
    ASSUME NEW S \in StateSet, NEW O, NEW life \in Life
    PROVE  /\ settle(S, O, life) \in StateSet
           /\ SameButResources(S, settle(S, O, life))
           /\ \A o \in Origin : settle(S, O, life).resources[o]
                                  = IF o \in O THEN life ELSE S.resources[o]
<1> DEFINE r == [o \in Origin |-> IF o \in O THEN life ELSE S.resources[o]]
           T == settle(S, O, life)
<1>1. PICK q, b, n, c, w :
         q \in [Origin -> Life] /\ S = [resources |-> q, bindings |-> b, negative |-> n, copies |-> c, witnesses |-> w]
  BY DEF StateSet
<1>2. T = [resources |-> r, bindings |-> b, negative |-> n, copies |-> c, witnesses |-> w]
  BY <1>1 DEF settle
<1>3. r \in [Origin -> Life]
  BY <1>1
<1>4. T \in StateSet
  BY <1>1, <1>2, <1>3 DEF StateSet
<1> QED BY <1>1, <1>2, <1>4 DEF SameButResources

\* T is S without what it knew of the value of v.
Forgets(S, T, v) ==
    /\ T.resources = S.resources /\ T.bindings = S.bindings
    /\ T.negative = S.negative \ {v}
    /\ T.copies = {c \in S.copies : v \notin {c.target, c.source}}
    /\ DOMAIN T.witnesses = DOMAIN S.witnesses
    /\ \A o \in DOMAIN S.witnesses : T.witnesses[o] = S.witnesses[o] \ {v}

LEMMA ForgetFacts ==
    ASSUME NEW S \in StateSet, NEW v
    PROVE  forgetValue(S, v) \in StateSet /\ Forgets(S, forgetValue(S, v), v)
<1> DEFINE T == forgetValue(S, v)
           w == [o \in DOMAIN S.witnesses |-> S.witnesses[o] \ {v}]
           n == S.negative \ {v}
           c == {d \in S.copies : v \notin {d.target, d.source}}
<1>1. /\ S.resources \in [Origin -> Life]
      /\ DOMAIN S.bindings \subseteq Var /\ S.bindings \in [DOMAIN S.bindings -> Binding]
      /\ S.negative \subseteq Var
      /\ S.copies \subseteq [target : Var, source : Var]
      /\ DOMAIN S.witnesses \subseteq Origin /\ S.witnesses \in [DOMAIN S.witnesses -> SUBSET Var]
  BY StateParts
<1>2. T = [S EXCEPT !.negative = n, !.copies = c, !.witnesses = w]
  BY Zenon DEF forgetValue
<1>3. w \in [DOMAIN S.witnesses -> SUBSET Var] /\ n \in SUBSET Var
      /\ c \in SUBSET [target : Var, source : Var]
  BY <1>1
<1>4. Parts(S.resources, S.bindings, n, c, w)
  BY <1>1, <1>3 DEF Parts
<1>5. DOMAIN w = DOMAIN S.witnesses /\ \A o \in DOMAIN S.witnesses : w[o] = S.witnesses[o] \ {v}
  OBVIOUS
<1> HIDE DEF T, w, n, c
<1>6. T = [resources |-> S.resources, bindings |-> S.bindings, negative |-> n, copies |-> c, witnesses |-> w]
  <2>1. PICK q, b, m, d, u :
         S = [resources |-> q, bindings |-> b, negative |-> m, copies |-> d, witnesses |-> u]
    BY StateOpened
  <2> QED BY <1>2, <2>1
<1>7. /\ T \in StateSet
      /\ T.resources = S.resources /\ T.bindings = S.bindings /\ T.negative = n
      /\ T.copies = c /\ T.witnesses = w
  BY <1>4, <1>6, StateMade
<1> QED BY <1>5, <1>7 DEF Forgets, T, n, c

\* T is S with target a copy of source.
Remembers(S, T, target, source) ==
    /\ T.resources = S.resources /\ T.bindings = S.bindings
    /\ T.negative = (S.negative \ {target}) \cup (IF source \in S.negative THEN {target} ELSE {})
    /\ T.copies = {c \in S.copies : target \notin {c.target, c.source}}
                    \cup (IF source \in Var \ {target} THEN {[target |-> target, source |-> source]} ELSE {})
    /\ DOMAIN T.witnesses = DOMAIN S.witnesses
    /\ \A o \in DOMAIN S.witnesses : T.witnesses[o] = S.witnesses[o] \ {target}

LEMMA RememberFacts ==
    ASSUME NEW S \in StateSet, NEW target \in Var, NEW source
    PROVE  /\ rememberValueCopy(S, target, source) \in StateSet
           /\ Remembers(S, rememberValueCopy(S, target, source), target, source)
<1> DEFINE F == forgetValue(S, target)
           T == rememberValueCopy(S, target, source)
           c == IF source \in Var \ {target} THEN F.copies \cup {[target |-> target, source |-> source]}
                ELSE F.copies
           n == IF source \in S.negative THEN F.negative \cup {target} ELSE F.negative
<1>1. F \in StateSet /\ Forgets(S, F, target)
  BY ForgetFacts
<1>2. /\ F.resources \in [Origin -> Life]
      /\ DOMAIN F.bindings \subseteq Var /\ F.bindings \in [DOMAIN F.bindings -> Binding]
      /\ F.negative \subseteq Var
      /\ F.copies \subseteq [target : Var, source : Var]
      /\ DOMAIN F.witnesses \subseteq Origin /\ F.witnesses \in [DOMAIN F.witnesses -> SUBSET Var]
  <2> HIDE DEF F
  <2> QED BY <1>1, StateParts
<1>3. T = [resources |-> F.resources, bindings |-> F.bindings, negative |-> n, copies |-> c,
           witnesses |-> F.witnesses]
  <2>1. T = [F EXCEPT !.copies = c, !.negative = n]
    BY DEF rememberValueCopy
  <2>2. PICK q, b, m, d, u :
         F = [resources |-> q, bindings |-> b, negative |-> m, copies |-> d, witnesses |-> u]
    BY <1>1 DEF StateSet
  <2> HIDE DEF F, c, n, T
  <2> QED BY <2>1, <2>2
<1>4. n \in SUBSET Var /\ c \in SUBSET [target : Var, source : Var]
  BY <1>2
<1>5. /\ T \in StateSet
      /\ T.resources = F.resources /\ T.bindings = F.bindings /\ T.negative = n
      /\ T.copies = c /\ T.witnesses = F.witnesses
  <2> HIDE DEF F, T, n, c
  <2>1. Parts(F.resources, F.bindings, n, c, F.witnesses)
    BY <1>1, <1>4, StateOpened DEF Parts
  <2> QED BY <1>3, <2>1, StateMade
<1> QED BY <1>1, <1>5 DEF Forgets, Remembers

\* The witnesses of o are now negative variables other than target.
Witnesses(S, T, o, target) ==
    /\ T.resources = S.resources /\ T.bindings = S.bindings
    /\ T.negative = S.negative /\ T.copies = S.copies
    /\ DOMAIN T.witnesses = DOMAIN S.witnesses \cup {o}
    /\ T.witnesses[o] \subseteq S.negative \ {target}
    /\ \A p \in DOMAIN S.witnesses : p # o => T.witnesses[p] = S.witnesses[p]

LEMMA WitnessFacts ==
    ASSUME NEW S \in StateSet, NEW o \in Origin, NEW target
    PROVE  /\ rememberNegativeWitnesses(S, o, target) \in StateSet
           /\ Witnesses(S, rememberNegativeWitnesses(S, o, target), o, target)
<1> DEFINE now == S.negative \ {target}
           all == IF o \in DOMAIN S.witnesses THEN S.witnesses[o] \cap now ELSE now
           w == [p \in DOMAIN S.witnesses \cup {o} |-> IF p = o THEN all ELSE S.witnesses[p]]
           T == rememberNegativeWitnesses(S, o, target)
<1>1. /\ S.resources \in [Origin -> Life]
      /\ DOMAIN S.bindings \subseteq Var /\ S.bindings \in [DOMAIN S.bindings -> Binding]
      /\ S.negative \subseteq Var
      /\ S.copies \subseteq [target : Var, source : Var]
      /\ DOMAIN S.witnesses \subseteq Origin /\ S.witnesses \in [DOMAIN S.witnesses -> SUBSET Var]
  BY StateParts
<1>2. T = [S EXCEPT !.witnesses = w]
  BY Zenon DEF rememberNegativeWitnesses
<1>3. all \subseteq now /\ now \subseteq Var
  BY <1>1
<1> HIDE DEF all
<1>4. w \in [DOMAIN S.witnesses \cup {o} -> SUBSET Var]
  BY <1>1, <1>3
<1>5. Parts(S.resources, S.bindings, S.negative, S.copies, w)
  <2>1. DOMAIN S.witnesses \cup {o} \in SUBSET Origin
    BY <1>1
  <2> HIDE DEF w
  <2>2. w \in UNION {[D -> SUBSET Var] : D \in SUBSET Origin}
    BY <1>4, <2>1
  <2> QED BY <2>2, StateOpened DEF Parts
<1>6. /\ w[o] = all /\ DOMAIN w = DOMAIN S.witnesses \cup {o}
      /\ \A p \in DOMAIN S.witnesses : p # o => w[p] = S.witnesses[p]
  OBVIOUS
<1> HIDE DEF w, T
<1>7. T = [resources |-> S.resources, bindings |-> S.bindings, negative |-> S.negative,
           copies |-> S.copies, witnesses |-> w]
  <2>1. PICK q, b, m, d, u :
         S = [resources |-> q, bindings |-> b, negative |-> m, copies |-> d, witnesses |-> u]
    BY StateOpened
  <2> QED BY <1>2, <2>1
<1>8. /\ T \in StateSet
      /\ T.resources = S.resources /\ T.bindings = S.bindings /\ T.negative = S.negative
      /\ T.copies = S.copies /\ T.witnesses = w
  BY <1>5, <1>7, StateMade
<1> QED BY <1>3, <1>6, <1>8 DEF Witnesses, T

\* T is S with v bound to b.
Binds(S, T, v, b) ==
    /\ T.resources = S.resources /\ T.negative = S.negative
    /\ T.copies = S.copies /\ T.witnesses = S.witnesses
    /\ bindingFor(T, v) = b
    /\ \A w : w # v => bindingFor(T, w) = bindingFor(S, w)

LEMMA BindFacts ==
    ASSUME NEW S \in StateSet, NEW v \in Var, NEW b \in Binding
    PROVE  bind(S, v, b) \in StateSet /\ Binds(S, bind(S, v, b), v, b)
<1> DEFINE f == [w \in DOMAIN S.bindings \cup {v} |-> IF w = v THEN b ELSE S.bindings[w]]
           D == DOMAIN S.bindings \cup {v}
           T == bind(S, v, b)
<1>1. /\ S.resources \in [Origin -> Life]
      /\ DOMAIN S.bindings \subseteq Var /\ S.bindings \in [DOMAIN S.bindings -> Binding]
      /\ S.negative \subseteq Var
      /\ S.copies \subseteq [target : Var, source : Var]
      /\ DOMAIN S.witnesses \subseteq Origin /\ S.witnesses \in [DOMAIN S.witnesses -> SUBSET Var]
  BY StateParts
<1>2. T = [S EXCEPT !.bindings = f]
  BY Zenon DEF bind
<1>3. f \in [D -> Binding] /\ D \in SUBSET Var
  BY <1>1
<1>4. f[v] = b /\ DOMAIN f = D /\ \A w \in D : w # v => f[w] = S.bindings[w]
  OBVIOUS
<1>5. Parts(S.resources, f, S.negative, S.copies, S.witnesses)
  <2> HIDE DEF f, D
  <2>1. f \in UNION {[E -> Binding] : E \in SUBSET Var}
    BY <1>3
  <2> QED BY <2>1, StateOpened DEF Parts
<1> HIDE DEF f, T
<1>6. T = [resources |-> S.resources, bindings |-> f, negative |-> S.negative,
           copies |-> S.copies, witnesses |-> S.witnesses]
  <2>1. PICK q, a, m, d, u :
         S = [resources |-> q, bindings |-> a, negative |-> m, copies |-> d, witnesses |-> u]
    BY StateOpened
  <2> QED BY <1>2, <2>1
<1>7. /\ T \in StateSet
      /\ T.resources = S.resources /\ T.bindings = f /\ T.negative = S.negative
      /\ T.copies = S.copies /\ T.witnesses = S.witnesses
  BY <1>5, <1>6, StateMade
<1> QED BY <1>4, <1>7 DEF Binds, T, bindingFor

LEMMA BindingType ==
    ASSUME NEW S \in StateSet, NEW v
    PROVE  bindingFor(S, v) \in Binding
BY StateParts DEF bindingFor, Unknown, Binding

-----------------------------------------------------------------------------
(* What every operation keeps of the shape of a state *)

WellFormed(S) == S \in StateSet /\ CopyShape(S) /\ Assigned(S)

\* Operations that touch neither copies nor the set of the calls with witnesses.
LEMMA KeepsShape ==
    ASSUME NEW S, WellFormed(S), NEW T \in StateSet,
           T.copies \subseteq S.copies, DOMAIN T.witnesses = DOMAIN S.witnesses
    PROVE  WellFormed(T)
BY DEF WellFormed, CopyShape, Assigned

LEMMA SettleKeeps ==
    ASSUME NEW S, WellFormed(S), NEW O, NEW life \in Life
    PROVE  WellFormed(settle(S, O, life))
<1> DEFINE T == settle(S, O, life)
<1>1. S \in StateSet
  BY DEF WellFormed
<1>2. T \in StateSet /\ SameButResources(S, T)
  BY <1>1, SettleFacts
<1> HIDE DEF T
<1> QED BY <1>2, KeepsShape DEF SameButResources, T

\* Releasing settles, as closed if the descriptor is certain.
LEMMA ReleaseIsSettle ==
    ASSUME NEW S, NEW b
    PROVE  /\ escape(S, b) = settle(S, b.origins, "Escaped")
           /\ \/ release(S, b) = settle(S, b.origins, "Escaped")
              \/ release(S, b) = settle(S, b.origins, "Closed") /\ ~b.opaque /\ Cardinality(b.origins) = 1
BY DEF escape, release

\* What becomes of the origins of an operand that is consumed or transferred.
Targets(S, x) == IF isAcquisition(x) THEN {x.origin} ELSE bindingFor(S, x.var).origins

LEMMA ApplyIsSettle ==
    ASSUME NEW S, NEW x, NEW own \in {"Consumed", "Transferred"}
    PROVE  \/ applyOwnershipToExpr(S, x, own) = settle(S, Targets(S, x), "Escaped")
           \/ /\ applyOwnershipToExpr(S, x, own) = settle(S, Targets(S, x), "Closed")
              /\ ~isAcquisition(x) =>
                    ~bindingFor(S, x.var).opaque /\ Cardinality(bindingFor(S, x.var).origins) = 1
<1>1. CASE isAcquisition(x)
  BY <1>1 DEF applyOwnershipToExpr, Targets
<1>2. CASE ~isAcquisition(x)
  <2>1. applyOwnershipToExpr(S, x, own) = IF own = "Consumed" THEN release(S, bindingFor(S, x.var))
                                          ELSE escape(S, bindingFor(S, x.var))
    BY <1>2 DEF applyOwnershipToExpr
  <2>2. Targets(S, x) = bindingFor(S, x.var).origins
    BY <1>2 DEF Targets
  <2> QED BY <1>2, <2>1, <2>2, ReleaseIsSettle
<1> QED BY <1>1, <1>2

LEMMA ApplyKeeps ==
    ASSUME NEW S, WellFormed(S), NEW x, NEW own \in {"Borrowed", "Unknown", "Consumed", "Transferred"}
    PROVE  WellFormed(applyOwnershipToExpr(S, x, own))
<1>1. CASE own \in {"Borrowed", "Unknown"}
  BY <1>1 DEF applyOwnershipToExpr
<1>2. CASE own \in {"Consumed", "Transferred"}
  <2>1. "Escaped" \in Life /\ "Closed" \in Life
    BY DEF Life
  <2> QED BY <1>2, <2>1, ApplyIsSettle, SettleKeeps
<1> QED BY <1>1, <1>2

LEMMA ForgetKeeps ==
    ASSUME NEW S, WellFormed(S), NEW v
    PROVE  WellFormed(forgetValue(S, v)) /\ Forgets(S, forgetValue(S, v), v)
<1> DEFINE T == forgetValue(S, v)
<1>1. S \in StateSet
  BY DEF WellFormed
<1>2. T \in StateSet /\ Forgets(S, T, v)
  BY <1>1, ForgetFacts
<1> HIDE DEF T
<1>3. T.copies \subseteq S.copies /\ DOMAIN T.witnesses = DOMAIN S.witnesses
  BY <1>2 DEF Forgets
<1> QED BY <1>2, <1>3, KeepsShape DEF T

\* The target is the copy of nothing else once its old value is forgotten.
LEMMA RememberKeeps ==
    ASSUME NEW S, WellFormed(S), NEW target \in Var, NEW source
    PROVE  /\ WellFormed(rememberValueCopy(S, target, source))
           /\ Remembers(S, rememberValueCopy(S, target, source), target, source)
<1> DEFINE T == rememberValueCopy(S, target, source)
<1>1. S \in StateSet
  BY DEF WellFormed
<1>2. T \in StateSet /\ Remembers(S, T, target, source)
  BY <1>1, RememberFacts
<1> HIDE DEF T
<1>3. CopyShape(T)
  <2> SUFFICES ASSUME NEW c \in T.copies, NEW d \in T.copies
               PROVE  c.target # c.source /\ (c.target = d.target => c = d)
    BY DEF CopyShape
  <2>1. \A e \in T.copies :
            \/ e \in S.copies /\ e.target # target
            \/ e = [target |-> target, source |-> source] /\ source # target
    BY <1>2 DEF Remembers
  <2>2. \A e, f \in S.copies : e.target # e.source /\ (e.target = f.target => e = f)
    BY DEF WellFormed, CopyShape
  <2> QED BY <2>1, <2>2
<1>4. Assigned(T)
  BY <1>2 DEF Remembers, WellFormed, Assigned
<1> QED BY <1>2, <1>3, <1>4 DEF WellFormed, T

\* The call is one that is assigned to a variable.
LEMMA WitnessKeeps ==
    ASSUME NEW S, WellFormed(S), NEW o \in Origin, NEW target,
           \E s \in fn.stmts : s.kind = "assign" /\ s.var \in Var /\ s.rhs.origin = o
    PROVE  /\ WellFormed(rememberNegativeWitnesses(S, o, target))
           /\ Witnesses(S, rememberNegativeWitnesses(S, o, target), o, target)
<1> DEFINE T == rememberNegativeWitnesses(S, o, target)
<1>1. S \in StateSet
  BY DEF WellFormed
<1>2. T \in StateSet /\ Witnesses(S, T, o, target)
  BY <1>1, WitnessFacts
<1> HIDE DEF T
<1> QED BY <1>2 DEF WellFormed, Witnesses, CopyShape, Assigned, T

LEMMA BindKeeps ==
    ASSUME NEW S, WellFormed(S), NEW v \in Var, NEW b \in Binding
    PROVE  WellFormed(bind(S, v, b)) /\ Binds(S, bind(S, v, b), v, b)
<1> DEFINE T == bind(S, v, b)
<1>1. S \in StateSet
  BY DEF WellFormed
<1>2. T \in StateSet /\ Binds(S, T, v, b)
  BY <1>1, BindFacts
<1> HIDE DEF T
<1> QED BY <1>2, KeepsShape DEF Binds, T

\* T is S but for the negative variables n.
LEMMA NegativeKeeps ==
    ASSUME NEW S, WellFormed(S), NEW n \in SUBSET Var, NEW T, T = [S EXCEPT !.negative = n]
    PROVE  /\ WellFormed(T)
           /\ T.resources = S.resources /\ T.bindings = S.bindings /\ T.negative = n
           /\ T.copies = S.copies /\ T.witnesses = S.witnesses
<1>1. S \in StateSet
  BY DEF WellFormed
<1>2. PICK q, b, m, d, u :
         S = [resources |-> q, bindings |-> b, negative |-> m, copies |-> d, witnesses |-> u]
  BY <1>1, StateOpened
<1>3. T = [resources |-> S.resources, bindings |-> S.bindings, negative |-> n,
           copies |-> S.copies, witnesses |-> S.witnesses]
  BY <1>2
<1>4. Parts(S.resources, S.bindings, n, S.copies, S.witnesses)
  BY <1>1, StateOpened DEF Parts
<1>5. /\ T \in StateSet
      /\ T.resources = S.resources /\ T.bindings = S.bindings /\ T.negative = n
      /\ T.copies = S.copies /\ T.witnesses = S.witnesses
  BY ONLY <1>3, <1>4, StateMade
<1> QED BY <1>5, KeepsShape

-----------------------------------------------------------------------------
(* Statements *)

LEMMA OperandKinds ==
    ASSUME NEW x \in Operand
    PROVE  \/ isAcquisition(x) /\ x.origin \in Origin /\ x.var = NoVar /\ x.value = 0
           \/ ~isAcquisition(x) /\ x.var \in Var /\ x.value = 0
           \/ ~isAcquisition(x) /\ x.var = NoVar /\ x.value \in Int \ Fd
BY FdAssumption DEF Operand, isAcquisition

LEMMA StatementParts ==
    ASSUME fn \in Function, NEW s \in fn.stmts
    PROVE  /\ s.kind \in {"assign", "return", "call", "bump"}
           /\ s.var \in Var \cup {NoVar} /\ s.rhs \in Operand
           /\ s.ownership \in {"Borrowed", "Unknown", "Consumed", "Transferred"}
<1>1. fn \in [bound : Nat, stmts : SUBSET StatementType, conds : SUBSET ConditionType]
  BY FunctionAssumption
<1>2. s \in StatementType
  BY <1>1
<1> QED BY <1>2 DEF StatementType

\* T is S after v was assigned a new descriptor of o.
AcquiredInto(S, T, v, o) ==
    /\ \A p \in Origin : T.resources[p] = IF p = o THEN "Open" ELSE S.resources[p]
    /\ T.negative = S.negative \ {v}
    /\ T.copies = {c \in S.copies : v \notin {c.target, c.source}}
    /\ DOMAIN T.witnesses = DOMAIN S.witnesses \cup {o}
    /\ T.witnesses[o] \subseteq S.negative \ {v}
    /\ \A p \in DOMAIN S.witnesses : p # o => T.witnesses[p] = S.witnesses[p] \ {v}
    /\ bindingFor(T, v) = [origins |-> {o}, opaque |-> FALSE]
    /\ \A w : w # v => bindingFor(T, w) = bindingFor(S, w)

LEMMA AcquireFacts ==
    ASSUME NEW S, WellFormed(S), NEW v \in Var, NEW x, isAcquisition(x), x.origin \in Origin,
           \E s \in fn.stmts : s.kind = "assign" /\ s.var \in Var /\ s.rhs.origin = x.origin
    PROVE  WellFormed(assign(S, v, x)) /\ AcquiredInto(S, assign(S, v, x), v, x.origin)
<1> DEFINE o == x.origin
           A == rememberNegativeWitnesses(S, o, v)
           B == forgetValue(A, v)
           C == settle(B, {o}, "Open")
           b == [origins |-> {o}, opaque |-> FALSE]
           T == bind(C, v, b)
<1>1. assign(S, v, x) = T
  BY DEF assign
<1>2. o \in Origin /\ \E s \in fn.stmts : s.kind = "assign" /\ s.var \in Var /\ s.rhs.origin = o
  OBVIOUS
<1> HIDE DEF o
<1>3. WellFormed(A) /\ Witnesses(S, A, o, v)
  BY <1>2, WitnessKeeps
<1> HIDE DEF A
<1>4. WellFormed(B) /\ Forgets(A, B, v)
  BY <1>3, ForgetKeeps
<1> HIDE DEF B
<1>5. WellFormed(C) /\ SameButResources(B, C)
      /\ \A p \in Origin : C.resources[p] = IF p \in {o} THEN "Open" ELSE B.resources[p]
  <2>1. "Open" \in Life
    BY DEF Life
  <2>2. B \in StateSet
    BY <1>4 DEF WellFormed
  <2> QED BY <1>4, <2>1, <2>2, SettleKeeps, SettleFacts
<1> HIDE DEF C
<1>6. b \in Binding
  BY <1>2 DEF Binding
<1> HIDE DEF b
<1>7. WellFormed(T) /\ Binds(C, T, v, b)
  BY <1>5, <1>6, BindKeeps
<1> HIDE DEF T
<1>8. \A p \in Origin : T.resources[p] = IF p = o THEN "Open" ELSE S.resources[p]
  BY <1>3, <1>4, <1>5, <1>7 DEF Binds, Forgets, Witnesses
<1>9. T.negative = S.negative \ {v} /\ T.copies = {c \in S.copies : v \notin {c.target, c.source}}
  BY <1>3, <1>4, <1>5, <1>7 DEF Binds, SameButResources, Forgets, Witnesses
<1>10. /\ DOMAIN T.witnesses = DOMAIN S.witnesses \cup {o}
       /\ T.witnesses[o] \subseteq S.negative \ {v}
       /\ \A p \in DOMAIN S.witnesses : p # o => T.witnesses[p] = S.witnesses[p] \ {v}
  BY <1>3, <1>4, <1>5, <1>7 DEF Binds, SameButResources, Forgets, Witnesses
<1>11. bindingFor(T, v) = b /\ \A w : w # v => bindingFor(T, w) = bindingFor(S, w)
  <2>1. C.bindings = S.bindings
    BY <1>3, <1>4, <1>5 DEF SameButResources, Forgets, Witnesses
  <2>2. \A w : bindingFor(C, w) = bindingFor(S, w)
    BY <2>1 DEF bindingFor
  <2> QED BY <1>7, <2>2 DEF Binds
<1> QED BY <1>1, <1>7, <1>8, <1>9, <1>10, <1>11 DEF AcquiredInto, b, o

\* T is S after v was assigned x, which acquires nothing.
CopiedInto(S, T, v, x) ==
    /\ T.resources = S.resources
    /\ T.negative = (S.negative \ {v}) \cup (IF x.var \in S.negative \/ x.value < 0 THEN {v} ELSE {})
    /\ T.copies = {c \in S.copies : v \notin {c.target, c.source}}
                    \cup (IF x.var \in Var \ {v} THEN {[target |-> v, source |-> x.var]} ELSE {})
    /\ DOMAIN T.witnesses = DOMAIN S.witnesses
    /\ \A o \in DOMAIN S.witnesses : T.witnesses[o] = S.witnesses[o] \ {v}
    /\ bindingFor(T, v) = bindingFor(S, x.var)
    /\ \A w : w # v => bindingFor(T, w) = bindingFor(S, w)

LEMMA CopyFacts ==
    ASSUME NEW S, WellFormed(S), NEW v \in Var, NEW x, ~isAcquisition(x)
    PROVE  WellFormed(assign(S, v, x)) /\ CopiedInto(S, assign(S, v, x), v, x)
<1> DEFINE A == rememberValueCopy(S, v, x.var)
           n == IF x.value < 0 THEN A.negative \cup {v} ELSE A.negative
           B == [A EXCEPT !.negative = n]
           b == bindingFor(S, x.var)
           T == bind(IF x.value < 0 THEN [A EXCEPT !.negative = @ \cup {v}] ELSE A, v, b)
<1>1. assign(S, v, x) = T
  BY DEF assign
<1>2. WellFormed(A) /\ Remembers(S, A, v, x.var)
  BY RememberKeeps
<1>3. b \in Binding
  BY BindingType DEF WellFormed
<1> HIDE DEF A, b
<1>4. n \in SUBSET Var
  <2>1. A \in StateSet
    BY <1>2 DEF WellFormed
  <2>2. A.negative \subseteq Var
    BY <2>1, StateParts
  <2> QED BY <2>2
<1>5. /\ WellFormed(B)
      /\ B.resources = A.resources /\ B.bindings = A.bindings /\ B.negative = n
      /\ B.copies = A.copies /\ B.witnesses = A.witnesses
  <2> HIDE DEF n
  <2> QED BY <1>2, <1>4, NegativeKeeps
<1>6. (IF x.value < 0 THEN [A EXCEPT !.negative = @ \cup {v}] ELSE A) = B
  <2>1. CASE x.value < 0
    BY <2>1, Zenon
  <2>2. CASE ~(x.value < 0)
    <3>1. PICK q, c, m, d, u :
             A = [resources |-> q, bindings |-> c, negative |-> m, copies |-> d, witnesses |-> u]
      BY <1>2, StateOpened DEF WellFormed
    <3> QED BY <2>2, <3>1
  <2> QED BY <2>1, <2>2
<1>7. T = bind(B, v, b)
  BY <1>6, Zenon
<1> HIDE DEF B, T
<1>8. WellFormed(T) /\ Binds(B, T, v, b)
  BY <1>3, <1>5, <1>7, BindKeeps
<1>9. T.resources = S.resources
  BY <1>2, <1>5, <1>8 DEF Binds, Remembers
<1>10. T.negative = (S.negative \ {v}) \cup (IF x.var \in S.negative \/ x.value < 0 THEN {v} ELSE {})
  BY <1>2, <1>5, <1>8 DEF Binds, Remembers
<1>11. T.copies = {c \in S.copies : v \notin {c.target, c.source}}
                    \cup (IF x.var \in Var \ {v} THEN {[target |-> v, source |-> x.var]} ELSE {})
  BY <1>2, <1>5, <1>8 DEF Binds, Remembers
<1>12. /\ DOMAIN T.witnesses = DOMAIN S.witnesses
       /\ \A o \in DOMAIN S.witnesses : T.witnesses[o] = S.witnesses[o] \ {v}
  BY <1>2, <1>5, <1>8 DEF Binds, Remembers
<1>13. bindingFor(T, v) = b /\ \A w : w # v => bindingFor(T, w) = bindingFor(S, w)
  <2>1. B.bindings = S.bindings
    BY <1>2, <1>5 DEF Remembers
  <2>2. \A w : bindingFor(B, w) = bindingFor(S, w)
    BY <2>1 DEF bindingFor
  <2> QED BY <1>8, <2>2 DEF Binds
<1> QED BY <1>1, <1>8, <1>9, <1>10, <1>11, <1>12, <1>13 DEF CopiedInto, b

\* The state after the calls of a statement, before the statement itself.
CalledState(S, x) == IF isAcquisition(x) THEN settle(S, {x.origin}, "Open") ELSE S

LEMMA CalledKeeps ==
    ASSUME NEW S, WellFormed(S), NEW x
    PROVE  WellFormed(CalledState(S, x))
<1>1. "Open" \in Life
  BY DEF Life
<1> QED BY <1>1, SettleKeeps DEF CalledState

LEMMA TransferCases ==
    ASSUME NEW S, NEW s, s.kind \in {"assign", "return", "call", "bump"}
    PROVE  LET T == CalledState(S, s.rhs)
           IN  /\ s.kind = "assign" /\ s.var \in Var => transfer(S, s) = assign(T, s.var, s.rhs)
               /\ s.kind = "return" \/ (s.kind = "assign" /\ s.var \notin Var) =>
                     transfer(S, s) = applyOwnershipToExpr(T, s.rhs, "Transferred")
               /\ s.kind = "call" => transfer(S, s) = applyOwnershipToExpr(T, s.rhs, s.ownership)
               /\ s.kind = "bump" => transfer(S, s) = T
BY DEF transfer, CalledState, isTrackableLocal

\* Every statement of the function keeps the shape of a state.
LEMMA TransferKeeps ==
    ASSUME fn \in Function, NEW s \in fn.stmts, NEW S, WellFormed(S)
    PROVE  WellFormed(transfer(S, s))
<1> DEFINE T == CalledState(S, s.rhs)
<1>1. /\ s.kind \in {"assign", "return", "call", "bump"} /\ s.rhs \in Operand
      /\ s.ownership \in {"Borrowed", "Unknown", "Consumed", "Transferred"}
  BY StatementParts
<1>2. WellFormed(T)
  BY CalledKeeps
<1>3. /\ s.kind = "assign" /\ s.var \in Var => transfer(S, s) = assign(T, s.var, s.rhs)
      /\ s.kind = "return" \/ (s.kind = "assign" /\ s.var \notin Var) =>
            transfer(S, s) = applyOwnershipToExpr(T, s.rhs, "Transferred")
      /\ s.kind = "call" => transfer(S, s) = applyOwnershipToExpr(T, s.rhs, s.ownership)
      /\ s.kind = "bump" => transfer(S, s) = T
  BY <1>1, TransferCases
<1> HIDE DEF T
<1>4. CASE s.kind = "assign" /\ s.var \in Var
  <2>1. CASE isAcquisition(s.rhs)
    <3>1. s.rhs.origin \in Origin
      BY <1>1, <2>1, OperandKinds
    <3> QED BY <1>2, <1>3, <1>4, <2>1, <3>1, AcquireFacts
  <2>2. CASE ~isAcquisition(s.rhs)
    BY <1>2, <1>3, <1>4, <2>2, CopyFacts
  <2> QED BY <2>1, <2>2
<1>5. CASE s.kind = "return" \/ (s.kind = "assign" /\ s.var \notin Var)
  BY <1>2, <1>3, <1>5, ApplyKeeps
<1>6. CASE s.kind = "call"
  BY <1>1, <1>2, <1>3, <1>6, ApplyKeeps
<1>7. CASE s.kind = "bump"
  BY <1>2, <1>3, <1>7
<1> QED BY <1>1, <1>4, <1>5, <1>6, <1>7

-----------------------------------------------------------------------------
(* Edges and merges *)

LEMMA ConditionParts ==
    ASSUME fn \in Function, NEW c \in fn.conds
    PROVE  \/ /\ c.kind = "constant" /\ c.var \in Var /\ c.with = NoVar /\ c.op \in Relation
              /\ c.value \in Int /\ c.neg \in BOOLEAN
           \/ c.kind = "equal" /\ c.var \in Var /\ c.with \in Var /\ c.op \in {"EQ", "NE"} /\ c.neg \in BOOLEAN
           \/ c.kind = "other" /\ c.var = NoVar /\ c.with = NoVar
<1>1. fn \in [bound : Nat, stmts : SUBSET StatementType, conds : SUBSET ConditionType]
  BY FunctionAssumption
<1>2. c \in ConditionType
  BY <1>1
<1> QED BY <1>2 DEF ConditionType

\* What is dropped because resourceVar is equal to a negative variable.
Dropped(S, resourceVar, negativeVar) ==
    {o \in bindingFor(S, resourceVar).origins :
        negativeVar \in S.negative \/ (o \in DOMAIN S.witnesses /\ negativeVar \in S.witnesses[o])}

\* T is S without the origins gone and with the new negative variables n.
RefinedBy(S, T, gone, n) ==
    /\ \A o \in Origin : T.resources[o] = IF o \in gone THEN "None" ELSE S.resources[o]
    /\ T.bindings = S.bindings /\ T.copies = S.copies /\ T.witnesses = S.witnesses
    /\ T.negative = S.negative \cup n

LEMMA DropFacts ==
    ASSUME NEW S, WellFormed(S), NEW v, NEW w
    PROVE  /\ WellFormed(discardImpossibleEquality(S, v, w))
           /\ RefinedBy(S, discardImpossibleEquality(S, v, w), Dropped(S, v, w), {})
<1> DEFINE T == discardImpossibleEquality(S, v, w)
           O == Dropped(S, v, w)
<1>1. T = settle(S, O, "None")
  BY DEF discardImpossibleEquality, Dropped
<1> HIDE DEF T, O
<1>2. "None" \in Life /\ S \in StateSet
  BY DEF Life, WellFormed
<1>3. WellFormed(T)
  BY <1>1, <1>2, SettleKeeps
<1>4. SameButResources(S, T) /\ \A o \in Origin : T.resources[o] = IF o \in O THEN "None" ELSE S.resources[o]
  BY <1>1, <1>2, SettleFacts
<1> QED BY <1>3, <1>4 DEF RefinedBy, SameButResources, T, O

\* On an edge where the condition says that c.var is negative, ...
FailureFacts(S, T, c) == RefinedBy(S, T, bindingFor(S, c.var).origins, Equivalents(S, c.var))

\* ... and on one where it says that c.var and c.with are equal.
EqualityFacts(S, T, c) == RefinedBy(S, T, Dropped(S, c.var, c.with) \cup Dropped(S, c.with, c.var), {})

LEMMA FailureEdge ==
    ASSUME NEW S, WellFormed(S), NEW c
    PROVE  LET T == settle(markNegativeEquivalents(S, c.var), bindingFor(S, c.var).origins, "None")
           IN  WellFormed(T) /\ FailureFacts(S, T, c)
<1> DEFINE n == S.negative \cup Equivalents(S, c.var)
           M == markNegativeEquivalents(S, c.var)
           O == bindingFor(S, c.var).origins
           T == settle(M, O, "None")
<1>1. M = [S EXCEPT !.negative = n]
  BY Zenon DEF markNegativeEquivalents
<1>2. n \in SUBSET Var
  BY StateParts DEF Equivalents, WellFormed
<1> HIDE DEF M
<1>3. /\ WellFormed(M)
      /\ M.resources = S.resources /\ M.bindings = S.bindings /\ M.negative = n
      /\ M.copies = S.copies /\ M.witnesses = S.witnesses
  <2> HIDE DEF n
  <2> QED BY <1>1, <1>2, NegativeKeeps
<1>4. "None" \in Life /\ M \in StateSet
  BY <1>3 DEF Life, WellFormed
<1> HIDE DEF O
<1>5. WellFormed(T)
  BY <1>3, <1>4, SettleKeeps
<1>6. SameButResources(M, T) /\ \A o \in Origin : T.resources[o] = IF o \in O THEN "None" ELSE M.resources[o]
  BY <1>4, SettleFacts
<1> HIDE DEF T
<1> QED BY <1>3, <1>5, <1>6 DEF FailureFacts, RefinedBy, SameButResources, T, O, M

LEMMA EqualityEdge ==
    ASSUME NEW S, WellFormed(S), NEW c
    PROVE  LET T == discardImpossibleEquality(discardImpossibleEquality(S, c.var, c.with), c.with, c.var)
           IN  WellFormed(T) /\ EqualityFacts(S, T, c)
<1> DEFINE A == discardImpossibleEquality(S, c.var, c.with)
           T == discardImpossibleEquality(A, c.with, c.var)
<1>1. WellFormed(A) /\ RefinedBy(S, A, Dropped(S, c.var, c.with), {})
  BY DropFacts
<1> HIDE DEF A
<1>2. WellFormed(T) /\ RefinedBy(A, T, Dropped(A, c.with, c.var), {})
  BY <1>1, DropFacts
<1> HIDE DEF T
<1>3. Dropped(A, c.with, c.var) = Dropped(S, c.with, c.var)
  <2>1. A.negative = S.negative /\ A.witnesses = S.witnesses /\ A.bindings = S.bindings
    BY <1>1 DEF RefinedBy
  <2>2. bindingFor(A, c.with) = bindingFor(S, c.with)
    BY <2>1 DEF bindingFor
  <2> QED BY <2>1, <2>2 DEF Dropped
<1>4. RefinedBy(A, T, Dropped(S, c.with, c.var), {})
  BY <1>2, <1>3
<1>5. EqualityFacts(S, T, c)
  <2> DEFINE D == Dropped(S, c.var, c.with)
             E == Dropped(S, c.with, c.var)
  <2>1. RefinedBy(S, A, D, {}) /\ RefinedBy(A, T, E, {})
    BY <1>1, <1>4
  <2> HIDE DEF D, E
  <2>2. RefinedBy(S, T, D \cup E, {})
    BY <2>1 DEF RefinedBy
  <2> QED BY <2>2 DEF EqualityFacts, D, E
<1> QED BY <1>2, <1>5 DEF T, A

\* An edge fails a call, equates two variables, or says nothing.
LEMMA RefineCases ==
    ASSUME fn \in Function, NEW c \in fn.conds, NEW taken \in BOOLEAN, NEW S, WellFormed(S)
    PROVE  LET T == refineOnEdge(S, c, taken)
           IN  /\ WellFormed(T)
               /\ \/ taken \in failureEdge(c) /\ c.kind = "constant" /\ FailureFacts(S, T, c)
                  \/ taken \in equalityEdge(c) /\ c.kind = "equal" /\ EqualityFacts(S, T, c)
                  \/ T = S
<1> DEFINE F == settle(markNegativeEquivalents(S, c.var), bindingFor(S, c.var).origins, "None")
           E == discardImpossibleEquality(discardImpossibleEquality(S, c.var, c.with), c.with, c.var)
           T == refineOnEdge(S, c, taken)
<1>1. taken \in failureEdge(c) => c.kind = "constant" /\ taken \notin equalityEdge(c)
  BY DEF failureEdge, equalityEdge
<1>2. taken \in equalityEdge(c) => c.kind = "equal"
  BY DEF equalityEdge
<1>3. CASE taken \in failureEdge(c)
  <2>1. T = F
    BY <1>1, <1>3 DEF refineOnEdge
  <2>2. WellFormed(F) /\ FailureFacts(S, F, c)
    BY FailureEdge, Zenon
  <2> HIDE DEF F, T
  <2>3. WellFormed(T) /\ FailureFacts(S, T, c)
    BY <2>1, <2>2
  <2> QED BY <1>1, <1>3, <2>3 DEF T
<1>4. CASE taken \notin failureEdge(c) /\ taken \in equalityEdge(c)
  <2>1. T = E
    BY <1>4 DEF refineOnEdge
  <2>2. WellFormed(E) /\ EqualityFacts(S, E, c)
    BY EqualityEdge, Zenon
  <2> HIDE DEF E, T
  <2>3. WellFormed(T) /\ EqualityFacts(S, T, c)
    BY <2>1, <2>2
  <2> QED BY <1>2, <1>4, <2>3 DEF T
<1>5. CASE taken \notin failureEdge(c) /\ taken \notin equalityEdge(c)
  <2>1. T = S
    BY <1>5 DEF refineOnEdge
  <2> HIDE DEF T
  <2> QED BY <2>1 DEF T
<1> QED BY <1>3, <1>4, <1>5

\* The parts of a merge.
Merges(S, T, M) ==
    /\ \A o \in Origin : M.resources[o] = mergeLife(S.resources[o], T.resources[o])
    /\ M.negative = S.negative \cap T.negative /\ M.copies = S.copies \cap T.copies
    /\ DOMAIN M.witnesses =
         {p \in DOMAIN S.witnesses \cup DOMAIN T.witnesses :
             /\ {S.resources[p], T.resources[p]} # {"None"}
             /\ \A R \in {S, T} : R.resources[p] # "None" => p \in DOMAIN R.witnesses}
    /\ \A o \in DOMAIN M.witnesses : M.witnesses[o] = mergeWitnesses(S, T, o)

LEMMA MergeFacts ==
    ASSUME NEW S, WellFormed(S), NEW T, WellFormed(T)
    PROVE  WellFormed(mergeStates(S, T)) /\ Merges(S, T, mergeStates(S, T))
<1> DEFINE r == [o \in Origin |-> mergeLife(S.resources[o], T.resources[o])]
           b == [v \in DOMAIN S.bindings \cup DOMAIN T.bindings |-> mergeBindings(S, T, v)]
           n == S.negative \cap T.negative
           k == S.copies \cap T.copies
           W == {p \in DOMAIN S.witnesses \cup DOMAIN T.witnesses :
                    /\ {S.resources[p], T.resources[p]} # {"None"}
                    /\ \A R \in {S, T} : R.resources[p] # "None" => p \in DOMAIN R.witnesses}
           w == [o \in W |-> mergeWitnesses(S, T, o)]
           M == mergeStates(S, T)
<1>1. M = [resources |-> r, bindings |-> b, negative |-> n, copies |-> k, witnesses |-> w]
  BY DEF mergeStates
<1>2. S \in StateSet /\ T \in StateSet
  BY DEF WellFormed
<1>3. /\ S.resources \in [Origin -> Life]
      /\ DOMAIN S.bindings \subseteq Var /\ S.bindings \in [DOMAIN S.bindings -> Binding]
      /\ S.negative \subseteq Var
      /\ S.copies \subseteq [target : Var, source : Var]
      /\ DOMAIN S.witnesses \subseteq Origin /\ S.witnesses \in [DOMAIN S.witnesses -> SUBSET Var]
  BY <1>2, StateParts
<1>4. /\ T.resources \in [Origin -> Life]
      /\ DOMAIN T.bindings \subseteq Var /\ T.bindings \in [DOMAIN T.bindings -> Binding]
      /\ T.negative \subseteq Var
      /\ T.copies \subseteq [target : Var, source : Var]
      /\ DOMAIN T.witnesses \subseteq Origin /\ T.witnesses \in [DOMAIN T.witnesses -> SUBSET Var]
  BY <1>2, StateParts
<1>5. r \in [Origin -> Life]
  <2>1. \A x, y \in Life : mergeLife(x, y) \in Life
    BY DEF mergeLife, Life
  <2> QED BY <1>3, <1>4, <2>1
<1>6. b \in UNION {[D -> Binding] : D \in SUBSET Var}
  <2> DEFINE D == DOMAIN S.bindings \cup DOMAIN T.bindings
  <2>1. ASSUME NEW v \in D PROVE mergeBindings(S, T, v) \in Binding
    <3> DEFINE bound == {R \in {S, T} : v \in DOMAIN R.bindings}
               origins == UNION {R.bindings[v].origins : R \in bound}
               opaque == \/ \E R \in bound : R.bindings[v].opaque
                         \/ \E R \in {S, T} \ bound : \E o \in origins : R.resources[o] # "None"
    <3>1. mergeBindings(S, T, v) = [origins |-> origins, opaque |-> opaque]
      BY DEF mergeBindings
    <3>2. \A R \in bound : R.bindings[v] \in Binding
      BY <1>3, <1>4
    <3>3. \A R \in bound : R.bindings[v].origins \subseteq Origin
      <4> HIDE DEF bound
      <4> QED BY <3>2 DEF Binding
    <3>4. origins \in SUBSET Origin
      <4> HIDE DEF bound
      <4> QED BY <3>3
    <3>5. opaque \in BOOLEAN
      OBVIOUS
    <3> HIDE DEF origins, opaque
    <3> QED BY <3>1, <3>4, <3>5 DEF Binding
  <2>2. D \in SUBSET Var
    BY <1>3, <1>4
  <2>3. b \in [D -> Binding]
    BY <2>1
  <2> HIDE DEF b, D
  <2> QED BY <2>2, <2>3
<1>7. w \in UNION {[D -> SUBSET Var] : D \in SUBSET Origin}
  <2>1. \A o \in W : mergeWitnesses(S, T, o) \in SUBSET Var
    BY DEF mergeWitnesses
  <2>2. W \in SUBSET Origin
    BY <1>3, <1>4
  <2> HIDE DEF W
  <2>3. w \in [W -> SUBSET Var]
    BY <2>1
  <2> HIDE DEF w
  <2> QED BY <2>2, <2>3
<1>8. n \in SUBSET Var /\ k \in SUBSET [target : Var, source : Var]
  BY <1>3, <1>4
<1>9. Parts(r, b, n, k, w)
  <2> HIDE DEF r, b, n, k, w
  <2> QED BY <1>5, <1>6, <1>7, <1>8 DEF Parts
<1>10. /\ DOMAIN w = W
       /\ \A o \in W : w[o] = mergeWitnesses(S, T, o)
       /\ \A o \in Origin : r[o] = mergeLife(S.resources[o], T.resources[o])
  BY Zenon
<1> HIDE DEF r, b, n, k, w, M
<1>11. /\ M \in StateSet
       /\ M.resources = r /\ M.bindings = b /\ M.negative = n /\ M.copies = k /\ M.witnesses = w
  BY <1>1, <1>9, StateMade
<1>12. CopyShape(M) /\ Assigned(M)
  <2>1. M.copies \subseteq S.copies
    BY <1>11 DEF k
  <2>2. DOMAIN M.witnesses \subseteq DOMAIN S.witnesses \cup DOMAIN T.witnesses
    BY <1>10, <1>11
  <2>3. CopyShape(M)
    BY <2>1 DEF WellFormed, CopyShape
  <2>4. Assigned(M)
    BY <2>2 DEF WellFormed, Assigned
  <2> QED BY <2>3, <2>4
<1> QED BY <1>10, <1>11, <1>12 DEF WellFormed, Merges, M, n, k

-----------------------------------------------------------------------------
(* The execution *)

LEMMA EnvMade ==
    ASSUME NEW q \in [Var -> Int], NEW D \in SUBSET Fd, NEW n \in [D -> Origin],
           NEW l \in [Origin -> Fd \cup {-1}], NEW u \in SUBSET Int
    PROVE  [val |-> q, open |-> n, last |-> l, out |-> u] \in EnvSet
<1>1. n \in UNION {[E -> Origin] : E \in SUBSET Fd}
  OBVIOUS
<1> QED BY <1>1 DEF EnvSet

LEMMA EnvParts ==
    ASSUME NEW e \in EnvSet
    PROVE  /\ e.val \in [Var -> Int]
           /\ DOMAIN e.open \in SUBSET Fd /\ e.open \in [DOMAIN e.open -> Origin]
           /\ e.last \in [Origin -> Fd \cup {-1}] /\ e.out \in SUBSET Int
           /\ e = [val |-> e.val, open |-> e.open, last |-> e.last, out |-> e.out]
<1>1. PICK q \in [Var -> Int], n \in UNION {[D -> Origin] : D \in SUBSET Fd},
           l \in [Origin -> Fd \cup {-1}], u \in SUBSET Int :
         e = [val |-> q, open |-> n, last |-> l, out |-> u]
  BY DEF EnvSet
<1>2. PICK D \in SUBSET Fd : n \in [D -> Origin]
  OBVIOUS
<1> QED BY <1>1, <1>2

LEMMA HeldNumber ==
    ASSUME NEW e \in EnvSet, NEW o \in Origin, Held(e, o)
    PROVE  e.last[o] \in Fd /\ e.last[o] \in DOMAIN e.open /\ e.last[o] >= 0
<1>1. DOMAIN e.open \in SUBSET Fd
  BY EnvParts
<1>2. e.last[o] \in DOMAIN e.open
  BY DEF Held
<1> QED BY <1>1, <1>2, FdAssumption DEF Fd

\* f is e after a call of o that returned n.
Acquires(e, f, o, n) ==
    /\ f \in EnvSet /\ f.val = e.val
    /\ n \in Fd \cup {-1} /\ f.last[o] = n
    /\ Held(f, o) \/ n = -1
    /\ \A p \in Origin : p # o => f.last[p] = e.last[p] /\ (Held(f, p) <=> Held(e, p))

LEMMA OpenedFacts ==
    ASSUME NEW e \in EnvSet, NEW o \in Origin, NEW fd \in Unused(e)
    PROVE  Acquires(e, Opened(e, o, fd), o, fd)
<1> DEFINE D == DOMAIN e.open \cup {fd}
           n == [f \in D |-> IF f = fd THEN o ELSE e.open[f]]
           l == [e.last EXCEPT ![o] = fd]
           u == e.out \ {fd}
           g == Opened(e, o, fd)
<1>1. /\ e.val \in [Var -> Int]
      /\ DOMAIN e.open \in SUBSET Fd /\ e.open \in [DOMAIN e.open -> Origin]
      /\ e.last \in [Origin -> Fd \cup {-1}] /\ e.out \in SUBSET Int
      /\ e = [val |-> e.val, open |-> e.open, last |-> e.last, out |-> e.out]
  BY EnvParts
<1>2. fd \in Fd /\ fd \notin DOMAIN e.open
  BY DEF Unused
<1>3. g = [e EXCEPT !.open = n, !.last = l, !.out = u]
  BY <1>1 DEF Opened
<1>4. n \in [D -> Origin] /\ D \in SUBSET Fd /\ l \in [Origin -> Fd \cup {-1}] /\ u \in SUBSET Int
  BY <1>1, <1>2
<1>5. /\ DOMAIN n = D /\ n[fd] = o /\ \A f \in D : f # fd => n[f] = e.open[f]
      /\ l[o] = fd /\ \A p \in Origin : p # o => l[p] = e.last[p]
  BY <1>1
<1> HIDE DEF n, l, u, g
<1>6. g = [val |-> e.val, open |-> n, last |-> l, out |-> u]
  BY <1>1, <1>3
<1>7. g \in EnvSet
  <2> HIDE DEF D
  <2> QED BY <1>1, <1>4, <1>6, EnvMade
<1>8. g.val = e.val /\ g.open = n /\ g.last = l /\ g.out = u
  BY <1>6
<1>9. Held(g, o)
  BY <1>5, <1>8 DEF Held, u
<1>10. ASSUME NEW p \in Origin, p # o
       PROVE  g.last[p] = e.last[p] /\ (Held(g, p) <=> Held(e, p))
  <2>1. g.last[p] = e.last[p]
    BY <1>5, <1>8, <1>10
  <2>2. CASE e.last[p] = fd
    BY <1>2, <1>5, <1>8, <1>10, <2>1, <2>2 DEF Held
  <2>3. CASE e.last[p] # fd
    BY <1>5, <1>8, <2>1, <2>3 DEF Held, u
  <2> QED BY <2>1, <2>2, <2>3
<1> QED BY <1>2, <1>5, <1>7, <1>8, <1>9, <1>10 DEF Acquires, g

LEMMA FailedFacts ==
    ASSUME NEW e \in EnvSet, NEW o \in Origin
    PROVE  Acquires(e, [e EXCEPT !.last[o] = -1], o, -1)
<1> DEFINE l == [e.last EXCEPT ![o] = -1]
           g == [e EXCEPT !.last[o] = -1]
<1>1. /\ e.val \in [Var -> Int]
      /\ DOMAIN e.open \in SUBSET Fd /\ e.open \in [DOMAIN e.open -> Origin]
      /\ e.last \in [Origin -> Fd \cup {-1}] /\ e.out \in SUBSET Int
      /\ e = [val |-> e.val, open |-> e.open, last |-> e.last, out |-> e.out]
  BY EnvParts
<1>2. g = [e EXCEPT !.last = l]
  BY <1>1
<1>3. l \in [Origin -> Fd \cup {-1}] /\ l[o] = -1 /\ \A p \in Origin : p # o => l[p] = e.last[p]
  BY <1>1
<1> HIDE DEF l, g
<1>4. g = [val |-> e.val, open |-> e.open, last |-> l, out |-> e.out]
  BY <1>1, <1>2
<1>5. g \in EnvSet
  BY <1>1, <1>3, <1>4, EnvMade
<1>6. g.val = e.val /\ g.open = e.open /\ g.last = l /\ g.out = e.out
  BY <1>4
<1>7. \A p \in Origin : p # o => g.last[p] = e.last[p] /\ (Held(g, p) <=> Held(e, p))
  BY <1>3, <1>6 DEF Held
<1> QED BY <1>3, <1>5, <1>6, <1>7 DEF Acquires, g

\* f is e when the function has no longer the descriptor n, if it had it.
Loses(e, f, n) ==
    /\ f \in EnvSet /\ f.val = e.val /\ f.last = e.last
    /\ \A p \in Origin : Held(f, p) <=> Held(e, p) /\ e.last[p] # n

LEMMA ClosedFacts ==
    ASSUME NEW e \in EnvSet, NEW n \in Int
    PROVE  Loses(e, Closed(e, n), n)
<1> DEFINE D == DOMAIN e.open \ {n}
           k == [f \in D |-> e.open[f]]
           u == e.out \ {n}
           g == Closed(e, n)
<1>1. /\ e.val \in [Var -> Int]
      /\ DOMAIN e.open \in SUBSET Fd /\ e.open \in [DOMAIN e.open -> Origin]
      /\ e.last \in [Origin -> Fd \cup {-1}] /\ e.out \in SUBSET Int
      /\ e = [val |-> e.val, open |-> e.open, last |-> e.last, out |-> e.out]
  BY EnvParts
<1>2. g = [e EXCEPT !.open = k, !.out = u]
  BY DEF Closed, Restrict
<1>3. k \in [D -> Origin] /\ D \in SUBSET Fd /\ u \in SUBSET Int
  BY <1>1
<1>4. DOMAIN k = D /\ \A f \in D : k[f] = e.open[f]
  OBVIOUS
<1> HIDE DEF k, u, g
<1>5. g = [val |-> e.val, open |-> k, last |-> e.last, out |-> u]
  BY <1>1, <1>2
<1>6. g \in EnvSet
  <2> HIDE DEF D
  <2> QED BY <1>1, <1>3, <1>5, EnvMade
<1>7. g.val = e.val /\ g.open = k /\ g.last = e.last /\ g.out = u
  BY <1>5
<1>8. \A p \in Origin : Held(g, p) <=> Held(e, p) /\ e.last[p] # n
  BY <1>4, <1>7 DEF Held, u
<1> QED BY <1>6, <1>7, <1>8 DEF Loses, g

LEMMA HandedOutFacts ==
    ASSUME NEW e \in EnvSet, NEW n \in Int
    PROVE  Loses(e, HandedOut(e, n), n)
<1> DEFINE u == e.out \cup ({n} \cap DOMAIN e.open)
           g == HandedOut(e, n)
<1>1. /\ e.val \in [Var -> Int]
      /\ DOMAIN e.open \in SUBSET Fd /\ e.open \in [DOMAIN e.open -> Origin]
      /\ e.last \in [Origin -> Fd \cup {-1}] /\ e.out \in SUBSET Int
      /\ e = [val |-> e.val, open |-> e.open, last |-> e.last, out |-> e.out]
  BY EnvParts
<1>2. g = [e EXCEPT !.out = u]
  BY Zenon DEF HandedOut
<1>3. u \in SUBSET Int
  BY <1>1
<1> HIDE DEF u, g
<1>4. g = [val |-> e.val, open |-> e.open, last |-> e.last, out |-> u]
  BY <1>1, <1>2
<1>5. g \in EnvSet
  BY <1>1, <1>3, <1>4, EnvMade
<1>6. g.val = e.val /\ g.open = e.open /\ g.last = e.last /\ g.out = u
  BY <1>4
<1>7. \A p \in Origin : Held(g, p) <=> Held(e, p) /\ e.last[p] # n
  BY <1>6 DEF Held, u
<1> QED BY <1>5, <1>6, <1>7 DEF Loses, g

\* f is e with v set to n.
Sets(e, f, v, n) ==
    /\ f \in EnvSet /\ f.last = e.last
    /\ \A p \in Origin : Held(f, p) <=> Held(e, p)
    /\ f.val[v] = n /\ \A w \in Var : w # v => f.val[w] = e.val[w]

LEMMA SetFacts ==
    ASSUME NEW e \in EnvSet, NEW v \in Var, NEW n \in Int
    PROVE  Sets(e, [e EXCEPT !.val[v] = n], v, n)
<1> DEFINE q == [e.val EXCEPT ![v] = n]
           g == [e EXCEPT !.val[v] = n]
<1>1. /\ e.val \in [Var -> Int]
      /\ DOMAIN e.open \in SUBSET Fd /\ e.open \in [DOMAIN e.open -> Origin]
      /\ e.last \in [Origin -> Fd \cup {-1}] /\ e.out \in SUBSET Int
      /\ e = [val |-> e.val, open |-> e.open, last |-> e.last, out |-> e.out]
  BY EnvParts
<1>2. g = [e EXCEPT !.val = q]
  BY <1>1
<1>3. q \in [Var -> Int] /\ q[v] = n /\ \A w \in Var : w # v => q[w] = e.val[w]
  BY <1>1
<1> HIDE DEF q, g
<1>4. g = [val |-> q, open |-> e.open, last |-> e.last, out |-> e.out]
  BY <1>1, <1>2
<1>5. g \in EnvSet
  BY <1>1, <1>3, <1>4, EnvMade
<1>6. g.val = q /\ g.open = e.open /\ g.last = e.last /\ g.out = e.out
  BY <1>4
<1>7. \A p \in Origin : Held(g, p) <=> Held(e, p)
  BY <1>6 DEF Held
<1> QED BY <1>3, <1>5, <1>6, <1>7 DEF Sets, g

\* The value of an operand, and what evaluating it does.
Evaluates(e, f, x, n) ==
    /\ f \in EnvSet /\ n \in Int
    /\ isAcquisition(x) => Acquires(e, f, x.origin, n)
    /\ ~isAcquisition(x) => f = e /\ n = IF x.var # NoVar THEN e.val[x.var] ELSE x.value

LEMMA EvaluateFacts ==
    ASSUME NEW e \in EnvSet, NEW x \in Operand, NEW r \in Evaluate(e, x)
    PROVE  Evaluates(e, r.env, x, r.value)
<1>1. CASE isAcquisition(x)
  <2>1. x.origin \in Origin
    BY <1>1, OperandKinds
  <2>2. r \in Acquire(e, x.origin)
    BY <1>1 DEF Evaluate
  <2>3. \/ r = [env |-> [e EXCEPT !.last[x.origin] = -1], value |-> -1]
        \/ \E fd \in Unused(e) : r = [env |-> Opened(e, x.origin, fd), value |-> fd]
    BY <2>2, Zenon DEF Acquire
  <2>4. Acquires(e, r.env, x.origin, r.value)
    <3>1. CASE r = [env |-> [e EXCEPT !.last[x.origin] = -1], value |-> -1]
      <4>1. r.env = [e EXCEPT !.last[x.origin] = -1] /\ r.value = -1
        BY <3>1
      <4> QED BY <2>1, <4>1, FailedFacts
    <3>2. ASSUME NEW fd \in Unused(e), r = [env |-> Opened(e, x.origin, fd), value |-> fd]
          PROVE  Acquires(e, r.env, x.origin, r.value)
      <4>1. r.env = Opened(e, x.origin, fd) /\ r.value = fd
        BY <3>2
      <4> QED BY <2>1, <4>1, OpenedFacts
    <3> QED BY <2>3, <3>1, <3>2
  <2>5. r.env \in EnvSet /\ r.value \in Int
    BY <2>4, FdAssumption DEF Acquires, Fd
  <2> QED BY <1>1, <2>4, <2>5 DEF Evaluates
<1>2. CASE ~isAcquisition(x)
  <2>1. r.env = e /\ r.value = IF x.var # NoVar THEN e.val[x.var] ELSE x.value
    BY <1>2 DEF Evaluate
  <2>2. r.value \in Int
    BY <1>2, <2>1, OperandKinds, EnvParts, FdAssumption
  <2> QED BY <1>2, <2>1, <2>2 DEF Evaluates
<1> QED BY <1>1, <1>2

\* What a statement does to the execution.
LEMMA EffectCases ==
    ASSUME fn \in Function, NEW s \in fn.stmts, NEW e \in EnvSet, NEW f \in Effect(s, e)
    PROVE  /\ f \in EnvSet
           /\ s.kind = "assign" /\ s.var \in Var =>
                 \E g, n : Evaluates(e, g, s.rhs, n) /\ Sets(g, f, s.var, Stored(s.var, n))
           /\ (\/ s.kind = "return" \/ (s.kind = "assign" /\ s.var \notin Var)
               \/ s.kind = "call" /\ s.ownership \in {"Consumed", "Transferred"}) =>
                 \E g, n : Evaluates(e, g, s.rhs, n) /\ Loses(g, f, n)
           /\ s.kind = "call" /\ s.ownership \in {"Borrowed", "Unknown"} =>
                 \E n : Evaluates(e, f, s.rhs, n)
<1>1. /\ s.kind \in {"assign", "return", "call", "bump"} /\ s.rhs \in Operand
      /\ s.ownership \in {"Borrowed", "Unknown", "Consumed", "Transferred"}
  BY StatementParts
<1>2. \A r \in Evaluate(e, s.rhs) : Evaluates(e, r.env, s.rhs, r.value)
  BY <1>1, EvaluateFacts
<1>3. \A r \in Evaluate(e, s.rhs) : r.env \in EnvSet /\ r.value \in Int
  BY <1>2 DEF Evaluates
<1>4. CASE s.kind = "bump"
  <2>1. PICK x \in -1 .. MaxFd : f = [e EXCEPT !.val[s.var] = x]
    BY <1>4 DEF Effect
  <2>2. x \in Int
    BY <2>1, FdAssumption
  <2>3. CASE s.var \in Var
    <3>1. f \in EnvSet
      BY <2>1, <2>2, <2>3, SetFacts DEF Sets
    <3> QED BY <1>4, <3>1
  <2>4. CASE s.var \notin Var
    <3> DEFINE q == [e.val EXCEPT ![s.var] = x]
    <3>1. /\ e.val \in [Var -> Int]
          /\ DOMAIN e.open \in SUBSET Fd /\ e.open \in [DOMAIN e.open -> Origin]
          /\ e.last \in [Origin -> Fd \cup {-1}] /\ e.out \in SUBSET Int
          /\ e = [val |-> e.val, open |-> e.open, last |-> e.last, out |-> e.out]
      BY EnvParts
    <3>2. q \in [Var -> Int]
      BY <2>2, <2>4, <3>1
    <3>3. f = [e EXCEPT !.val = q]
      BY <2>1
    <3> HIDE DEF q
    <3>4. f = [val |-> q, open |-> e.open, last |-> e.last, out |-> e.out]
      BY <3>1, <3>3
    <3>5. f \in EnvSet
      BY <3>1, <3>2, <3>4, EnvMade
    <3> QED BY <1>4, <3>5
  <2> QED BY <2>3, <2>4
<1>5. CASE s.kind = "assign" /\ s.var \in Var
  <2>1. PICK r \in Evaluate(e, s.rhs) : f = [r.env EXCEPT !.val[s.var] = Stored(s.var, r.value)]
    BY <1>5, Zenon DEF Effect
  <2>2. Stored(s.var, r.value) \in Int
    BY <1>3, FdAssumption DEF Stored
  <2>3. Sets(r.env, f, s.var, Stored(s.var, r.value))
    BY <1>3, <1>5, <2>1, <2>2, SetFacts
  <2>4. f \in EnvSet
    BY <2>3 DEF Sets
  <2> QED BY <1>2, <1>5, <2>3, <2>4
<1>6. ASSUME \/ s.kind = "return" \/ (s.kind = "assign" /\ s.var \notin Var)
             \/ s.kind = "call" /\ s.ownership \in {"Consumed", "Transferred"}
      PROVE  f \in EnvSet /\ \E g, n : Evaluates(e, g, s.rhs, n) /\ Loses(g, f, n)
  <2>1. \E r \in Evaluate(e, s.rhs) : f = HandedOut(r.env, r.value) \/ f = Closed(r.env, r.value)
    <3>1. CASE s.kind = "return" \/ (s.kind = "assign" /\ s.var \notin Var)
      <4>1. f \in {HandedOut(r.env, r.value) : r \in Evaluate(e, s.rhs)}
        BY <3>1 DEF Effect
      <4> QED BY <4>1
    <3>2. CASE s.kind = "call" /\ s.ownership = "Consumed"
      <4>1. f \in {Closed(r.env, r.value) : r \in Evaluate(e, s.rhs)}
        BY <3>2 DEF Effect
      <4> QED BY <4>1
    <3>3. CASE s.kind = "call" /\ s.ownership = "Transferred"
      <4>1. f \in UNION {{HandedOut(r.env, r.value), Closed(r.env, r.value)} : r \in Evaluate(e, s.rhs)}
        BY <3>3 DEF Effect
      <4> QED BY <4>1
    <3> QED BY <1>6, <3>1, <3>2, <3>3
  <2>2. PICK r \in Evaluate(e, s.rhs) : f = HandedOut(r.env, r.value) \/ f = Closed(r.env, r.value)
    BY <2>1
  <2>3. Loses(r.env, f, r.value)
    BY <1>3, <2>2, ClosedFacts, HandedOutFacts
  <2>4. f \in EnvSet
    BY <2>3 DEF Loses
  <2> QED BY <1>2, <2>3, <2>4
<1>7. CASE s.kind = "call" /\ s.ownership \in {"Borrowed", "Unknown"}
  <2>1. f \in {r.env : r \in Evaluate(e, s.rhs)}
    BY <1>7 DEF Effect
  <2>2. PICK r \in Evaluate(e, s.rhs) : f = r.env
    BY <2>1
  <2>3. Evaluates(e, f, s.rhs, r.value) /\ f \in EnvSet
    BY <1>2, <1>3, <2>2
  <2> QED BY <1>7, <2>3
<1> QED BY <1>1, <1>4, <1>5, <1>6, <1>7

-----------------------------------------------------------------------------
(* The state stays true of the execution *)

\* A call of o that is not assigned to a variable: it has no witnesses.
LEMMA NoWitnesses ==
    ASSUME fn \in Function, NEW S, WellFormed(S),
           NEW s \in fn.stmts, isAcquisition(s.rhs), ~(s.kind = "assign" /\ s.var \in Var)
    PROVE  s.rhs.origin \notin DOMAIN S.witnesses
<1> SUFFICES ASSUME s.rhs.origin \in DOMAIN S.witnesses PROVE FALSE
  OBVIOUS
<1>1. PICK t \in fn.stmts : t.kind = "assign" /\ t.var \in Var /\ t.rhs.origin = s.rhs.origin
  BY DEF WellFormed, Assigned
<1>2. OneSite(fn)
  BY FunctionAssumption
<1>3. s = t
  BY <1>1, <1>2 DEF OneSite, isAcquisition
<1> QED BY <1>1, <1>3

\* The calls of a statement that is not an assignment to a variable.
LEMMA CalledAgrees ==
    ASSUME fn \in Function, NEW S, WellFormed(S), NEW e \in EnvSet, NEW g, NEW n,
           NEW s \in fn.stmts, ~(s.kind = "assign" /\ s.var \in Var),
           Evaluates(e, g, s.rhs, n), Agrees(S, e)
    PROVE  /\ Agrees(CalledState(S, s.rhs), g)
           /\ Exact(S, e) => Exact(CalledState(S, s.rhs), g)
<1> DEFINE x == s.rhs
           o == x.origin
           T == CalledState(S, x)
<1>1. CASE ~isAcquisition(x)
  <2>1. T = S /\ g = e
    BY <1>1 DEF CalledState, Evaluates
  <2> HIDE DEF T
  <2> QED BY <2>1 DEF T
<1>2. CASE isAcquisition(x)
  <2>1. o \in Origin
    BY <1>2, StatementParts, OperandKinds
  <2>2. o \notin DOMAIN S.witnesses
    BY <1>2, NoWitnesses
  <2>3. Acquires(e, g, o, n)
    BY <1>2 DEF Evaluates
  <2>4. SameButResources(S, T)
        /\ \A p \in Origin : T.resources[p] = IF p \in {o} THEN "Open" ELSE S.resources[p]
    <3>1. T = settle(S, {o}, "Open") /\ "Open" \in Life /\ S \in StateSet
      BY <1>2 DEF CalledState, Life, WellFormed
    <3> HIDE DEF T, o
    <3> QED BY <3>1, SettleFacts
  <2> HIDE DEF T, o
  <2>5. DOMAIN S.witnesses \subseteq Origin
    BY StateParts DEF WellFormed
  <2>6. Covers(T, g)
    BY <2>1, <2>3, <2>4 DEF Agrees, Covers, Acquires
  <2>7. NegativeOK(T, g) /\ CopiesOK(T, g)
    BY <2>3, <2>4 DEF Agrees, NegativeOK, CopiesOK, Acquires, SameButResources
  <2>8. WitnessesOK(T, g)
    BY <2>2, <2>3, <2>4, <2>5 DEF Agrees, WitnessesOK, Acquires, SameButResources
  <2>9. ASSUME Exact(S, e) PROVE Exact(T, g)
    <3>1. OpenIsReal(T, g)
      BY <2>1, <2>3, <2>4, <2>9 DEF Exact, OpenIsReal, Acquires
    <3>2. BindingsExact(T, g)
      <4>1. \A v \in Var : bindingFor(T, v) = bindingFor(S, v)
        BY <2>4 DEF bindingFor, SameButResources
      <4>2. g.val = e.val
        BY <2>3 DEF Acquires
      <4> QED BY <2>9, <4>1, <4>2 DEF Exact, BindingsExact
    <3> QED BY <3>1, <3>2 DEF Exact
  <2> QED BY <2>6, <2>7, <2>8, <2>9 DEF Agrees, T
<1> QED BY <1>1, <1>2

\* The number in v is that of the descriptor it is bound to, if the function has it.
Fresh(S, e, v) ==
    ~bindingFor(S, v).opaque /\ Cardinality(bindingFor(S, v).origins) = 1 =>
        \A o \in bindingFor(S, v).origins : /\ Held(e, o) => e.last[o] = e.val[v]
                                            /\ e.val[v] \in DOMAIN e.open => e.open[e.val[v]] = o

\* n is the value of x in e, the calls of x being made.
ValueOf(e, x, n) ==
    IF isAcquisition(x) THEN n = e.last[x.origin] /\ (Held(e, x.origin) \/ n = -1)
    ELSE n = IF x.var # NoVar THEN e.val[x.var] ELSE x.value

\* An operand without a binding has no descriptor that a state knows of.
LEMMA ConstantTargets ==
    ASSUME NEW S, WellFormed(S), NEW x, ~isAcquisition(x), x.var = NoVar
    PROVE  Targets(S, x) = {}
<1>1. NoVar \notin DOMAIN S.bindings
  BY StateParts, FdAssumption DEF WellFormed
<1> QED BY <1>1 DEF Targets, bindingFor, Unknown

\* A descriptor that is consumed or transferred is the function's no longer.
LEMMA ConsumedAgrees ==
    ASSUME NEW S, WellFormed(S), NEW e \in EnvSet, NEW x \in Operand, NEW n, ValueOf(e, x, n),
           NEW own \in {"Consumed", "Transferred"},
           ~isAcquisition(x) /\ x.var \in Var => Fresh(S, e, x.var),
           NEW f, Loses(e, f, n), Agrees(S, e)
    PROVE  /\ Agrees(applyOwnershipToExpr(S, x, own), f)
           /\ Exact(S, e) => Exact(applyOwnershipToExpr(S, x, own), f)
<1> DEFINE T == applyOwnershipToExpr(S, x, own)
           O == Targets(S, x)
<1>1. PICK life \in {"Escaped", "Closed"} :
         /\ T = settle(S, O, life)
         /\ life = "Closed" /\ ~isAcquisition(x) =>
              ~bindingFor(S, x.var).opaque /\ Cardinality(bindingFor(S, x.var).origins) = 1
  BY ApplyIsSettle, Zenon
<1>2. SameButResources(S, T)
      /\ \A p \in Origin : T.resources[p] = IF p \in O THEN life ELSE S.resources[p]
  <2>1. life \in Life /\ S \in StateSet
    BY DEF Life, WellFormed
  <2> HIDE DEF T, O
  <2> QED BY <1>1, <2>1, SettleFacts
<1> HIDE DEF T
<1>3. \A p \in Origin : Held(f, p) <=> Held(e, p) /\ e.last[p] # n
  BY DEF Loses
<1>4. ASSUME NEW p \in Origin, Held(f, p), p \in O
      PROVE  life = "Escaped"
  <2> SUFFICES ASSUME life = "Closed" PROVE FALSE
    OBVIOUS
  <2>1. Held(e, p) /\ e.last[p] # n
    BY <1>3, <1>4
  <2>2. CASE isAcquisition(x)
    BY <1>4, <2>1, <2>2 DEF Targets, ValueOf
  <2>3. CASE ~isAcquisition(x) /\ x.var = NoVar
    BY <1>4, <2>3, ConstantTargets
  <2>4. CASE ~isAcquisition(x) /\ x.var \in Var
    <3>1. Fresh(S, e, x.var) /\ n = e.val[x.var] /\ O = bindingFor(S, x.var).origins
      BY <2>4, FdAssumption DEF ValueOf, Targets
    <3> QED BY <1>1, <1>4, <2>1, <2>4, <3>1 DEF Fresh
  <2> QED BY <2>2, <2>3, <2>4, OperandKinds
<1>5. Covers(T, f)
  BY <1>2, <1>3, <1>4 DEF Agrees, Covers
<1>6. NegativeOK(T, f) /\ CopiesOK(T, f) /\ WitnessesOK(T, f)
  <2>1. DOMAIN S.witnesses \subseteq Origin
    BY StateParts DEF WellFormed
  <2> QED BY <1>2, <1>3, <2>1 DEF Agrees, NegativeOK, CopiesOK, WitnessesOK, SameButResources, Loses
<1>7. ASSUME Exact(S, e) PROVE Exact(T, f)
  <2>1. ASSUME NEW p \in Origin, T.resources[p] = "Open"
        PROVE  Held(f, p) \/ f.last[p] = -1
    <3>1. p \notin O /\ S.resources[p] = "Open"
      BY <1>2, <2>1
    <3>2. f.last[p] = e.last[p] /\ (Held(e, p) \/ e.last[p] = -1)
      BY <1>7, <3>1 DEF Exact, OpenIsReal, Loses
    <3>3. ASSUME Held(e, p), e.last[p] = n PROVE FALSE
      <4>1. n \in Fd /\ n \in DOMAIN e.open /\ e.open[n] = p
        BY <3>3, HeldNumber DEF Held
      <4>2. CASE isAcquisition(x)
        <5>1. n = e.last[x.origin] /\ p # x.origin /\ (Held(e, x.origin) \/ n = -1)
          BY <3>1, <4>2 DEF ValueOf, Targets
        <5>2. n # -1
          BY <4>1, FdAssumption DEF Fd
        <5> QED BY <4>1, <5>1, <5>2 DEF Held
      <4>3. CASE ~isAcquisition(x) /\ x.var = NoVar
        <5>1. n \notin Fd
          BY <4>3, OperandKinds, FdAssumption DEF ValueOf
        <5> QED BY <4>1, <5>1
      <4>4. CASE ~isAcquisition(x) /\ x.var \in Var
        <5>1. Fresh(S, e, x.var) /\ n = e.val[x.var] /\ O = bindingFor(S, x.var).origins
          BY <4>4, FdAssumption DEF ValueOf, Targets
        <5>2. ~bindingFor(S, x.var).opaque
          BY <1>7, <4>1, <4>4, <5>1 DEF Exact, BindingsExact
        <5>3. PICK o \in Origin : bindingFor(S, x.var).origins = {o}
          BY <1>7, <4>4, <5>2 DEF Exact, BindingsExact
        <5>4. Cardinality(bindingFor(S, x.var).origins) = 1
          BY <5>3, FS_Singleton
        <5>5. e.open[n] = o
          BY <4>1, <5>1, <5>2, <5>3, <5>4 DEF Fresh
        <5> QED BY <3>1, <4>1, <5>1, <5>3, <5>5
      <4> QED BY <4>2, <4>3, <4>4, OperandKinds
    <3> QED BY <1>3, <3>2, <3>3
  <2>2. BindingsExact(T, f)
    <3>1. \A v \in Var : bindingFor(T, v) = bindingFor(S, v)
      BY <1>2 DEF bindingFor, SameButResources
    <3> QED BY <1>7, <3>1 DEF Exact, BindingsExact, Loses
  <2> QED BY <2>1, <2>2 DEF Exact, OpenIsReal
<1> QED BY <1>5, <1>6, <1>7 DEF Agrees, T

\* What the right-hand side of s was when s took e to f.
ResultIn(s, e, f) ==
    IF isAcquisition(s.rhs) THEN f.last[s.rhs.origin]
    ELSE IF s.rhs.var # NoVar THEN e.val[s.rhs.var] ELSE s.rhs.value

\* An assignment to a variable that can hold the value: the state after it is true of
\* the execution after it.
LEMMA AssignAgrees ==
    ASSUME fn \in Function, NEW S, WellFormed(S), NEW e \in EnvSet,
           NEW s \in fn.stmts, s.kind = "assign", s.var \in Var,
           NEW f \in Effect(s, e), s.var \in Narrow => ResultIn(s, e, f) >= 0, Agrees(S, e)
    PROVE  /\ Agrees(transfer(S, s), f)
           /\ Exact(S, e) => Exact(transfer(S, s), f)
<1> DEFINE x == s.rhs
           v == s.var
           T == transfer(S, s)
<1>1. x \in Operand /\ v \in Var
  BY StatementParts
<1>2. PICK g, n : Evaluates(e, g, x, n) /\ Sets(g, f, v, Stored(v, n))
  BY EffectCases
<1>3. Sets(g, f, v, n)
  <2>1. n = ResultIn(s, e, f)
    BY <1>2 DEF ResultIn, Evaluates, Acquires, Sets
  <2>2. n \in Int
    BY <1>2 DEF Evaluates
  <2>3. ~(v \in Narrow /\ n < 0)
    BY <2>1, <2>2
  <2> QED BY <1>2, <2>3 DEF Stored
<1>4. DOMAIN S.witnesses \subseteq Origin /\ S.negative \subseteq Var
      /\ S.copies \subseteq [target : Var, source : Var]
      /\ \A o \in DOMAIN S.witnesses : S.witnesses[o] \subseteq Var
  BY StateParts DEF WellFormed
<1>5. CASE isAcquisition(x)
  <2> DEFINE o == x.origin
             C == CalledState(S, x)
  <2>1. o \in Origin
    BY <1>1, <1>5, OperandKinds
  <2>2. C = settle(S, {o}, "Open") /\ "Open" \in Life /\ S \in StateSet
    BY <1>5 DEF CalledState, Life, WellFormed
  <2>3. WellFormed(C)
    BY CalledKeeps
  <2>4. T = assign(C, v, x)
    BY TransferCases
  <2>5. SameButResources(S, C)
        /\ \A p \in Origin : C.resources[p] = IF p \in {o} THEN "Open" ELSE S.resources[p]
    <3> HIDE DEF C, o
    <3> QED BY <2>2, SettleFacts
  <2> HIDE DEF C
  <2>6. AcquiredInto(C, T, v, o)
    <3> HIDE DEF T
    <3> QED BY <1>1, <1>5, <2>1, <2>3, <2>4, AcquireFacts
  <2>7. Acquires(e, g, o, n)
    BY <1>2, <1>5 DEF Evaluates
  <2> HIDE DEF T, v, x, o
  <2>8. AcquiredInto(S, T, v, o)
    <3>1. \A w : bindingFor(C, w) = bindingFor(S, w)
      BY <2>5 DEF bindingFor, SameButResources
    <3> QED BY <2>5, <2>6, <3>1 DEF AcquiredInto, SameButResources
  <2>9. /\ f.val[v] = n /\ \A w \in Var : w # v => f.val[w] = e.val[w]
        /\ \A p \in Origin : p # o => f.last[p] = e.last[p] /\ (Held(f, p) <=> Held(e, p))
        /\ Held(f, o) \/ f.last[o] = -1
    BY <1>3, <2>1, <2>7 DEF Sets, Acquires
  <2>10. Covers(T, f)
    BY <2>8, <2>9 DEF Agrees, Covers, AcquiredInto
  <2>11. NegativeOK(T, f)
    BY <1>4, <2>8, <2>9 DEF Agrees, NegativeOK, AcquiredInto
  <2>12. CopiesOK(T, f)
    BY <1>4, <2>8, <2>9 DEF Agrees, CopiesOK, AcquiredInto
  <2>13. WitnessesOK(T, f)
    <3> SUFFICES ASSUME NEW p \in DOMAIN T.witnesses, Held(f, p), NEW w \in T.witnesses[p]
                 PROVE  f.val[w] < 0
      BY DEF WitnessesOK
    <3>1. CASE p = o
      <4>1. w \in S.negative /\ w # v
        BY <2>8, <3>1 DEF AcquiredInto
      <4> QED BY <1>4, <2>9, <4>1 DEF Agrees, NegativeOK
    <3>2. CASE p # o
      <4>1. p \in DOMAIN S.witnesses /\ w \in S.witnesses[p] /\ w # v
        BY <2>8, <3>2 DEF AcquiredInto
      <4> QED BY <1>4, <2>9, <3>2, <4>1 DEF Agrees, WitnessesOK
    <3> QED BY <3>1, <3>2
  <2>14. ASSUME Exact(S, e) PROVE Exact(T, f)
    <3>1. OpenIsReal(T, f)
      BY <2>8, <2>9, <2>14 DEF Exact, OpenIsReal, AcquiredInto
    <3>2. ASSUME NEW w \in Var
          PROVE  IF bindingFor(T, w).opaque THEN f.val[w] \notin Fd
                 ELSE \E p \in Origin : bindingFor(T, w).origins = {p}
      <4>1. CASE w = v
        BY <2>1, <2>8, <4>1 DEF AcquiredInto
      <4>2. CASE w # v
        BY <2>8, <2>9, <2>14, <4>2 DEF Exact, BindingsExact, AcquiredInto
      <4> QED BY <4>1, <4>2
    <3> QED BY <3>1, <3>2 DEF Exact, BindingsExact
  <2> QED BY <2>10, <2>11, <2>12, <2>13, <2>14 DEF Agrees, T
<1>6. CASE ~isAcquisition(x)
  <2>1. CalledState(S, x) = S
    BY <1>6 DEF CalledState
  <2>2. T = assign(S, v, x)
    BY <2>1, TransferCases
  <2>3. CopiedInto(S, T, v, x)
    <3> HIDE DEF T
    <3> QED BY <1>1, <1>6, <2>2, CopyFacts
  <2>4. g = e /\ n = IF x.var # NoVar THEN e.val[x.var] ELSE x.value
    BY <1>2, <1>6 DEF Evaluates
  <2>5. \/ x.var \in Var /\ x.value = 0 /\ n = e.val[x.var]
        \/ x.var = NoVar /\ x.var \notin Var /\ n = x.value /\ n \in Int \ Fd
    BY <1>1, <1>6, <2>4, OperandKinds, FdAssumption
  <2> HIDE DEF T, v, x
  <2>6. /\ f.val[v] = n /\ \A w \in Var : w # v => f.val[w] = e.val[w]
        /\ f.last = e.last /\ \A p \in Origin : Held(f, p) <=> Held(e, p)
    BY <1>3, <2>4 DEF Sets
  <2>7. Covers(T, f)
    BY <2>3, <2>6 DEF Agrees, Covers, CopiedInto
  <2>8. NegativeOK(T, f)
    <3> SUFFICES ASSUME NEW w \in T.negative PROVE f.val[w] < 0
      BY DEF NegativeOK
    <3>1. CASE w = v
      <4>1. x.var \in S.negative \/ x.value < 0
        BY <2>3, <3>1 DEF CopiedInto
      <4> QED BY <1>4, <2>5, <2>6, <3>1, <4>1 DEF Agrees, NegativeOK
    <3>2. CASE w # v
      <4>1. w \in S.negative
        BY <2>3, <3>2 DEF CopiedInto
      <4> QED BY <1>4, <2>6, <3>2, <4>1 DEF Agrees, NegativeOK
    <3> QED BY <3>1, <3>2
  <2>9. CopiesOK(T, f)
    <3> SUFFICES ASSUME NEW c \in T.copies PROVE f.val[c.target] = f.val[c.source]
      BY DEF CopiesOK
    <3>1. CASE c \in S.copies /\ c.target # v /\ c.source # v
      <4>1. c.target \in Var /\ c.source \in Var
        BY <1>4, <3>1
      <4> QED BY <2>6, <3>1, <4>1 DEF Agrees, CopiesOK
    <3>2. CASE x.var \in Var \ {v} /\ c.target = v /\ c.source = x.var
      BY <2>5, <2>6, <3>2
    <3>3. \/ c \in S.copies /\ c.target # v /\ c.source # v
          \/ x.var \in Var \ {v} /\ c.target = v /\ c.source = x.var
      BY <2>3 DEF CopiedInto
    <3> QED BY <3>1, <3>2, <3>3
  <2>10. WitnessesOK(T, f)
    <3> SUFFICES ASSUME NEW p \in DOMAIN T.witnesses, Held(f, p), NEW w \in T.witnesses[p]
                 PROVE  f.val[w] < 0
      BY DEF WitnessesOK
    <3>1. p \in DOMAIN S.witnesses /\ w \in S.witnesses[p] /\ w # v
      BY <2>3 DEF CopiedInto
    <3> QED BY <1>4, <2>6, <3>1 DEF Agrees, WitnessesOK
  <2>11. ASSUME Exact(S, e) PROVE Exact(T, f)
    <3>1. OpenIsReal(T, f)
      BY <2>3, <2>6, <2>11 DEF Exact, OpenIsReal, CopiedInto
    <3>2. ASSUME NEW w \in Var
          PROVE  IF bindingFor(T, w).opaque THEN f.val[w] \notin Fd
                 ELSE \E p \in Origin : bindingFor(T, w).origins = {p}
      <4>1. CASE w = v /\ x.var \in Var
        BY <2>3, <2>5, <2>6, <2>11, <4>1, FdAssumption DEF Exact, BindingsExact, CopiedInto
      <4>2. CASE w = v /\ x.var = NoVar
        <5>1. NoVar \notin DOMAIN S.bindings
          BY StateParts, FdAssumption DEF WellFormed
        <5>2. bindingFor(T, w) = Unknown
          BY <2>3, <4>2, <5>1 DEF CopiedInto, bindingFor
        <5>3. f.val[w] \notin Fd
          BY <2>5, <2>6, <4>2, FdAssumption
        <5> QED BY <5>2, <5>3 DEF Unknown
      <4>3. CASE w # v
        BY <2>3, <2>6, <2>11, <4>3 DEF Exact, BindingsExact, CopiedInto
      <4> QED BY <2>5, <4>1, <4>2, <4>3
    <3> QED BY <3>1, <3>2 DEF Exact, BindingsExact
  <2> QED BY <2>7, <2>8, <2>9, <2>10, <2>11 DEF Agrees, T
<1> QED BY <1>5, <1>6

\* A statement keeps a state true, if no operand has gone stale.
LEMMA TransferAgrees ==
    ASSUME fn \in Function, NEW S, WellFormed(S), NEW e \in EnvSet, NEW s \in fn.stmts,
           NEW f \in Effect(s, e), Agrees(S, e), s.kind # "bump",
           s.kind = "assign" /\ s.var \in Narrow => ResultIn(s, e, f) >= 0,
           ~(s.kind = "assign" /\ s.var \in Var) /\ s.rhs.var # NoVar => Fresh(S, e, s.rhs.var)
    PROVE  /\ Agrees(transfer(S, s), f)
           /\ Exact(S, e) => Exact(transfer(S, s), f)
<1> DEFINE x == s.rhs
           C == CalledState(S, x)
<1>1. /\ s.kind \in {"assign", "return", "call", "bump"} /\ s.rhs \in Operand
      /\ s.ownership \in {"Borrowed", "Unknown", "Consumed", "Transferred"}
  BY StatementParts
<1>2. CASE s.kind = "assign" /\ s.var \in Var
  BY <1>2, AssignAgrees
<1>3. CASE ~(s.kind = "assign" /\ s.var \in Var)
  <2>1. WellFormed(C)
    BY CalledKeeps
  <2>2. ASSUME NEW g, NEW n, Evaluates(e, g, x, n)
        PROVE  /\ Agrees(C, g) /\ (Exact(S, e) => Exact(C, g))
               /\ ValueOf(g, x, n) /\ g \in EnvSet
               /\ ~isAcquisition(x) /\ x.var \in Var => Fresh(C, g, x.var)
    <3>1. Agrees(C, g) /\ (Exact(S, e) => Exact(C, g))
      BY <1>3, <2>2, CalledAgrees
    <3>2. ValueOf(g, x, n) /\ g \in EnvSet
      BY <2>2 DEF ValueOf, Evaluates, Acquires
    <3>3. ~isAcquisition(x) => C = S /\ g = e
      BY <2>2 DEF CalledState, Evaluates
    <3> HIDE DEF C
    <3> QED BY <1>3, <3>1, <3>2, <3>3, FdAssumption
  <2>3. CASE \/ s.kind = "return" \/ (s.kind = "assign" /\ s.var \notin Var)
             \/ s.kind = "call" /\ s.ownership \in {"Consumed", "Transferred"}
    <3>1. PICK g, n : Evaluates(e, g, x, n) /\ Loses(g, f, n)
      BY <2>3, EffectCases
    <3>2. PICK own \in {"Consumed", "Transferred"} : transfer(S, s) = applyOwnershipToExpr(C, x, own)
      BY <1>1, <2>3, TransferCases
    <3>3. /\ Agrees(C, g) /\ (Exact(S, e) => Exact(C, g))
          /\ ValueOf(g, x, n) /\ g \in EnvSet
          /\ ~isAcquisition(x) /\ x.var \in Var => Fresh(C, g, x.var)
      BY <2>2, <3>1
    <3> HIDE DEF C, x
    <3>4. x \in Operand
      BY <1>1 DEF x
    <3>5. /\ Agrees(applyOwnershipToExpr(C, x, own), f)
          /\ Exact(C, g) => Exact(applyOwnershipToExpr(C, x, own), f)
      BY <2>1, <3>1, <3>3, <3>4, ConsumedAgrees
    <3> QED BY <3>2, <3>3, <3>5
  <2>4. CASE s.kind = "call" /\ s.ownership \in {"Borrowed", "Unknown"}
    <3>1. PICK n : Evaluates(e, f, x, n)
      BY <2>4, EffectCases
    <3>2. transfer(S, s) = C
      <4>1. transfer(S, s) = applyOwnershipToExpr(C, x, s.ownership)
        BY <2>4, TransferCases
      <4> HIDE DEF C, x
      <4>2. applyOwnershipToExpr(C, x, s.ownership) = C
        BY <2>4 DEF applyOwnershipToExpr
      <4> QED BY <4>1, <4>2
    <3> QED BY <2>2, <3>1, <3>2
  <2> QED BY <1>1, <1>3, <2>3, <2>4
<1> QED BY <1>2, <1>3

\* On the edge on which c says that its variable is negative, it is.
LEMMA FailureIsNegative ==
    ASSUME fn \in Function, NEW c \in fn.conds, c.kind = "constant", NEW e \in EnvSet,
           NEW taken \in ConditionValues(c, e), taken \in failureEdge(c)
    PROVE  e.val[c.var] < 0
<1>1. c.var \in Var /\ c.op \in Relation /\ c.value \in Int /\ c.neg \in BOOLEAN
  BY ConditionParts
<1>2. e.val[c.var] \in Int
  BY <1>1, EnvParts
<1>3. taken = (Compares(c.op, e.val[c.var], c.value) # c.neg)
  BY DEF ConditionValues
<1>4. PICK t \in BOOLEAN :
        /\ taken = (t # c.neg)
        /\ \/ t = TRUE /\ <<c.op, c.value>> \in {<<"EQ", -1>>, <<"LT", 0>>, <<"LE", -1>>}
           \/ t = FALSE /\ <<c.op, c.value>> \in {<<"NE", -1>>, <<"GE", 0>>, <<"GT", -1>>}
  BY DEF failureEdge
<1>5. t = Compares(c.op, e.val[c.var], c.value)
  <2>1. Compares(c.op, e.val[c.var], c.value) \in BOOLEAN
    <3> DEFINE m == e.val[c.var]
    <3>1. /\ c.op = "EQ" => Compares(c.op, m, c.value) = (m = c.value)
          /\ c.op = "NE" => Compares(c.op, m, c.value) = (m # c.value)
          /\ c.op = "LT" => Compares(c.op, m, c.value) = (m < c.value)
          /\ c.op = "LE" => Compares(c.op, m, c.value) = (m <= c.value)
          /\ c.op = "GT" => Compares(c.op, m, c.value) = (m > c.value)
          /\ c.op = "GE" => Compares(c.op, m, c.value) = (m >= c.value)
      BY DEF Compares
    <3> HIDE DEF m
    <3>2. \A k, l \in Int : /\ (k = l) \in BOOLEAN /\ (k # l) \in BOOLEAN /\ (k < l) \in BOOLEAN
                           /\ (k <= l) \in BOOLEAN /\ (k > l) \in BOOLEAN /\ (k >= l) \in BOOLEAN
      OBVIOUS
    <3>3. m \in Int
      BY <1>2 DEF m
    <3>4. Compares(c.op, m, c.value) \in BOOLEAN
      BY <1>1, <3>1, <3>2, <3>3, Zenon DEF Relation
    <3> QED BY <3>4 DEF m
  <2> QED BY <1>1, <1>3, <1>4, <2>1
<1>6. CASE t = TRUE
  BY <1>2, <1>4, <1>5, <1>6 DEF Compares
<1>7. CASE t = FALSE
  BY <1>2, <1>4, <1>5, <1>7 DEF Compares
<1> QED BY <1>6, <1>7

\* On the edge on which c says that its variables are equal, they are.
LEMMA EqualityIsEqual ==
    ASSUME fn \in Function, NEW c \in fn.conds, c.kind = "equal", NEW e \in EnvSet,
           NEW taken \in ConditionValues(c, e), taken \in equalityEdge(c)
    PROVE  e.val[c.var] = e.val[c.with]
<1>1. c.op \in {"EQ", "NE"} /\ c.neg \in BOOLEAN
  BY ConditionParts
<1>2. taken = (Compares(c.op, e.val[c.var], e.val[c.with]) # c.neg)
  BY DEF ConditionValues
<1>3. taken = ((c.op = "EQ") # c.neg)
  BY DEF equalityEdge
<1>4. CASE c.op = "EQ"
  BY <1>1, <1>2, <1>3, <1>4 DEF Compares
<1>5. CASE c.op = "NE"
  BY <1>1, <1>2, <1>3, <1>5 DEF Compares
<1> QED BY <1>1, <1>4, <1>5

\* Variables linked to v by copies have its value.
LEMMA EquivalentsAreEqual ==
    ASSUME NEW S, WellFormed(S), NEW e, CopiesOK(S, e), NEW v \in Var, NEW w \in Equivalents(S, v)
    PROVE  e.val[w] = e.val[v]
<1> DEFINE K == {u \in Var : e.val[u] = e.val[v]}
<1>1. \A c \in S.copies : c.target \in Var /\ c.source \in Var
  BY StateParts DEF WellFormed
<1>2. \A c \in S.copies : c.target \in K <=> c.source \in K
  BY <1>1 DEF CopiesOK
<1>3. v \in K /\ K \in SUBSET Var
  OBVIOUS
<1>4. w \in K
  <2> HIDE DEF K
  <2> QED BY <1>2, <1>3 DEF Equivalents
<1> QED BY <1>4

\* Nothing that the function holds is dropped for a variable that stands for it.
NoMistake(S, e, c, T) ==
    \A o \in Origin :
        Held(e, o) /\ S.resources[o] # "None" /\ T.resources[o] = "None" =>
            \E v \in {c.var, c.with} \cap Var :
                o \in bindingFor(S, v).origins /\ e.last[o] = e.val[v]

\* The edge taken keeps a state true.
LEMMA RefineAgrees ==
    ASSUME fn \in Function, NEW c \in fn.conds, NEW S, WellFormed(S), NEW e \in EnvSet,
           NEW taken \in ConditionValues(c, e), Agrees(S, e),
           NoMistake(S, e, c, refineOnEdge(S, c, taken))
    PROVE  /\ Agrees(refineOnEdge(S, c, taken), e)
           /\ Exact(S, e) => Exact(refineOnEdge(S, c, taken), e)
<1> DEFINE T == refineOnEdge(S, c, taken)
<1>1. taken \in BOOLEAN
  <2>1. c.kind = "constant" => taken = (Compares(c.op, e.val[c.var], c.value) # c.neg)
    BY DEF ConditionValues
  <2>2. c.kind = "equal" => taken = (Compares(c.op, e.val[c.var], e.val[c.with]) # c.neg)
    BY DEF ConditionValues
  <2>3. c.kind \notin {"constant", "equal"} => taken \in BOOLEAN
    BY DEF ConditionValues
  <2> QED BY <2>1, <2>2, <2>3
<1>2. \/ taken \in failureEdge(c) /\ c.kind = "constant" /\ FailureFacts(S, T, c)
      \/ taken \in equalityEdge(c) /\ c.kind = "equal" /\ EqualityFacts(S, T, c)
      \/ T = S
  BY <1>1, RefineCases
<1> HIDE DEF T
<1>3. NoMistake(S, e, c, T)
  BY DEF T
<1>4. CASE taken \in failureEdge(c) /\ c.kind = "constant" /\ FailureFacts(S, T, c)
  <2>1. e.val[c.var] < 0 /\ c.var \in Var /\ c.with = NoVar
    BY <1>4, FailureIsNegative, ConditionParts
  <2>2. RefinedBy(S, T, bindingFor(S, c.var).origins, Equivalents(S, c.var))
    BY <1>4 DEF FailureFacts
  <2>3. ASSUME NEW o \in Origin, Held(e, o) PROVE T.resources[o] \in {"Open", "Escaped"}
    <3>1. S.resources[o] \in {"Open", "Escaped"}
      BY <2>3 DEF Agrees, Covers
    <3>2. CASE T.resources[o] = "None"
      <4>1. PICK v \in {c.var, c.with} \cap Var : e.last[o] = e.val[v]
        BY <1>3, <2>3, <3>1, <3>2 DEF NoMistake
      <4>2. e.last[o] < 0
        BY <2>1, <4>1, FdAssumption
      <4>3. e.last[o] >= 0 /\ e.last[o] \in Int
        BY <2>3, HeldNumber, FdAssumption DEF Fd
      <4> QED BY <4>2, <4>3
    <3>3. CASE T.resources[o] # "None"
      BY <2>2, <3>1, <3>3 DEF RefinedBy
    <3> QED BY <3>2, <3>3
  <2>4. NegativeOK(T, e)
    <3>1. \A w \in Equivalents(S, c.var) : e.val[w] = e.val[c.var]
      BY <2>1, EquivalentsAreEqual DEF Agrees
    <3> QED BY <2>1, <2>2, <3>1 DEF Agrees, NegativeOK, RefinedBy
  <2>5. CopiesOK(T, e) /\ WitnessesOK(T, e)
    BY <2>2 DEF Agrees, CopiesOK, WitnessesOK, RefinedBy
  <2>6. Exact(S, e) => Exact(T, e)
    <3>1. \A v \in Var : bindingFor(T, v) = bindingFor(S, v)
      BY <2>2 DEF bindingFor, RefinedBy
    <3>2. \A o \in Origin : T.resources[o] = "Open" => S.resources[o] = "Open"
      BY <2>2 DEF RefinedBy
    <3> QED BY <3>1, <3>2 DEF Exact, OpenIsReal, BindingsExact
  <2> QED BY <2>3, <2>4, <2>5, <2>6 DEF Agrees, Covers, T
<1>5. CASE taken \in equalityEdge(c) /\ c.kind = "equal" /\ EqualityFacts(S, T, c)
  <2>1. e.val[c.var] = e.val[c.with] /\ c.var \in Var /\ c.with \in Var
    BY <1>5, EqualityIsEqual, ConditionParts
  <2> DEFINE D == Dropped(S, c.var, c.with) \cup Dropped(S, c.with, c.var)
  <2>2. RefinedBy(S, T, D, {})
    BY <1>5 DEF EqualityFacts
  <2>3. ASSUME NEW o \in Origin, Held(e, o), o \in D PROVE e.val[c.var] < 0
    <3>1. PICK w \in {c.var, c.with} : w \in S.negative \/ (o \in DOMAIN S.witnesses /\ w \in S.witnesses[o])
      BY <2>3 DEF Dropped
    <3>2. e.val[w] < 0
      BY <2>3, <3>1 DEF Agrees, NegativeOK, WitnessesOK
    <3> QED BY <2>1, <3>1, <3>2
  <2> HIDE DEF D
  <2>4. ASSUME NEW o \in Origin, Held(e, o) PROVE T.resources[o] \in {"Open", "Escaped"}
    <3>1. S.resources[o] \in {"Open", "Escaped"}
      BY <2>4 DEF Agrees, Covers
    <3>2. CASE o \in D
      <4>1. T.resources[o] = "None"
        BY <2>2, <3>2 DEF RefinedBy
      <4>2. PICK v \in {c.var, c.with} \cap Var : e.last[o] = e.val[v]
        BY <1>3, <2>4, <3>1, <4>1 DEF NoMistake
      <4>3. e.last[o] < 0
        BY <2>1, <2>3, <2>4, <3>2, <4>2
      <4>4. e.last[o] >= 0 /\ e.last[o] \in Int
        BY <2>4, HeldNumber, FdAssumption DEF Fd
      <4> QED BY <4>3, <4>4
    <3>3. CASE o \notin D
      BY <2>2, <3>1, <3>3 DEF RefinedBy
    <3> QED BY <3>2, <3>3
  <2>5. NegativeOK(T, e) /\ CopiesOK(T, e) /\ WitnessesOK(T, e)
    BY <2>2 DEF Agrees, NegativeOK, CopiesOK, WitnessesOK, RefinedBy
  <2>6. Exact(S, e) => Exact(T, e)
    <3>1. \A v \in Var : bindingFor(T, v) = bindingFor(S, v)
      BY <2>2 DEF bindingFor, RefinedBy
    <3>2. \A o \in Origin : T.resources[o] = "Open" => S.resources[o] = "Open"
      BY <2>2 DEF RefinedBy
    <3> QED BY <3>1, <3>2 DEF Exact, OpenIsReal, BindingsExact
  <2> QED BY <2>4, <2>5, <2>6 DEF Agrees, Covers, T
<1>6. CASE T = S
  BY <1>6 DEF T
<1> QED BY <1>2, <1>4, <1>5, <1>6

\* A merge only weakens: what one side says truly, the merged state says truly.
LEMMA MergeAgrees ==
    ASSUME NEW S, WellFormed(S), NEW T, WellFormed(T), NEW e, Agrees(S, e)
    PROVE  Agrees(mergeStates(S, T), e)
<1> DEFINE M == mergeStates(S, T)
<1>1. Merges(S, T, M)
  BY MergeFacts
<1> HIDE DEF M
<1>2. Covers(M, e)
  <2>1. \A a, b : a \in {"Open", "Escaped"} => mergeLife(a, b) \in {"Open", "Escaped"}
    BY DEF mergeLife
  <2> QED BY <1>1, <2>1 DEF Agrees, Covers, Merges
<1>3. NegativeOK(M, e) /\ CopiesOK(M, e)
  BY <1>1 DEF Agrees, NegativeOK, CopiesOK, Merges
<1>4. WitnessesOK(M, e)
  <2> SUFFICES ASSUME NEW o \in DOMAIN M.witnesses, Held(e, o), NEW v \in M.witnesses[o]
               PROVE  e.val[v] < 0
    BY DEF WitnessesOK
  <2>1. o \in Origin
    <3>1. DOMAIN S.witnesses \subseteq Origin /\ DOMAIN T.witnesses \subseteq Origin
      BY StateParts DEF WellFormed
    <3> QED BY <1>1, <3>1 DEF Merges
  <2>2. S.resources[o] # "None"
    BY <2>1 DEF Agrees, Covers
  <2>3. o \in DOMAIN S.witnesses
    BY <1>1, <2>2 DEF Merges
  <2>4. v \in mergeWitnesses(S, T, o)
    BY <1>1 DEF Merges
  <2>5. v \in S.witnesses[o]
    <3> DEFINE live == {R \in {S, T} : R.resources[o] # "None"}
               known == {R \in live : o \in DOMAIN R.witnesses}
    <3>1. S \in known
      BY <2>2, <2>3
    <3>2. v \in IF live = {} \/ known # live THEN {} ELSE {u \in Var : \A R \in known : u \in R.witnesses[o]}
      BY <2>4 DEF mergeWitnesses
    <3> HIDE DEF known, live
    <3> QED BY <3>1, <3>2
  <2> QED BY <2>3, <2>5 DEF Agrees, WitnessesOK
<1> QED BY <1>2, <1>3, <1>4 DEF Agrees, M

-----------------------------------------------------------------------------
(* The inductive invariant *)

LEMMA ShapeParts ==
    ASSUME Shape
    PROVE  WellFormed(state) /\ WellFormed(other) /\ env \in EnvSet /\ fn \in Function
BY DEF Shape, WellFormed

LEMMA EmptyWellFormed == WellFormed(EmptyState)
<1> DEFINE S == EmptyState
<1>1. S \in StateSet
  <2> DEFINE r == [o \in Origin |-> "None"]
             m == <<>>
             k == {}
  <2>1. r \in [Origin -> Life] /\ k \in SUBSET Var /\ k \in SUBSET [target : Var, source : Var]
    BY DEF Life
  <2>2. /\ m \in UNION {[D -> Binding] : D \in SUBSET Var}
        /\ m \in UNION {[D -> SUBSET Var] : D \in SUBSET Origin}
    <3>1. m \in [{} -> Binding] /\ m \in [{} -> SUBSET Var]
      OBVIOUS
    <3>2. {} \in SUBSET Var /\ {} \in SUBSET Origin
      OBVIOUS
    <3> HIDE DEF m
    <3> QED BY <3>1, <3>2
  <2>3. S = [resources |-> r, bindings |-> m, negative |-> k, copies |-> k, witnesses |-> m]
    BY DEF EmptyState
  <2> HIDE DEF r, m, k, S
  <2>4. Parts(r, m, k, k, m)
    BY <2>1, <2>2 DEF Parts
  <2> QED BY <2>3, <2>4, StateMade
<1>2. CopyShape(S) /\ Assigned(S)
  <2>1. S.copies = {} /\ DOMAIN S.witnesses = {}
    BY DEF EmptyState
  <2> HIDE DEF S
  <2> QED BY <2>1 DEF CopyShape, Assigned
<1> QED BY <1>1, <1>2 DEF WellFormed

LEMMA InitEstablishes == Init => IInv
<1> SUFFICES ASSUME Init PROVE IInv
  OBVIOUS
<1> DEFINE S == EmptyState
<1>1. state = S /\ other = S
  BY DEF Init
<1>2. S \in StateSet /\ CopyShape(S) /\ Assigned(S)
  BY EmptyWellFormed DEF WellFormed
<1>4. env \in EnvSet /\ \A o \in Origin : ~Held(env, o)
  <2> DEFINE q == [v \in Var |-> -1]
             m == <<>>
             l == [o \in Origin |-> -1]
             u == {}
             D == {}
  <2>1. q \in [Var -> Int] /\ D \in SUBSET Fd /\ m \in [D -> Origin]
        /\ l \in [Origin -> Fd \cup {-1}] /\ u \in SUBSET Int /\ DOMAIN m = {}
    OBVIOUS
  <2>2. env = [val |-> q, open |-> m, last |-> l, out |-> u]
    BY DEF Init
  <2> HIDE DEF q, m, l, u, D
  <2>3. env \in EnvSet
    BY <2>1, <2>2, EnvMade
  <2>4. DOMAIN env.open = {}
    BY <2>1, <2>2
  <2> QED BY <2>3, <2>4 DEF Held
<1>5. /\ fn \in Function /\ fn.bound \in Nat /\ steps = 0 /\ joining = FALSE /\ joined = FALSE
      /\ otherEnded = FALSE /\ ended = "no" /\ leaks = {}
  BY FunctionAssumption DEF Init
<1>6. Shape
  <2>1. steps \in 0 .. fn.bound
    BY <1>5
  <2>2. leaks \subseteq Origin /\ ended \in {"no", "returned", "exited"}
        /\ joining \in BOOLEAN /\ joined \in BOOLEAN /\ otherEnded \in BOOLEAN
    BY <1>5
  <2>3. /\ state \in StateSet /\ other \in StateSet
        /\ CopyShape(state) /\ CopyShape(other) /\ Assigned(state) /\ Assigned(other)
    BY <1>1, <1>2
  <2> HIDE DEF S
  <2> QED BY <1>4, <1>5, <2>1, <2>2, <2>3 DEF Shape
<1>7. Agrees(S, env)
  <2>1. S.negative = {} /\ S.copies = {} /\ DOMAIN S.witnesses = {}
    BY DEF EmptyState
  <2> HIDE DEF S
  <2> QED BY <1>4, <2>1 DEF Agrees, Covers, NegativeOK, CopiesOK, WitnessesOK
<1>8. Exact(S, env)
  <2>1. \A o \in Origin : S.resources[o] # "Open"
    BY DEF EmptyState
  <2>2. \A v \in Var : bindingFor(S, v) = Unknown
    <3>1. DOMAIN S.bindings = {}
      BY DEF EmptyState
    <3> HIDE DEF S
    <3> QED BY <3>1 DEF bindingFor
  <2>3. \A v \in Var : env.val[v] \notin Fd
    BY FdAssumption DEF Init, Fd
  <2> HIDE DEF S
  <2> QED BY <2>1, <2>2, <2>3 DEF Exact, OpenIsReal, BindingsExact, Unknown
<1>9. Truth
  BY <1>1, <1>7, <1>8 DEF Truth
<1> QED BY <1>5, <1>6, <1>9 DEF IInv, ReportOK

\* The state of the path not taken stays well formed whatever it does.
LEMMA NextShape ==
    ASSUME Shape, Next
    PROVE  Shape'
<1>1. WellFormed(state) /\ WellFormed(other) /\ env \in EnvSet /\ fn \in Function
  BY ShapeParts
<1>2. fn.bound \in Nat /\ steps \in 0 .. fn.bound
  BY <1>1, FunctionAssumption DEF Shape
<1>3. fn' = fn
  BY DEF Next, Statement, OtherStatement, Branch, Join, Exit
<1>4. steps' \in 0 .. fn.bound
  <2>1. CASE steps' = steps
    BY <1>2, <2>1
  <2>2. CASE Running /\ steps' = steps + 1
    BY <1>2, <2>2 DEF Running
  <2> QED BY <2>1, <2>2 DEF Next, Statement, OtherStatement, Branch, Join, Exit
<1>5. WellFormed(state)' /\ WellFormed(other)' /\ env' \in EnvSet
  <2>1. ASSUME NEW s \in fn.stmts, Statement(s)
        PROVE  WellFormed(state)' /\ WellFormed(other)' /\ env' \in EnvSet
    <3>1. WellFormed(transfer(state, s))
      BY <1>1, TransferKeeps
    <3>2. WellFormed(state)'
      BY <1>3, <2>1, <3>1 DEF Statement, WellFormed, CopyShape, Assigned, StateSet, Binding, Life
    <3>3. WellFormed(other)'
      BY <1>1, <1>3, <2>1 DEF Statement, WellFormed, CopyShape, Assigned
    <3>4. env' \in EnvSet
      BY <1>1, <2>1, EffectCases DEF Statement
    <3> QED BY <3>2, <3>3, <3>4
  <2>2. ASSUME NEW s \in fn.stmts, OtherStatement(s)
        PROVE  WellFormed(state)' /\ WellFormed(other)' /\ env' \in EnvSet
    <3>1. WellFormed(transfer(other, s))
      BY <1>1, TransferKeeps
    <3> QED BY <1>1, <1>3, <2>2, <3>1 DEF OtherStatement, WellFormed, CopyShape, Assigned
  <2>3. ASSUME NEW c \in fn.conds, NEW taken \in BOOLEAN, Branch(c, taken)
        PROVE  WellFormed(state)' /\ WellFormed(other)' /\ env' \in EnvSet
    <3>1. WellFormed(refineOnEdge(state, c, taken)) /\ WellFormed(refineOnEdge(state, c, ~taken))
      BY <1>1, RefineCases
    <3>2. WellFormed(state)'
      BY <1>3, <2>3, <3>1 DEF Branch, WellFormed, CopyShape, Assigned
    <3>3. WellFormed(other)'
      <4>1. CASE joining
        BY <1>1, <1>3, <2>3, <4>1 DEF Branch, WellFormed, CopyShape, Assigned
      <4>2. CASE ~joining
        BY <1>3, <2>3, <3>1, <4>2 DEF Branch, WellFormed, CopyShape, Assigned
      <4> QED BY <4>1, <4>2
    <3> QED BY <1>1, <2>3, <3>2, <3>3 DEF Branch
  <2>4. ASSUME Join
        PROVE  WellFormed(state)' /\ WellFormed(other)' /\ env' \in EnvSet
    <3>1. WellFormed(mergeStates(state, other))
      BY <1>1, MergeFacts
    <3>2. WellFormed(EmptyState)
      BY EmptyWellFormed
    <3> QED BY <1>1, <1>3, <2>4, <3>1, <3>2 DEF Join, WellFormed, CopyShape, Assigned
  <2>5. ASSUME Exit
        PROVE  WellFormed(state)' /\ WellFormed(other)' /\ env' \in EnvSet
    BY <1>1, <1>3, <2>5 DEF Exit, WellFormed, CopyShape, Assigned
  <2> QED BY <2>1, <2>2, <2>3, <2>4, <2>5 DEF Next
<1>6. /\ joining' \in BOOLEAN /\ joined' \in BOOLEAN /\ otherEnded' \in BOOLEAN
      /\ ended' \in {"no", "returned", "exited"} /\ leaks' \subseteq Origin
  <2>1. reportLeaks(state) \subseteq Origin
    BY DEF reportLeaks
  <2> QED BY <2>1 DEF Shape, Next, Statement, OtherStatement, Branch, Join, Exit
<1> QED BY <1>1, <1>3, <1>4, <1>5, <1>6 DEF Shape, WellFormed

\* A statement without notes meets what TransferAgrees asks for.
LEMMA StatementUnnoted ==
    ASSUME NEW s, StatementNotes(s) = {}
    PROVE  /\ s.kind # "bump"
           /\ ~(s.kind = "assign" /\ s.var \in Narrow /\ ResultIn(s, env, env') < 0)
           /\ s.kind \in {"call", "return"} \/ (s.kind = "assign" /\ s.var \notin Var) =>
                 (s.rhs.var # NoVar => Fresh(state, env, s.rhs.var))
<1>1. Result(s) = ResultIn(s, env, env')
  BY DEF Result, ResultIn
<1>2. s.kind # "bump" /\ ~(s.kind = "assign" /\ s.var \in Narrow /\ Result(s) < 0)
  BY DEF StatementNotes, Note
<1>3. ASSUME s.kind \in {"call", "return"} \/ (s.kind = "assign" /\ s.var \notin Var), s.rhs.var # NoVar
      PROVE  Fresh(state, env, s.rhs.var)
  <2>1. ~Stale(s.rhs.var)
    BY <1>3 DEF StatementNotes, Note
  <2> QED BY <2>1 DEF Stale, Fresh
<1> QED BY <1>1, <1>2, <1>3

LEMMA BranchUnnoted ==
    ASSUME NEW c, NEW taken, ConditionNotes(c, taken) = {}
    PROVE  NoMistake(state, env, c, refineOnEdge(state, c, taken))
<1> DEFINE T == refineOnEdge(state, c, taken)
           Mistake(o) == /\ Held(env, o) /\ state.resources[o] # "None" /\ T.resources[o] = "None"
                         /\ \A v \in {c.var, c.with} \cap Var :
                                o \in bindingFor(state, v).origins => env.last[o] # env.val[v]
<1>1. ConditionNotes(c, taken) = Note("mistaken", \E o \in Origin : Mistake(o))
  BY DEF ConditionNotes
<1>2. ~\E o \in Origin : Mistake(o)
  <2> HIDE DEF Mistake
  <2> QED BY <1>1 DEF Note
<1> HIDE DEF T
<1> QED BY <1>2 DEF NoMistake, T

\* What the state says stays true, merges included.
LEMMA NextTruth ==
    ASSUME Shape, Truth, Next
    PROVE  Truth'
<1> SUFFICES ASSUME outside' = {}
             PROVE  Agrees(state', env') /\ (~joined' => Exact(state', env'))
  BY DEF Truth, Agrees, Covers, NegativeOK, CopiesOK, WitnessesOK, Exact, OpenIsReal, BindingsExact,
         Held, bindingFor
<1>1. WellFormed(state) /\ WellFormed(other) /\ env \in EnvSet /\ fn \in Function
  BY ShapeParts
<1>2. ASSUME NEW s \in fn.stmts, Statement(s)
      PROVE  Agrees(state', env') /\ (~joined' => Exact(state', env'))
  <2>1. outside = {} /\ StatementNotes(s) = {}
    BY <1>2 DEF Statement
  <2>2. Agrees(state, env) /\ (~joined => Exact(state, env))
    BY <2>1 DEF Truth
  <2>3. s.kind \in {"assign", "return", "call", "bump"} /\ s.rhs \in Operand
    BY <1>1, StatementParts
  <2>4. /\ s.kind # "bump"
        /\ ~(s.kind = "assign" /\ s.var \in Narrow /\ ResultIn(s, env, env') < 0)
        /\ ~(s.kind = "assign" /\ s.var \in Var) /\ s.rhs.var # NoVar => Fresh(state, env, s.rhs.var)
    BY <2>1, <2>3, StatementUnnoted
  <2>5. env' \in Effect(s, env) /\ state' = transfer(state, s) /\ joined' = joined
    BY <1>2 DEF Statement
  <2>6. s.kind = "assign" /\ s.var \in Narrow => ResultIn(s, env, env') >= 0
    <3> SUFFICES ASSUME s.kind = "assign", s.var \in Narrow PROVE ResultIn(s, env, env') >= 0
      OBVIOUS
    <3>1. s.var \in Var
      BY FdAssumption
    <3>2. PICK g, n : Evaluates(env, g, s.rhs, n) /\ Sets(g, env', s.var, Stored(s.var, n))
      BY <1>1, <2>5, <3>1, EffectCases
    <3>3. ResultIn(s, env, env') = n /\ n \in Int
      BY <3>2 DEF ResultIn, Evaluates, Acquires, Sets
    <3> QED BY <2>4, <3>3
  <2>7. /\ Agrees(transfer(state, s), env')
        /\ Exact(state, env) => Exact(transfer(state, s), env')
    BY <1>1, <2>2, <2>4, <2>5, <2>6, TransferAgrees
  <2> QED BY <2>2, <2>5, <2>7
<1>3. ASSUME NEW s \in fn.stmts, OtherStatement(s)
      PROVE  Agrees(state', env') /\ (~joined' => Exact(state', env'))
  <2>1. outside = {} /\ state' = state /\ env' = env /\ joined' = joined
    BY <1>3 DEF OtherStatement
  <2> QED BY <2>1 DEF Truth
<1>4. ASSUME NEW c \in fn.conds, NEW taken \in BOOLEAN, Branch(c, taken)
      PROVE  Agrees(state', env') /\ (~joined' => Exact(state', env'))
  <2>1. outside = {} /\ ConditionNotes(c, taken) = {}
    BY <1>4 DEF Branch
  <2>2. Agrees(state, env) /\ (~joined => Exact(state, env))
    BY <2>1 DEF Truth
  <2>3. taken \in ConditionValues(c, env) /\ state' = refineOnEdge(state, c, taken)
        /\ env' = env /\ joined' = joined
    BY <1>4 DEF Branch
  <2>4. /\ Agrees(refineOnEdge(state, c, taken), env)
        /\ Exact(state, env) => Exact(refineOnEdge(state, c, taken), env)
    BY <1>1, <2>1, <2>2, <2>3, BranchUnnoted, RefineAgrees
  <2> QED BY <2>2, <2>3, <2>4
<1>5. ASSUME Join
      PROVE  Agrees(state', env') /\ (~joined' => Exact(state', env'))
  <2>1. outside = {} /\ state' = mergeStates(state, other) /\ env' = env /\ joined'
    BY <1>5 DEF Join
  <2>2. Agrees(mergeStates(state, other), env)
    BY <1>1, <2>1, MergeAgrees DEF Truth
  <2> QED BY <2>1, <2>2
<1>6. ASSUME Exit
      PROVE  Agrees(state', env') /\ (~joined' => Exact(state', env'))
  <2>1. outside = {} /\ state' = state /\ env' = env /\ joined' = joined
    BY <1>6 DEF Exit
  <2> QED BY <2>1 DEF Truth
<1> QED BY <1>2, <1>3, <1>4, <1>5, <1>6 DEF Next

\* What was reported is what was open at the exit.
LEMMA NextReport ==
    ASSUME ReportOK, Next
    PROVE  ReportOK'
<1>1. ended' = "exited" /\ ended # "exited" => leaks' = reportLeaks(state) /\ state' = state
  BY DEF Next, Statement, OtherStatement, Branch, Join, Exit
<1>2. ended = "exited" => leaks' = leaks /\ state' = state /\ ended' = ended
  BY DEF Next, Statement, OtherStatement, Branch, Join, Exit
<1> QED BY <1>1, <1>2 DEF ReportOK, reportLeaks

\* IInv is inductive: every state of every execution satisfies it.
THEOREM Inductive == Spec => []IInv
<1>1. Init => IInv
  BY InitEstablishes
<1>2. IInv /\ [Next]_vars => IInv'
  <2> SUFFICES ASSUME IInv, [Next]_vars PROVE IInv'
    OBVIOUS
  <2>1. CASE Next
    BY <2>1, NextShape, NextTruth, NextReport DEF IInv
  <2>2. CASE UNCHANGED vars
    BY <2>2 DEF vars, IInv, Shape, CopyShape, Assigned, Truth, Agrees, Covers, NegativeOK, CopiesOK,
                WitnessesOK, Exact, OpenIsReal, BindingsExact, Held, bindingFor, ReportOK, reportLeaks
  <2> QED BY <2>1, <2>2
<1> QED BY <1>1, <1>2, PTL DEF Spec

-----------------------------------------------------------------------------
(* The theorems *)

\* Types: in particular a variable is the copy of at most one other, and never of
\* itself, which the map of copies in the code gives by construction.
THEOREM TypesHold == Spec => []TypeOK
<1>1. ASSUME NEW S, WellFormed(S)
      PROVE  StateType(S)
  <2>1. /\ S.resources \in [Origin -> Life]
        /\ DOMAIN S.bindings \subseteq Var /\ S.bindings \in [DOMAIN S.bindings -> Binding]
        /\ S.negative \subseteq Var
        /\ S.copies \subseteq [target : Var, source : Var]
        /\ DOMAIN S.witnesses \subseteq Origin /\ S.witnesses \in [DOMAIN S.witnesses -> SUBSET Var]
    BY <1>1, StateParts DEF WellFormed
  <2>2. ASSUME NEW v \in Var
        PROVE  Cardinality({c \in S.copies : c.target = v}) <= 1
    <3> DEFINE C == {c \in S.copies : c.target = v}
    <3>1. \A c, d \in C : c = d
      BY <1>1 DEF WellFormed, CopyShape
    <3>2. CASE C = {}
      BY <3>2, FS_EmptySet
    <3>3. CASE C # {}
      <4>1. PICK c \in C : TRUE
        BY <3>3
      <4>2. C = {c}
        BY <3>1, <4>1
      <4> HIDE DEF C
      <4>3. Cardinality(C) = 1
        BY <4>2, FS_Singleton
      <4> QED BY <4>3 DEF C
    <3> QED BY <3>2, <3>3
  <2> QED BY <2>1, <2>2 DEF StateType, Binding
<1>2. IInv => TypeOK
  <2> SUFFICES ASSUME IInv PROVE TypeOK
    OBVIOUS
  <2>1. Shape /\ WellFormed(state) /\ WellFormed(other)
    BY ShapeParts DEF IInv
  <2>2. \A c \in state.copies : c.target # c.source
    BY <2>1 DEF WellFormed, CopyShape
  <2> QED BY <1>1, <2>1, <2>2 DEF TypeOK, Shape
<1> QED BY <1>2, Inductive, PTL

\* What the analysis knows is true of the execution, on every path and after every
\* merge: mergeStates, forgetValue and the witnesses never leave a fact that is not.
THEOREM CoveredAlways == Spec => []Covered
<1>1. IInv => Covered
  BY DEF IInv, Truth, Agrees, Covers, NegativeOK, CopiesOK, WitnessesOK, Covered
<1> QED BY <1>1, Inductive, PTL

\* No descriptor that the function has at its end is passed over, unless its origin
\* has escaped.
THEOREM LeaksAreReported == Spec => []LeakReported
<1>1. IInv => LeakReported
  BY DEF IInv, Truth, Agrees, Covers, ReportOK, reportLeaks, LeakReported
<1> QED BY <1>1, Inductive, PTL

\* On a path without merges, a report is a descriptor that the function has or the
\* failure of a call that nobody tested.
THEOREM LeaksAreReal == Spec => []LeakIsReal
<1>1. IInv => LeakIsReal
  BY DEF IInv, Truth, Exact, OpenIsReal, ReportOK, reportLeaks, LeakIsReal
<1> QED BY <1>1, Inductive, PTL

=============================================================================
