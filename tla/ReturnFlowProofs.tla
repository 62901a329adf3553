-------------------------- MODULE ReturnFlowProofs --------------------------
(***************************************************************************)
(* Proofs about module ReturnFlow, for every function whose text is typed  *)
(* as ProgramAssumption says, of every length, with expressions of every   *)
(* depth, any variables, integers and blocks, and executions of every      *)
(* length.                                                                 *)
(*                                                                         *)
(* The argument: a round of the dataflow never says more than the states   *)
(* that are handed to a statement, and keeps every alarm justified by the  *)
(* text (FlowInv). Once it is solved, the state before the statement that  *)
(* comes next is true of the variables (Truth): what is not bad is not     *)
(* null or zero, what has an origin holds that argument, what is owned is  *)
(* a block that only the function has. Each statement takes the truth      *)
(* along, because the state after it weakens what the statement makes of   *)
(* the state before it (FlowHands, WeakerTrue), and what the harvest does  *)
(* not see is noted in outside before it does harm.                        *)
(*                                                                         *)
(* Two more things are true on the way. Parameters that nothing writes     *)
(* still hold their arguments (Unwritten), which is what the claims from   *)
(* the text rest on. And a part of the text that is entered through a      *)
(* condition only is not reached, unless the condition was met (Entered):  *)
(* the steps but that one do not lead there (Leads). Neither follows from  *)
(* the claims themselves.                                                  *)
(*                                                                         *)
(* What an expression is worth is a chain of wraps from the leaf outwards  *)
(* (Layers); what is said of it is another (VStates, Owners, Slots). Both  *)
(* are unfolded once, and then compared link by link (Outwards, Inwards).  *)
(***************************************************************************)
EXTENDS ReturnFlow, FiniteSetTheorems, TLAPS

-----------------------------------------------------------------------------
(* Finite sets *)

\* Among subsets of a finite set one is smallest.
LEMMA SmallestSubset ==
    ASSUME NEW S, IsFiniteSet(S), NEW T, T \subseteq SUBSET S, T # {}
    PROVE  \E x \in T : \A y \in T : y \subseteq x => y = x
<1>1. IsWellFoundedOn(StrictSubsetOrdering(S), FiniteSubsetsOf(S)) /\ FiniteSubsetsOf(S) = SUBSET S
  BY FS_StrictSubsetOrderingWellFounded, FS_FiniteSubsetsOfFinite
<1>2. PICK x \in T : \A y \in T : ~ (<<y, x>> \in StrictSubsetOrdering(S))
  BY <1>1, WFMin
<1>3. \A y \in T : y \subseteq x => y = x
  BY <1>2 DEF StrictSubsetOrdering
<1> QED BY <1>3

\* What a function makes of a finite set is finite.
LEMMA FiniteImage ==
    ASSUME NEW S, IsFiniteSet(S), NEW f, DOMAIN f = S
    PROVE  IsFiniteSet({f[x] : x \in S})
<1>1. [x \in S |-> f[x]] \in Surjection(S, {f[x] : x \in S})
  BY DEF Surjection
<1> QED BY <1>1, FS_Surjection DEF ExistsSurjection

-----------------------------------------------------------------------------
(* Bounded induction, with a set instead of a predicate *)

\* A set that holds 0 and is closed under successor below n holds 0..n.
LEMMA UpTo ==
    ASSUME NEW n \in Nat, NEW S, 0 \in S,
           \A m \in 0 .. n : m # n /\ m \in S => m + 1 \in S
    PROVE  \A m \in 0 .. n : m \in S
<1> DEFINE Bad == {m \in Nat : m <= n /\ m \notin S}
<1> SUFFICES ASSUME Bad # {} PROVE FALSE
  OBVIOUS
<1>1. PICK m \in Bad : \A k \in Bad : ~ (<<k, m>> \in OpToRel(<, Nat))
  BY NatLessThanWellFounded, WFMin
<1>2. \A k \in Bad : m <= k
  <2> TAKE k \in Bad
  <2>1. ~(k < m)
    BY <1>1 DEF OpToRel
  <2> QED BY <2>1
<1>3. m - 1 \in 0 .. n /\ m - 1 # n /\ m - 1 \notin Bad
  BY <1>2
<1> QED BY <1>2, <1>3

-----------------------------------------------------------------------------
(* A fold over a finite set has a value *)

Pick(s) == CHOOSE x \in s : TRUE
Rest(s) == s \ {Pick(s)}

\* A set is its pick and the rest.
LEMMA PickRest == \A s : s # {} => Pick(s) \in s /\ Rest(s) \subseteq s /\ Pick(s) \notin Rest(s)
BY DEF Pick, Rest

FoldsOn(f, T, A, base, G) ==
    /\ f \in [SUBSET T -> A]
    /\ \A s \in SUBSET T : f[s] = IF s = {} THEN base ELSE G[<<Pick(s), f[Rest(s)]>>]

\* Two folds of one step agree where both are defined.
LEMMA FoldUnique ==
    ASSUME NEW U, NEW W, IsFiniteSet(U), W \subseteq U, NEW A, NEW base, NEW G,
           NEW f, NEW g, FoldsOn(f, U, A, base, G), FoldsOn(g, W, A, base, G)
    PROVE  \A s \in SUBSET W : f[s] = g[s]
<1> DEFINE Bad == {s \in SUBSET W : f[s] # g[s]}
<1> SUFFICES ASSUME Bad # {} PROVE FALSE
  OBVIOUS
<1>0. IsFiniteSet(W) /\ Bad \subseteq SUBSET W
  BY FS_Subset
<1>1. PICK s \in Bad : \A y \in Bad : y \subseteq s => y = s
  <2> HIDE DEF Bad
  <2> QED BY <1>0, SmallestSubset
<1>2. s # {} /\ s \in SUBSET W /\ s \in SUBSET U
  BY DEF FoldsOn
<1>3. Rest(s) \subseteq s /\ Rest(s) # s
  BY <1>2, PickRest
<1>4. Rest(s) \notin Bad
  BY <1>1, <1>3
<1>5. f[Rest(s)] = g[Rest(s)]
  BY <1>2, <1>3, <1>4
<1>6. f[s] = G[<<Pick(s), f[Rest(s)]>>] /\ g[s] = G[<<Pick(s), g[Rest(s)]>>]
  BY <1>2 DEF FoldsOn
<1> QED BY <1>5, <1>6

\* A step has a fold over every finite set.
LEMMA FoldExists ==
    ASSUME NEW S, IsFiniteSet(S), NEW A, NEW base \in A, NEW G, G \in [S \X A -> A]
    PROVE  \E f : FoldsOn(f, S, A, base, G)
<1> DEFINE Bad == {T \in SUBSET S : ~ \E f : FoldsOn(f, T, A, base, G)}
<1> SUFFICES ASSUME Bad # {} PROVE FALSE
  OBVIOUS
<1>1. PICK T \in Bad : \A y \in Bad : y \subseteq T => y = T
  <2>1. Bad \subseteq SUBSET S
    OBVIOUS
  <2> HIDE DEF Bad
  <2> QED BY <2>1, SmallestSubset
<1>2. T \in SUBSET S /\ ~ \E f : FoldsOn(f, T, A, base, G)
  OBVIOUS
<1> DEFINE F(U) == CHOOSE f : FoldsOn(f, U, A, base, G)
<1>3. \A U \in SUBSET T : U # T => FoldsOn(F(U), U, A, base, G)
  BY <1>1
<1> DEFINE h == [s \in SUBSET T |-> IF s = {} THEN base ELSE G[<<Pick(s), F(Rest(s))[Rest(s)]>>]]
<1>4. \A s \in SUBSET T : s # {} => Rest(s) \in SUBSET T /\ Rest(s) # T /\ Rest(s) \in SUBSET s /\ Pick(s) \in S
  BY <1>2, PickRest
<1>5. \A s \in SUBSET T : s # {} => F(Rest(s))[Rest(s)] \in A
  <2> TAKE s \in SUBSET T
  <2> HAVE s # {}
  <2>1. FoldsOn(F(Rest(s)), Rest(s), A, base, G)
    BY <1>3, <1>4
  <2> HIDE DEF F
  <2> QED BY <2>1 DEF FoldsOn
<1>6. h \in [SUBSET T -> A]
  <2> HIDE DEF F
  <2> QED BY <1>4, <1>5
<1>7. ASSUME NEW r \in SUBSET T, r # T
      PROVE  F(r)[r] = h[r]
  <2>1. FoldsOn(F(r), r, A, base, G) /\ r \in SUBSET r
    BY <1>3, <1>7
  <2>2. CASE r = {}
    <3> HIDE DEF F
    <3> QED BY <2>1, <2>2 DEF FoldsOn
  <2>3. CASE r # {}
    <3>1. FoldsOn(F(Rest(r)), Rest(r), A, base, G) /\ Rest(r) \subseteq r
      BY <1>3, <1>4, <1>7, <2>3
    <3>2. IsFiniteSet(r)
      BY <1>2, FS_Subset
    <3> HIDE DEF F
    <3>3. F(r)[Rest(r)] = F(Rest(r))[Rest(r)]
      BY <2>1, <3>1, <3>2, FoldUnique
    <3>4. F(r)[r] = G[<<Pick(r), F(r)[Rest(r)]>>]
      BY <2>1, <2>3 DEF FoldsOn
    <3> QED BY <2>3, <3>3, <3>4, <1>7
  <2> QED BY <2>2, <2>3
<1>8. \A s \in SUBSET T : h[s] = IF s = {} THEN base ELSE G[<<Pick(s), h[Rest(s)]>>]
  <2> TAKE s \in SUBSET T
  <2>1. CASE s = {}
    BY <2>1
  <2>2. CASE s # {}
    <3>1. F(Rest(s))[Rest(s)] = h[Rest(s)]
      BY <1>4, <1>7, <2>2
    <3> HIDE DEF F
    <3>2. h[s] = G[<<Pick(s), F(Rest(s))[Rest(s)]>>]
      BY <2>2
    <3> QED BY <2>2, <3>1, <3>2
  <2> QED BY <2>1, <2>2
<1>9. FoldsOn(h, T, A, base, G)
  <2> HIDE DEF h
  <2> QED BY <1>6, <1>8 DEF FoldsOn
<1> QED BY <1>2, <1>9

\* What holds of the empty set, and of a set if of the rest of it, holds of every subset.
LEMMA RestInduction ==
    ASSUME NEW S, IsFiniteSet(S), NEW R, {} \in R,
           \A T \in SUBSET S : T # {} /\ Rest(T) \in R => T \in R
    PROVE  S \in R
<1> DEFINE Bad == {T \in SUBSET S : T \notin R}
<1> SUFFICES ASSUME Bad # {} PROVE FALSE
  OBVIOUS
<1>1. PICK T \in Bad : \A y \in Bad : y \subseteq T => y = T
  <2>1. Bad \subseteq SUBSET S
    OBVIOUS
  <2> HIDE DEF Bad
  <2> QED BY <2>1, SmallestSubset
<1>2. T # {} /\ Rest(T) \subseteq T /\ Rest(T) # T
  BY PickRest
<1>3. Rest(T) \in R
  BY <1>1, <1>2
<1> QED BY <1>2, <1>3

-----------------------------------------------------------------------------
(* From the leaf of a value outwards *)

\* What holds of the leaf, at n + 1, and of a wrap if of what it wraps, holds throughout.
LEMMA Outwards ==
    ASSUME NEW n \in Nat, NEW S, n + 1 \in S, \A k \in 1 .. n : k + 1 \in S => k \in S
    PROVE  \A k \in 1 .. n + 1 : k \in S
<1> DEFINE T == {m \in 0 .. n : n + 1 - m \in S}
<1>1. 0 \in T
  OBVIOUS
<1>2. ASSUME NEW m \in 0 .. n, m # n, m \in T PROVE m + 1 \in T
  <2>1. n - m \in 1 .. n /\ (n - m) + 1 = n + 1 - m
    BY <1>2
  <2>2. n - m \in S
    BY <1>2, <2>1
  <2> QED BY <2>2, <1>2
<1>3. \A m \in 0 .. n : m \in T
  <2> HIDE DEF T
  <2> QED BY <1>1, <1>2, UpTo
<1>4. ASSUME NEW k \in 1 .. n + 1 PROVE k \in S
  <2>1. n + 1 - k \in 0 .. n /\ n + 1 - (n + 1 - k) = k
    OBVIOUS
  <2> QED BY <1>3, <2>1
<1> QED BY <1>4

Chains(f, n, A, base, step) ==
    /\ f \in [1 .. n + 1 -> A]
    /\ f[n + 1] = base
    /\ \A k \in 1 .. n : f[k] = step[k][f[k + 1]]

\* A chain of steps has values.
LEMMA Chain ==
    ASSUME NEW n \in Nat, NEW A, NEW base \in A, NEW step \in [1 .. n -> [A -> A]]
    PROVE  \E f : Chains(f, n, A, base, step)
<1> DEFINE Down(f, k) == f[n + 1] = base /\ \A i \in k .. n : f[i] = step[i][f[i + 1]]
           S == {k \in 1 .. n + 1 : \E f \in [k .. n + 1 -> A] : Down(f, k)}
<1>1. n + 1 \in S
  <2> DEFINE g == [i \in n + 1 .. n + 1 |-> base]
  <2>1. g \in [n + 1 .. n + 1 -> A] /\ Down(g, n + 1)
    OBVIOUS
  <2>2. n + 1 \in 1 .. n + 1
    OBVIOUS
  <2> HIDE DEF g
  <2> QED BY <2>1, <2>2, Zenon
<1>2. ASSUME NEW k \in 1 .. n, k + 1 \in S
      PROVE  k \in S
  <2>1. PICK f \in [k + 1 .. n + 1 -> A] : Down(f, k + 1)
    BY <1>2
  <2> DEFINE g == [i \in k .. n + 1 |-> IF i = k THEN step[k][f[k + 1]] ELSE f[i]]
  <2>2. f[k + 1] \in A /\ step[k][f[k + 1]] \in A
    <3>1. k + 1 \in k + 1 .. n + 1
      OBVIOUS
    <3>2. f[k + 1] \in A
      BY <3>1
    <3> QED BY <3>2
  <2>3. g \in [k .. n + 1 -> A]
    BY <2>2
  <2>4. ASSUME NEW i \in k .. n PROVE g[i] = step[i][g[i + 1]]
    <3>1. CASE i = k
      BY <3>1
    <3>2. CASE i \in k + 1 .. n
      <4>1. f[i] = step[i][f[i + 1]]
        BY <2>1, <3>2
      <4>2. g[i] = f[i] /\ g[i + 1] = f[i + 1]
        BY <3>2
      <4> QED BY <4>1, <4>2
    <3> QED BY <3>1, <3>2
  <2>5. g[n + 1] = base /\ k \in 1 .. n + 1
    BY <2>1
  <2> HIDE DEF g
  <2> QED BY <2>3, <2>4, <2>5, Zenon
<1>3. 1 \in S
  <2> HIDE DEF S
  <2>1. \A k \in 1 .. n + 1 : k \in S
    BY <1>1, <1>2, Outwards
  <2> QED BY <2>1
<1> QED BY <1>3 DEF Chains

-----------------------------------------------------------------------------
(* The recursive functions of ReturnStates and ReturnFlow, unfolded *)

\* The equations of a chain, where they are defined.
Links(g, n, A, base, step) == g[n + 1] = base /\ \A k \in 1 .. n : g[k + 1] \in A => g[k] = step[k][g[k + 1]]

\* They give every link its values.
LEMMA LinksTyped ==
    ASSUME NEW n \in Nat, NEW A, NEW base \in A, NEW step \in [1 .. n -> [A -> A]], NEW g, Links(g, n, A, base, step)
    PROVE  \A k \in 1 .. n + 1 : g[k] \in A
<1> DEFINE S == {k \in 1 .. n + 1 : g[k] \in A}
<1>1. n + 1 \in S
  BY DEF Links
<1>2. ASSUME NEW k \in 1 .. n, k + 1 \in S PROVE k \in S
  <2>1. g[k] = step[k][g[k + 1]]
    BY <1>2 DEF Links
  <2>2. step[k] \in [A -> A] /\ g[k + 1] \in A
    BY <1>2
  <2> QED BY <2>1, <2>2
<1> HIDE DEF S
<1>3. \A k \in 1 .. n + 1 : k \in S
  BY <1>1, <1>2, Outwards
<1> QED BY <1>3 DEF S

VStates(e, known) ==
    /\ known[Len(e.via) + 1] = LeafVState(e.leaf)
    /\ \A k \in 1 .. Len(e.via) : known[k] = Called(e.via[k], known[k + 1])
    /\ vstateOf(e) = known[1]

\* What vstateOf knows of a value at each wrap.
LEMMA VStateUnfold ==
    ASSUME NEW e, e.via \in Seq(Wraps)
    PROVE  \E known \in [1 .. Len(e.via) + 1 -> VState] : VStates(e, known)
<1> DEFINE n == Len(e.via)
           Body(g) == [k \in 1 .. n + 1 |-> IF k > n THEN LeafVState(e.leaf) ELSE Called(e.via[k], g[k + 1])]
           step == [k \in 1 .. n |-> [x \in VState |-> Called(e.via[k], x)]]
           known == CHOOSE g : g = Body(g)
<1>1. n \in Nat
  OBVIOUS
<1>0. \A k \in 1 .. n : e.via[k] \in Wraps
  OBVIOUS
<1>2. vstateOf(e) = known[1]
  BY DEF vstateOf
<1> HIDE DEF n, known
<1>3. LeafVState(e.leaf) \in VState
  BY DEF LeafVState, VState
<1>4. ASSUME NEW k \in 1 .. n, NEW x \in VState PROVE Called(e.via[k], x) \in VState
  BY <1>0 DEF Called, VState, Wraps
<1>5. step \in [1 .. n -> [VState -> VState]]
  BY <1>4
<1>6. PICK f \in [1 .. n + 1 -> VState] : /\ f[n + 1] = LeafVState(e.leaf)
                                           /\ \A k \in 1 .. n : f[k] = step[k][f[k + 1]]
  <2> HIDE DEF step
  <2>1. PICK f : Chains(f, n, VState, LeafVState(e.leaf), step)
    BY <1>1, <1>3, <1>5, Chain
  <2> QED BY <2>1 DEF Chains
<1>7. ASSUME NEW k \in 1 .. n + 1 PROVE f[k] = IF k > n THEN LeafVState(e.leaf) ELSE Called(e.via[k], f[k + 1])
  <2>1. CASE k > n
    <3>1. k = n + 1
      BY <1>1, <2>1
    <3> QED BY <1>6, <2>1, <3>1
  <2>2. CASE k \in 1 .. n
    <3>0. k + 1 \in 1 .. n + 1 /\ ~(k > n)
      BY <1>1, <2>2
    <3>1. f[k + 1] \in VState
      BY <3>0
    <3> QED BY <1>6, <2>2, <3>0, <3>1
  <2> QED BY <1>1, <2>1, <2>2
<1>8. f = Body(f)
  <2>1. f = [k \in 1 .. n + 1 |-> f[k]]
    BY <1>6
  <2> QED BY <2>1, <1>7, Zenon
<1>9. known = Body(known)
  BY <1>8 DEF known
<1>10. \A k \in 1 .. n + 1 : known[k] = IF k > n THEN LeafVState(e.leaf) ELSE Called(e.via[k], known[k + 1])
  BY <1>9, Zenon
<1>11. known[n + 1] = LeafVState(e.leaf) /\ \A k \in 1 .. n : known[k] = Called(e.via[k], known[k + 1])
  BY <1>1, <1>10
<1>12. \A k \in 1 .. n + 1 : known[k] \in VState
  <2>1. \A k \in 1 .. n : known[k + 1] \in VState => known[k] = step[k][known[k + 1]]
    BY <1>11
  <2> HIDE DEF step
  <2>2. Links(known, n, VState, LeafVState(e.leaf), step)
    BY <1>11, <2>1 DEF Links
  <2> QED BY <1>1, <1>3, <1>5, <2>2, LinksTyped
<1>13. known \in [1 .. n + 1 -> VState]
  <2>1. known = [k \in 1 .. n + 1 |-> known[k]]
    BY <1>9, <1>10, Zenon
  <2> QED BY <1>12, <2>1
<1> QED BY <1>2, <1>11, <1>13 DEF VStates, n

Owners(e, S, known) ==
    /\ known[Len(e.via) + 1] = LeafOwnership(e.leaf, S)
    /\ \A k \in 1 .. Len(e.via) : known[k] = Received(e.via[k], known[k + 1])
    /\ ownershipOf(e, S) = known[1]

\* What ownershipOf knows of a value at each wrap.
LEMMA OwnershipUnfold ==
    ASSUME NEW e, e.via \in Seq(Wraps), NEW S, LeafOwnership(e.leaf, S) \in OwnershipState
    PROVE  \E known \in [1 .. Len(e.via) + 1 -> OwnershipState] : Owners(e, S, known)
<1> DEFINE n == Len(e.via)
           Body(g) == [k \in 1 .. n + 1 |-> IF k > n THEN LeafOwnership(e.leaf, S) ELSE Received(e.via[k], g[k + 1])]
           step == [k \in 1 .. n |-> [x \in OwnershipState |-> Received(e.via[k], x)]]
           known == CHOOSE g : g = Body(g)
<1>1. n \in Nat
  OBVIOUS
<1>0. \A k \in 1 .. n : e.via[k] \in Wraps
  OBVIOUS
<1>2. ownershipOf(e, S) = known[1]
  BY DEF ownershipOf
<1> HIDE DEF n, known
<1>3. LeafOwnership(e.leaf, S) \in OwnershipState
  OBVIOUS
<1>4. ASSUME NEW k \in 1 .. n, NEW x \in OwnershipState PROVE Received(e.via[k], x) \in OwnershipState
  BY <1>0 DEF Received, Wraps
<1>5. step \in [1 .. n -> [OwnershipState -> OwnershipState]]
  BY <1>4
<1>6. PICK f \in [1 .. n + 1 -> OwnershipState] : /\ f[n + 1] = LeafOwnership(e.leaf, S)
                                           /\ \A k \in 1 .. n : f[k] = step[k][f[k + 1]]
  <2> HIDE DEF step
  <2>1. PICK f : Chains(f, n, OwnershipState, LeafOwnership(e.leaf, S), step)
    BY <1>1, <1>3, <1>5, Chain
  <2> QED BY <2>1 DEF Chains
<1>7. ASSUME NEW k \in 1 .. n + 1 PROVE f[k] = IF k > n THEN LeafOwnership(e.leaf, S) ELSE Received(e.via[k], f[k + 1])
  <2>1. CASE k > n
    <3>1. k = n + 1
      BY <1>1, <2>1
    <3> QED BY <1>6, <2>1, <3>1
  <2>2. CASE k \in 1 .. n
    <3>0. k + 1 \in 1 .. n + 1 /\ ~(k > n)
      BY <1>1, <2>2
    <3>1. f[k + 1] \in OwnershipState
      BY <3>0
    <3> QED BY <1>6, <2>2, <3>0, <3>1
  <2> QED BY <1>1, <2>1, <2>2
<1>8. f = Body(f)
  <2>1. f = [k \in 1 .. n + 1 |-> f[k]]
    BY <1>6
  <2> QED BY <2>1, <1>7, Zenon
<1>9. known = Body(known)
  BY <1>8 DEF known
<1>10. \A k \in 1 .. n + 1 : known[k] = IF k > n THEN LeafOwnership(e.leaf, S) ELSE Received(e.via[k], known[k + 1])
  BY <1>9, Zenon
<1>11. known[n + 1] = LeafOwnership(e.leaf, S) /\ \A k \in 1 .. n : known[k] = Received(e.via[k], known[k + 1])
  BY <1>1, <1>10
<1>12. \A k \in 1 .. n + 1 : known[k] \in OwnershipState
  <2>1. \A k \in 1 .. n : known[k + 1] \in OwnershipState => known[k] = step[k][known[k + 1]]
    BY <1>11
  <2> HIDE DEF step
  <2>2. Links(known, n, OwnershipState, LeafOwnership(e.leaf, S), step)
    BY <1>11, <2>1 DEF Links
  <2> QED BY <1>1, <1>3, <1>5, <2>2, LinksTyped
<1>13. known \in [1 .. n + 1 -> OwnershipState]
  <2>1. known = [k \in 1 .. n + 1 |-> known[k]]
    BY <1>9, <1>10, Zenon
  <2> QED BY <1>12, <2>1
<1> QED BY <1>2, <1>11, <1>13 DEF Owners, n

-----------------------------------------------------------------------------
(* The values of a typed expression *)

Addresses == {0, Elsewhere} \cup Block \cup DOMAIN func.params

\* The values of the type that is returned.
Kind == IF func.type = "pointer" THEN Addresses ELSE Val

EnvTyped(store) ==
    /\ DOMAIN store = Var
    /\ \A v \in Var : IF v \in Pointer THEN store[v] \in Addresses ELSE store[v] \in Val
    /\ \A v \in Narrow : store[v] \in {0, 1}

EntryTyped ==
    /\ DOMAIN entry = DOMAIN func.params
    /\ \A i \in DOMAIN entry : IF func.params[i] \in Pointer THEN entry[i] \in {0, i} ELSE entry[i] \in Val

\* A function that has started, with variables of their types.
Started ==
    /\ func \in Program /\ TypedFunction(func)
    /\ EnvTyped(env) /\ EntryTyped

\* What is cut is not beyond the integers.
LEMMA CutTyped ==
    ASSUME NEW y \in Val, NEW wide \in BOOLEAN
    PROVE  Cut(wide, y) \in Val /\ (~wide => Cut(wide, y) \in {0, 1}) /\ (y = 0 => Cut(wide, y) = 0)
<1>1. y \in Int /\ y % 2 \in {0, 1} /\ 0 % 2 = 0
  BY ReturnAssumption DEF ReturnAssumption
<1> QED BY <1>1, ReturnAssumption DEF ReturnAssumption, Cut

\* What may be anywhere has the type that is returned.
LEMMA AnythingTyped ==
    ASSUME Started
    PROVE  Anything \subseteq Kind
<1>1. CASE func.type = "pointer"
  BY <1>1, ReturnAssumption DEF ReturnAssumption, Started, Anything, Kind, Addresses, Foreign, Free, EnvTyped, EntryTyped
<1>2. CASE func.type # "pointer"
  BY <1>2 DEF Anything, Kind
<1> QED BY <1>1, <1>2

\* The leaf of a typed value has values of the type.
LEMMA LeafTyped ==
    ASSUME Started, NEW leaf, TypedLeaf(func, leaf)
    PROVE  LeafValues(leaf) \subseteq Kind
<1>1. CASE func.type = "pointer"
  <2>1. CASE leaf.kind \in {"address", "this", "placement", "new", "nothrow", "malloc", "literal"}
    BY <1>1, <2>1 DEF Kind, Addresses, TypedLeaf, LeafValues, Free
  <2>2. CASE leaf.kind \in {"var", "choice"}
    BY <1>1, <2>2, ReturnAssumption DEF ReturnAssumption, Kind, TypedLeaf, Typed, LeafValues, Started, EnvTyped
  <2>3. CASE leaf.kind = "opaque"
    BY <2>3, AnythingTyped DEF LeafValues
  <2> QED BY <2>1, <2>2, <2>3 DEF TypedLeaf
<1>2. CASE func.type # "pointer"
  <2>1. CASE leaf.kind = "literal"
    BY <1>2, <2>1 DEF Kind, TypedLeaf, LeafValues
  <2>2. CASE leaf.kind \in {"var", "choice"}
    BY <1>2, <2>2 DEF Kind, TypedLeaf, Typed, LeafValues, Started, EnvTyped
  <2>3. CASE leaf.kind = "opaque"
    BY <2>3, AnythingTyped DEF LeafValues
  <2> QED BY <1>2, <2>1, <2>2, <2>3 DEF TypedLeaf
<1> QED BY <1>1, <1>2

\* What a typed wrap makes of values of the type has the type.
LEMMA WrapTyped ==
    ASSUME Started, NEW w \in Wraps, TypedWrap(func, w), NEW ys \in SUBSET Kind
    PROVE  Wrapped(w, ys) \in SUBSET Kind
<1>1. CASE w.kind = "call"
  BY <1>1, AnythingTyped DEF Wrapped, Returned
<1>2. CASE w.kind = "cast" /\ func.type = "integer"
  <2>1. \A y \in ys : Cut(w.wide, y) \in Val
    BY <1>2, CutTyped DEF Kind, Wraps
  <2> QED BY <1>2, <2>1 DEF Wrapped, Kind
<1>3. CASE w.kind = "dynamic"
  BY <1>3 DEF Wrapped, TypedWrap, Kind, Addresses
<1>4. CASE w.kind = "minus"
  BY <1>4 DEF Wrapped, TypedWrap, Kind
<1>5. CASE w.kind = "hop" \/ (w.kind = "cast" /\ func.type # "integer")
  BY <1>5 DEF Wrapped
<1> QED BY <1>1, <1>2, <1>3, <1>4, <1>5 DEF Wraps

Layers(e, values) ==
    /\ values[Len(e.via) + 1] = LeafValues(e.leaf)
    /\ \A k \in 1 .. Len(e.via) : values[k] = Wrapped(e.via[k], values[k + 1])

\* The values of an expression at each wrap.
LEMMA ValuesUnfold ==
    ASSUME Started, NEW e, TypedValue(func, e)
    PROVE  ValuesAt(e) \in [1 .. Len(e.via) + 1 -> SUBSET Kind] /\ Layers(e, ValuesAt(e))
<1> DEFINE n == Len(e.via)
           Body(g) == [k \in 1 .. n + 1 |-> IF k > n THEN LeafValues(e.leaf) ELSE Wrapped(e.via[k], g[k + 1])]
           step == [k \in 1 .. n |-> [x \in SUBSET Kind |-> Wrapped(e.via[k], x)]]
           known == CHOOSE g : g = Body(g)
<1>1. n \in Nat
  BY DEF TypedValue
<1>0. \A k \in 1 .. n : e.via[k] \in Wraps /\ TypedWrap(func, e.via[k])
  BY DEF TypedValue
<1>2. ValuesAt(e) = known
  BY DEF ValuesAt
<1> HIDE DEF n, known
<1>3. LeafValues(e.leaf) \in SUBSET Kind
  BY LeafTyped DEF TypedValue
<1>4. ASSUME NEW k \in 1 .. n, NEW x \in SUBSET Kind PROVE Wrapped(e.via[k], x) \in SUBSET Kind
  BY <1>0, WrapTyped
<1>5. step \in [1 .. n -> [SUBSET Kind -> SUBSET Kind]]
  BY <1>4
<1>6. PICK f \in [1 .. n + 1 -> SUBSET Kind] : /\ f[n + 1] = LeafValues(e.leaf)
                                           /\ \A k \in 1 .. n : f[k] = step[k][f[k + 1]]
  <2> HIDE DEF step
  <2>1. PICK f : Chains(f, n, SUBSET Kind, LeafValues(e.leaf), step)
    BY <1>1, <1>3, <1>5, Chain
  <2> QED BY <2>1 DEF Chains
<1>7. ASSUME NEW k \in 1 .. n + 1 PROVE f[k] = IF k > n THEN LeafValues(e.leaf) ELSE Wrapped(e.via[k], f[k + 1])
  <2>1. CASE k > n
    <3>1. k = n + 1
      BY <1>1, <2>1
    <3> QED BY <1>6, <2>1, <3>1
  <2>2. CASE k \in 1 .. n
    <3>0. k + 1 \in 1 .. n + 1 /\ ~(k > n)
      BY <1>1, <2>2
    <3>1. f[k + 1] \in SUBSET Kind
      BY <3>0
    <3> QED BY <1>6, <2>2, <3>0, <3>1
  <2> QED BY <1>1, <2>1, <2>2
<1>8. f = Body(f)
  <2>1. f = [k \in 1 .. n + 1 |-> f[k]]
    BY <1>6
  <2> QED BY <2>1, <1>7, Zenon
<1>9. known = Body(known)
  BY <1>8 DEF known
<1>10. \A k \in 1 .. n + 1 : known[k] = IF k > n THEN LeafValues(e.leaf) ELSE Wrapped(e.via[k], known[k + 1])
  BY <1>9, Zenon
<1>11. known[n + 1] = LeafValues(e.leaf) /\ \A k \in 1 .. n : known[k] = Wrapped(e.via[k], known[k + 1])
  BY <1>1, <1>10
<1>12. \A k \in 1 .. n + 1 : known[k] \in SUBSET Kind
  <2>1. \A k \in 1 .. n : known[k + 1] \in SUBSET Kind => known[k] = step[k][known[k + 1]]
    BY <1>11
  <2> HIDE DEF step
  <2>2. Links(known, n, SUBSET Kind, LeafValues(e.leaf), step)
    BY <1>11, <2>1 DEF Links
  <2> QED BY <1>1, <1>3, <1>5, <2>2, LinksTyped
<1>13. known \in [1 .. n + 1 -> SUBSET Kind]
  <2>1. known = [k \in 1 .. n + 1 |-> known[k]]
    BY <1>9, <1>10, Zenon
  <2> QED BY <1>12, <2>1
<1> QED BY <1>2, <1>11, <1>13 DEF Layers, n


-----------------------------------------------------------------------------
(* What vstateOf says of a value is true of it *)

Sound == {"narrowed", "mixed", "dynamic", "nothrow"}

\* A typed value's wraps.
LEMMA ViaTyped ==
    ASSUME NEW e, TypedValue(func, e)
    PROVE  /\ Len(e.via) \in Nat /\ DOMAIN e.via = 1 .. Len(e.via) /\ e.via \in Seq(Wraps)
           /\ \A k \in 1 .. Len(e.via) : e.via[k] \in Wraps /\ TypedWrap(func, e.via[k])
<1>1. e.via \in Seq({w \in Wraps : TypedWrap(func, w)})
  BY DEF TypedValue
<1>2. Len(e.via) \in Nat /\ DOMAIN e.via = 1 .. Len(e.via) /\ \A k \in 1 .. Len(e.via) : e.via[k] \in {w \in Wraps : TypedWrap(func, w)}
  BY <1>1
<1>3. e.via \in Seq(Wraps)
  BY <1>1
<1> QED BY <1>2, <1>3

\* Zero and Elsewhere are no blocks.
LEMMA NotBlocks == 0 \notin Block /\ Elsewhere \notin Block /\ Elsewhere # 0 /\ Block \cap Val = {} /\ 0 \in Val
BY ReturnAssumption DEF ReturnAssumption

\* A wrap that cuts down to a bit.
Cutting(w) == (w.kind = "cast" /\ ~w.wide) \/ (w.kind = "call" /\ ~w.param)

\* A value that is known not to be bad is not 0, and one that is known to be bad is.
LEMMA ValueKnown ==
    ASSUME Started, NEW e, TypedValue(func, e), NEW y \in Values(e), Surprises(e, y) \cap Sound = {}
    PROVE  /\ vstateOf(e) = "NonBad" => y # 0
           /\ func.type = "integer" /\ vstateOf(e) = "Bad" => y = 0
<1> DEFINE n == Len(e.via)
           vals == ValuesAt(e)
<1>1. n \in Nat /\ DOMAIN e.via = 1 .. n /\ e.via \in Seq(Wraps) /\ \A k \in 1 .. n : e.via[k] \in Wraps /\ TypedWrap(func, e.via[k])
  BY ViaTyped
<1>2. PICK known \in [1 .. n + 1 -> VState] : VStates(e, known)
  BY <1>1, VStateUnfold
<1>3. vals \in [1 .. n + 1 -> SUBSET Kind] /\ Layers(e, vals)
  BY ValuesUnfold
<1>4. y \in vals[1] /\ vstateOf(e) = known[1]
  BY <1>2 DEF Values, VStates
<1>5. /\ known[n + 1] = LeafVState(e.leaf) /\ vals[n + 1] = LeafValues(e.leaf)
      /\ \A k \in 1 .. n : known[k] = Called(e.via[k], known[k + 1]) /\ vals[k] = Wrapped(e.via[k], vals[k + 1])
  BY <1>2, <1>3 DEF VStates, Layers
<1>6. /\ \A k \in 1 .. n : ~CutsDown(e, k)
      /\ y = 0 => e.leaf.kind # "nothrow" /\ \A k \in 1 .. n : e.via[k].kind # "dynamic"
      /\ func.type = "integer" /\ y # 0 => \A k \in 1 .. n : e.via[k].kind = "call" /\ e.via[k].from => 0 \notin vals[k + 1]
  BY <1>1 DEF Surprises, Note, Sound
<1> HIDE DEF n, vals
<1>7. \A k \in 1 .. n : func.type = "integer" /\ Cutting(e.via[k]) => \A z \in vals[k + 1] : Cut(FALSE, z) = 0 => z = 0
  BY <1>6 DEF CutsDown, Cutting, vals
<1>8. ASSUME known[1] = "NonBad", y = 0 PROVE FALSE
  <2> DEFINE S == {k \in 1 .. n + 1 : known[k] = "NonBad" => 0 \notin vals[k]}
  <2>1. n + 1 \in S
    <3>1. LeafVState(e.leaf) = "NonBad" => 0 \notin LeafValues(e.leaf)
      BY <1>6, <1>8, NotBlocks DEF LeafVState, LeafValues, Free
    <3> QED BY <1>1, <1>5, <3>1
  <2>2. ASSUME NEW k \in 1 .. n, k + 1 \in S PROVE k \in S
    <3> DEFINE w == e.via[k]
    <3> SUFFICES ASSUME Called(w, known[k + 1]) = "NonBad", 0 \in Wrapped(w, vals[k + 1]) PROVE FALSE
      BY <1>1, <1>5
    <3>1. w \in Wraps /\ TypedWrap(func, w) /\ w.kind # "dynamic"
      BY <1>1, <1>6, <1>8
    <3>2. known[k + 1] = "NonBad" => 0 \notin vals[k + 1]
      BY <2>2
    <3>3. func.type = "integer" /\ Cutting(w) => \A z \in vals[k + 1] : Cut(FALSE, z) = 0 => z = 0
      BY <1>7
    <3>t. func.type \in {"pointer", "integer"}
      BY DEF Started, TypedFunction
    <3> HIDE DEF S, w
    <3>4. CASE w.kind = "call"
      <4>1. PICK z \in vals[k + 1] : 0 \in Returned(w, z)
        BY <3>4 DEF Wrapped
      <4>2. w.claim = "Unknown" /\ w.from /\ known[k + 1] = "NonBad"
        BY <3>1, <3>4, <4>1 DEF Called, Returned, Wraps
      <4>3. Cut(w.param, z) = 0
        BY <4>1, <4>2 DEF Returned
      <4>4. CASE w.param
        BY <3>2, <4>2, <4>3, <4>4 DEF Cut
      <4>5. CASE ~w.param
        <5>1. func.type = "integer" /\ w.param = FALSE
          BY <3>1, <3>t, <4>5 DEF TypedWrap, Wraps
        <5> QED BY <3>2, <3>3, <3>4, <4>2, <4>3, <5>1 DEF Cutting
      <4> QED BY <4>4, <4>5
    <3>5. CASE w.kind = "cast" /\ func.type = "integer"
      <4>1. PICK z \in vals[k + 1] : Cut(w.wide, z) = 0
        BY <3>5 DEF Wrapped
      <4>2. CASE w.wide
        BY <3>2, <3>5, <4>1, <4>2 DEF Cut, Called
      <4>3. CASE ~w.wide
        <5>1. w.wide = FALSE
          BY <3>1, <4>3 DEF Wraps
        <5> QED BY <3>2, <3>3, <3>5, <4>1, <5>1 DEF Called, Cutting
      <4> QED BY <4>2, <4>3
    <3>6. CASE w.kind = "minus"
      <4>1. 0 \in vals[k + 1]
        BY <3>6 DEF Wrapped
      <4> QED BY <3>2, <3>6, <4>1 DEF Called
    <3>7. CASE w.kind = "hop" \/ (w.kind = "cast" /\ func.type # "integer")
      BY <3>2, <3>7 DEF Called, Wrapped
    <3> QED BY <3>1, <3>4, <3>5, <3>6, <3>7 DEF Wraps
  <2> HIDE DEF S
  <2>3. \A k \in 1 .. n + 1 : k \in S
    BY <1>1, <2>1, <2>2, Outwards
  <2>4. 1 \in S
    BY <1>1, <2>3
  <2> QED BY <1>4, <1>8, <2>4 DEF S
<1>9. ASSUME func.type = "integer", known[1] = "Bad", y # 0 PROVE FALSE
  <2> DEFINE S == {k \in 1 .. n + 1 : known[k] = "Bad" => vals[k] \subseteq {0}}
  <2>1. n + 1 \in S
    <3>1. LeafVState(e.leaf) = "Bad" => LeafValues(e.leaf) \subseteq {0}
      BY DEF LeafVState, LeafValues
    <3> QED BY <1>1, <1>5, <3>1
  <2>2. ASSUME NEW k \in 1 .. n, k + 1 \in S PROVE k \in S
    <3> DEFINE w == e.via[k]
    <3> SUFFICES ASSUME Called(w, known[k + 1]) = "Bad", NEW z \in Wrapped(w, vals[k + 1]) PROVE z = 0
      BY <1>1, <1>5
    <3>1. w \in Wraps /\ TypedWrap(func, w) /\ (w.kind = "call" /\ w.from => 0 \notin vals[k + 1])
      BY <1>1, <1>6, <1>9
    <3>2. known[k + 1] = "Bad" => vals[k + 1] \subseteq {0}
      BY <2>2
    <3> HIDE DEF S, w
    <3>4. CASE w.kind = "call"
      <4>1. PICK x \in vals[k + 1] : z \in Returned(w, x)
        BY <3>4 DEF Wrapped
      <4> QED BY <3>1, <3>2, <3>4, <4>1 DEF Called, Returned, Wraps
    <3>5. CASE w.kind = "cast" /\ func.type = "integer"
      <4>1. PICK x \in vals[k + 1] : z = Cut(w.wide, x)
        BY <3>5 DEF Wrapped
      <4>2. x = 0
        BY <3>2, <3>5 DEF Called
      <4>3. Cut(w.wide, x) = 0
        BY <3>1, <4>2, CutTyped, NotBlocks DEF Wraps
      <4> QED BY <4>1, <4>3
    <3>6. CASE w.kind = "minus"
      <4>1. z \in Int /\ -z \in vals[k + 1] /\ -z = 0
        BY <3>2, <3>6, ReturnAssumption DEF Wrapped, Called, ReturnAssumption
      <4> QED BY <4>1
    <3> QED BY <1>9, <3>1, <3>4, <3>5, <3>6 DEF Wraps, TypedWrap
  <2> HIDE DEF S
  <2>3. \A k \in 1 .. n + 1 : k \in S
    BY <1>1, <2>1, <2>2, Outwards
  <2>4. 1 \in S
    BY <1>1, <2>3
  <2> QED BY <1>4, <1>9, <2>4 DEF S
<1> QED BY <1>4, <1>8, <1>9

-----------------------------------------------------------------------------
(* What ownershipOf says of a value is true of it *)

States == [collectTypedVars -> [bad : VState, origin : {0} \cup DOMAIN func.params, owner : OwnershipState]]

\* Whose a value is, taken as owner.
Belongs(owner, z) ==
    /\ owner = "Owned" => z \in own \cup Free \cup {0}
    /\ owner = "Borrowed" => z \notin own \cup Free
    /\ owner = "Null" => z = 0

\* The blocks held are allocated, those of the globals are in other hands.
Bookkept(store, blocks, given) ==
    /\ given \subseteq blocks /\ blocks \subseteq Block
    /\ \A v \in Var : store[v] \in Block => store[v] \in blocks
    /\ \A v \in Global : store[v] \in Block => store[v] \in given

OwnersTrue(S) == \A v \in collectTypedVars : Belongs(S[v].owner, env[v])

\* Two owners that merge to a definite one are that, or null.
LEMMA MergedOwner ==
    ASSUME NEW a \in OwnershipState, NEW b \in OwnershipState
    PROVE  /\ mergeOwnership(a, b) \in OwnershipState
           /\ mergeOwnership(a, b) = "Null" => a = "Null" /\ b = "Null"
           /\ mergeOwnership(a, b) \in {"Owned", "Borrowed"} => a \in {mergeOwnership(a, b), "Null"} /\ b \in {mergeOwnership(a, b), "Null"}
BY DEF mergeOwnership, OwnershipState

\* What belongs as Null belongs as anything.
LEMMA NullBelongs ==
    ASSUME Started, Bookkept(env, made, kept), NEW owner \in OwnershipState \ {"Null"}, NEW z, Belongs("Null", z)
    PROVE  Belongs(owner, z)
BY NotBlocks DEF Belongs, Bookkept, own, Free, OwnershipState

\* A leaf's value is owned as the leaf says.
LEMMA LeafOwned ==
    ASSUME Started, Bookkept(env, made, kept), func.type = "pointer", NEW leaf, TypedLeaf(func, leaf),
           NEW S \in States, OwnersTrue(S)
    PROVE  LeafOwnership(leaf, S) \in OwnershipState /\ \A z \in LeafValues(leaf) : Belongs(LeafOwnership(leaf, S), z)
<1>1. DOMAIN S = collectTypedVars /\ \A v \in collectTypedVars : S[v].owner \in OwnershipState
  BY DEF States
<1>2. CASE leaf.kind = "literal"
  BY <1>2 DEF TypedLeaf, LeafOwnership, LeafValues, Belongs, OwnershipState
<1>3. CASE leaf.kind \in {"address", "this", "placement"}
  BY <1>3, NotBlocks DEF Bookkept, LeafOwnership, LeafValues, Belongs, OwnershipState, own, Free
<1>4. CASE leaf.kind \in {"new", "nothrow", "malloc"}
  BY <1>4 DEF LeafOwnership, LeafValues, Belongs, OwnershipState
<1>5. CASE leaf.kind = "opaque"
  BY <1>5 DEF LeafOwnership, Belongs, OwnershipState
<1>6. CASE leaf.kind = "var"
  <2>1. leaf.var \in Pointer
    BY <1>6 DEF TypedLeaf, Typed
  <2>2. CASE leaf.var \in Global
    <3>1. LeafOwnership(leaf, S) = "Borrowed" /\ LeafValues(leaf) = {env[leaf.var]}
      BY <1>1, <1>6, <2>2 DEF LeafOwnership, LeafValues, collectTypedVars
    <3>2. env[leaf.var] \notin own \cup Free
      BY <2>2 DEF Bookkept, own, Free
    <3> QED BY <3>1, <3>2 DEF Belongs, OwnershipState
  <2>3. CASE leaf.var \notin Global
    <3>1. leaf.var \in collectTypedVars
      BY <2>1, <2>3 DEF collectTypedVars, Typed
    <3>2. LeafOwnership(leaf, S) = S[leaf.var].owner /\ LeafValues(leaf) = {env[leaf.var]}
      BY <1>1, <1>6, <3>1 DEF LeafOwnership, LeafValues
    <3> QED BY <1>1, <3>1, <3>2 DEF OwnersTrue
  <2> QED BY <2>2, <2>3
<1>7. CASE leaf.kind = "choice"
  <2> DEFINE a == S[leaf.var].owner
             b == S[leaf.other].owner
  <2>1. {leaf.var, leaf.other} \subseteq collectTypedVars
    BY <1>7 DEF TypedLeaf, Typed, collectTypedVars
  <2>2. LeafOwnership(leaf, S) = mergeOwnership(a, b) /\ LeafValues(leaf) = {env[leaf.var], env[leaf.other]}
    BY <1>7 DEF LeafOwnership, LeafValues
  <2>3. a \in OwnershipState /\ b \in OwnershipState /\ Belongs(a, env[leaf.var]) /\ Belongs(b, env[leaf.other])
    BY <1>1, <2>1 DEF OwnersTrue
  <2> HIDE DEF a, b
  <2> DEFINE m == mergeOwnership(a, b)
  <2>4. m \in OwnershipState /\ (m = "Unknown" \/ (a \in {m, "Null"} /\ b \in {m, "Null"}))
    BY <2>3, MergedOwner DEF OwnershipState
  <2>5. Belongs(m, env[leaf.var]) /\ Belongs(m, env[leaf.other])
    <3>1. CASE m = "Unknown"
      BY <3>1 DEF Belongs
    <3>2. CASE m # "Unknown"
      <4> HIDE DEF m
      <4> QED BY <2>3, <2>4, <3>2, NullBelongs
    <3> QED BY <3>1, <3>2
  <2> QED BY <2>2, <2>4, <2>5
<1> QED BY <1>2, <1>3, <1>4, <1>5, <1>6, <1>7 DEF TypedLeaf

\* A value belongs to whom it is said to, unless a call handed a block back that it had borrowed.
LEMMA ValueOwned ==
    ASSUME Started, Bookkept(env, made, kept), func.type = "pointer", NEW e, TypedValue(func, e),
           NEW S \in States, OwnersTrue(S), NEW y \in Values(e), "came back" \notin Surprises(e, y)
    PROVE  ownershipOf(e, S) \in OwnershipState /\ Belongs(ownershipOf(e, S), y)
<1> DEFINE n == Len(e.via)
           vals == ValuesAt(e)
<1>1. n \in Nat /\ DOMAIN e.via = 1 .. n /\ e.via \in Seq(Wraps) /\ \A k \in 1 .. n : e.via[k] \in Wraps /\ TypedWrap(func, e.via[k])
  BY ViaTyped
<1>l. LeafOwnership(e.leaf, S) \in OwnershipState /\ \A z \in LeafValues(e.leaf) : Belongs(LeafOwnership(e.leaf, S), z)
  BY LeafOwned DEF TypedValue
<1>2. PICK known \in [1 .. n + 1 -> OwnershipState] : Owners(e, S, known)
  BY <1>1, <1>l, OwnershipUnfold
<1>3. vals \in [1 .. n + 1 -> SUBSET Kind] /\ Layers(e, vals)
  BY ValuesUnfold
<1>4. y \in vals[1] /\ ownershipOf(e, S) = known[1]
  BY <1>2 DEF Values, Owners
<1>5. /\ known[n + 1] = LeafOwnership(e.leaf, S) /\ vals[n + 1] = LeafValues(e.leaf)
      /\ \A k \in 1 .. n : known[k] = Received(e.via[k], known[k + 1]) /\ vals[k] = Wrapped(e.via[k], vals[k + 1])
  BY <1>2, <1>3 DEF Owners, Layers
<1> DEFINE Back == \E k \in 1 .. n : e.via[k].kind = "call" /\ e.via[k].owner = "Borrowed" /\ ~e.via[k].alias
<1>6. Back => y \notin Block \ kept
  BY <1>1 DEF Surprises, Note
<1>n. n \in Nat
  BY <1>1
<1> HIDE DEF n, vals
<1>r. 1 \in 1 .. n + 1 /\ n + 1 \in 1 .. n + 1 /\ \A k \in 1 .. n : k \in 1 .. n + 1 /\ k + 1 \in 1 .. n + 1
  <2>1. ASSUME NEW k \in 1 .. n PROVE k \in 1 .. n + 1 /\ k + 1 \in 1 .. n + 1
    BY ONLY <1>n
  <2>2. 1 \in 1 .. n + 1 /\ n + 1 \in 1 .. n + 1
    BY ONLY <1>n
  <2> QED BY <2>1, <2>2
<1> DEFINE Level(k) == \A z \in vals[k] : Belongs(known[k], z) \/ (Back /\ known[k] = "Borrowed")
           S0 == {k \in 1 .. n + 1 : Level(k)}
<1>7. n + 1 \in S0
  BY <1>r, <1>5, <1>l
<1>8. ASSUME NEW k \in 1 .. n, k + 1 \in S0 PROVE k \in S0
  <2> DEFINE w == e.via[k]
  <2>0. known[k] = Received(w, known[k + 1]) /\ vals[k] = Wrapped(w, vals[k + 1]) /\ k \in 1 .. n + 1
    BY <1>r, <1>5
  <2> SUFFICES ASSUME NEW z \in Wrapped(w, vals[k + 1]), ~(Back /\ Received(w, known[k + 1]) = "Borrowed")
               PROVE  Belongs(Received(w, known[k + 1]), z)
    BY <2>0
  <2>1. w \in Wraps /\ TypedWrap(func, w) /\ (w.kind = "call" /\ w.owner = "Borrowed" /\ ~w.alias => Back)
    BY <1>1
  <2>2. \A x \in vals[k + 1] : Belongs(known[k + 1], x) \/ (Back /\ known[k + 1] = "Borrowed")
    BY <1>8
  <2>3. known[k + 1] \in OwnershipState
    BY <1>r, <1>2
  <2> HIDE DEF S0, w, Back
  <2>4. CASE w.kind = "call"
    <3>1. PICK x \in vals[k + 1] : z \in Returned(w, x)
      BY <2>4 DEF Wrapped
    <3>2. CASE w.alias
      BY <2>2, <2>4, <3>1, <3>2 DEF Received, Returned
    <3>3. CASE ~w.alias
      <4>1. Received(w, known[k + 1]) = w.owner /\ w.owner \in {"Owned", "Unknown"}
        BY <2>1, <2>4, <3>3 DEF Received, Wraps, OwnershipState
      <4> QED BY <3>1, <4>1 DEF Returned, Belongs
    <3> QED BY <3>2, <3>3
  <2>5. CASE w.kind \in {"hop", "cast"}
    BY <2>2, <2>5 DEF Received, Wrapped
  <2>6. CASE w.kind = "dynamic"
    <3>1. Received(w, known[k + 1]) = known[k + 1] /\ (z \in vals[k + 1] \/ z = 0)
      BY <2>6 DEF Received, Wrapped
    <3>2. z = 0 => Belongs(known[k + 1], z)
      BY NotBlocks DEF Belongs, Bookkept, own, Free
    <3> QED BY <2>2, <3>1, <3>2
  <2> QED BY <2>1, <2>4, <2>5, <2>6 DEF Wraps, TypedWrap
<1>9. 1 \in S0
  <2> HIDE DEF S0
  <2>1. \A k \in 1 .. n + 1 : k \in S0
    BY <1>n, <1>7, <1>8, Outwards
  <2> QED BY <1>r, <2>1
<1>10. Belongs(known[1], y) \/ (Back /\ known[1] = "Borrowed")
  <2> HIDE DEF Back
  <2> QED BY <1>4, <1>9
<1>11. y \notin Block \ kept => y \notin own \cup Free
  BY DEF Bookkept, own, Free
<1>12. known[1] \in OwnershipState
  BY <1>r, <1>2
<1> HIDE DEF Back
<1> QED BY <1>4, <1>6, <1>10, <1>11, <1>12 DEF Belongs

-----------------------------------------------------------------------------
(* What originOf says of a value is true of it *)

OriginsTrue(S) == \A v \in collectTypedVars : S[v].origin # 0 => env[v] = entry[S[v].origin]

\* Two origins that merge to a parameter are both that.
LEMMA MergedOrigin ==
    ASSUME NEW A, 0 \in A, NEW a \in A, NEW b \in A
    PROVE  mergeOrigin(a, b) \in A /\ (mergeOrigin(a, b) # 0 => a = mergeOrigin(a, b) /\ b = mergeOrigin(a, b))
BY DEF mergeOrigin

\* The origin of a value is a parameter, or not known.
LEMMA OriginTyped ==
    ASSUME func \in Program, NEW S \in States, NEW e, TypedValue(func, e)
    PROVE  originOf(e, S) \in {0} \cup DOMAIN func.params
<1>1. DOMAIN S = collectTypedVars /\ \A v \in collectTypedVars : S[v].origin \in {0} \cup DOMAIN func.params
  BY DEF States
<1>2. CASE e.leaf.kind = "choice"
  <2>1. {e.leaf.var, e.leaf.other} \subseteq collectTypedVars
    BY <1>2 DEF TypedValue, TypedLeaf, collectTypedVars, Typed
  <2> QED BY <1>1, <1>2, <2>1 DEF originOf, mergeOrigin
<1>3. CASE e.leaf.kind # "choice"
  BY <1>1, <1>3 DEF originOf
<1> QED BY <1>2, <1>3

\* A value that is traced to a parameter is its entry object.
LEMMA ValueOrigin ==
    ASSUME Started, func.type = "pointer", NEW e, TypedValue(func, e), NEW S \in States, OriginsTrue(S),
           NEW y \in Values(e), originOf(e, S) # 0
    PROVE  y = entry[originOf(e, S)]
<1> DEFINE n == Len(e.via)
           vals == ValuesAt(e)
<1>1. n \in Nat /\ DOMAIN e.via = 1 .. n /\ \A k \in 1 .. n : e.via[k] \in Wraps
  BY ViaTyped
<1>3. vals \in [1 .. n + 1 -> SUBSET Kind] /\ Layers(e, vals)
  BY ValuesUnfold
<1>4. y \in vals[1] /\ vals[n + 1] = LeafValues(e.leaf) /\ \A k \in 1 .. n : vals[k] = Wrapped(e.via[k], vals[k + 1])
  BY <1>3 DEF Values, Layers
<1>5. Traceable(e)
  BY DEF originOf
<1>6. \A k \in 1 .. n : e.via[k].kind = "cast" \/ (e.via[k].kind = "call" /\ e.via[k].alias)
  BY <1>1, <1>5 DEF Traceable
<1> HIDE DEF n, vals
<1> DEFINE T == {k \in 1 .. n + 1 : vals[k] \subseteq LeafValues(e.leaf)}
<1>7. n + 1 \in T
  BY <1>1, <1>4
<1>8. ASSUME NEW k \in 1 .. n, k + 1 \in T PROVE k \in T
  <2>1. vals[k + 1] \subseteq LeafValues(e.leaf)
    BY <1>8
  <2>2. Wrapped(e.via[k], vals[k + 1]) \subseteq vals[k + 1]
    <3> DEFINE w == e.via[k]
    <3>1. w.kind = "cast" \/ (w.kind = "call" /\ w.alias)
      BY <1>6
    <3> HIDE DEF w, T
    <3>2. Wrapped(w, vals[k + 1]) \subseteq vals[k + 1]
      BY <3>1 DEF Wrapped, Returned
    <3> QED BY <3>2 DEF w
  <2>3. k \in 1 .. n + 1
    BY <1>1
  <2> QED BY <1>4, <2>1, <2>2, <2>3
<1>9. y \in LeafValues(e.leaf)
  <2> HIDE DEF T
  <2>1. \A k \in 1 .. n + 1 : k \in T
    BY <1>1, <1>7, <1>8, Outwards
  <2>2. 1 \in 1 .. n + 1
    BY <1>1
  <2>3. 1 \in T
    BY <2>1, <2>2
  <2> QED BY <1>4, <2>3 DEF T
<1>10. DOMAIN S = collectTypedVars
  BY DEF States
<1>11. CASE e.leaf.kind = "var"
  <2>1. e.leaf.var \in collectTypedVars /\ originOf(e, S) = S[e.leaf.var].origin
    BY <1>5, <1>10, <1>11 DEF originOf
  <2> QED BY <1>9, <1>11, <2>1 DEF LeafValues, OriginsTrue
<1>12. CASE e.leaf.kind = "choice"
  <2>1. {e.leaf.var, e.leaf.other} \subseteq collectTypedVars
    BY <1>12 DEF TypedValue, TypedLeaf, collectTypedVars, Typed
  <2>2. originOf(e, S) = mergeOrigin(S[e.leaf.var].origin, S[e.leaf.other].origin)
    BY <1>5, <1>12 DEF originOf
  <2>3. S[e.leaf.var].origin = originOf(e, S) /\ S[e.leaf.other].origin = originOf(e, S)
    BY <2>2 DEF mergeOrigin
  <2> QED BY <1>9, <1>12, <2>1, <2>3 DEF LeafValues, OriginsTrue
<1> QED BY <1>5, <1>11, <1>12 DEF originOf

-----------------------------------------------------------------------------
(* The join of states *)

\* What a says is what b says, or less.
Fades(a, b) ==
    /\ a.bad \in {"NonBad", "Bad"} => b.bad = a.bad
    /\ a.origin # 0 => b.origin = a.origin
    /\ a.owner # "Unknown" => b.owner \in {a.owner, "Null"}

Weaker(J, S) == \A v \in collectTypedVars : Fades(J[v], S[v])

Facts == [bad : VState, origin : {0} \cup DOMAIN func.params, owner : OwnershipState]

\* What is weaker than a weaker state is weaker.
LEMMA FadesTransitive ==
    ASSUME NEW J \in States, NEW K \in States, NEW S \in States, Weaker(J, K), Weaker(K, S)
    PROVE  Weaker(J, S)
<1> SUFFICES ASSUME NEW v \in collectTypedVars PROVE Fades(J[v], S[v])
  BY DEF Weaker
<1>1. Fades(J[v], K[v]) /\ Fades(K[v], S[v]) /\ K[v].owner \in OwnershipState
  BY DEF Weaker, States
<1> QED BY <1>1 DEF Fades, OwnershipState

\* Merging makes no state say more than either, and alarms only where one does.
LEMMA MergeFades ==
    ASSUME NEW S \in States, NEW T \in States
    PROVE  /\ merge(S, T) \in States /\ Weaker(merge(S, T), S) /\ Weaker(merge(S, T), T)
           /\ \A v \in collectTypedVars : merge(S, T)[v].bad \in {"Bad", "MaybeBad"} =>
                   S[v].bad \in {"Bad", "MaybeBad"} \/ T[v].bad \in {"Bad", "MaybeBad"}
<1>1. DOMAIN S = collectTypedVars
  BY DEF States
<1>2. ASSUME NEW v \in collectTypedVars
      PROVE  /\ merge(S, T)[v] \in Facts /\ Fades(merge(S, T)[v], S[v]) /\ Fades(merge(S, T)[v], T[v])
             /\ merge(S, T)[v].bad \in {"Bad", "MaybeBad"} => S[v].bad \in {"Bad", "MaybeBad"} \/ T[v].bad \in {"Bad", "MaybeBad"}
  <2> DEFINE a == S[v]
             b == T[v]
  <2>1. a \in Facts /\ b \in Facts
    BY DEF States, Facts
  <2>2. merge(S, T)[v] = [bad |-> mergeVState(a.bad, b.bad), origin |-> mergeOrigin(a.origin, b.origin), owner |-> mergeOwnership(a.owner, b.owner)]
    BY <1>1 DEF merge
  <2> HIDE DEF a, b
  <2>3. mergeOwnership(a.owner, b.owner) \in OwnershipState
    BY <2>1 DEF Facts, mergeOwnership, OwnershipState
  <2>4. mergeOrigin(a.origin, b.origin) \in {0} \cup DOMAIN func.params
    BY <2>1 DEF Facts, mergeOrigin
  <2>5. mergeVState(a.bad, b.bad) \in VState
    BY <2>1 DEF Facts, mergeVState, VState
  <2>6. merge(S, T)[v] \in Facts
    BY <2>2, <2>3, <2>4, <2>5 DEF Facts
  <2>7. mergeVState(a.bad, b.bad) \in {"NonBad", "Bad"} => a.bad = mergeVState(a.bad, b.bad) /\ b.bad = mergeVState(a.bad, b.bad)
    BY <2>1 DEF Facts, mergeVState, VState
  <2>8. mergeVState(a.bad, b.bad) \in {"Bad", "MaybeBad"} => a.bad \in {"Bad", "MaybeBad"} \/ b.bad \in {"Bad", "MaybeBad"}
    BY <2>1 DEF Facts, mergeVState, VState
  <2>9. mergeOwnership(a.owner, b.owner) # "Unknown" =>
            a.owner \in {mergeOwnership(a.owner, b.owner), "Null"} /\ b.owner \in {mergeOwnership(a.owner, b.owner), "Null"}
    BY <2>1 DEF Facts, mergeOwnership, OwnershipState
  <2>10. mergeOrigin(a.origin, b.origin) # 0 => a.origin = mergeOrigin(a.origin, b.origin) /\ b.origin = mergeOrigin(a.origin, b.origin)
    BY DEF mergeOrigin
  <2> QED BY <2>2, <2>6, <2>7, <2>8, <2>9, <2>10 DEF Fades, a, b
<1>3. merge(S, T) \in States
  BY <1>1, <1>2 DEF States, merge, Facts
<1> QED BY <1>2, <1>3 DEF Weaker

\* The join of states says only what each of them says.
LEMMA JoinFades ==
    ASSUME NEW X, IsFiniteSet(X), X \subseteq States, X # {}
    PROVE  \E J \in States : /\ Join(X) = {J} /\ \A S \in X : Weaker(J, S)
                             /\ \A v \in collectTypedVars : J[v].bad \in {"Bad", "MaybeBad"} => \E S \in X : S[v].bad \in {"Bad", "MaybeBad"}
<1> DEFINE base == Pick(X)
           P(g) == g = [s \in SUBSET X |-> IF s = {} THEN base ELSE merge(Pick(s), g[Rest(s)])]
           G == [p \in X \X States |-> merge(p[1], p[2])]
           g0 == CHOOSE g : P(g)
<1>0. base \in X /\ base \in States
  BY PickRest
<1>1. Join(X) = {g0[X]}
  BY DEF Join, FoldSet, MapThenFoldSet, Pick, Rest
<1> HIDE DEF base
<1>2. G \in [X \X States -> States]
  BY MergeFades
<1>3. PICK f : FoldsOn(f, X, States, base, G)
  <2> HIDE DEF G
  <2> QED BY <1>0, <1>2, FoldExists
<1>4. ASSUME NEW s \in SUBSET X, s # {} PROVE f[s] = merge(Pick(s), f[Rest(s)])
  <2>1. Pick(s) \in X /\ Rest(s) \in SUBSET X
    BY <1>4, PickRest
  <2>2. f[Rest(s)] \in States /\ f[s] = G[<<Pick(s), f[Rest(s)]>>]
    BY <1>3, <1>4, <2>1 DEF FoldsOn
  <2> QED BY <2>1, <2>2
<1>5. P(f)
  <2>1. f[{}] = base /\ f = [s \in SUBSET X |-> f[s]]
    <3> HIDE DEF G
    <3> QED BY <1>3 DEF FoldsOn
  <2> QED BY <2>1, <1>4, Zenon
<1>6. P(g0)
  BY <1>5
<1> HIDE DEF g0
<1>7. g0[{}] = base /\ \A s \in SUBSET X : s # {} => g0[s] = merge(Pick(s), g0[Rest(s)])
  <2>1. \A s \in SUBSET X : g0[s] = IF s = {} THEN base ELSE merge(Pick(s), g0[Rest(s)])
    BY <1>6, Zenon
  <2> QED BY <2>1
<1> HIDE DEF P, G
<1> DEFINE Bad(S, v) == S[v].bad \in {"Bad", "MaybeBad"}
           R == {T \in SUBSET X : /\ g0[T] \in States /\ Weaker(g0[T], base) /\ \A S \in T : Weaker(g0[T], S)
                                  /\ \A v \in collectTypedVars : Bad(g0[T], v) => \E S \in X : Bad(S, v)}
<1>8. {} \in R
  <2>1. Weaker(base, base)
    BY DEF Weaker, Fades
  <2> HIDE DEF Bad
  <2> QED BY <1>0, <1>7, <2>1
<1>9. ASSUME NEW T \in SUBSET X, T # {}, Rest(T) \in R PROVE T \in R
  <2> DEFINE x == Pick(T)
             acc == g0[Rest(T)]
  <2>1. x \in X /\ x \in States /\ T = Rest(T) \cup {x}
    BY <1>9, PickRest DEF Rest
  <2>2. acc \in States /\ Weaker(acc, base) /\ \A S \in Rest(T) : Weaker(acc, S)
    BY <1>9
  <2>3. \A v \in collectTypedVars : Bad(acc, v) => \E S \in X : Bad(S, v)
    BY <1>9
  <2>4. g0[T] = merge(x, acc)
    BY <1>7, <1>9
  <2> HIDE DEF x, acc
  <2>5. g0[T] \in States /\ Weaker(g0[T], x) /\ Weaker(g0[T], acc)
    BY <2>1, <2>2, <2>4, MergeFades
  <2>6. \A v \in collectTypedVars : Bad(g0[T], v) => Bad(x, v) \/ Bad(acc, v)
    BY <2>1, <2>2, <2>4, MergeFades
  <2> HIDE DEF Bad
  <2>7. ASSUME NEW S \in T PROVE Weaker(g0[T], S)
    BY <2>1, <2>2, <2>5, FadesTransitive
  <2>8. Weaker(g0[T], base)
    BY <1>0, <2>2, <2>5, FadesTransitive
  <2> QED BY <2>1, <2>3, <2>5, <2>6, <2>7, <2>8
<1>10. X \in R
  <2> HIDE DEF R
  <2> QED BY <1>8, <1>9, RestInduction
<1> QED BY <1>1, <1>10

\* All that is merged into Owned is Owned or Null, and so for Borrowed.
LEMMA OwnersFold ==
    ASSUME NEW X \in SUBSET OwnershipState
    PROVE  LET whole == FoldSet(mergeOwnership, "Null", X)
           IN  whole \in {"Owned", "Borrowed"} => \A o \in X : o \in {whole, "Null"}
<1> DEFINE P(g) == g = [s \in SUBSET X |-> IF s = {} THEN "Null" ELSE mergeOwnership(Pick(s), g[Rest(s)])]
           G == [p \in X \X OwnershipState |-> mergeOwnership(p[1], p[2])]
           g0 == CHOOSE g : P(g)
<1>0. IsFiniteSet(X)
  <2>1. IsFiniteSet(OwnershipState)
    <3>1. IsFiniteSet({"Unknown"}) /\ IsFiniteSet({"Owned"}) /\ IsFiniteSet({"Borrowed"}) /\ IsFiniteSet({"Null"})
      BY FS_Singleton
    <3>2. IsFiniteSet({"Unknown"} \cup {"Owned"}) /\ IsFiniteSet({"Borrowed"} \cup {"Null"})
      BY <3>1, FS_Union
    <3>3. IsFiniteSet(({"Unknown"} \cup {"Owned"}) \cup ({"Borrowed"} \cup {"Null"}))
      BY <3>2, FS_Union
    <3>4. OwnershipState = ({"Unknown"} \cup {"Owned"}) \cup ({"Borrowed"} \cup {"Null"})
      BY DEF OwnershipState
    <3> QED BY <3>3, <3>4
  <2> QED BY <2>1, FS_Subset
<1>1. FoldSet(mergeOwnership, "Null", X) = g0[X]
  BY DEF FoldSet, MapThenFoldSet, Pick, Rest
<1>2. G \in [X \X OwnershipState -> OwnershipState]
  BY DEF mergeOwnership, OwnershipState
<1>3. PICK f : FoldsOn(f, X, OwnershipState, "Null", G)
  <2>1. "Null" \in OwnershipState
    BY DEF OwnershipState
  <2> HIDE DEF G
  <2> QED BY <1>0, <1>2, <2>1, FoldExists
<1>4. ASSUME NEW s \in SUBSET X, s # {} PROVE f[s] = mergeOwnership(Pick(s), f[Rest(s)])
  <2>1. Pick(s) \in X /\ Rest(s) \in SUBSET X
    BY <1>4, PickRest
  <2>2. f[Rest(s)] \in OwnershipState /\ f[s] = G[<<Pick(s), f[Rest(s)]>>]
    BY <1>3, <1>4, <2>1 DEF FoldsOn
  <2> QED BY <2>1, <2>2
<1>5. P(f)
  <2>1. f[{}] = "Null" /\ f = [s \in SUBSET X |-> f[s]]
    <3> HIDE DEF G
    <3> QED BY <1>3 DEF FoldsOn
  <2> QED BY <2>1, <1>4, Zenon
<1>6. P(g0)
  BY <1>5
<1> HIDE DEF g0
<1>7. g0[{}] = "Null" /\ \A s \in SUBSET X : s # {} => g0[s] = mergeOwnership(Pick(s), g0[Rest(s)])
  <2>1. \A s \in SUBSET X : g0[s] = IF s = {} THEN "Null" ELSE mergeOwnership(Pick(s), g0[Rest(s)])
    BY <1>6, Zenon
  <2> QED BY <2>1
<1> HIDE DEF P, G
<1> DEFINE R == {T \in SUBSET X : /\ g0[T] \in OwnershipState
                                  /\ g0[T] # "Unknown" => \A o \in T : o \in {g0[T], "Null"}}
<1>8. {} \in R
  BY <1>7 DEF OwnershipState
<1>9. ASSUME NEW T \in SUBSET X, T # {}, Rest(T) \in R PROVE T \in R
  <2> DEFINE x == Pick(T)
             acc == g0[Rest(T)]
  <2>1. x \in X /\ x \in OwnershipState /\ T = Rest(T) \cup {x}
    BY <1>9, PickRest DEF Rest
  <2>2. acc \in OwnershipState /\ (acc # "Unknown" => \A o \in Rest(T) : o \in {acc, "Null"})
    BY <1>9
  <2>4. g0[T] = mergeOwnership(x, acc)
    BY <1>7, <1>9
  <2> HIDE DEF x, acc
  <2>5. /\ mergeOwnership(x, acc) \in OwnershipState
        /\ mergeOwnership(x, acc) # "Unknown" => x \in {mergeOwnership(x, acc), "Null"} /\ acc \in {mergeOwnership(x, acc), "Null"}
    BY <2>1, <2>2 DEF mergeOwnership, OwnershipState
  <2> QED BY <2>1, <2>2, <2>4, <2>5
<1>10. X \in R
  <2> HIDE DEF R
  <2> QED BY <1>0, <1>8, <1>9, RestInduction
<1> QED BY <1>1, <1>10

-----------------------------------------------------------------------------
(* The states before the statements *)

\* What ProgramAssumption says of the function's statements.
LEMMA TextTyped ==
    ASSUME func \in Program
    PROVE  /\ TypedFunction(func) /\ IsFiniteSet(Nodes) /\ 1 \in Nodes
           /\ \A n \in Nodes : TypedStatement(func, At(n)) /\ Targets(At(n)) \subseteq Nodes
BY ProgramAssumption DEF ProgramAssumption, TypedFunction, Nodes, At

\* The states that the dataflow starts from and hands on are states.
LEMMA InitialTyped ==
    ASSUME func \in Program
    PROVE  initialState \in States
<1>1. ASSUME NEW v \in Params PROVE ParamIndex(v) \in DOMAIN func.params
  BY DEF Params, ParamIndex
<1> QED BY <1>1 DEF initialState, States, VState, OwnershipState

\* So are the parts that values are given.
LEMMA VStateTyped ==
    ASSUME NEW e, TypedValue(func, e)
    PROVE  vstateOf(e) \in VState
<1>1. Len(e.via) \in Nat /\ e.via \in Seq(Wraps)
  BY ViaTyped
<1>2. PICK known \in [1 .. Len(e.via) + 1 -> VState] : VStates(e, known)
  BY <1>1, VStateUnfold
<1>3. 1 \in 1 .. Len(e.via) + 1
  BY <1>1
<1> QED BY <1>2, <1>3 DEF VStates

LEMMA OwnershipTyped ==
    ASSUME NEW e, TypedValue(func, e), NEW S \in States
    PROVE  ownershipOf(e, S) \in OwnershipState
<1>1. Len(e.via) \in Nat /\ e.via \in Seq(Wraps)
  BY ViaTyped
<1>2. LeafOwnership(e.leaf, S) \in OwnershipState
  <2>1. DOMAIN S = collectTypedVars /\ \A v \in collectTypedVars : S[v].owner \in OwnershipState
    BY DEF States
  <2>2. CASE e.leaf.kind = "choice"
    <3>1. {e.leaf.var, e.leaf.other} \subseteq collectTypedVars
      BY <2>2 DEF TypedValue, TypedLeaf, collectTypedVars, Typed
    <3>2. LeafOwnership(e.leaf, S) = mergeOwnership(S[e.leaf.var].owner, S[e.leaf.other].owner)
      BY <2>2 DEF LeafOwnership
    <3> QED BY <2>1, <3>1, <3>2, MergedOwner
  <2>3. CASE e.leaf.kind # "choice"
    BY <2>1, <2>3 DEF LeafOwnership, OwnershipState
  <2> QED BY <2>2, <2>3
<1>3. PICK known \in [1 .. Len(e.via) + 1 -> OwnershipState] : Owners(e, S, known)
  BY <1>1, <1>2, OwnershipUnfold
<1>4. 1 \in 1 .. Len(e.via) + 1
  BY <1>1
<1> QED BY <1>3, <1>4 DEF Owners

LEMMA TransferTyped ==
    ASSUME func \in Program, NEW s, TypedStatement(func, s), NEW S \in States
    PROVE  transfer(s, S) \in States
<1>1. DOMAIN S = collectTypedVars /\ \A v \in collectTypedVars : S[v] \in Facts
  BY DEF States, Facts
<1>2. ASSUME NEW v \in collectTypedVars PROVE transfer(s, S)[v] \in Facts
  <2>1. S[v].bad \in VState /\ S[v].origin \in {0} \cup DOMAIN func.params /\ S[v].owner \in OwnershipState
    BY <1>1 DEF Facts
  <2>2. s.kind \in {"assign", "static"} => /\ vstateOf(s.value) \in VState
                                           /\ originOf(s.value, S) \in {0} \cup DOMAIN func.params
                                           /\ ownershipOf(s.value, S) \in OwnershipState
    BY VStateTyped, OriginTyped, OwnershipTyped DEF TypedStatement
  <2>3. badAfter(s, S[v].bad) \in VState
    BY <2>1, <2>2 DEF badAfter, VState
  <2>4. originAfter(s, S, S[v].origin) \in {0} \cup DOMAIN func.params
    BY <2>1, <2>2 DEF originAfter
  <2>5. ownerAfter(s, S, S[v].owner) \in OwnershipState
    BY <2>1, <2>2 DEF ownerAfter, OwnershipState
  <2> QED BY <1>1, <2>1, <2>3, <2>4, <2>5 DEF transfer, Facts
<1>3. DOMAIN transfer(s, S) = collectTypedVars /\ transfer(s, S) = [v \in collectTypedVars |-> transfer(s, S)[v]]
  BY <1>1 DEF transfer
<1> QED BY <1>2, <1>3 DEF States, Facts

LEMMA EdgeFactKnown == \A c, edge : EdgeFact(c, edge) \subseteq {"Bad", "NonBad"}
BY DEF EdgeFact

LEMMA RefineTyped ==
    ASSUME NEW c, NEW edge, NEW S \in States
    PROVE  refineOnEdge(c, edge, S) \in States
<1> DEFINE fact == EdgeFact(c, edge)
           T == refineOnEdge(c, edge, S)
<1>1. DOMAIN S = collectTypedVars /\ \A v \in collectTypedVars : S[v] \in Facts
  BY DEF States, Facts
<1>2. fact # {} => (CHOOSE z \in fact : TRUE) \in VState
  BY EdgeFactKnown DEF VState
<1>3. T = [v \in collectTypedVars |-> IF v = c.var /\ fact # {} THEN [S[v] EXCEPT !.bad = CHOOSE z \in fact : TRUE] ELSE S[v]]
  BY <1>1 DEF refineOnEdge
<1> HIDE DEF fact, T
<1>4. ASSUME NEW v \in collectTypedVars PROVE T[v] \in Facts
  BY <1>1, <1>2, <1>3 DEF Facts
<1>5. T \in States
  BY <1>3, <1>4 DEF States, Facts
<1> QED BY <1>5 DEF T

\* What a statement hands on are states, to each of its targets and to no other.
LEMMA HandedTyped ==
    ASSUME func \in Program, NEW m \in Nodes, NEW n, NEW S \in States
    PROVE  /\ Handed(m, n, S) \subseteq States /\ IsFiniteSet(Handed(m, n, S))
           /\ n \in Targets(At(m)) <=> Handed(m, n, S) # {}
<1>1. TypedStatement(func, At(m))
  BY TextTyped
<1>2. CASE n \notin Targets(At(m))
  <2>1. Handed(m, n, S) = {}
    BY <1>2 DEF Handed
  <2> QED BY <1>2, <2>1, FS_EmptySet
<1>3. CASE n \in Targets(At(m)) /\ At(m).kind = "branch"
  <2> DEFINE edges == {u \in BOOLEAN : n = IF u THEN At(m).next ELSE At(m).alt}
             refined == [u \in edges |-> refineOnEdge(At(m).cond, u, S)]
  <2>1. Handed(m, n, S) = {refined[u] : u \in edges}
    BY <1>3 DEF Handed
  <2>2. edges # {}
    <3>1. n \in {At(m).next, At(m).alt}
      BY <1>3 DEF Targets
    <3> QED BY <3>1
  <2>3. IsFiniteSet(edges)
    <3>1. IsFiniteSet({TRUE}) /\ IsFiniteSet({FALSE})
      BY FS_Singleton
    <3>2. IsFiniteSet({TRUE} \cup {FALSE})
      BY <3>1, FS_Union
    <3>3. edges \in SUBSET ({TRUE} \cup {FALSE})
      OBVIOUS
    <3> HIDE DEF edges
    <3> QED BY <3>2, <3>3, FS_Subset
  <2>4. \A u \in edges : refined[u] \in States
    BY RefineTyped
  <2>5. DOMAIN refined = edges
    OBVIOUS
  <2> HIDE DEF edges, refined
  <2>6. IsFiniteSet({refined[u] : u \in edges})
    BY <2>3, <2>5, FiniteImage
  <2> QED BY <1>3, <2>1, <2>2, <2>4, <2>6
<1>4. CASE n \in Targets(At(m)) /\ At(m).kind = "switch"
  <2>1. Handed(m, n, S) = {S}
    BY <1>4 DEF Handed
  <2> QED BY <1>4, <2>1, FS_Singleton
<1>5. CASE n \in Targets(At(m)) /\ At(m).kind \notin {"branch", "switch"}
  <2>1. Handed(m, n, S) = {transfer(At(m), S)}
    BY <1>5 DEF Handed
  <2>2. transfer(At(m), S) \in States
    BY <1>1, TransferTyped
  <2>3. IsFiniteSet(Handed(m, n, S))
    BY <2>1, FS_Singleton
  <2>4. Handed(m, n, S) \subseteq States /\ Handed(m, n, S) # {}
    BY <2>1, <2>2
  <2> QED BY ONLY <1>5, <2>3, <2>4
<1> QED BY <1>2, <1>3, <1>4, <1>5

FlowTyped(F) == F \in [Nodes -> SUBSET States] /\ \A n \in Nodes : \E S : F[n] \subseteq {S}

\* What arrives at n.
Arrivals(F, n) == {initialState : x \in {1} \cap {n}} \cup UNION {UNION {Handed(m, n, S) : S \in F[m]} : m \in Nodes}

\* What arrives at a statement is a finite set of states.
LEMMA ArrivalsTyped ==
    ASSUME func \in Program, NEW F, FlowTyped(F), NEW n \in Nodes
    PROVE  /\ Arrivals(F, n) \subseteq States /\ IsFiniteSet(Arrivals(F, n))
           /\ n = 1 => initialState \in Arrivals(F, n)
           /\ \A m \in Nodes : \A S \in F[m] : Handed(m, n, S) \subseteq Arrivals(F, n)
           /\ Arrivals(F, n) # {} => n = 1 \/ \E m \in Nodes : F[m] # {} /\ n \in Targets(At(m))
<1> DEFINE Handing == [m \in Nodes |-> UNION {Handed(m, n, S) : S \in F[m]}]
           Entering == {initialState : x \in {1} \cap {n}}
<1>1. \A m \in Nodes : F[m] \subseteq States /\ \E S : F[m] \subseteq {S}
  BY DEF FlowTyped
<1>2. Arrivals(F, n) = Entering \cup UNION {Handing[m] : m \in Nodes}
  BY DEF Arrivals
<1>3. Entering \subseteq {initialState} /\ IsFiniteSet(Entering) /\ (n = 1 <=> Entering # {})
  <2>1. IsFiniteSet({initialState})
    BY FS_Singleton
  <2>2. Entering \in SUBSET {initialState}
    OBVIOUS
  <2>3. IsFiniteSet(Entering)
    BY <2>1, <2>2, FS_Subset
  <2> QED BY <2>2, <2>3
<1>4. ASSUME NEW m \in Nodes
      PROVE  Handing[m] \subseteq States /\ IsFiniteSet(Handing[m]) /\ (Handing[m] # {} => F[m] # {} /\ n \in Targets(At(m)))
  <2>1. Handing[m] \subseteq States /\ (Handing[m] # {} => F[m] # {} /\ n \in Targets(At(m)))
    BY <1>1, HandedTyped
  <2>2. CASE F[m] = {}
    <3>1. Handing[m] = {}
      BY <2>2
    <3> QED BY <2>1, <3>1, FS_EmptySet
  <2>3. CASE F[m] # {}
    <3>1. PICK S \in States : F[m] = {S}
      BY <1>1, <2>3
    <3>2. Handing[m] = Handed(m, n, S)
      BY <3>1
    <3>3. IsFiniteSet(Handed(m, n, S))
      BY HandedTyped
    <3> QED BY ONLY <2>1, <3>2, <3>3
  <2> QED BY <2>2, <2>3
<1>5. DOMAIN Handing = Nodes /\ \A m \in Nodes : \A S \in F[m] : Handed(m, n, S) \subseteq Handing[m]
  OBVIOUS
<1> HIDE DEF Handing, Entering
<1>6. IsFiniteSet({Handing[m] : m \in Nodes})
  BY <1>5, TextTyped, FiniteImage
<1>7. IsFiniteSet(UNION {Handing[m] : m \in Nodes})
  BY <1>4, <1>6, FS_UNION
<1>8. IsFiniteSet(Arrivals(F, n))
  <2>1. IsFiniteSet(Entering)
    BY <1>3
  <2>2. IsFiniteSet(Entering \cup UNION {Handing[m] : m \in Nodes})
    BY ONLY <1>7, <2>1, FS_Union
  <2> QED BY ONLY <1>2, <2>2
<1>9. Arrivals(F, n) \subseteq States
  BY <1>2, <1>3, <1>4, InitialTyped
<1> QED BY <1>2, <1>3, <1>4, <1>5, <1>8, <1>9

SweptOf(F) == [n \in Nodes |-> Join(Arrivals(F, n))]

\* A round, as a function of the flow before it.
LEMMA SweptOfFlow == Swept = SweptOf(flow)
BY DEF Swept, SweptOf, Arrivals

\* A sweep joins what arrives.
LEMMA SweptFades ==
    ASSUME func \in Program, NEW F, FlowTyped(F), NEW n \in Nodes
    PROVE  /\ Arrivals(F, n) = {} => SweptOf(F)[n] = {}
           /\ Arrivals(F, n) # {} =>
                \E J \in States : /\ SweptOf(F)[n] = {J} /\ \A S \in Arrivals(F, n) : Weaker(J, S)
                                  /\ \A v \in collectTypedVars : J[v].bad \in {"Bad", "MaybeBad"} =>
                                          \E S \in Arrivals(F, n) : S[v].bad \in {"Bad", "MaybeBad"}
<1>1. SweptOf(F)[n] = Join(Arrivals(F, n))
  BY DEF SweptOf
<1>2. Arrivals(F, n) = {} => SweptOf(F)[n] = {}
  BY <1>1 DEF Join
<1>3. Arrivals(F, n) \subseteq States /\ IsFiniteSet(Arrivals(F, n))
  BY ArrivalsTyped
<1> QED BY <1>1, <1>2, <1>3, JoinFades

\* A round leaves a flow.
LEMMA SweptTyped ==
    ASSUME func \in Program, NEW F, FlowTyped(F)
    PROVE  FlowTyped(SweptOf(F))
<1>1. ASSUME NEW n \in Nodes PROVE SweptOf(F)[n] \subseteq States /\ \E S : SweptOf(F)[n] \subseteq {S}
  BY SweptFades
<1>2. SweptOf(F) = [n \in Nodes |-> SweptOf(F)[n]]
  BY DEF SweptOf
<1> QED BY <1>1, <1>2 DEF FlowTyped

-----------------------------------------------------------------------------
(* Where a variable may be bad there is evidence *)

Alarming == {"Bad", "MaybeBad"}

Closed(F, E, v) == \A m \in Nodes : F[m] # {} => {t \in Targets(At(m)) : PassesBad(m, t, v, m \in E)} \subseteq E

EvidenceIn(F, v) == {n \in Nodes : \A E \in SUBSET Nodes : Closed(F, E, v) => n \in E}

Alarmed(F) == \A n \in Nodes, v \in collectTypedVars : \A S \in F[n] : S[v].bad \in Alarming => n \in EvidenceIn(F, v)

Growing(F) == \A n \in Nodes : F[n] # {} => SweptOf(F)[n] # {}

\* What a statement hands on is alarming only if the statement passes it on.
LEMMA HandedAlarm ==
    ASSUME func \in Program, NEW m \in Nodes, NEW n, NEW S \in States, NEW T \in Handed(m, n, S),
           NEW v \in collectTypedVars, T[v].bad \in Alarming
    PROVE  n \in Targets(At(m)) /\ PassesBad(m, n, v, S[v].bad \in Alarming)
<1> DEFINE s == At(m)
<1>1. DOMAIN S = collectTypedVars
  BY DEF States
<1>2. n \in Targets(s)
  BY HandedTyped
<1>3. CASE s.kind = "branch"
  <2>1. PICK t \in BOOLEAN : n = (IF t THEN s.next ELSE s.alt) /\ T = refineOnEdge(s.cond, t, S)
    BY <1>2, <1>3 DEF Handed
  <2>2. CASE v = s.cond.var
    <3>1. CASE EdgeFact(s.cond, t) = {}
      <4>1. T[v] = S[v]
        BY <1>1, <2>1, <2>2, <3>1 DEF refineOnEdge
      <4> HIDE DEF s
      <4> QED BY <1>2, <1>3, <2>1, <2>2, <3>1, <4>1 DEF PassesBad, s
    <3>2. CASE EdgeFact(s.cond, t) # {}
      <4> DEFINE z == CHOOSE z \in EdgeFact(s.cond, t) : TRUE
      <4>1. T[v] = [S[v] EXCEPT !.bad = z] /\ z \in EdgeFact(s.cond, t)
        BY <1>1, <2>1, <2>2, <3>2 DEF refineOnEdge
      <4>2. T[v].bad = z
        BY <4>1 DEF States
      <4> HIDE DEF z
      <4>3. z = "Bad"
        BY <4>1, <4>2, EdgeFactKnown DEF Alarming
      <4> QED BY <1>2, <1>3, <2>1, <2>2, <4>1, <4>3 DEF PassesBad
    <3> QED BY <3>1, <3>2
  <2>3. CASE v # s.cond.var
    <3>1. T[v] = S[v]
      BY <1>1, <2>1, <2>3 DEF refineOnEdge
    <3> QED BY <1>2, <1>3, <2>3, <3>1 DEF PassesBad
  <2> QED BY <2>2, <2>3
<1>4. CASE s.kind = "switch"
  <2>1. T = S
    BY <1>2, <1>4 DEF Handed
  <2> QED BY <1>2, <1>4, <2>1 DEF PassesBad
<1>5. CASE s.kind \notin {"branch", "switch"}
  <2>1. T = transfer(s, S)
    BY <1>2, <1>5 DEF Handed
  <2>2. CASE v = s.var
    <3>1. T[v].bad = badAfter(s, S[v].bad)
      BY <1>1, <2>1, <2>2 DEF transfer
    <3>2. badAfter(s, S[v].bad) \in Alarming
      BY <3>1
    <3> HIDE DEF s
    <3> QED BY <1>2, <1>5, <2>2, <3>2 DEF PassesBad, badAfter, Alarming, s
  <2>3. CASE v # s.var
    <3>1. T[v] = S[v]
      BY <1>1, <2>1, <2>3 DEF transfer
    <3> QED BY <1>2, <1>5, <2>3, <3>1 DEF PassesBad
  <2> QED BY <2>2, <2>3
<1> QED BY <1>3, <1>4, <1>5

\* What passes on its own passes when more is bad before it.
LEMMA PassesMore ==
    ASSUME NEW m, NEW n, NEW v, NEW before \in BOOLEAN, NEW more \in BOOLEAN, before => more, PassesBad(m, n, v, before)
    PROVE  PassesBad(m, n, v, more)
BY DEF PassesBad

\* More statements reached, more evidence.
LEMMA SweepAlarmed ==
    ASSUME func \in Program, NEW F, FlowTyped(F), Alarmed(F), Growing(F)
    PROVE  Alarmed(SweptOf(F)) /\ Growing(SweptOf(F))
<1> DEFINE G == SweptOf(F)
<1>0. FlowTyped(G)
  BY SweptTyped
<1>1. \A n \in Nodes : G[n] # {} => Arrivals(F, n) # {}
  BY SweptFades
<1>2. \A n \in Nodes : Arrivals(G, n) # {} => SweptOf(G)[n] # {}
  <2> TAKE n \in Nodes
  <2> HAVE Arrivals(G, n) # {}
  <2> HIDE DEF G
  <2> QED BY <1>0, SweptFades
<1>3. \A m \in Nodes : F[m] # {} => G[m] # {}
  BY DEF Growing
<1>4. Growing(G)
  <2> SUFFICES ASSUME NEW n \in Nodes, G[n] # {} PROVE Arrivals(G, n) # {}
    BY <1>2 DEF Growing
  <2>1. CASE n = 1
    <3> HIDE DEF G
    <3> QED BY <1>0, <2>1, ArrivalsTyped
  <2>2. CASE n # 1
    <3>1. PICK m \in Nodes : F[m] # {} /\ n \in Targets(At(m))
      BY <1>1, <2>2, ArrivalsTyped
    <3>2. G[m] # {}
      BY <1>3, <3>1
    <3> HIDE DEF G
    <3>3. PICK S \in States : S \in G[m]
      BY <1>0, <3>2 DEF FlowTyped
    <3>4. Handed(m, n, S) # {} /\ Handed(m, n, S) \subseteq Arrivals(G, n)
      BY <1>0, <3>1, <3>3, HandedTyped, ArrivalsTyped
    <3> QED BY <3>4
  <2> QED BY <2>1, <2>2
<1>5. Alarmed(G)
  <2> SUFFICES ASSUME NEW n \in Nodes, NEW v \in collectTypedVars, NEW J \in G[n], J[v].bad \in Alarming,
                      NEW E \in SUBSET Nodes, Closed(G, E, v)
               PROVE  n \in E
    BY DEF Alarmed, EvidenceIn
  <2>1. Closed(F, E, v)
    BY <1>3 DEF Closed
  <2>2. PICK T \in Arrivals(F, n) : T[v].bad \in Alarming
    BY SweptFades DEF Alarming
  <2>3. T # initialState
    <3>1. initialState[v].bad = "Unknown"
      BY DEF initialState
    <3> QED BY <2>2, <3>1 DEF Alarming
  <2>4. PICK m \in Nodes : \E S \in F[m] : T \in Handed(m, n, S)
    BY <2>2, <2>3 DEF Arrivals
  <2> PICK S \in F[m] : T \in Handed(m, n, S)
    BY <2>4
  <2>5. S \in States
    BY <2>4 DEF FlowTyped
  <2>6. n \in Targets(At(m)) /\ PassesBad(m, n, v, S[v].bad \in Alarming)
    BY <2>2, <2>4, <2>5, HandedAlarm
  <2>7. S[v].bad \in Alarming => m \in E
    BY <2>1, <2>4 DEF Alarmed, EvidenceIn
  <2>8. PassesBad(m, n, v, m \in E)
    <3> DEFINE b == S[v].bad \in Alarming
               c == m \in E
    <3>1. b \in BOOLEAN /\ c \in BOOLEAN /\ (b => c) /\ PassesBad(m, n, v, b)
      BY <2>6, <2>7
    <3> HIDE DEF b, c
    <3>2. PassesBad(m, n, v, c)
      BY ONLY <3>1, PassesMore
    <3> QED BY <3>2 DEF c
  <2>9. G[m] # {}
    BY <1>3, <2>4
  <2> QED BY <2>6, <2>8, <2>9 DEF Closed
<1> QED BY <1>4, <1>5

-----------------------------------------------------------------------------
(* The dataflow is typed and solved, the summary is drawn from it *)

Claim == aggregate(computeReturnFlow)

Summary ==
    [claim |-> Claim,
     from |-> IF Claim = "Unknown" /\ returns # {} THEN passthroughParam ELSE 0,
     alias |-> computeReturnAliasParam,
     owner |-> computeReturnOwnership,
     null |-> IF func.type = "pointer" /\ Claim = "Maybe" THEN detectNullCondition ELSE {}]

FlowInv ==
    /\ func \in Program
    /\ phase \in {"flow", "harvest", "ready", "running", "returned"}
    /\ FlowTyped(flow) /\ Alarmed(flow) /\ Growing(flow)
    /\ phase # "flow" => flow = SweptOf(flow)
    /\ phase \in {"ready", "running", "returned"} => summary = Summary

\* What depends on the function alone does not change.
LEMMA TextFrame ==
    ASSUME func' = func
    PROVE  /\ Nodes' = Nodes /\ Params' = Params /\ returns' = returns /\ unwrittenParams' = unwrittenParams
           /\ collectTypedVars' = collectTypedVars /\ States' = States /\ initialState' = initialState
BY DEF Nodes, Params, returns, At, unwrittenParams, collectTypedVars, Typed, States, initialState, ParamIndex

\* Guards, rounds, evidence and the summary are the same while the function is.
LEMMA GuardFrame ==
    ASSUME func' = func, NEW u
    PROVE  guard(u)' = guard(u)
<1>1. matchSwitchDefaultGuard(u.at)' = matchSwitchDefaultGuard(u.at)
  BY DEF matchSwitchDefaultGuard, IntParams, FallsThrough, unwrittenParams, Params, ParamIndex, At, Nodes
<1>2. matchComparisonGuard(u.at, u.taken)' = matchComparisonGuard(u.at, u.taken)
  BY DEF matchComparisonGuard, IntParams, unwrittenParams, Params, ParamIndex, At, Nodes
<1> QED BY <1>1, <1>2 DEF guard

LEMMA SweptFrame ==
    ASSUME func' = func
    PROVE  SweptOf(flow)' = SweptOf(flow')
BY DEF SweptOf, Arrivals, initialState, Params, ParamIndex, collectTypedVars, Typed, Nodes, Handed, At, Join

LEMMA EvidenceFrame ==
    ASSUME func' = func, NEW v
    PROVE  EvidenceIn(flow, v)' = EvidenceIn(flow', v)
BY DEF EvidenceIn, Closed, PassesBad, Nodes, At

LEMMA FlowFrame ==
    ASSUME func' = func
    PROVE  /\ FlowTyped(flow)' <=> FlowTyped(flow')
           /\ Alarmed(flow)' <=> Alarmed(flow')
           /\ Growing(flow)' <=> Growing(flow')
<1>1. FlowTyped(flow)' <=> FlowTyped(flow')
  BY TextFrame DEF FlowTyped
<1>2. Alarmed(flow)' <=> Alarmed(flow')
  BY TextFrame, EvidenceFrame DEF Alarmed
<1>3. Growing(flow)' <=> Growing(flow')
  BY TextFrame, SweptFrame DEF Growing
<1> QED BY <1>1, <1>2, <1>3

LEMMA SummaryFrame ==
    ASSUME func' = func, flow' = flow
    PROVE  Summary' = Summary
<1>1. Claim' = Claim
  BY DEF Claim, aggregate, computeReturnFlow, returns, Nodes, At, contribution
<1>2. passthroughParam' = passthroughParam
  BY DEF passthroughParam, resolveNullReturn, resolveZeroReturn, ResolvedLeaf, Narrows, SlotWidth, unwrittenParams, Params, ParamIndex, At, Nodes, returns
<1>3. computeReturnAliasParam' = computeReturnAliasParam /\ computeReturnOwnership' = computeReturnOwnership
  BY DEF computeReturnAliasParam, computeReturnOwnership, returns, Nodes, At
<1>4. detectNullCondition' = detectNullCondition
  <2>1. \A n : findGuardAbove(n)' = findGuardAbove(n)
    BY GuardFrame DEF findGuardAbove, At
  <2> QED BY <2>1 DEF detectNullCondition, returns, Nodes, At
<1>5. returns' = returns
  BY TextFrame
<1> QED BY <1>1, <1>2, <1>3, <1>4, <1>5 DEF Summary

\* The flow stays typed and its alarms justified, while it is solved; once it is, nothing
\* changes it, and the summary says what is drawn from it.
LEMMA FlowInit == Init => FlowInv
<1> SUFFICES ASSUME Init PROVE FlowInv
  OBVIOUS
<1>1. FlowTyped(flow) /\ Alarmed(flow) /\ Growing(flow)
  BY DEF Init, FlowTyped, Alarmed, Growing
<1> QED BY <1>1 DEF Init, FlowInv

\* Each step preserves it.
LEMMA FlowStep == FlowInv /\ [Next]_vars => FlowInv'
<1> SUFFICES ASSUME FlowInv, [Next]_vars PROVE FlowInv'
  OBVIOUS
<1>1. CASE Sweep
  <2>1. func' = func /\ flow' = SweptOf(flow) /\ phase = "flow" /\ phase' = IF SweptOf(flow) = flow THEN "harvest" ELSE "flow"
    BY <1>1, SweptOfFlow DEF Sweep
  <2>2. FlowTyped(flow') /\ Alarmed(flow') /\ Growing(flow')
    BY <2>1, SweptTyped, SweepAlarmed DEF FlowInv
  <2>3. phase' # "flow" => flow' = SweptOf(flow')
    BY <2>1
  <2> QED BY <2>1, <2>2, <2>3, FlowFrame, SweptFrame DEF FlowInv
<1>2. CASE Harvest
  <2>1. UNCHANGED <<func, flow>> /\ phase = "harvest" /\ phase' = "ready" /\ summary' = Summary
    BY <1>2 DEF Harvest, Summary, Claim
  <2> QED BY <2>1, FlowFrame, SweptFrame, SummaryFrame DEF FlowInv
<1>3. ASSUME UNCHANGED <<func, flow, summary>>, phase' = phase \/ (phase \in {"ready", "running"} /\ phase' \in {"running", "returned"})
      PROVE  FlowInv'
  <2>1. FlowTyped(flow)' /\ Alarmed(flow)' /\ Growing(flow)'
    BY <1>3, FlowFrame DEF FlowInv
  <2>2. SweptOf(flow)' = SweptOf(flow)
    BY <1>3, SweptFrame
  <2>3. Summary' = Summary
    BY <1>3, SummaryFrame
  <2>4. phase' # "flow" => flow' = SweptOf(flow)
    BY <1>3 DEF FlowInv
  <2>5. phase' \in {"ready", "running", "returned"} => summary' = Summary
    BY <1>3 DEF FlowInv
  <2>6. func' \in Program /\ phase' \in {"flow", "harvest", "ready", "running", "returned"}
    BY <1>3 DEF FlowInv
  <2> QED BY <2>1, <2>2, <2>3, <2>4, <2>5, <2>6 DEF FlowInv
<1>4. ASSUME NEW args, NEW globals, Start(args, globals) PROVE FlowInv'
  <2>1. UNCHANGED <<func, flow, summary>> /\ phase = "ready" /\ phase' = "running"
    BY <1>4 DEF Start
  <2> QED BY <1>3, <2>1
<1>5. CASE Assign \/ Change \/ Pass \/ Expose \/ (\E taken \in BOOLEAN : Branch(taken)) \/ Switch \/ Return
  <2>1. UNCHANGED <<func, flow, summary>> /\ phase = "running" /\ phase' \in {"running", "returned"}
    BY <1>5 DEF Assign, Change, Pass, Expose, Branch, Switch, Return, Running
  <2> QED BY <1>3, <2>1
<1>6. CASE UNCHANGED vars
  <2>1. UNCHANGED <<func, flow, summary>> /\ phase' = phase
    BY <1>6 DEF vars
  <2> QED BY <1>3, <2>1
<1> QED BY <1>1, <1>2, <1>4, <1>5, <1>6 DEF Next

\* A claim that the result may be bad, or always is, rests on the text.
LEMMA FlowEarned == FlowInv => MaybeIsEarned
<1> SUFFICES ASSUME FlowInv, phase = "ready", summary.claim \in {"Maybe", "Always"}
             PROVE  \E n \in returns : \/ vstateOf(At(n).value) \in {"Bad", "MaybeBad"}
                                       \/ \E v \in exprAsVar(At(n).value) : n \in Evidence(v)
  BY DEF MaybeIsEarned
<1>1. Claim \in {"Maybe", "Always"}
  BY DEF FlowInv, Summary
<1>2. computeReturnFlow \cap Alarming # {}
  BY <1>1 DEF Claim, aggregate, Alarming
<1>3. CASE \A n \in returns : exprAsVar(At(n).value) = {}
  <2>1. computeReturnFlow = {vstateOf(At(n).value) : n \in returns}
    BY <1>3 DEF computeReturnFlow
  <2> QED BY <1>2, <2>1 DEF Alarming
<1>4. CASE ~\A n \in returns : exprAsVar(At(n).value) = {}
  <2>1. computeReturnFlow = UNION {{contribution(n, S) : S \in flow[n]} : n \in returns}
    BY <1>4 DEF computeReturnFlow
  <2>2. PICK n \in returns : \E S \in flow[n] : contribution(n, S) \in Alarming
    BY <1>2, <2>1
  <2>3. PICK S \in flow[n] : contribution(n, S) \in Alarming
    BY <2>2
  <2>4. n \in Nodes /\ S \in States /\ DOMAIN S = collectTypedVars
    BY DEF returns, FlowInv, FlowTyped, States
  <2> DEFINE known == exprAsVar(At(n).value) \cap DOMAIN S
  <2>5. CASE known = {}
    BY <2>3, <2>5 DEF contribution, Alarming
  <2>6. CASE known # {}
    <3> DEFINE v == CHOOSE v \in known : TRUE
    <3>1. v \in known /\ contribution(n, S) = S[v].bad
      BY <2>6 DEF contribution
    <3>2. v \in collectTypedVars /\ v \in exprAsVar(At(n).value)
      BY <2>4, <3>1
    <3> HIDE DEF v
    <3>3. n \in EvidenceIn(flow, v)
      BY <2>3, <2>4, <3>1, <3>2 DEF FlowInv, Alarmed
    <3>4. Evidence(v) = EvidenceIn(flow, v)
      BY DEF Evidence, EvidenceIn, Closed
    <3> QED BY <3>2, <3>3, <3>4
  <2> QED BY <2>5, <2>6
<1> QED BY <1>3, <1>4

\* MaybeIsEarned: whatever function is summarised, a claim that the result may be null or
\* zero, or always is, comes from a bad value in the text that reaches a return
\* (ReturnFlowAnalysis, aggregateFlags).
THEOREM EvidenceForMaybe == Spec => []MaybeIsEarned
BY FlowInit, FlowStep, FlowEarned, PTL DEF Spec

-----------------------------------------------------------------------------
(* The solved dataflow *)

\* The state before a statement says no more than any state that is handed to it.
LEMMA FlowHands ==
    ASSUME FlowInv, phase # "flow", NEW m \in Nodes, NEW n, NEW S \in flow[m], NEW T \in Handed(m, n, S)
    PROVE  /\ n \in Nodes /\ S \in States /\ T \in States
           /\ \E J \in States : flow[n] = {J} /\ Weaker(J, T)
<1>1. func \in Program /\ FlowTyped(flow) /\ flow = SweptOf(flow)
  BY DEF FlowInv
<1>2. S \in States
  BY <1>1 DEF FlowTyped
<1>3. n \in Targets(At(m)) /\ T \in States
  BY <1>1, <1>2, HandedTyped
<1>4. n \in Nodes
  BY <1>1, <1>3, TextTyped
<1>5. T \in Arrivals(flow, n)
  BY <1>1, <1>4, ArrivalsTyped
<1>6. \E J \in States : flow[n] = {J} /\ Weaker(J, T)
  BY <1>1, <1>4, <1>5, SweptFades
<1> QED BY <1>2, <1>3, <1>4, <1>6

\* The state before the first statement says no more than the initial one.
LEMMA FlowEnters ==
    ASSUME FlowInv, phase # "flow"
    PROVE  1 \in Nodes /\ \E J \in States : flow[1] = {J} /\ Weaker(J, initialState)
<1>1. func \in Program /\ FlowTyped(flow) /\ flow = SweptOf(flow) /\ 1 \in Nodes
  BY TextTyped DEF FlowInv
<1>2. initialState \in Arrivals(flow, 1)
  BY <1>1, ArrivalsTyped
<1> QED BY <1>1, <1>2, SweptFades

\* A statement is reached if one that leads to it is.
LEMMA LeadsOn ==
    ASSUME NEW step, NEW m \in DOMAIN step, Leads(step, m), NEW n \in step[m]
    PROVE  Leads(step, n)
BY DEF Leads

\* Every path starts at the first statement.
LEMMA LeadsFirst == \A step : Leads(step, 1)
BY DEF Leads

\* What is known of a variable is handed on by a statement that does not mention it.
LEMMA UnmentionedKept ==
    ASSUME func \in Program, NEW m \in Nodes, NEW n, NEW S \in States, NEW T \in Handed(m, n, S),
           NEW v \in collectTypedVars, ~Mentions(At(m), v)
    PROVE  T[v] = S[v]
<1> DEFINE s == At(m)
<1>1. DOMAIN S = collectTypedVars /\ n \in Targets(s)
  BY HandedTyped DEF States
<1>2. CASE s.kind = "branch"
  <2>1. PICK t \in BOOLEAN : T = refineOnEdge(s.cond, t, S)
    BY <1>1, <1>2 DEF Handed
  <2>2. v # s.cond.var
    BY <1>2 DEF Mentions
  <2> QED BY <1>1, <2>1, <2>2 DEF refineOnEdge
<1>3. CASE s.kind = "switch"
  BY <1>1, <1>3 DEF Handed
<1>4. CASE s.kind = "return"
  BY <1>1, <1>4 DEF Targets
<1>5. CASE s.kind \notin {"branch", "switch", "return"}
  <2>1. T = transfer(s, S)
    BY <1>1, <1>5 DEF Handed
  <2>2. v # s.var
    BY <1>5 DEF Mentions
  <2> QED BY <1>1, <2>1, <2>2 DEF transfer
<1> QED BY <1>2, <1>3, <1>4, <1>5

\* Where a variable is declared, nothing is known of its value: a path without a mention of
\* it leads there.
LEMMA DeclaredUnknown ==
    ASSUME FlowInv, phase # "flow", NEW n \in Nodes, At(n).kind = "declare", Leads(Steps(func), n),
           At(n).var \in collectTypedVars, NEW S \in flow[n]
    PROVE  S[At(n).var].bad \notin {"NonBad", "Bad"}
<1> DEFINE v == At(n).var
           unmentioned == [m \in DOMAIN func.code |-> IF Mentions(func.code[m], v) THEN {} ELSE Steps(func)[m]]
           R == {m \in Nodes : flow[m] # {} /\ \A J \in flow[m] : J[v].bad \notin {"NonBad", "Bad"}}
<1>1. Leads(unmentioned, n)
  <2>1. Scoped(func, n)
    BY TextTyped DEF FlowInv, TypedFunction, Nodes
  <2> QED BY <2>1 DEF Scoped, At
<1>2. 1 \in R
  <2>1. PICK J \in States : flow[1] = {J} /\ Weaker(J, initialState) /\ 1 \in Nodes
    BY FlowEnters
  <2>2. initialState[v].bad = "Unknown" /\ Fades(J[v], initialState[v])
    BY <2>1 DEF initialState, Weaker
  <2>3. J[v].bad \notin {"NonBad", "Bad"}
    BY <2>2 DEF Fades
  <2> QED BY <2>1, <2>3
<1>3. ASSUME NEW m \in R, NEW t \in unmentioned[m] PROVE t \in R
  <2>1. m \in Nodes /\ ~Mentions(At(m), v) /\ t \in Targets(At(m)) /\ t \in Nodes
    <3>1. m \in Nodes /\ ~Mentions(At(m), v) /\ t \in Targets(At(m))
      BY <1>3 DEF Steps, Nodes, At
    <3> QED BY <3>1, TextTyped DEF FlowInv
  <2>2. PICK T \in flow[m] : T[v].bad \notin {"NonBad", "Bad"}
    BY <1>3
  <2>3. T \in States /\ v \in collectTypedVars
    BY <2>1 DEF FlowInv, FlowTyped
  <2>4. PICK U \in Handed(m, t, T) : TRUE
    BY <2>1, <2>3, HandedTyped DEF FlowInv
  <2>5. U[v] = T[v]
    BY <2>1, <2>3, <2>4, UnmentionedKept DEF FlowInv
  <2>6. PICK J \in States : flow[t] = {J} /\ Weaker(J, U)
    BY <2>1, <2>2, <2>4, FlowHands
  <2>7. J[v].bad \in {"NonBad", "Bad"} => U[v].bad = J[v].bad
    BY <2>3, <2>6 DEF Weaker, Fades
  <2> QED BY <2>1, <2>2, <2>5, <2>6, <2>7
<1> QED BY <1>1, <1>2, <1>3 DEF Leads, Nodes

-----------------------------------------------------------------------------
(* What the dataflow says is true of an execution *)

\* What the dataflows do not provide for.
Unseen == {"changed", "reference", "retained", "static", "narrowed", "mixed", "dynamic", "nothrow"}
Replaced == {"retained", "static"}
Passed == {"shared", "static", "came back", "borrowed", "retained"}

BadHolds(bad, z) ==
    /\ bad = "NonBad" => z # 0
    /\ func.type = "integer" /\ bad = "Bad" => z = 0

OriginHolds(origin, z) == origin # 0 => z = entry[origin]

\* Of the blocks, those given are no longer the function's.
OwnerHolds(owner, z, given) ==
    /\ owner = "Owned" => z \in (Block \ given) \cup {0}
    /\ owner = "Borrowed" => z \notin Block \ given
    /\ owner = "Null" => z = 0

\* The fact is true of the value z, as far as notes allow.
FactTrue(fact, z, given, notes) ==
    /\ notes \cap Unseen = {} => BadHolds(fact.bad, z)
    /\ func.type = "pointer" /\ notes \cap Replaced = {} => OriginHolds(fact.origin, z)
    /\ func.type = "pointer" /\ notes \cap Passed = {} => OwnerHolds(fact.owner, z, given)

StateTrue(S, store, given, notes) == \A v \in collectTypedVars : FactTrue(S[v], store[v], given, notes)

\* To know less is as true.
LEMMA WeakerTrue ==
    ASSUME NEW J \in States, NEW S \in States, Weaker(J, S), NEW store, NEW given, NEW notes, StateTrue(S, store, given, notes)
    PROVE  StateTrue(J, store, given, notes)
<1> SUFFICES ASSUME NEW v \in collectTypedVars PROVE FactTrue(J[v], store[v], given, notes)
  BY DEF StateTrue
<1> DEFINE a == J[v]
           b == S[v]
           z == store[v]
<1>1. a \in Facts /\ b \in Facts /\ Fades(a, b) /\ FactTrue(b, z, given, notes)
  BY DEF States, Facts, Weaker, StateTrue
<1> HIDE DEF a, b, z
<1>2. BadHolds(b.bad, z) => BadHolds(a.bad, z)
  BY <1>1 DEF Fades, BadHolds
<1>3. OriginHolds(b.origin, z) => OriginHolds(a.origin, z)
  BY <1>1 DEF Fades, OriginHolds
<1>4. OwnerHolds(b.owner, z, given) => OwnerHolds(a.owner, z, given)
  BY <1>1, NotBlocks DEF Fades, OwnerHolds, Facts, OwnershipState
<1>5. FactTrue(a, z, given, notes)
  BY <1>1, <1>2, <1>3, <1>4 DEF FactTrue
<1> QED BY <1>5 DEF a, z

\* It stays true when more is noted, and when a block is given that nobody else holds.
LEMMA FactLasts ==
    ASSUME NEW fact, NEW z, NEW given, NEW notes, FactTrue(fact, z, given, notes),
           NEW more, notes \subseteq more, NEW now, given \subseteq now,
           func.type = "pointer" /\ z \in Block /\ z \in now \ given => "shared" \in more
    PROVE  FactTrue(fact, z, now, more)
<1>1. more \cap Unseen = {} => BadHolds(fact.bad, z)
  BY DEF FactTrue
<1>2. func.type = "pointer" /\ more \cap Replaced = {} => OriginHolds(fact.origin, z)
  BY DEF FactTrue
<1>3. func.type = "pointer" /\ more \cap Passed = {} => OwnerHolds(fact.owner, z, now)
  <2> SUFFICES ASSUME func.type = "pointer", more \cap Passed = {} PROVE OwnerHolds(fact.owner, z, now)
    OBVIOUS
  <2>1. OwnerHolds(fact.owner, z, given) /\ ~(z \in Block /\ z \in now \ given)
    BY DEF FactTrue, Passed
  <2> QED BY <2>1 DEF OwnerHolds
<1> QED BY <1>1, <1>2, <1>3 DEF FactTrue

\* The arguments that nothing writes are where they were.
Unwritten(store, notes) == "reference" \notin notes => \A v \in unwrittenParams : store[v] = entry[ParamIndex(v)]

\* Before n, the part of the text that u stands for is entered through its condition only:
\* then the condition was met.
Entered(n, u, notes) ==
    notes \cap {"reference", "converted", "labelled"} = {} =>
        Leads(Around(func, u), n) \/ \A c \in guard(u) : entry[c.param] \notin c.range

Unders == UNION {{At(n).under[k] : k \in DOMAIN At(n).under} : n \in returns}

Truth(n, store, blocks, given, shown, notes) ==
    /\ n \in Nodes /\ Leads(Steps(func), n) /\ flow[n] # {}
    /\ EnvTyped(store) /\ Bookkept(store, blocks, given) /\ shown \subseteq Var \ unwrittenParams
    /\ \A S \in flow[n] : StateTrue(S, store, given, notes)
    /\ Unwritten(store, notes)
    /\ \A u \in Unders : Entered(n, u, notes)

\* What is true of what is handed to a statement is true of its state.
LEMMA StatesTrue ==
    ASSUME FlowInv, phase # "flow", NEW m \in Nodes, NEW n, NEW S \in flow[m], NEW T \in Handed(m, n, S),
           NEW store, NEW given, NEW notes, StateTrue(T, store, given, notes)
    PROVE  flow[n] # {} /\ \A J \in flow[n] : StateTrue(J, store, given, notes)
<1>1. PICK J \in States : flow[n] = {J} /\ Weaker(J, T)
  BY FlowHands
<1>2. T \in States
  BY FlowHands
<1>3. StateTrue(J, store, given, notes)
  BY <1>1, <1>2, WeakerTrue
<1> QED BY <1>1, <1>3

\* What a return stands in is an arm of a branch or the default of a switch.
LEMMA UndersTyped ==
    ASSUME func \in Program, NEW u \in Unders
    PROVE  /\ u.at \in Nodes
           /\ \/ u.kind = "default" /\ At(u.at).kind = "switch"
              \/ u.kind = "if" /\ u.taken \in BOOLEAN /\ At(u.at).kind = "branch"
<1>1. PICK n \in returns : \E k \in DOMAIN At(n).under : u = At(n).under[k]
  BY DEF Unders
<1>2. TypedUnder(func, n)
  BY <1>1, TextTyped DEF TypedFunction, returns, Nodes, At
<1>3. PICK k \in DOMAIN At(n).under : u = At(n).under[k]
  BY <1>1
<1> QED BY <1>2, <1>3 DEF TypedUnder, At, Nodes

\* A step into the part goes through the condition.
LEMMA EnteredNext ==
    ASSUME FlowInv, NEW n \in Nodes, NEW t \in Targets(At(n)), NEW u \in Unders,
           NEW notes, NEW more, notes \subseteq more, Entered(n, u, notes),
           /\ more \cap {"reference", "converted", "labelled"} = {}
           /\ u.at = n
           /\ \/ u.kind = "default" /\ t = At(n).alt
              \/ u.kind = "if" /\ t # IF u.taken THEN At(n).alt ELSE At(n).next
           => \A c \in guard(u) : entry[c.param] \notin c.range
    PROVE  Entered(t, u, more)
<1> DEFINE Excluded == \A c \in guard(u) : entry[c.param] \notin c.range
           around == Around(func, u)
<1> SUFFICES ASSUME more \cap {"reference", "converted", "labelled"} = {}, ~Excluded
             PROVE  Leads(around, t)
  BY DEF Entered
<1>1. Leads(around, n)
  BY DEF Entered
<1>2. DOMAIN around = Nodes /\ Steps(func)[n] = Targets(At(n))
  BY DEF Around, Nodes, Steps, At
<1>3. u.at \in Nodes /\ \/ u.kind = "default" /\ At(u.at).kind = "switch"
                        \/ u.kind = "if" /\ u.taken \in BOOLEAN /\ At(u.at).kind = "branch"
  BY UndersTyped DEF FlowInv
<1>4. t \in around[n]
  <2>1. CASE u.kind = "default"
    <3>1. around[n] = Targets(At(n)) \ {At(u.at).alt}
      BY <1>2, <2>1 DEF Around, Nodes, At
    <3>2. ASSUME t = At(u.at).alt PROVE FALSE
      <4>1. u.at # n
        BY <2>1, <3>2
      <4>2. FallsThrough(u.at)
        BY <3>2, <4>1 DEF FallsThrough, Regions
      <4>3. guard(u) = {}
        BY <2>1, <4>2 DEF guard, matchSwitchDefaultGuard
      <4> QED BY <4>3
    <3> QED BY <3>1, <3>2
  <2>2. CASE u.kind = "if"
    <3>1. CASE u.at = n
      <4>1. around[n] = {IF u.taken THEN At(n).alt ELSE At(n).next}
        BY <1>2, <2>2, <3>1 DEF Around, Nodes, At
      <4> QED BY <2>2, <3>1, <4>1
    <3>2. CASE u.at # n
      <4>1. around[n] = Targets(At(n))
        BY <1>2, <2>2, <3>2 DEF Around, Nodes, At
      <4> QED BY <4>1
    <3> QED BY <3>1, <3>2
  <2> QED BY <1>3, <2>1, <2>2
<1> HIDE DEF around
<1> QED BY <1>1, <1>2, <1>4, LeadsOn

\* What is left to show of a step, besides what it does to the variables.
LEMMA Moves ==
    ASSUME FlowInv, phase # "flow", NEW n, NEW t, NEW S \in flow[n], NEW T \in Handed(n, t, S),
           NEW store, NEW blocks, NEW given, NEW shown, NEW notes,
           n \in Nodes, Leads(Steps(func), n),
           EnvTyped(store), Bookkept(store, blocks, given), shown \subseteq Var \ unwrittenParams,
           StateTrue(T, store, given, notes), Unwritten(store, notes), \A u \in Unders : Entered(t, u, notes)
    PROVE  Truth(t, store, blocks, given, shown, notes)
<1>1. S \in States /\ t \in Nodes
  BY FlowHands
<1>2. t \in Targets(At(n))
  BY <1>1, HandedTyped DEF FlowInv
<1>3. Leads(Steps(func), t)
  <2>1. DOMAIN Steps(func) = Nodes /\ Steps(func)[n] = Targets(At(n))
    BY DEF Steps, Nodes, At
  <2> QED BY <1>2, <2>1, LeadsOn
<1>4. flow[t] # {} /\ \A J \in flow[t] : StateTrue(J, store, given, notes)
  BY StatesTrue
<1> QED BY <1>1, <1>3, <1>4 DEF Truth

-----------------------------------------------------------------------------
(* The steps of an execution *)

Runs ==
    /\ FlowInv /\ phase = "running" /\ EntryTyped /\ result = {}
    /\ Truth(at, env, made, kept, exposed, outside)

\* What an execution under way relies on.
LEMMA RunsStarted ==
    ASSUME Runs
    PROVE  /\ Started /\ at \in Nodes /\ phase # "flow" /\ Bookkept(env, made, kept) /\ TypedStatement(func, At(at))
           /\ \E S \in States : flow[at] = {S} /\ StateTrue(S, env, kept, outside)
<1>1. func \in Program /\ at \in Nodes /\ FlowTyped(flow) /\ flow[at] # {}
  BY DEF Runs, FlowInv, Truth
<1>2. TypedFunction(func) /\ TypedStatement(func, At(at))
  BY <1>1, TextTyped
<1>3. PICK S : flow[at] = {S}
  BY <1>1 DEF FlowTyped
<1>4. S \in States /\ StateTrue(S, env, kept, outside)
  BY <1>1, <1>3 DEF FlowTyped, Runs, Truth
<1> QED BY <1>1, <1>2, <1>3, <1>4 DEF Started, Runs, Truth

\* What the dataflows say of a value is true of it, as far as its surprises allow.
LEMMA ValueTrue ==
    ASSUME Runs, NEW S \in flow[at], NEW e, TypedValue(func, e), NEW y \in Values(e),
           NEW notes, outside \subseteq notes, Surprises(e, y) \subseteq notes, NEW fact,
           fact.bad = vstateOf(e), fact.origin = originOf(e, S), fact.owner = ownershipOf(e, S)
    PROVE  FactTrue(fact, y, kept, notes)
<1>1. Started /\ Bookkept(env, made, kept) /\ S \in States /\ StateTrue(S, env, kept, outside)
  BY RunsStarted
<1>2. notes \cap Unseen = {} => BadHolds(fact.bad, y)
  <2> SUFFICES ASSUME notes \cap Unseen = {} PROVE BadHolds(vstateOf(e), y)
    OBVIOUS
  <2>1. Surprises(e, y) \cap Sound = {}
    BY DEF Unseen, Sound
  <2> QED BY <1>1, <2>1, ValueKnown DEF BadHolds
<1>3. func.type = "pointer" /\ notes \cap Replaced = {} => OriginHolds(fact.origin, y)
  <2> SUFFICES ASSUME func.type = "pointer", notes \cap Replaced = {}, originOf(e, S) # 0 PROVE y = entry[originOf(e, S)]
    BY DEF OriginHolds
  <2>1. OriginsTrue(S)
    <3> SUFFICES ASSUME NEW v \in collectTypedVars, S[v].origin # 0 PROVE env[v] = entry[S[v].origin]
      BY DEF OriginsTrue
    <3>1. outside \cap Replaced = {}
      OBVIOUS
    <3> QED BY <1>1, <3>1 DEF StateTrue, FactTrue, OriginHolds
  <2> QED BY <1>1, <2>1, ValueOrigin
<1>4. func.type = "pointer" /\ notes \cap Passed = {} => OwnerHolds(fact.owner, y, kept)
  <2> SUFFICES ASSUME func.type = "pointer", notes \cap Passed = {} PROVE OwnerHolds(ownershipOf(e, S), y, kept)
    OBVIOUS
  <2>1. own \cup Free = Block \ kept
    BY <1>1 DEF Bookkept, own, Free
  <2>2. OwnersTrue(S)
    <3> SUFFICES ASSUME NEW v \in collectTypedVars PROVE Belongs(S[v].owner, env[v])
      BY DEF OwnersTrue
    <3>1. outside \cap Passed = {}
      OBVIOUS
    <3>2. OwnerHolds(S[v].owner, env[v], kept)
      BY <1>1, <3>1 DEF StateTrue, FactTrue
    <3> QED BY <2>1, <3>2 DEF Belongs, OwnerHolds
  <2>3. "came back" \notin Surprises(e, y)
    BY DEF Passed
  <2>4. Belongs(ownershipOf(e, S), y)
    BY <1>1, <2>2, <2>3, ValueOwned
  <2> QED BY <2>1, <2>4 DEF Belongs, OwnerHolds
<1> QED BY <1>2, <1>3, <1>4 DEF FactTrue

\* The values of a typed expression have the type that is returned.
LEMMA ValuesTyped ==
    ASSUME Started, NEW e, TypedValue(func, e)
    PROVE  Values(e) \subseteq Kind
<1>1. ValuesAt(e) \in [1 .. Len(e.via) + 1 -> SUBSET Kind] /\ Len(e.via) \in Nat
  BY ValuesUnfold, ViaTyped
<1>2. 1 \in 1 .. Len(e.via) + 1
  BY <1>1
<1> QED BY <1>1, <1>2 DEF Values

\* What a variable of its type is given.
Fits(v, y) == IF v \in Pointer THEN y \in Addresses ELSE y \in Val /\ (v \in Narrow => y \in {0, 1})

\* What is stored in a variable fits it.
LEMMA StoredFits ==
    ASSUME NEW v \in Var, NEW y, IF v \in Pointer THEN y \in Addresses ELSE y \in Val
    PROVE  Fits(v, Stored(v, y)) /\ (v \in Pointer => Stored(v, y) = y) /\ (y = 0 => Stored(v, y) = 0)
<1>1. v \in Narrow => v \notin Pointer
  BY ReturnAssumption DEF ReturnAssumption
<1>2. y \in Val => y \in Int /\ y % 2 \in {0, 1} /\ 0 % 2 = 0
  BY ReturnAssumption DEF ReturnAssumption
<1>3. {0, 1} \subseteq Val
  BY ReturnAssumption DEF ReturnAssumption
<1> QED BY <1>1, <1>2, <1>3 DEF Stored, Fits

\* What comes from outside fits, and is no block.
LEMMA InputFits ==
    ASSUME NEW v \in Var, NEW y \in Inputs(v)
    PROVE  Fits(v, y) /\ y \notin Block /\ Stored(v, y) \in Inputs(v)
<1>1. CASE v \in Pointer
  <2>1. y \in {0, Elsewhere} /\ y \in Addresses
    BY <1>1 DEF Inputs, Addresses
  <2> QED BY <1>1, <2>1, NotBlocks, StoredFits DEF Fits, Inputs
<1>2. CASE v \notin Pointer
  <2>1. PICK x \in Val : y = Stored(v, x)
    BY <1>2 DEF Inputs
  <2>2. Fits(v, y) /\ y \in Val
    BY <1>2, <2>1, StoredFits DEF Fits
  <2> QED BY <1>2, <2>2, NotBlocks DEF Inputs
<1> QED BY <1>1, <1>2

\* To give a variable a value of its type leaves the variables typed.
LEMMA EnvGiven ==
    ASSUME EnvTyped(env), NEW v \in Var, NEW y, Fits(v, y)
    PROVE  EnvTyped([env EXCEPT ![v] = y])
BY ReturnAssumption DEF ReturnAssumption, EnvTyped, Fits

\* A statement that does not branch hands on what it does to a state.
LEMMA Straight ==
    ASSUME Runs, At(at).kind \in {"assign", "static", "declare", "change", "pass", "byref", "address"}, NEW S \in flow[at]
    PROVE  /\ At(at).next \in Targets(At(at)) /\ transfer(At(at), S) \in Handed(at, At(at).next, S)
           /\ DOMAIN S = collectTypedVars
           /\ \A v \in collectTypedVars : v # At(at).var => transfer(At(at), S)[v] = S[v]
           /\ At(at).var \in collectTypedVars =>
                transfer(At(at), S)[At(at).var] = [bad |-> badAfter(At(at), S[At(at).var].bad),
                                                   origin |-> originAfter(At(at), S, S[At(at).var].origin),
                                                   owner |-> ownerAfter(At(at), S, S[At(at).var].owner)]
<1> DEFINE s == At(at)
<1>1. Targets(s) = {s.next}
  BY DEF Targets
<1>2. Handed(at, s.next, S) = {transfer(s, S)}
  BY <1>1 DEF Handed
<1>3. DOMAIN S = collectTypedVars
  BY RunsStarted DEF States
<1> HIDE DEF s
<1>4. \A v \in collectTypedVars : v # s.var => transfer(s, S)[v] = S[v]
  BY <1>3 DEF transfer
<1>5. s.var \in collectTypedVars =>
                transfer(s, S)[s.var] = [bad |-> badAfter(s, S[s.var].bad),
                                         origin |-> originAfter(s, S, S[s.var].origin),
                                         owner |-> ownerAfter(s, S, S[s.var].owner)]
  BY <1>3 DEF transfer
<1> QED BY <1>1, <1>2, <1>3, <1>4, <1>5 DEF s

\* It enters nothing.
LEMMA StraightEnters ==
    ASSUME Runs, At(at).kind \in {"assign", "static", "declare", "change", "pass", "byref", "address"},
           NEW notes, outside \subseteq notes, NEW u \in Unders
    PROVE  Entered(At(at).next, u, notes)
<1>1. Entered(at, u, outside) /\ at \in Nodes /\ FlowInv /\ func \in Program
  BY DEF Runs, Truth, FlowInv
<1>2. At(at).next \in Targets(At(at))
  BY DEF Targets
<1>3. u.at # at
  BY <1>1, UndersTyped
<1> QED BY <1>1, <1>2, <1>3, EnteredNext

\* Each statement takes the truth along to the next: an assignment what its value is,
LEMMA AssignTrue ==
    ASSUME Runs, Assign
    PROVE  Truth(at', env', made', kept', exposed', outside')
<1> DEFINE s == At(at)
           v == s.var
<1>1. s.kind \in {"assign", "static"} /\ at' = s.next /\ exposed' = exposed
  BY DEF Assign, Running
<1>2. PICK y \in Values(s.value) \cup (IF s.kind = "static" THEN Inputs(v) ELSE {}) :
          /\ Gets(v, y)
          /\ outside' = outside \cup Surprises(s.value, y)
                           \cup Note("narrowed", y # 0 /\ Stored(v, y) = 0)
                           \cup Note("shared", v \in Global /\ Sharing(v, y))
                           \cup Note("static", s.kind = "static")
  BY DEF Assign
<1>3. env' = [env EXCEPT ![v] = Stored(v, y)] /\ made' = made \cup ({y} \cap Block) /\ kept' = kept \cup Published(v, y)
  BY <1>2 DEF Gets
<1>4. /\ Started /\ at \in Nodes /\ phase # "flow" /\ Bookkept(env, made, kept) /\ TypedStatement(func, s)
  BY RunsStarted
<1>5. PICK S \in States : flow[at] = {S} /\ StateTrue(S, env, kept, outside)
  BY RunsStarted
<1>6. TypedValue(func, s.value) /\ v \in Typed(func) /\ v \in Var /\ (s.kind = "static" => v \notin Global /\ v \notin Params)
  BY <1>1, <1>4, ReturnAssumption DEF ReturnAssumption, TypedStatement, Typed, Params
<1>7. IF v \in Pointer THEN y \in Addresses ELSE y \in Val
  <2>1. CASE y \in Values(s.value)
    <3>1. y \in Kind
      BY <1>4, <1>6, <2>1, ValuesTyped
    <3> QED BY <1>6, <3>1, <1>4 DEF Kind, Typed, Started, TypedFunction
  <2>2. CASE y \in Inputs(v)
    BY <1>6, <2>2, InputFits DEF Fits
  <2> QED BY <1>2, <2>1, <2>2
<1>8. EnvTyped(env')
  <2>1. Fits(v, Stored(v, y))
    BY <1>6, <1>7, StoredFits
  <2> QED BY <1>3, <1>4, <1>6, <2>1, EnvGiven DEF Started
<1>9. Stored(v, y) \in Block => y = Stored(v, y)
  <2>1. v \notin Pointer => Stored(v, y) \in Val
    BY <1>6, <1>7, StoredFits DEF Fits
  <2> QED BY <1>6, <1>7, <2>1, NotBlocks, StoredFits
<1>10. DOMAIN env = Var /\ env'[v] = Stored(v, y) /\ \A w \in Var : w # v => env'[w] = env[w]
  BY <1>3, <1>4, <1>6 DEF Started, EnvTyped
<1>11. Bookkept(env', made', kept')
  <2>1. kept' \subseteq made' /\ made' \subseteq Block
    BY <1>3, <1>4 DEF Bookkept, Published
  <2>2. ASSUME NEW w \in Var, env'[w] \in Block PROVE env'[w] \in made' /\ (w \in Global => env'[w] \in kept')
    BY <1>3, <1>4, <1>9, <1>10, <2>2 DEF Bookkept, Published
  <2> QED BY <2>1, <2>2, ReturnAssumption DEF ReturnAssumption, Bookkept
<1>12. Unwritten(env', outside')
  <2>1. \A w \in unwrittenParams : w \in Var /\ w # v
    <3>1. s.kind = "assign" => v \notin unwrittenParams
      BY <1>4 DEF unwrittenParams
    <3>2. unwrittenParams \subseteq Params /\ Params \subseteq Var
      BY <1>4 DEF unwrittenParams, Params, Started, TypedFunction
    <3> QED BY <1>1, <1>6, <3>1, <3>2
  <2>2. Unwritten(env, outside)
    BY DEF Runs, Truth
  <2> QED BY <1>2, <1>10, <2>1, <2>2 DEF Unwritten
<1>13. outside \subseteq outside' /\ Surprises(s.value, y) \subseteq outside'
  BY <1>2
<1> DEFINE T == transfer(s, S)
<1>14. T \in Handed(at, at', S) /\ (\A w \in collectTypedVars : w # v => T[w] = S[w])
  BY <1>1, <1>5, Straight
<1>15. ASSUME NEW w \in collectTypedVars, w # v PROVE FactTrue(T[w], env'[w], kept', outside')
  <2>1. FactTrue(S[w], env[w], kept, outside) /\ w \in Var /\ env'[w] = env[w]
    BY <1>5, <1>10, <1>15, ReturnAssumption DEF ReturnAssumption, StateTrue, collectTypedVars, Typed
  <2>2. ASSUME func.type = "pointer", env[w] \in Block, env[w] \in kept' \ kept PROVE "shared" \in outside'
    <3>1. v \in Global /\ y = env[w] /\ w \in Pointer \ (Global \cup {v})
      BY <1>3, <1>15, <2>2 DEF Published, collectTypedVars, Typed
    <3>2. Sharing(v, y)
      BY <2>2, <3>1 DEF Sharing
    <3> QED BY <1>2, <3>1, <3>2 DEF Note
  <2>3. FactTrue(S[w], env[w], kept', outside')
    <3>1. kept \subseteq kept'
      BY <1>3
    <3> QED BY <1>13, <2>1, <2>2, <3>1, FactLasts
  <2> QED BY <1>14, <1>15, <2>1, <2>3
<1>16. ASSUME v \in collectTypedVars PROVE FactTrue(T[v], env'[v], kept', outside')
  <2>1. T[v] = [bad |-> vstateOf(s.value), origin |-> originOf(s.value, S), owner |-> ownershipOf(s.value, S)]
    <3>1. T[v] = [bad |-> badAfter(s, S[v].bad), origin |-> originAfter(s, S, S[v].origin), owner |-> ownerAfter(s, S, S[v].owner)]
      BY <1>1, <1>5, <1>16, Straight
    <3> QED BY <1>1, <3>1 DEF badAfter, originAfter, ownerAfter
  <2>2. kept' = kept
    BY <1>3, <1>16 DEF Published, collectTypedVars
  <2> HIDE DEF T
  <2>3. CASE s.kind = "static"
    BY <1>2, <2>3 DEF Note, FactTrue, Unseen, Replaced, Passed
  <2>4. CASE s.kind = "assign"
    <3>1. y \in Values(s.value)
      BY <1>2, <2>4
    <3>2. FactTrue(T[v], y, kept, outside')
      BY <1>5, <1>6, <1>13, <2>1, <3>1, ValueTrue
    <3>3. outside' \cap Unseen = {} => (y # 0 => Stored(v, y) # 0)
      BY <1>2 DEF Note, Unseen
    <3>4. y = 0 => Stored(v, y) = 0
      BY <1>6, <1>7, StoredFits
    <3>5. func.type = "pointer" => Stored(v, y) = y
      BY <1>6, <1>7, StoredFits DEF Typed
    <3> QED BY <1>10, <2>2, <3>2, <3>3, <3>4, <3>5 DEF FactTrue, BadHolds
  <2> QED BY <1>1, <2>3, <2>4
<1>17. StateTrue(T, env', kept', outside')
  BY <1>15, <1>16 DEF StateTrue
<1>18. \A u \in Unders : Entered(at', u, outside')
  BY <1>1, <1>13, StraightEnters
<1>19. Leads(Steps(func), at) /\ exposed' \subseteq Var \ unwrittenParams /\ FlowInv
  BY <1>1 DEF Runs, Truth
<1> HIDE DEF T
<1> QED BY <1>4, <1>5, <1>8, <1>11, <1>12, <1>14, <1>17, <1>18, <1>19, Moves

\* a declaration or change by noting it, or because nothing was known,
LEMMA ChangeTrue ==
    ASSUME Runs, Change
    PROVE  Truth(at', env', made', kept', exposed', outside')
<1> DEFINE s == At(at)
           v == s.var
           stepped == s.kind = "change" /\ v \in Pointer
<1>1. s.kind \in {"declare", "change"} /\ at' = s.next /\ exposed' = exposed
  BY DEF Change, Running
<1>2. PICK y \in IF stepped THEN {Elsewhere} ELSE Inputs(v) : Gets(v, y)
  BY DEF Change
<1>n. outside' = outside \cup Note("changed", s.kind = "change" /\ v \notin Pointer)
  BY DEF Change
<1>4. /\ Started /\ at \in Nodes /\ phase # "flow" /\ Bookkept(env, made, kept) /\ TypedStatement(func, s)
  BY RunsStarted
<1>5. PICK S \in States : flow[at] = {S} /\ StateTrue(S, env, kept, outside)
  BY RunsStarted
<1>6. v \in Var /\ (s.kind = "declare" => v \notin Global /\ v \notin Params)
  BY <1>1, <1>4, ReturnAssumption DEF ReturnAssumption, TypedStatement, Typed, Params
<1>7. y \notin Block /\ Fits(v, Stored(v, y)) /\ (stepped => Stored(v, y) # 0)
  <2>1. CASE stepped
    <3>1. y = Elsewhere /\ y \in Addresses
      BY <1>2, <2>1 DEF Addresses
    <3> QED BY <1>6, <2>1, <3>1, NotBlocks, StoredFits
  <2>2. CASE ~stepped
    <3>1. y \in Inputs(v)
      BY <1>2, <2>2
    <3> QED BY <1>6, <2>2, <3>1, InputFits
  <2> QED BY <2>1, <2>2
<1>8. Stored(v, y) \notin Block
  <2>1. CASE v \in Pointer
    <3>1. Stored(v, y) = y
      BY <2>1, ReturnAssumption DEF ReturnAssumption, Stored
    <3> QED BY <1>7, <3>1
  <2>2. CASE v \notin Pointer
    BY <1>7, <2>2, NotBlocks DEF Fits
  <2> QED BY <2>1, <2>2
<1>3. env' = [env EXCEPT ![v] = Stored(v, y)] /\ made' = made /\ kept' = kept
  BY <1>2, <1>7 DEF Gets, Published
<1>9. EnvTyped(env')
  BY <1>3, <1>4, <1>6, <1>7, EnvGiven DEF Started
<1>10. DOMAIN env = Var /\ env'[v] = Stored(v, y) /\ \A w \in Var : w # v => env'[w] = env[w]
  BY <1>3, <1>4, <1>6 DEF Started, EnvTyped
<1>11. Bookkept(env', made', kept')
  BY <1>3, <1>4, <1>8, <1>10, ReturnAssumption DEF ReturnAssumption, Bookkept
<1>12. Unwritten(env', outside')
  <2>1. \A w \in unwrittenParams : w \in Var /\ w # v
    <3>1. s.kind = "change" => v \notin unwrittenParams
      BY <1>4 DEF unwrittenParams
    <3>2. unwrittenParams \subseteq Params /\ Params \subseteq Var
      BY <1>4 DEF unwrittenParams, Params, Started, TypedFunction
    <3> QED BY <1>1, <1>6, <3>1, <3>2
  <2>2. Unwritten(env, outside)
    BY DEF Runs, Truth
  <2> QED BY <1>n, <1>10, <2>1, <2>2 DEF Unwritten
<1>13. outside \subseteq outside'
  BY <1>n
<1> DEFINE T == transfer(s, S)
<1>14. T \in Handed(at, at', S) /\ (\A w \in collectTypedVars : w # v => T[w] = S[w])
  BY <1>1, <1>5, Straight
<1>15. ASSUME NEW w \in collectTypedVars, w # v PROVE FactTrue(T[w], env'[w], kept', outside')
  <2>1. FactTrue(S[w], env[w], kept, outside) /\ w \in Var /\ env'[w] = env[w]
    BY <1>5, <1>10, <1>15, ReturnAssumption DEF ReturnAssumption, StateTrue, collectTypedVars, Typed
  <2>3. FactTrue(S[w], env[w], kept', outside')
    BY <1>3, <1>13, <2>1, FactLasts
  <2> QED BY <1>14, <1>15, <2>1, <2>3
<1>16. ASSUME v \in collectTypedVars PROVE FactTrue(T[v], env'[v], kept', outside')
  <2>1. T[v] = [bad |-> S[v].bad, origin |-> 0, owner |-> "Unknown"]
    <3>1. T[v] = [bad |-> badAfter(s, S[v].bad), origin |-> originAfter(s, S, S[v].origin), owner |-> ownerAfter(s, S, S[v].owner)]
      BY <1>1, <1>5, <1>16, Straight
    <3> QED BY <1>1, <3>1 DEF badAfter, originAfter, ownerAfter
  <2>2. outside' \cap Unseen = {} => BadHolds(S[v].bad, env'[v])
    <3>1. CASE s.kind = "declare"
      <4>1. S[v].bad \notin {"NonBad", "Bad"}
        BY <1>4, <1>5, <1>16, <3>1, DeclaredUnknown DEF Runs, Truth
      <4> QED BY <4>1 DEF BadHolds
    <3>2. CASE s.kind = "change" /\ v \notin Pointer
      BY <1>n, <3>2 DEF Note, Unseen
    <3>3. CASE stepped
      <4>1. func.type # "integer"
        BY <1>16, <3>3 DEF collectTypedVars, Typed
      <4> QED BY <1>7, <1>10, <3>3, <4>1 DEF BadHolds
    <3> QED BY <1>1, <3>1, <3>2, <3>3
  <2> HIDE DEF T
  <2> QED BY <2>1, <2>2 DEF FactTrue, OriginHolds, OwnerHolds
<1>17. StateTrue(T, env', kept', outside')
  BY <1>15, <1>16 DEF StateTrue
<1>18. \A u \in Unders : Entered(at', u, outside')
  BY <1>1, <1>13, StraightEnters
<1>19. Leads(Steps(func), at) /\ exposed' \subseteq Var \ unwrittenParams /\ FlowInv
  BY <1>1 DEF Runs, Truth
<1> HIDE DEF T
<1> QED BY <1>4, <1>5, <1>9, <1>11, <1>12, <1>14, <1>17, <1>18, <1>19, Moves

\* a call that keeps a block because the variable is then no longer an owner's,
LEMMA PassTrue ==
    ASSUME Runs, Pass
    PROVE  Truth(at', env', made', kept', exposed', outside')
<1> DEFINE s == At(at)
           v == s.var
           block == {env[v]} \cap Block
<1>1. s.kind = "pass" /\ at' = s.next /\ exposed' = exposed /\ made' = made
  BY DEF Pass, Running
<1>2. kept' \in IF s.borrows \/ v \notin Pointer THEN {kept} ELSE {kept, kept \cup block}
  BY DEF Pass
<1>3. \/ env' = env /\ outside' = outside \cup Note("shared", kept' # kept /\ Sharing(v, env[v]))
      \/ \E w \in exposed : \E y \in Inputs(w) : env' = [env EXCEPT ![w] = y] /\ outside' = outside \cup {"retained"}
  BY DEF Pass
<1>4. /\ Started /\ at \in Nodes /\ phase # "flow" /\ Bookkept(env, made, kept) /\ TypedStatement(func, s)
  BY RunsStarted
<1>5. PICK S \in States : flow[at] = {S} /\ StateTrue(S, env, kept, outside)
  BY RunsStarted
<1>6. v \in Var /\ s.borrows \in BOOLEAN
  BY <1>1, <1>4 DEF TypedStatement
<1>7. kept \subseteq kept' /\ kept' \subseteq kept \cup block /\ (s.borrows => kept' = kept)
  BY <1>2
<1>8. Truth(at, env, made, kept, exposed, outside) /\ FlowInv
  BY DEF Runs
<1>9. EnvTyped(env') /\ Bookkept(env', made', kept') /\ Unwritten(env', outside') /\ outside \subseteq outside'
  <2>1. kept' \subseteq made' /\ made' \subseteq Block
    BY <1>1, <1>4, <1>6, <1>7 DEF Bookkept
  <2>2. CASE env' = env /\ outside' = outside \cup Note("shared", kept' # kept /\ Sharing(v, env[v]))
    <3>1. Bookkept(env', made', kept')
      BY <1>1, <1>4, <1>7, <2>1, <2>2, ReturnAssumption DEF ReturnAssumption, Bookkept
    <3> QED BY <1>4, <1>8, <2>2, <3>1 DEF Started, Truth, Unwritten
  <2>3. ASSUME NEW w \in exposed, NEW y \in Inputs(w), env' = [env EXCEPT ![w] = y], outside' = outside \cup {"retained"}
        PROVE  EnvTyped(env') /\ Bookkept(env', made', kept') /\ Unwritten(env', outside')
    <3>1. w \in Var /\ w \notin unwrittenParams /\ Fits(w, y) /\ y \notin Block
      BY <1>8, InputFits DEF Truth
    <3>2. DOMAIN env = Var /\ env'[w] = y /\ \A x \in Var : x # w => env'[x] = env[x]
      BY <1>4, <2>3, <3>1 DEF Started, EnvTyped
    <3>3. EnvTyped(env')
      BY <1>4, <2>3, <3>1, EnvGiven DEF Started
    <3>4. Bookkept(env', made', kept')
      BY <1>1, <1>4, <1>7, <2>1, <3>1, <3>2, ReturnAssumption DEF ReturnAssumption, Bookkept
    <3>5. Unwritten(env', outside')
      <4>1. \A x \in unwrittenParams : x \in Var /\ x # w
        BY <1>4, <3>1 DEF unwrittenParams, Params, Started, TypedFunction
      <4> QED BY <1>8, <2>3, <3>2, <4>1 DEF Truth, Unwritten
    <3> QED BY <3>3, <3>4, <3>5
  <2> QED BY <1>3, <2>2, <2>3
<1> DEFINE T == transfer(s, S)
<1>14. T \in Handed(at, at', S) /\ (\A w \in collectTypedVars : w # v => T[w] = S[w])
  BY <1>1, <1>5, Straight
<1>15. v \in collectTypedVars =>
         T[v] = [bad |-> S[v].bad, origin |-> S[v].origin, owner |-> IF s.borrows THEN S[v].owner ELSE "Unknown"]
  <2>1. v \in collectTypedVars => T[v] = [bad |-> badAfter(s, S[v].bad), origin |-> originAfter(s, S, S[v].origin), owner |-> ownerAfter(s, S, S[v].owner)]
    BY <1>1, <1>5, Straight
  <2> QED BY <1>1, <2>1 DEF badAfter, originAfter, ownerAfter
<1>16. ASSUME NEW w \in collectTypedVars PROVE FactTrue(T[w], env'[w], kept', outside')
  <2>0. FactTrue(S[w], env[w], kept, outside) /\ w \in Var
    BY <1>5, ReturnAssumption DEF ReturnAssumption, StateTrue, collectTypedVars, Typed
  <2>1. CASE "retained" \in outside'
    BY <2>1 DEF FactTrue, Unseen, Replaced, Passed
  <2>2. CASE env' = env /\ outside' = outside \cup Note("shared", kept' # kept /\ Sharing(v, env[v]))
    <3>1. CASE w # v \/ s.borrows
      <4>1. ASSUME func.type = "pointer", env[w] \in Block, env[w] \in kept' \ kept PROVE "shared" \in outside'
        <5>1. env[w] = env[v] /\ kept' # kept /\ w # v
          BY <1>7, <3>1, <4>1
        <5>2. w \in Pointer \ (Global \cup {v})
          BY <4>1, <5>1 DEF collectTypedVars, Typed
        <5>3. Sharing(v, env[v])
          BY <4>1, <5>1, <5>2 DEF Sharing
        <5> QED BY <2>2, <5>1, <5>3 DEF Note
      <4>2. FactTrue(S[w], env[w], kept', outside')
        BY <1>7, <1>9, <2>0, <4>1, FactLasts
      <4> HIDE DEF T
      <4>3. T[w].bad = S[w].bad /\ T[w].origin = S[w].origin /\ T[w].owner = S[w].owner
        BY <1>14, <1>15, <3>1
      <4> QED BY <2>2, <4>2, <4>3 DEF FactTrue
    <3>2. CASE w = v /\ ~s.borrows
      <4> HIDE DEF T
      <4>1. T[w].bad = S[w].bad /\ T[w].origin = S[w].origin /\ T[w].owner = "Unknown"
        BY <1>15, <3>2
      <4> QED BY <1>9, <2>0, <2>2, <4>1 DEF FactTrue, OwnerHolds
    <3> QED BY <1>6, <3>1, <3>2
  <2> QED BY <1>3, <2>1, <2>2
<1>17. StateTrue(T, env', kept', outside')
  BY <1>16 DEF StateTrue
<1>18. \A u \in Unders : Entered(at', u, outside')
  BY <1>1, <1>9, StraightEnters
<1>19. Leads(Steps(func), at) /\ exposed' \subseteq Var \ unwrittenParams
  BY <1>1, <1>8 DEF Truth
<1> HIDE DEF T
<1> QED BY <1>4, <1>5, <1>8, <1>9, <1>14, <1>17, <1>18, <1>19, Moves

\* a call that is given the address because nothing is known of the variable after it,
LEMMA ExposeTrue ==
    ASSUME Runs, Expose
    PROVE  Truth(at', env', made', kept', exposed', outside')
<1> DEFINE s == At(at)
           v == s.var
           block == {env[v]} \cap Block
<1>1. s.kind \in {"address", "byref"} /\ at' = s.next
  BY DEF Expose, Running
<1>2. PICK y \in Inputs(v) \cup {env[v]} \cup (IF v \in Pointer THEN Free ELSE {}) : \E given \in {{}, block \ kept} :
          /\ env' = [env EXCEPT ![v] = y]
          /\ made' = made \cup ({y} \cap Block)
          /\ kept' = kept \cup given \cup Published(v, y)
          /\ exposed' = IF s.kind = "address" THEN exposed \cup {v} ELSE exposed
          /\ outside' = outside \cup Note("reference", s.kind = "byref")
                           \cup Note("borrowed", s.kind = "byref" /\ s.borrows)
                           \cup Note("shared", given # {} /\ Sharing(v, env[v]))
  BY DEF Expose
<1>3. PICK given \in {{}, block \ kept} :
          /\ env' = [env EXCEPT ![v] = y]
          /\ made' = made \cup ({y} \cap Block)
          /\ kept' = kept \cup given \cup Published(v, y)
          /\ exposed' = IF s.kind = "address" THEN exposed \cup {v} ELSE exposed
          /\ outside' = outside \cup Note("reference", s.kind = "byref")
                           \cup Note("borrowed", s.kind = "byref" /\ s.borrows)
                           \cup Note("shared", given # {} /\ Sharing(v, env[v]))
  BY <1>2
<1>4. /\ Started /\ at \in Nodes /\ phase # "flow" /\ Bookkept(env, made, kept) /\ TypedStatement(func, s)
  BY RunsStarted
<1>5. PICK S \in States : flow[at] = {S} /\ StateTrue(S, env, kept, outside)
  BY RunsStarted
<1>6. v \in Var /\ s.borrows \in BOOLEAN
  BY <1>1, <1>4 DEF TypedStatement
<1>7. Truth(at, env, made, kept, exposed, outside) /\ FlowInv
  BY DEF Runs
<1>8. Fits(v, y) /\ (y \in Block => y = env[v] \/ y \in Free)
  <2>1. CASE y \in Inputs(v)
    BY <1>6, <2>1, InputFits
  <2>2. CASE y = env[v]
    BY <1>4, <1>6, <2>2 DEF Started, EnvTyped, Fits
  <2>3. CASE v \in Pointer /\ y \in Free
    BY <2>3 DEF Free, Fits, Addresses
  <2> QED BY <1>2, <2>1, <2>2, <2>3
<1>9. EnvTyped(env')
  BY <1>3, <1>4, <1>6, <1>8, EnvGiven DEF Started
<1>10. DOMAIN env = Var /\ env'[v] = y /\ \A w \in Var : w # v => env'[w] = env[w]
  BY <1>3, <1>4, <1>6 DEF Started, EnvTyped
<1>11. Bookkept(env', made', kept')
  <2>1. kept' \subseteq made' /\ made' \subseteq Block
    <3>1. given \subseteq made
      BY <1>4, <1>6 DEF Bookkept
    <3> QED BY <1>3, <1>4, <3>1 DEF Bookkept, Published
  <2>2. ASSUME NEW w \in Var, env'[w] \in Block PROVE env'[w] \in made' /\ (w \in Global => env'[w] \in kept')
    <3>1. CASE w = v
      BY <1>3, <1>10, <2>2, <3>1 DEF Published
    <3>2. CASE w # v
      BY <1>3, <1>4, <1>10, <2>2, <3>2 DEF Bookkept
    <3> QED BY <3>1, <3>2
  <2> QED BY <2>1, <2>2, ReturnAssumption DEF ReturnAssumption, Bookkept
<1>12. Unwritten(env', outside') /\ exposed' \subseteq Var \ unwrittenParams
  <2>1. s.kind = "address" => v \notin unwrittenParams
    BY <1>4 DEF unwrittenParams
  <2>2. unwrittenParams \subseteq Var
    BY <1>4 DEF unwrittenParams, Params, Started, TypedFunction
  <2>3. CASE s.kind = "address"
    BY <1>3, <1>6, <1>7, <1>10, <2>1, <2>2, <2>3 DEF Truth, Unwritten
  <2>4. CASE s.kind = "byref"
    <3>1. "reference" \in outside' /\ exposed' = exposed
      BY <1>3, <2>4 DEF Note
    <3> QED BY <1>7, <3>1 DEF Truth, Unwritten
  <2> QED BY <1>1, <2>3, <2>4
<1>13. outside \subseteq outside' /\ kept \subseteq kept'
  BY <1>3
<1> DEFINE T == transfer(s, S)
<1>14. T \in Handed(at, at', S) /\ (\A w \in collectTypedVars : w # v => T[w] = S[w])
  BY <1>1, <1>5, Straight
<1>15. ASSUME NEW w \in collectTypedVars, w # v PROVE FactTrue(T[w], env'[w], kept', outside')
  <2>1. FactTrue(S[w], env[w], kept, outside) /\ w \in Var /\ env'[w] = env[w]
    BY <1>5, <1>10, <1>15, ReturnAssumption DEF ReturnAssumption, StateTrue, collectTypedVars, Typed
  <2>2. ASSUME func.type = "pointer", env[w] \in Block, env[w] \in kept' \ kept PROVE "shared" \in outside'
    <3>1. env[w] \in made /\ env[w] \notin Free
      BY <1>4, <2>1, <2>2 DEF Bookkept, Free
    <3>2. env[w] \in Published(v, y) => env[w] \in kept
      BY <1>4, <1>6, <1>8, <3>1 DEF Published, Bookkept
    <3>3. env[w] = env[v] /\ given # {}
      BY <1>3, <2>2, <3>2
    <3>4. w \in Pointer \ (Global \cup {v})
      BY <1>15, <2>2 DEF collectTypedVars, Typed
    <3>5. Sharing(v, env[v])
      BY <2>2, <3>3, <3>4 DEF Sharing
    <3> QED BY <1>3, <3>3, <3>5 DEF Note
  <2>3. FactTrue(S[w], env[w], kept', outside')
    BY <1>13, <2>1, <2>2, FactLasts
  <2> QED BY <1>14, <1>15, <2>1, <2>3
<1>16. ASSUME v \in collectTypedVars PROVE FactTrue(T[v], env'[v], kept', outside')
  <2>1. /\ s.kind = "address" => T[v] = [bad |-> "Unknown", origin |-> 0, owner |-> "Unknown"]
        /\ s.kind = "byref" => T[v] = [bad |-> S[v].bad, origin |-> 0, owner |-> IF s.borrows THEN S[v].owner ELSE "Unknown"]
    <3>1. T[v] = [bad |-> badAfter(s, S[v].bad), origin |-> originAfter(s, S, S[v].origin), owner |-> ownerAfter(s, S, S[v].owner)]
      BY <1>1, <1>5, <1>16, Straight
    <3> QED BY <3>1 DEF badAfter, originAfter, ownerAfter
  <2> HIDE DEF T
  <2>2. CASE s.kind = "address"
    BY <2>1, <2>2 DEF FactTrue, BadHolds, OriginHolds, OwnerHolds
  <2>3. CASE s.kind = "byref"
    <3>1. "reference" \in outside' /\ (s.borrows => "borrowed" \in outside')
      BY <1>3, <2>3 DEF Note
    <3>2. s.borrows \/ T[v].owner = "Unknown"
      BY <2>1, <2>3
    <3>3. T[v].origin = 0
      BY <2>1, <2>3
    <3> QED BY <3>1, <3>2, <3>3 DEF FactTrue, Unseen, Passed, OriginHolds, OwnerHolds
  <2> QED BY <1>1, <2>2, <2>3
<1>17. StateTrue(T, env', kept', outside')
  BY <1>15, <1>16 DEF StateTrue
<1>18. \A u \in Unders : Entered(at', u, outside')
  BY <1>1, <1>13, StraightEnters
<1>19. Leads(Steps(func), at)
  BY <1>7 DEF Truth
<1> HIDE DEF T
<1> QED BY <1>4, <1>5, <1>7, <1>9, <1>11, <1>12, <1>14, <1>17, <1>18, <1>19, Moves

\* What an edge of a condition says of the variable tested.
LEMMA EdgeTrue ==
    ASSUME Started, NEW c, TypedCond(c), NEW taken \in BOOLEAN, NEW h \in BOOLEAN, taken = (h # c.neg), c.var \in Var,
           NEW large \in BOOLEAN, large = (c.kind = "compare" /\ c.unsigned /\ env[c.var] < 0),
           \/ c.kind = "truth" /\ h = (env[c.var] # 0)
           \/ c.kind = "compare" /\ h = Z!Compares(c.op, IF large THEN env[c.var] + Modulus ELSE env[c.var], c.n)
           \/ c.kind = "other"
    PROVE  /\ "NonBad" \in EdgeFact(c, taken) => env[c.var] # 0
           /\ "Bad" \in EdgeFact(c, taken) => env[c.var] = 0
<1>1. h = (taken # c.neg)
  BY DEF TypedCond
<1>2. EdgeFact(c, taken) = {IF z = "Zero" THEN "Bad" ELSE "NonBad" : z \in Z!EdgeFact(c, h)}
  BY <1>1 DEF EdgeFact
<1>3. CASE c.kind = "truth"
  <2>1. Z!EdgeFact(c, h) = {IF h THEN "NonZero" ELSE "Zero"}
    BY <1>3 DEF Z!EdgeFact
  <2> QED BY <1>2, <1>3, <2>1
<1>4. CASE c.kind = "compare"
  <2> DEFINE x == env[c.var]
             z == IF large THEN x + Modulus ELSE x
  <2>1. c.var \in Var \ Pointer /\ c.op \in {"EQ", "NE", "LT", "LE", "GT", "GE"} /\ c.n \in Int
    BY <1>4 DEF TypedCond
  <2>2. x \in Int /\ -Modulus < x /\ Modulus \in Int
    <3>1. x \in Val
      BY <2>1 DEF Started, EnvTyped
    <3>2. Val \subseteq Int /\ Modulus \in Int /\ \A y \in Val : -Modulus < y
      BY ReturnAssumption DEF ReturnAssumption
    <3> HIDE DEF x
    <3> QED BY <3>1, <3>2
  <2>3. large => x < 0
    OBVIOUS
  <2>4. z \in Int /\ (z = 0 => x = 0) /\ (x = 0 => z = 0)
    BY <2>2, <2>3
  <2>5. h = Z!Compares(c.op, z, c.n)
    BY <1>4
  <2> HIDE DEF z, x
  <2>6. CASE c.op \in {"EQ", "NE"}
    <3>1. Z!EdgeFact(c, h) = IF c.n = 0 THEN {IF (c.op = "EQ") = h THEN "Zero" ELSE "NonZero"} ELSE {q \in {"NonZero"} : (c.op = "EQ") = h}
      BY <1>4, <2>6 DEF Z!EdgeFact
    <3>2. ((c.op = "EQ") = h) <=> z = c.n
      BY <2>5, <2>6 DEF Z!Compares
    <3>3. EdgeFact(c, taken) \subseteq IF c.n = 0 THEN {IF z = c.n THEN "Bad" ELSE "NonBad"} ELSE {q \in {"NonBad"} : z = c.n}
      BY <1>2, <3>1, <3>2
    <3> QED BY <2>4, <3>3 DEF x
  <2>7. CASE c.op \notin {"EQ", "NE"}
    <3>1. Z!EdgeFact(c, h) = {q \in {"NonZero"} : c.n >= 0 /\ Z!Compares(c.op, 0, c.n) # h}
      BY <1>4, <2>7 DEF Z!EdgeFact
    <3>2. Z!Compares(c.op, 0, c.n) # h => z # 0
      BY <2>5
    <3>3. EdgeFact(c, taken) \subseteq {q \in {"NonBad"} : z # 0}
      BY <1>2, <3>1, <3>2
    <3> QED BY <2>4, <3>3 DEF x
  <2> QED BY <2>6, <2>7
<1>5. CASE c.kind = "other"
  <2>1. Z!EdgeFact(c, h) = {}
    BY <1>5 DEF Z!EdgeFact
  <2> QED BY <1>2, <2>1
<1> QED BY <1>3, <1>4, <1>5

\* A comparison holds or does not.
LEMMA CompareTyped ==
    ASSUME NEW op \in {"EQ", "NE", "LT", "LE", "GT", "GE"}, NEW x \in Int, NEW n \in Int
    PROVE  Z!Compares(op, x, n) \in BOOLEAN
<1>1. CASE op \in {"EQ", "NE"}
  BY <1>1 DEF Z!Compares
<1>2. CASE op = "LT"
  BY <1>2 DEF Z!Compares
<1>3. CASE op = "LE"
  BY <1>3 DEF Z!Compares
<1>4. CASE op = "GT"
  BY <1>4 DEF Z!Compares
<1>5. CASE op = "GE"
  BY <1>5 DEF Z!Compares
<1> QED BY <1>1, <1>2, <1>3, <1>4, <1>5

\* Outside a safe zone: where the condition is met.
LEMMA ZoneTrue ==
    ASSUME NEW op \in {"EQ", "NE", "LT", "LE", "GT", "GE"}, NEW n \in Int, NEW x \in Int, NEW h \in BOOLEAN,
           h = Z!Compares(op, x, n), NEW zone \in SafeZone(op, n, h)
    PROVE  x \notin zone
<1>0. Val \subseteq Int
  BY ReturnAssumption DEF ReturnAssumption
<1>1. CASE op = "LT"
  <2>1. h = (x < n)
    BY <1>1 DEF Z!Compares
  <2>2. zone = IF h THEN {v \in Val : v >= n} ELSE {v \in Val : v <= n - 1}
    BY <1>1 DEF SafeZone
  <2>3. CASE h
    <3>1. \A v \in zone : v >= n
      BY <2>2, <2>3
    <3>2. x < n
      BY <2>1, <2>3
    <3>3. ASSUME x \in zone PROVE FALSE
      BY <3>1, <3>2, <3>3
    <3> QED BY <3>3
  <2>4. CASE ~h
    <3>1. \A v \in zone : v <= n - 1
      BY <2>2, <2>4
    <3>2. ~(x < n)
      BY <2>1, <2>4
    <3>3. ASSUME x \in zone PROVE FALSE
      BY <3>1, <3>2, <3>3
    <3> QED BY <3>3
  <2> QED BY <2>3, <2>4
<1>2. CASE op = "LE"
  <2>1. h = (x <= n)
    BY <1>2 DEF Z!Compares
  <2>2. zone = IF h THEN {v \in Val : v >= n + 1} ELSE {v \in Val : v <= n}
    BY <1>2 DEF SafeZone
  <2>3. CASE h
    <3>1. \A v \in zone : v >= n + 1
      BY <2>2, <2>3
    <3>2. x <= n
      BY <2>1, <2>3
    <3>3. ASSUME x \in zone PROVE FALSE
      BY <3>1, <3>2, <3>3
    <3> QED BY <3>3
  <2>4. CASE ~h
    <3>1. \A v \in zone : v <= n
      BY <2>2, <2>4
    <3>2. ~(x <= n)
      BY <2>1, <2>4
    <3>3. ASSUME x \in zone PROVE FALSE
      BY <3>1, <3>2, <3>3
    <3> QED BY <3>3
  <2> QED BY <2>3, <2>4
<1>3. CASE op = "GT"
  <2>1. h = (x > n)
    BY <1>3 DEF Z!Compares
  <2>2. zone = IF h THEN {v \in Val : v <= n} ELSE {v \in Val : v >= n + 1}
    BY <1>3 DEF SafeZone
  <2>3. CASE h
    <3>1. \A v \in zone : v <= n
      BY <2>2, <2>3
    <3>2. x > n
      BY <2>1, <2>3
    <3>3. ASSUME x \in zone PROVE FALSE
      BY <3>1, <3>2, <3>3
    <3> QED BY <3>3
  <2>4. CASE ~h
    <3>1. \A v \in zone : v >= n + 1
      BY <2>2, <2>4
    <3>2. ~(x > n)
      BY <2>1, <2>4
    <3>3. ASSUME x \in zone PROVE FALSE
      BY <3>1, <3>2, <3>3
    <3> QED BY <3>3
  <2> QED BY <2>3, <2>4
<1>4. CASE op = "GE"
  <2>1. h = (x >= n)
    BY <1>4 DEF Z!Compares
  <2>2. zone = IF h THEN {v \in Val : v <= n - 1} ELSE {v \in Val : v >= n}
    BY <1>4 DEF SafeZone
  <2>3. CASE h
    <3>1. \A v \in zone : v <= n - 1
      BY <2>2, <2>3
    <3>2. x >= n
      BY <2>1, <2>3
    <3>3. ASSUME x \in zone PROVE FALSE
      BY <3>1, <3>2, <3>3
    <3> QED BY <3>3
  <2>4. CASE ~h
    <3>1. \A v \in zone : v >= n
      BY <2>2, <2>4
    <3>2. ~(x >= n)
      BY <2>1, <2>4
    <3>3. ASSUME x \in zone PROVE FALSE
      BY <3>1, <3>2, <3>3
    <3> QED BY <3>3
  <2> QED BY <2>3, <2>4
<1>5. CASE op = "EQ"
  <2>1. h = (x = n)
    BY <1>5 DEF Z!Compares
  <2>2. zone = {n} /\ h = FALSE
    BY <1>5 DEF SafeZone
  <2> QED BY <2>1, <2>2
<1>6. CASE op = "NE"
  <2>1. h = (x # n)
    BY <1>6 DEF Z!Compares
  <2>2. zone = {n} /\ h = TRUE
    BY <1>6 DEF SafeZone
  <2> QED BY <2>1, <2>2
<1> QED BY <1>1, <1>2, <1>3, <1>4, <1>5, <1>6

\* a branch because its condition holds on the edge taken,
LEMMA BranchTrue ==
    ASSUME Runs, NEW taken \in BOOLEAN, Branch(taken)
    PROVE  Truth(at', env', made', kept', exposed', outside')
<1> DEFINE s == At(at)
           c == s.cond
           large == c.kind = "compare" /\ c.unsigned /\ env[c.var] < 0
           holds == CASE c.kind = "truth" -> {env[c.var] # 0}
                      [] c.kind = "compare" ->
                            {Z!Compares(c.op, IF large THEN env[c.var] + Modulus ELSE env[c.var], c.n)}
                      [] OTHER -> BOOLEAN
<1>1. s.kind = "branch" /\ at' = (IF taken THEN s.next ELSE s.alt) /\ UNCHANGED <<env, made, kept, exposed>>
  BY DEF Branch, Running
<1>2. taken \in {h # c.neg : h \in holds} /\ outside' = outside \cup Note("converted", large)
  BY DEF Branch
<1>4. /\ Started /\ at \in Nodes /\ phase # "flow" /\ Bookkept(env, made, kept) /\ TypedCond(c)
  BY <1>1, RunsStarted DEF TypedStatement
<1>5. PICK S \in States : flow[at] = {S} /\ StateTrue(S, env, kept, outside)
  BY RunsStarted
<1>6. Truth(at, env, made, kept, exposed, outside) /\ FlowInv
  BY DEF Runs
<1>7. PICK h \in holds : taken = (h # c.neg)
  BY <1>2
<1>8. h \in BOOLEAN /\ large \in BOOLEAN /\ (large => c.kind = "compare")
  <2>1. c.kind = "compare" => holds \subseteq BOOLEAN
    <3> SUFFICES ASSUME c.kind = "compare" PROVE holds \subseteq BOOLEAN
      OBVIOUS
    <3>1. c.var \in Var \ Pointer /\ c.op \in {"EQ", "NE", "LT", "LE", "GT", "GE"} /\ c.n \in Int
      BY <1>4 DEF TypedCond
    <3>2. env[c.var] \in Int /\ Modulus \in Int
      BY <1>4, <3>1, ReturnAssumption DEF ReturnAssumption, Started, EnvTyped
    <3> DEFINE z == IF large THEN env[c.var] + Modulus ELSE env[c.var]
    <3>3. z \in Int /\ holds = {Z!Compares(c.op, z, c.n)}
      BY <3>2
    <3> HIDE DEF z, holds
    <3> QED BY <3>1, <3>3, CompareTyped
  <2>2. c.kind # "compare" => holds \subseteq BOOLEAN
    BY <1>4 DEF TypedCond
  <2> QED BY <1>7, <2>1, <2>2
<1> DEFINE T == refineOnEdge(c, taken, S)
<1>14. T \in Handed(at, at', S) /\ at' \in Targets(s)
  <2>1. at' \in Targets(s)
    BY <1>1 DEF Targets
  <2>2. Handed(at, at', S) = {refineOnEdge(c, t, S) : t \in {u \in BOOLEAN : at' = IF u THEN s.next ELSE s.alt}}
    BY <1>1, <2>1 DEF Handed
  <2> QED BY <1>1, <2>1, <2>2
<1>9. outside \subseteq outside' /\ (large => "converted" \in outside')
  BY <1>2 DEF Note
<1>10. c.var \in Var => /\ "NonBad" \in EdgeFact(c, taken) => env[c.var] # 0
                        /\ "Bad" \in EdgeFact(c, taken) => env[c.var] = 0
  <2> SUFFICES ASSUME c.var \in Var
               PROVE  /\ "NonBad" \in EdgeFact(c, taken) => env[c.var] # 0
                      /\ "Bad" \in EdgeFact(c, taken) => env[c.var] = 0
    OBVIOUS
  <2>1. \/ c.kind = "truth" /\ h = (env[c.var] # 0)
        \/ c.kind = "compare" /\ h = Z!Compares(c.op, IF large THEN env[c.var] + Modulus ELSE env[c.var], c.n)
        \/ c.kind = "other"
    BY <1>4, <1>7 DEF TypedCond
  <2> DEFINE b == large
  <2>2. b = (c.kind = "compare" /\ c.unsigned /\ env[c.var] < 0) /\ b \in BOOLEAN
    BY <1>8
  <2> HIDE DEF holds, c
  <2> QED BY <1>4, <1>7, <1>8, <2>1, <2>2, EdgeTrue
<1>15. ASSUME NEW w \in collectTypedVars PROVE FactTrue(T[w], env'[w], kept', outside')
  <2>1. FactTrue(S[w], env[w], kept, outside) /\ w \in Var /\ DOMAIN S = collectTypedVars
    BY <1>5, ReturnAssumption DEF ReturnAssumption, StateTrue, collectTypedVars, Typed, States
  <2>2. FactTrue(S[w], env[w], kept, outside')
    BY <1>9, <2>1, FactLasts
  <2> DEFINE fact == EdgeFact(c, taken)
  <2>3. CASE w = c.var /\ fact # {}
    <3> DEFINE z == CHOOSE z \in fact : TRUE
    <3>1. T[w] = [S[w] EXCEPT !.bad = z] /\ z \in fact
      BY <2>1, <2>3 DEF refineOnEdge
    <3>2. S[w] \in Facts
      BY <1>5 DEF States, Facts
    <3> HIDE DEF z, T
    <3>3. T[w].bad = z /\ T[w].origin = S[w].origin /\ T[w].owner = S[w].owner
      BY <3>1, <3>2 DEF Facts
    <3>4. BadHolds(z, env[w])
      BY <1>10, <2>1, <2>3, <3>1 DEF BadHolds
    <3> QED BY <1>1, <2>2, <3>3, <3>4 DEF FactTrue
  <2>4. CASE ~(w = c.var /\ fact # {})
    <3>1. T[w] = S[w]
      BY <2>1, <2>4 DEF refineOnEdge
    <3> QED BY <1>1, <2>2, <3>1
  <2> QED BY <2>3, <2>4
<1>17. StateTrue(T, env', kept', outside')
  BY <1>15 DEF StateTrue
<1>18. ASSUME NEW u \in Unders PROVE Entered(at', u, outside')
  <2>1. Entered(at, u, outside)
    BY <1>6 DEF Truth
  <2>2. ASSUME outside' \cap {"reference", "converted", "labelled"} = {}, u.at = at,
               \/ u.kind = "default" /\ at' = s.alt
               \/ u.kind = "if" /\ at' # IF u.taken THEN s.alt ELSE s.next,
               NEW g \in guard(u)
        PROVE  entry[g.param] \notin g.range
    <3>1. u.kind = "if" /\ u.taken \in BOOLEAN
      BY <1>1, <1>6, <2>2, UndersTyped DEF FlowInv
    <3>2. taken = u.taken
      BY <1>1, <2>2, <3>1
    <3>3. g \in matchComparisonGuard(at, taken)
      BY <2>2, <3>1, <3>2 DEF guard
    <3>4. c.kind = "compare" /\ c.var \in IntParams
      BY <3>3 DEF matchComparisonGuard
    <3>5. PICK zone \in SafeZone(c.op, c.n, taken # c.neg) : g = [param |-> ParamIndex(c.var), range |-> zone]
      BY <3>3 DEF matchComparisonGuard
    <3>6. c.var \in unwrittenParams /\ c.var \in Var /\ c.var \notin Pointer
      BY <1>4, <3>4 DEF IntParams, TypedCond
    <3>7. entry[ParamIndex(c.var)] = env[c.var]
      BY <1>6, <1>9, <2>2, <3>6 DEF Truth, Unwritten
    <3>8. ~large
      BY <1>9, <2>2
    <3>9. h = Z!Compares(c.op, env[c.var], c.n) /\ h = (taken # c.neg)
      <4>1. holds = {Z!Compares(c.op, env[c.var], c.n)}
        BY <3>4, <3>8
      <4> HIDE DEF holds
      <4>2. c.neg \in BOOLEAN
        BY <1>4 DEF TypedCond
      <4> QED BY <1>7, <1>8, <4>1, <4>2
    <3>10. c.op \in {"EQ", "NE", "LT", "LE", "GT", "GE"} /\ c.n \in Int /\ env[c.var] \in Int
      BY <1>4, <3>4, <3>6, ReturnAssumption DEF ReturnAssumption, TypedCond, Started, EnvTyped
    <3> HIDE DEF c, holds, large
    <3>11. env[c.var] \notin zone
      <4>1. zone \in SafeZone(c.op, c.n, h)
        BY <3>5, <3>9
      <4> QED BY <1>8, <3>9, <3>10, <4>1, ZoneTrue
    <3> QED BY <3>5, <3>7, <3>11
  <2> QED BY <1>4, <1>6, <1>9, <1>14, <2>1, <2>2, EnteredNext
<1>19. Leads(Steps(func), at) /\ EnvTyped(env') /\ Bookkept(env', made', kept') /\ exposed' \subseteq Var \ unwrittenParams
  BY <1>1, <1>4, <1>6 DEF Truth, Started
<1>20. Unwritten(env', outside')
  BY <1>1, <1>6, <1>9 DEF Truth, Unwritten
<1> HIDE DEF T
<1> QED BY <1>4, <1>5, <1>6, <1>14, <1>17, <1>18, <1>19, <1>20, Moves

\* and a switch because only values that are not listed reach the default.
LEMMA SwitchTrue ==
    ASSUME Runs, Switch
    PROVE  Truth(at', env', made', kept', exposed', outside')
<1> DEFINE s == At(at)
           listed == env[s.var] \in DOMAIN s.cases
<1>1. s.kind = "switch" /\ at' = (IF listed THEN s.cases[env[s.var]] ELSE s.alt) /\ UNCHANGED <<env, made, kept, exposed>>
  BY DEF Switch, Running
<1>2. outside' = outside \cup Note("labelled", listed /\ at' = s.alt)
  BY DEF Switch
<1>4. /\ Started /\ at \in Nodes /\ phase # "flow" /\ Bookkept(env, made, kept) /\ s.var \in Var \ Pointer
  BY <1>1, RunsStarted DEF TypedStatement
<1>5. PICK S \in States : flow[at] = {S} /\ StateTrue(S, env, kept, outside)
  BY RunsStarted
<1>6. Truth(at, env, made, kept, exposed, outside) /\ FlowInv
  BY DEF Runs
<1>9. outside \subseteq outside' /\ (listed /\ at' = s.alt => "labelled" \in outside')
  BY <1>2 DEF Note
<1>14. S \in Handed(at, at', S) /\ at' \in Targets(s)
  <2>1. at' \in Targets(s)
    BY <1>1 DEF Targets, Regions
  <2> QED BY <1>1, <2>1 DEF Handed
<1>17. StateTrue(S, env', kept', outside')
  <2>1. ASSUME NEW w \in collectTypedVars PROVE FactTrue(S[w], env[w], kept, outside')
    BY <1>5, <1>9, FactLasts DEF StateTrue
  <2> QED BY <1>1, <2>1 DEF StateTrue
<1>18. ASSUME NEW u \in Unders PROVE Entered(at', u, outside')
  <2>1. Entered(at, u, outside)
    BY <1>6 DEF Truth
  <2>2. ASSUME outside' \cap {"reference", "converted", "labelled"} = {}, u.at = at,
               \/ u.kind = "default" /\ at' = s.alt
               \/ u.kind = "if" /\ at' # IF u.taken THEN s.alt ELSE s.next,
               NEW g \in guard(u)
        PROVE  entry[g.param] \notin g.range
    <3>1. u.kind = "default" /\ at' = s.alt
      BY <1>1, <1>6, <2>2, UndersTyped DEF FlowInv
    <3>2. ~listed
      BY <1>9, <2>2, <3>1
    <3>3. g \in matchSwitchDefaultGuard(at)
      BY <2>2, <3>1 DEF guard
    <3>4. s.var \in IntParams /\ g = [param |-> ParamIndex(s.var), range |-> DOMAIN s.cases]
      BY <3>3 DEF matchSwitchDefaultGuard
    <3>5. entry[ParamIndex(s.var)] = env[s.var]
      BY <1>6, <1>9, <2>2, <3>4 DEF Truth, Unwritten, IntParams
    <3> QED BY <3>2, <3>4, <3>5
  <2> QED BY <1>4, <1>6, <1>9, <1>14, <2>1, <2>2, EnteredNext
<1>19. Leads(Steps(func), at) /\ EnvTyped(env') /\ Bookkept(env', made', kept') /\ exposed' \subseteq Var \ unwrittenParams
  BY <1>1, <1>4, <1>6 DEF Truth, Started
<1>20. Unwritten(env', outside')
  BY <1>1, <1>6, <1>9 DEF Truth, Unwritten
<1> QED BY <1>4, <1>5, <1>6, <1>14, <1>17, <1>18, <1>19, <1>20, Moves

\* What depends on the text, the dataflow and the arguments alone does not change.
LEMMA TruthFrame ==
    ASSUME func' = func, flow' = flow, entry' = entry
    PROVE  Truth(at, env, made, kept, exposed, outside)' <=> Truth(at', env', made', kept', exposed', outside')
<1>1. /\ Nodes' = Nodes /\ unwrittenParams' = unwrittenParams /\ collectTypedVars' = collectTypedVars
  BY TextFrame
<1>2. EnvTyped(env)' <=> EnvTyped(env')
  BY DEF EnvTyped, Addresses
<1>3. \A S : StateTrue(S, env, kept, outside)' <=> StateTrue(S, env', kept', outside')
  BY <1>1 DEF StateTrue, FactTrue, BadHolds, OriginHolds, OwnerHolds
<1>4. Unwritten(env, outside)' <=> Unwritten(env', outside')
  BY <1>1 DEF Unwritten, ParamIndex
<1>5. Unders' = Unders
  BY DEF Unders, returns, Nodes, At
<1>6. \A u : Entered(at, u, outside)' <=> Entered(at', u, outside')
  BY GuardFrame DEF Entered
<1>7. Leads(Steps(func), at)' <=> Leads(Steps(func), at')
  OBVIOUS
<1>8. Bookkept(env, made, kept)' <=> Bookkept(env', made', kept')
  BY DEF Bookkept
<1> QED BY <1>1, <1>2, <1>3, <1>4, <1>5, <1>6, <1>7, <1>8 DEF Truth

\* The arguments stay what they are.
LEMMA EntryFrame ==
    ASSUME func' = func, entry' = entry
    PROVE  EntryTyped' <=> EntryTyped
BY DEF EntryTyped

\* Before the start nothing has happened.
Waits ==
    /\ FlowInv /\ phase \in {"flow", "harvest", "ready"}
    /\ at = 1 /\ made = {} /\ kept = {} /\ exposed = {} /\ outside = {} /\ result = {}

\* At the start the initial state is true.
LEMMA StartRuns ==
    ASSUME Waits,
           NEW args \in [DOMAIN func.params -> UNION {Arguments(i) : i \in DOMAIN func.params}],
           NEW globals \in [Global -> UNION {Inputs(v) : v \in Global}],
           \A i \in DOMAIN args : args[i] \in Arguments(i), \A v \in Global : globals[v] \in Inputs(v),
           Start(args, globals), FlowInv'
    PROVE  Runs'
<1>1. /\ phase = "ready" /\ phase' = "running" /\ entry' = args
      /\ UNCHANGED <<func, flow, at, made, kept, exposed, result, outside>>
  BY DEF Start
<1>2. env' = [v \in Var |-> CASE v \in Params -> args[ParamIndex(v)] [] v \in Global -> globals[v] [] OTHER -> 0]
  BY DEF Start
<1>3. func \in Program /\ TypedFunction(func)
  BY TextTyped DEF Waits, FlowInv
<1>4. \A i \in DOMAIN func.params : func.params[i] \in Var \ Global /\ args[i] \in Arguments(i)
  <2>1. func.params \in Seq(Var \ Global)
    BY <1>3 DEF TypedFunction
  <2> QED BY <2>1
<1>5. ASSUME NEW i \in DOMAIN func.params
      PROVE  args[i] \notin Block /\ Fits(func.params[i], args[i]) /\ (func.params[i] \in Pointer => args[i] \in {0, i})
  <2>1. CASE func.params[i] \in Pointer
    <3>1. args[i] \in {0, i} /\ args[i] \in Addresses
      BY <1>4, <2>1 DEF Arguments, Addresses
    <3>2. i \notin Block
      BY <1>3 DEF TypedFunction
    <3> QED BY <2>1, <3>1, <3>2, NotBlocks DEF Fits
  <2>2. CASE func.params[i] \notin Pointer
    BY <1>4, <2>2, InputFits DEF Arguments
  <2> QED BY <2>1, <2>2
<1>6. EntryTyped'
  <2>1. DOMAIN args = DOMAIN func.params
    OBVIOUS
  <2>2. ASSUME NEW i \in DOMAIN func.params
        PROVE  IF func.params[i] \in Pointer THEN args[i] \in {0, i} ELSE args[i] \in Val
    BY <1>5 DEF Fits
  <2> QED BY <1>1, <2>1, <2>2 DEF EntryTyped
<1>7. \A v \in Params : ParamIndex(v) \in DOMAIN func.params /\ func.params[ParamIndex(v)] = v /\ v \in Var \ Global
  BY <1>4 DEF Params, ParamIndex
<1>8. DOMAIN env' = Var /\ \A v \in Var : /\ v \in Params => env'[v] = args[ParamIndex(v)]
                                          /\ v \in Global => env'[v] = globals[v]
                                          /\ v \notin Params /\ v \notin Global => env'[v] = 0
  BY <1>2, <1>7
<1>9. ASSUME NEW v \in Var PROVE Fits(v, env'[v]) /\ env'[v] \notin Block
  <2>1. CASE v \in Params
    BY <1>5, <1>7, <1>8, <2>1
  <2>2. CASE v \in Global
    BY <1>8, <2>2, InputFits
  <2>3. CASE v \notin Params /\ v \notin Global
    <3>1. 0 \in Addresses
      BY DEF Addresses
    <3> QED BY <1>8, <2>3, <3>1, NotBlocks DEF Fits
  <2> QED BY <2>1, <2>2, <2>3
<1>10. EnvTyped(env)'
  <2>1. EnvTyped(env')
    BY <1>8, <1>9, ReturnAssumption DEF ReturnAssumption, EnvTyped, Fits
  <2> QED BY <1>1, <2>1 DEF EnvTyped, Addresses
<1>11. Bookkept(env, made, kept)'
  BY <1>1, <1>9, ReturnAssumption DEF ReturnAssumption, Bookkept, Waits
<1>12. /\ Nodes' = Nodes /\ unwrittenParams' = unwrittenParams /\ collectTypedVars' = collectTypedVars
  BY <1>1, TextFrame
<1>13. Unwritten(env, outside)'
  <2>1. \A v \in unwrittenParams : v \in Params
    BY DEF unwrittenParams
  <2>2. \A v \in unwrittenParams : env'[v] = entry'[ParamIndex(v)]
    BY <1>1, <1>7, <1>8, <2>1
  <2>3. \A v : ParamIndex(v)' = ParamIndex(v)
    BY <1>1 DEF ParamIndex
  <2> QED BY <1>12, <2>2, <2>3 DEF Unwritten
<1>14. PICK J \in States : flow[1] = {J} /\ Weaker(J, initialState) /\ 1 \in Nodes
  BY <1>1, FlowEnters DEF Waits
<1>15. ASSUME NEW v \in collectTypedVars PROVE FactTrue(J[v], env[v], kept, outside)'
  <2>1. v \in Var /\ Fades(J[v], initialState[v])
    BY <1>14, ReturnAssumption DEF ReturnAssumption, collectTypedVars, Typed, Weaker
  <2>2. initialState[v] = [bad |-> "Unknown", origin |-> IF v \in Params THEN ParamIndex(v) ELSE 0,
                           owner |-> IF v \in Params THEN "Borrowed" ELSE "Unknown"]
    BY DEF initialState
  <2>3. J[v].bad \notin {"NonBad", "Bad"}
    BY <2>1, <2>2 DEF Fades
  <2>4. J[v].origin # 0 => v \in Params /\ J[v].origin = ParamIndex(v)
    BY <2>1, <2>2 DEF Fades
  <2>5. J[v].owner # "Unknown" => J[v].owner = "Borrowed"
    BY <2>1, <2>2 DEF Fades
  <2>6. J[v].origin # 0 => env'[v] = entry'[J[v].origin]
    BY <1>1, <1>8, <2>1, <2>4
  <2>7. env'[v] \notin Block
    BY <1>9, <2>1
  <2>8. BadHolds(J[v].bad, env[v])'
    BY <2>3 DEF BadHolds
  <2>9. OriginHolds(J[v].origin, env[v])'
    BY <2>6 DEF OriginHolds
  <2>10. OwnerHolds(J[v].owner, env[v], kept)'
    BY <2>5, <2>7 DEF OwnerHolds
  <2> QED BY <2>8, <2>9, <2>10 DEF FactTrue
<1>16. \A S \in flow'[at'] : StateTrue(S, env, kept, outside)'
  <2>1. StateTrue(J, env, kept, outside)'
    BY <1>12, <1>15 DEF StateTrue
  <2>2. flow'[at'] = {J}
    BY <1>1, <1>14 DEF Waits
  <2> QED BY <2>1, <2>2
<1>17. \A u : Entered(at, u, outside)'
  <2>1. at' = 1
    BY <1>1 DEF Waits
  <2> QED BY <2>1, LeadsFirst DEF Entered
<1>18. Leads(Steps(func), at)'
  <2>1. at' = 1
    BY <1>1 DEF Waits
  <2> QED BY <2>1, LeadsFirst
<1>19. Truth(at, env, made, kept, exposed, outside)'
  <2>1. at' \in Nodes' /\ flow'[at'] # {} /\ exposed' = {}
    BY <1>1, <1>12, <1>14 DEF Waits
  <2> QED BY <1>10, <1>11, <1>13, <1>16, <1>17, <1>18, <2>1 DEF Truth
<1>20. result' = {}
  BY <1>1 DEF Waits
<1> QED BY <1>1, <1>6, <1>19, <1>20 DEF Runs

-----------------------------------------------------------------------------
(* What is returned *)

\* A value that is a variable: nothing else.
LEMMA VariableValue ==
    ASSUME Started, NEW e, TypedValue(func, e), NEW v \in exprAsVar(e)
    PROVE  e.leaf.kind = "var" /\ e.leaf.var = v /\ Values(e) = {env[v]}
<1>1. e.via = <<>> /\ e.leaf.kind = "var" /\ e.leaf.var = v
  BY DEF exprAsVar
<1>2. Layers(e, ValuesAt(e))
  BY ValuesUnfold
<1>3. Len(e.via) = 0
  BY <1>1
<1>4. ValuesAt(e)[1] = LeafValues(e.leaf)
  BY <1>2, <1>3 DEF Layers
<1> QED BY <1>1, <1>4 DEF Values, LeafValues

\* What a return contributes to the claim is true of the value, as far as notes allow.
LEMMA ContributionTrue ==
    ASSUME Runs, At(at).kind = "return", NEW S \in flow[at], NEW y \in Values(At(at).value),
           NEW notes, outside \subseteq notes, Surprises(At(at).value, y) \subseteq notes, notes \cap Unseen = {}
    PROVE  /\ BadHolds(contribution(at, S), y) /\ BadHolds(vstateOf(At(at).value), y)
           /\ \/ exprAsVar(At(at).value) = {} /\ contribution(at, S) = vstateOf(At(at).value)
              \/ exprAsVar(At(at).value) # {}
<1> DEFINE e == At(at).value
<1>1. Started /\ TypedValue(func, e) /\ S \in States /\ StateTrue(S, env, kept, outside)
  BY RunsStarted DEF TypedStatement
<1>2. Surprises(e, y) \cap Sound = {}
  BY DEF Unseen, Sound
<1>3. BadHolds(vstateOf(e), y)
  BY <1>1, <1>2, ValueKnown DEF BadHolds
<1> DEFINE known == exprAsVar(e) \cap DOMAIN S
<1>4. CASE known = {}
  <2>1. contribution(at, S) = vstateOf(e)
    BY <1>4 DEF contribution
  <2> QED BY <1>3, <2>1
<1>5. CASE known # {}
  <2> DEFINE v == CHOOSE v \in known : TRUE
  <2>1. v \in known /\ contribution(at, S) = S[v].bad
    BY <1>5 DEF contribution
  <2>2. v \in exprAsVar(e) /\ v \in collectTypedVars
    BY <1>1, <2>1 DEF States
  <2> HIDE DEF v
  <2>3. y = env[v]
    BY <1>1, <2>2, VariableValue
  <2>4. BadHolds(S[v].bad, env[v])
    BY <1>1, <2>2 DEF StateTrue, FactTrue
  <2> QED BY <1>3, <2>1, <2>2, <2>3, <2>4
<1> QED BY <1>4, <1>5

\* What the claim says comes true of the result.
LEMMA ReturnedClaim ==
    ASSUME Runs, Return
    PROVE  ReturnClaimsHold'
<1> DEFINE e == At(at).value
<1>1. PICK y \in Values(e) :
          /\ result' = {IF func.type = "pointer" THEN y ELSE Cut(func.wide, y)}
          /\ outside' = outside \cup Surprises(e, y) \cup Note("narrowed", y # 0 /\ 0 \in result')
  BY DEF Return
<1>2. At(at).kind = "return" /\ summary' = summary /\ func' = func
  BY DEF Return, Running
<1>3. Started /\ TypedValue(func, e) /\ at \in Nodes
  BY <1>2, RunsStarted DEF TypedStatement
<1>4. PICK S \in States : flow[at] = {S}
  BY RunsStarted
<1>5. summary.claim = Claim
  BY DEF Runs, FlowInv, Summary
<1> SUFFICES ASSUME outside' \cap Unseen = {}, NEW z \in result'
             PROVE  (Claim = "Never" => z # 0) /\ (Claim = "Always" => z = 0)
  BY <1>2, <1>5 DEF ReturnClaimsHold, Unseen
<1>6. BadHolds(contribution(at, S), y) /\ BadHolds(vstateOf(e), y)
  BY <1>1, <1>2, <1>4, ContributionTrue
<1>7. exprAsVar(e) = {} => contribution(at, S) = vstateOf(e)
  BY <1>1, <1>2, <1>4, ContributionTrue
<1>8. at \in returns
  BY <1>2, <1>3 DEF returns
<1>9. vstateOf(e) \in computeReturnFlow \/ contribution(at, S) \in computeReturnFlow
  <2>1. CASE \A n \in returns : exprAsVar(At(n).value) = {}
    BY <1>8, <2>1 DEF computeReturnFlow
  <2>2. CASE ~\A n \in returns : exprAsVar(At(n).value) = {}
    <3>1. computeReturnFlow = UNION {{contribution(n, T) : T \in flow[n]} : n \in returns}
      BY <2>2 DEF computeReturnFlow
    <3>2. contribution(at, S) \in {contribution(at, T) : T \in flow[at]}
      BY <1>4
    <3> QED BY <1>8, <3>1, <3>2
  <2> QED BY <2>1, <2>2
<1>10. \A x \in computeReturnFlow : (Claim = "Never" => x = "NonBad") /\ (Claim = "Always" => x = "Bad" /\ func.type = "integer")
  BY DEF Claim, aggregate
<1>11. (Claim = "Never" => y # 0) /\ (Claim = "Always" => y = 0 /\ func.type = "integer")
  BY <1>6, <1>9, <1>10 DEF BadHolds
<1>12. y # 0 => z # 0
  BY <1>1 DEF Note, Unseen
<1>13. func.type = "integer" /\ y = 0 => z = 0
  BY <1>1, <1>3, CutTyped, NotBlocks DEF Started, TypedFunction
<1> QED BY <1>11, <1>12, <1>13

\* The result is owned, or borrowed, as the summary says.
LEMMA ReturnedOwner ==
    ASSUME Runs, Return
    PROVE  OwnershipHolds'
<1> DEFINE e == At(at).value
<1>1. PICK y \in Values(e) :
          /\ result' = {IF func.type = "pointer" THEN y ELSE Cut(func.wide, y)}
          /\ made' = made \cup ({y} \cap Block)
          /\ outside' = outside \cup Surprises(e, y) \cup Note("narrowed", y # 0 /\ 0 \in result')
  BY DEF Return
<1>2. At(at).kind = "return" /\ summary' = summary /\ kept' = kept
  BY DEF Return, Running
<1>3. Started /\ TypedValue(func, e) /\ at \in Nodes /\ Bookkept(env, made, kept)
  BY <1>2, RunsStarted DEF TypedStatement
<1>4. PICK S \in States : flow[at] = {S}
  BY RunsStarted
<1>5. summary.owner = computeReturnOwnership
  BY DEF Runs, FlowInv, Summary
<1> DEFINE owners == UNION {{ownershipOf(At(n).value, T) : T \in flow[n]} : n \in returns}
           whole == FoldSet(mergeOwnership, "Null", owners)
           owner == ownershipOf(e, S)
<1>6. at \in returns
  BY <1>2, <1>3 DEF returns
<1>7. owner \in owners
  BY <1>4, <1>6
<1>8. owners \in SUBSET OwnershipState
  <2>1. ASSUME NEW n \in returns, NEW T \in flow[n] PROVE ownershipOf(At(n).value, T) \in OwnershipState
    <3>1. n \in Nodes /\ TypedStatement(func, At(n)) /\ At(n).kind = "return"
      BY TextTyped DEF returns, Runs, FlowInv
    <3>2. TypedValue(func, At(n).value)
      BY <3>1 DEF TypedStatement
    <3>3. T \in States
      BY <3>1, <2>1 DEF Runs, FlowInv, FlowTyped
    <3> QED BY <3>2, <3>3, OwnershipTyped
  <2> QED BY <2>1
<1>9. computeReturnOwnership = IF func.type = "pointer" /\ whole \in {"Owned", "Borrowed"} THEN whole ELSE "Unknown"
  BY DEF computeReturnOwnership
<1>10. whole \in {"Owned", "Borrowed"} => owner \in {whole, "Null"}
  <2> HIDE DEF owners, owner
  <2>1. whole \in {"Owned", "Borrowed"} => \A o \in owners : o \in {whole, "Null"}
    BY <1>8, OwnersFold
  <2> QED BY <1>7, <2>1
<1> HIDE DEF whole, owners
<1> SUFFICES ASSUME outside' \cap Passed = {}, NEW z \in result' \ {0}, func.type = "pointer", owner \in {whole, "Null"}
             PROVE  (whole = "Owned" => z \in own') /\ (whole = "Borrowed" => z \notin own')
  <2>1. summary'.owner \in {"Owned", "Borrowed"} => func.type = "pointer" /\ summary'.owner = whole /\ owner \in {whole, "Null"}
    BY <1>2, <1>5, <1>9, <1>10
  <2> HIDE DEF owner
  <2> QED BY <2>1 DEF OwnershipHolds, Passed
<1>11. z = y
  BY <1>1
<1> DEFINE fact == [bad |-> vstateOf(e), origin |-> originOf(e, S), owner |-> owner]
<1>12. FactTrue(fact, y, kept, outside')
  <2>1. fact.bad = vstateOf(e) /\ fact.origin = originOf(e, S) /\ fact.owner = ownershipOf(e, S)
    OBVIOUS
  <2> HIDE DEF fact
  <2> QED BY <1>1, <1>3, <1>4, <2>1, ValueTrue
<1>13. OwnerHolds(owner, y, kept)
  BY <1>12 DEF FactTrue
<1>14. y \in own' <=> y \in Block \ kept
  BY <1>1, <1>2, <1>3 DEF own, Bookkept
<1> HIDE DEF owner
<1> QED BY <1>11, <1>13, <1>14 DEF OwnerHolds

-----------------------------------------------------------------------------
(* Where a null or zero result comes from *)

\* A set of numbers has a least one.
LEMMA LeastMember ==
    ASSUME NEW S \in SUBSET Nat, S # {}
    PROVE  Min(S) \in S /\ \A x \in S : Min(S) <= x
<1>1. PICK m \in S : \A k \in S : ~ (<<k, m>> \in OpToRel(<, Nat))
  BY NatLessThanWellFounded, WFMin
<1>2. \A k \in S : m <= k
  <2> TAKE k \in S
  <2>1. ~(k < m)
    BY <1>1 DEF OpToRel
  <2> QED BY <2>1
<1> QED BY <1>2 DEF Min

\* What holds of the outermost wrap, and of what is wrapped if of the wrap, holds down to m.
LEMMA Inwards ==
    ASSUME NEW m \in Nat, m >= 1, NEW S, 1 \in S, \A k \in 1 .. m - 1 : k \in S => k + 1 \in S
    PROVE  m \in S
<1> DEFINE T == {j \in 0 .. m - 1 : j + 1 \in S}
           n == m - 1
<1>1. n \in Nat /\ 0 \in T
  OBVIOUS
<1>2. ASSUME NEW j \in 0 .. n, j # n, j \in T PROVE j + 1 \in T
  <2>1. j + 1 \in 1 .. m - 1 /\ j + 1 \in S /\ j + 1 \in 0 .. m - 1
    BY <1>2
  <2> QED BY <2>1
<1>3. \A j \in 0 .. n : j \in T
  <2> HIDE DEF T, n
  <2> QED BY <1>1, <1>2, UpTo
<1>4. n \in T
  <2> HIDE DEF T
  <2> QED BY <1>1, <1>3
<1> QED BY <1>4

\* A value of 0 is 0 under each wrap that hands it through.
LEMMA ZeroInside ==
    ASSUME Started, NEW e, TypedValue(func, e), 0 \in Values(e), NEW m \in 1 .. Len(e.via) + 1,
           \A k \in 1 .. m - 1 : 0 \in ValuesAt(e)[k] => 0 \in ValuesAt(e)[k + 1]
    PROVE  0 \in ValuesAt(e)[m]
<1> DEFINE S == {k \in Nat : 0 \in ValuesAt(e)[k]}
<1>1. Len(e.via) \in Nat /\ m \in Nat /\ m >= 1
  BY ViaTyped
<1>2. 1 \in S
  BY DEF Values
<1>3. \A k \in 1 .. m - 1 : k \in S => k + 1 \in S
  OBVIOUS
<1> HIDE DEF S
<1>4. m \in S
  BY <1>1, <1>2, <1>3, Inwards
<1> QED BY <1>4 DEF S

\* What the leaf resolves to decides whether it is 0.
LEMMA LeafResolved ==
    ASSUME Started, NEW e, TypedValue(func, e), 0 \in LeafValues(e.leaf), e.leaf.kind # "nothrow",
           \A v \in unwrittenParams : env[v] = entry[ParamIndex(v)]
    PROVE  ResolvedLeaf(e) # NonNull /\ (ResolvedLeaf(e) # Blocked => entry[ResolvedLeaf(e)] = 0)
<1>1. CASE e.leaf.kind = "var" /\ e.leaf.var \in unwrittenParams
  <2>1. ResolvedLeaf(e) = ParamIndex(e.leaf.var) /\ env[e.leaf.var] = 0
    BY <1>1 DEF ResolvedLeaf, LeafValues
  <2>2. ParamIndex(e.leaf.var) \in DOMAIN func.params
    BY <1>1 DEF unwrittenParams, Params, ParamIndex
  <2>3. DOMAIN func.params \subseteq Nat \ {0}
    <3>1. func.params \in Seq(Var \ Global)
      BY DEF Started, TypedFunction
    <3> QED BY <3>1
  <2> QED BY <1>1, <2>1, <2>2, <2>3 DEF NonNull
<1>2. CASE e.leaf.kind # "var" /\ LeafVState(e.leaf) = "NonBad"
  <2>1. 0 \notin LeafValues(e.leaf)
    BY <1>2, NotBlocks DEF LeafVState, LeafValues, Free
  <2> QED BY <2>1
<1>3. CASE ~(e.leaf.kind = "var" /\ e.leaf.var \in unwrittenParams) /\ ~(e.leaf.kind # "var" /\ LeafVState(e.leaf) = "NonBad")
  BY <1>3 DEF ResolvedLeaf, NonNull, Blocked
<1> QED BY <1>1, <1>2, <1>3

LEMMA BlockedDiffers == NonNull # Blocked
BY DEF NonNull, Blocked

\* A null pointer comes from the parameter that the text resolves it to.
LEMMA NullResolved ==
    ASSUME Started, func.type = "pointer", NEW e, TypedValue(func, e), 0 \in Values(e),
           Surprises(e, 0) \cap {"nothrow", "round trip"} = {},
           \A v \in unwrittenParams : env[v] = entry[ParamIndex(v)]
    PROVE  resolveNullReturn(e) # NonNull /\ (resolveNullReturn(e) # Blocked => entry[resolveNullReturn(e)] = 0)
<1> DEFINE n == Len(e.via)
           vals == ValuesAt(e)
           stops == {k \in DOMAIN e.via : e.via[k].kind \in {"dynamic", "hop"} \/ Ends(e.via[k])}
<1>1. n \in Nat /\ DOMAIN e.via = 1 .. n /\ \A k \in 1 .. n : e.via[k] \in Wraps /\ TypedWrap(func, e.via[k])
  BY ViaTyped
<1>n. n \in Nat /\ 1 .. n \subseteq Nat /\ n + 1 \in 1 .. n + 1 /\ (n + 1) - 1 = n /\ stops \subseteq 1 .. n
  <2>1. n \in Nat /\ stops \subseteq 1 .. n
    BY <1>1
  <2> HIDE DEF n, stops
  <2> QED BY ONLY <2>1
<1>2. vals[n + 1] = LeafValues(e.leaf) /\ \A k \in 1 .. n : vals[k] = Wrapped(e.via[k], vals[k + 1])
  BY ValuesUnfold DEF Layers
<1>3. resolveNullReturn(e) = ResolvedAt(e, stops, ResolvedLeaf(e))
  BY DEF resolveNullReturn
<1>4. e.leaf.kind # "nothrow" /\ ~(\E k \in DOMAIN e.via : \E j \in 1 .. k : e.via[j].kind = "hop" /\ e.via[k].kind = "dynamic")
  BY DEF Surprises, Note
<1> HIDE DEF n, vals
<1>5. ASSUME NEW k \in 1 .. n, k \notin stops, 0 \in vals[k] PROVE 0 \in vals[k + 1]
  <2> DEFINE w == e.via[k]
  <2>1. w \in Wraps /\ TypedWrap(func, w) /\ w.kind \notin {"dynamic", "hop"} /\ ~Ends(w) /\ 0 \in Wrapped(w, vals[k + 1])
    BY <1>1, <1>2, <1>5
  <2> HIDE DEF w, stops
  <2>2. CASE w.kind = "cast"
    BY <2>1, <2>2 DEF Wrapped
  <2>3. CASE w.kind = "call"
    <3>1. PICK z \in vals[k + 1] : 0 \in Returned(w, z)
      BY <2>1, <2>3 DEF Wrapped
    <3>2. w.from /\ w.claim = "Unknown" /\ w.param
      BY <2>1, <2>3 DEF Ends, Wraps, TypedWrap
    <3>3. Cut(w.param, z) = 0
      BY <3>1, <3>2 DEF Returned
    <3> QED BY <3>2, <3>3 DEF Cut
  <2> QED BY <2>1, <2>2, <2>3 DEF Wraps, TypedWrap
<1>6. CASE stops = {}
  <2>1. n + 1 \in 1 .. n + 1 /\ \A k \in 1 .. (n + 1) - 1 : k \in 1 .. n /\ k \notin stops
    <3> HIDE DEF stops
    <3> QED BY ONLY <1>n, <1>6
  <2>2. 0 \in vals[n + 1]
    <3> HIDE DEF stops
    <3> QED BY <1>5, <2>1, ZeroInside DEF vals, n
  <2>3. resolveNullReturn(e) = ResolvedLeaf(e)
    BY <1>3, <1>6 DEF ResolvedAt
  <2> QED BY <1>2, <1>4, <2>2, <2>3, LeafResolved
<1>7. CASE stops # {}
  <2> DEFINE m == Min(stops)
             w == e.via[m]
  <2>1. m \in stops /\ \A k \in stops : m <= k
    <3>1. stops \in SUBSET Nat
      BY <1>n
    <3> HIDE DEF stops
    <3> QED BY <1>7, <3>1, LeastMember
  <2>2. m \in 1 .. n
    BY <1>n, <2>1
  <2>3. resolveNullReturn(e) = CASE w.kind = "call" /\ w.claim = "Never" -> NonNull
                                 [] w.kind = "hop" /\ vstateOf(e) = "NonBad" -> NonNull
                                 [] OTHER -> Blocked
    BY <1>3, <1>7 DEF ResolvedAt
  <2>4. \A k \in 1 .. m - 1 : k \in 1 .. n /\ k \notin stops
    <3> HIDE DEF stops, m
    <3>1. ASSUME NEW k \in 1 .. m - 1 PROVE k \in 1 .. n /\ ~(m <= k)
      BY ONLY <1>n, <2>2, <3>1
    <3> QED BY <2>1, <3>1
  <2>5. 0 \in vals[m] /\ 0 \in Wrapped(w, vals[m + 1])
    <3> HIDE DEF stops, m
    <3>1. m \in 1 .. n + 1
      BY ONLY <1>n, <2>2
    <3>2. 0 \in vals[m]
      BY <1>5, <2>4, <3>1, ZeroInside DEF vals, n
    <3> QED BY <1>2, <2>2, <3>2
  <2>6. ASSUME w.kind = "call", w.claim = "Never" PROVE FALSE
    <3> HIDE DEF w, m
    <3> QED BY <2>5, <2>6 DEF Wrapped, Returned
  <2>7. ASSUME w.kind = "hop", vstateOf(e) = "NonBad" PROVE FALSE
    <3>1. ASSUME NEW k \in DOMAIN e.via, e.via[k].kind = "dynamic" PROVE FALSE
      <4>1. k \in stops /\ k \in Nat
        BY <1>n, <3>1
      <4>2. m <= k
        BY <2>1, <4>1
      <4>3. m \in 1 .. k
        <5> HIDE DEF m, stops
        <5> QED BY ONLY <1>n, <2>2, <4>1, <4>2
      <4> QED BY <1>4, <2>7, <3>1, <4>3
    <3>2. Surprises(e, 0) \cap Sound = {}
      <4>1. \A k \in DOMAIN e.via : ~CutsDown(e, k)
        BY DEF CutsDown
      <4> QED BY <1>4, <3>1, <4>1 DEF Surprises, Note, Sound
    <3> QED BY <2>7, <3>2, ValueKnown
  <2> HIDE DEF w, m
  <2>8. resolveNullReturn(e) = Blocked
    BY <2>3, <2>6, <2>7
  <2> QED BY ONLY <2>8, BlockedDiffers
<1> QED BY <1>6, <1>7

\* The slots of a value, from the outside inwards; those of a minus are left to SlotWidth.
Slots(e, slot) ==
    /\ slot[1] = Width(func.wide)
    /\ \A k \in 1 .. Len(e.via) :
            /\ e.via[k].kind = "call" => slot[k + 1] = Width(e.via[k].param)
            /\ e.via[k].kind \notin {"call", "minus"} => slot[k + 1] = NodeWidth(e, k)

\* The width of each slot.
LEMMA SlotUnfold ==
    ASSUME NEW e, e.via \in Seq(Wraps)
    PROVE  Slots(e, SlotWidth(e))
<1> DEFINE n == Len(e.via)
           Slot(k, x) == IF k > 1 /\ e.via[k - 1].kind = "minus" THEN x
                         ELSE CASE k = 1 -> Width(func.wide)
                                [] k > 1 /\ e.via[k - 1].kind = "call" -> Width(e.via[k - 1].param)
                                [] OTHER -> NodeWidth(e, k - 1)
           Body(g) == [k \in 1 .. n + 1 |->
                         IF k > 1 /\ e.via[k - 1].kind = "minus" THEN g[k - 1]
                         ELSE CASE k = 1 -> Width(func.wide)
                                [] k > 1 /\ e.via[k - 1].kind = "call" -> Width(e.via[k - 1].param)
                                [] OTHER -> NodeWidth(e, k - 1)]
           known == CHOOSE g : g = Body(g)
           step == [j \in 1 .. n |-> [x \in {1, 2} |-> Slot(n + 2 - j, x)]]
<1>1. n \in Nat
  OBVIOUS
<1>2. SlotWidth(e) = known
  BY DEF SlotWidth
<1>3. Width(func.wide) \in {1, 2} /\ \A k, x : x \in {1, 2} => Slot(k, x) \in {1, 2}
  BY DEF Width, NodeWidth
<1> HIDE DEF n, known, Slot
<1>5. step \in [1 .. n -> [{1, 2} -> {1, 2}]]
  BY <1>3
<1>6. PICK f \in [1 .. n + 1 -> {1, 2}] : f[n + 1] = Width(func.wide) /\ \A j \in 1 .. n : f[j] = step[j][f[j + 1]]
  <2> HIDE DEF step
  <2>1. PICK f : Chains(f, n, {1, 2}, Width(func.wide), step)
    BY <1>1, <1>3, <1>5, Chain
  <2> QED BY <2>1 DEF Chains
<1> DEFINE h == [k \in 1 .. n + 1 |-> f[n + 2 - k]]
<1>7. ASSUME NEW k \in 1 .. n + 1
      PROVE  h[k] = Slot(k, h[k - 1])
  <2>1. CASE k = 1
    <3>1. h[1] = f[n + 1]
      BY <1>1
    <3> QED BY <1>6, <2>1, <3>1 DEF Slot
  <2>2. CASE k > 1
    <3> DEFINE j == n + 2 - k
    <3>1. j \in 1 .. n /\ j + 1 \in 1 .. n + 1 /\ k - 1 \in 1 .. n + 1 /\ n + 2 - (k - 1) = j + 1 /\ n + 2 - j = k
      BY <1>1, <2>2
    <3>2. h[k] = f[j] /\ h[k - 1] = f[j + 1]
      BY <3>1
    <3> HIDE DEF j, h
    <3>3. f[j] = step[j][f[j + 1]] /\ f[j + 1] \in {1, 2}
      BY <1>6, <3>1
    <3>4. f[j] = Slot(k, f[j + 1])
      BY <3>1, <3>3
    <3> QED BY <3>2, <3>4
  <2> QED BY <1>1, <2>1, <2>2
<1>8. h = Body(h)
  <2>1. h = [k \in 1 .. n + 1 |-> h[k]]
    OBVIOUS
  <2> HIDE DEF h
  <2>2. \A k \in 1 .. n + 1 : h[k] = IF k > 1 /\ e.via[k - 1].kind = "minus" THEN h[k - 1]
                                    ELSE CASE k = 1 -> Width(func.wide)
                                           [] k > 1 /\ e.via[k - 1].kind = "call" -> Width(e.via[k - 1].param)
                                           [] OTHER -> NodeWidth(e, k - 1)
    BY <1>7 DEF Slot
  <2> QED BY <2>1, <2>2, Zenon
<1>9. known = Body(known)
  BY <1>8 DEF known
<1>10. \A k \in 1 .. n + 1 : known[k] = IF k > 1 /\ e.via[k - 1].kind = "minus" THEN known[k - 1]
                                      ELSE CASE k = 1 -> Width(func.wide)
                                             [] k > 1 /\ e.via[k - 1].kind = "call" -> Width(e.via[k - 1].param)
                                             [] OTHER -> NodeWidth(e, k - 1)
  BY <1>9, Zenon
<1>11. known[1] = Width(func.wide)
  <2>1. 1 \in 1 .. n + 1
    BY <1>1
  <2> QED BY <1>10, <2>1
<1>12. ASSUME NEW k \in 1 .. n
       PROVE  /\ e.via[k].kind = "call" => known[k + 1] = Width(e.via[k].param)
              /\ e.via[k].kind \notin {"call", "minus"} => known[k + 1] = NodeWidth(e, k)
  <2>1. k + 1 \in 1 .. n + 1 /\ k + 1 > 1 /\ k + 1 # 1 /\ (k + 1) - 1 = k
    BY <1>1
  <2> QED BY <1>10, <2>1
<1> QED BY <1>2, <1>11, <1>12 DEF Slots, n

\* A node of one bit has the values 0 and 1.
LEMMA NodeFits ==
    ASSUME Started, func.type = "integer", NEW e, TypedValue(func, e), NEW k \in 1 .. Len(e.via) + 1, NodeWidth(e, k) = 1,
           NEW z \in ValuesAt(e)[k]
    PROVE  z \in {0, 1}
<1>1. Len(e.via) \in Nat /\ \A i \in 1 .. Len(e.via) : e.via[i] \in Wraps /\ TypedWrap(func, e.via[i])
  BY ViaTyped
<1>2. /\ ValuesAt(e) \in [1 .. Len(e.via) + 1 -> SUBSET Kind] /\ ValuesAt(e)[Len(e.via) + 1] = LeafValues(e.leaf)
      /\ \A i \in 1 .. Len(e.via) : ValuesAt(e)[i] = Wrapped(e.via[i], ValuesAt(e)[i + 1])
  BY ValuesUnfold DEF Layers
<1>n. Len(e.via) \in Nat
  BY <1>1
<1> DEFINE n == Len(e.via)
<1>3. CASE k \in 1 .. n
  <2> DEFINE w == e.via[k]
  <2>0. k <= Len(e.via) /\ k + 1 \in 1 .. n + 1
    BY ONLY <1>n, <1>3
  <2>1. w \in Wraps /\ TypedWrap(func, w) /\ z \in Wrapped(w, ValuesAt(e)[k + 1])
    BY <1>1, <1>2, <1>3
  <2>2. NodeWidth(e, k) = Width(w.wide)
    BY <2>0 DEF NodeWidth
  <2>3. w.wide = FALSE
    BY <2>1, <2>2 DEF Width, Wraps
  <2>4. ValuesAt(e)[k + 1] \in SUBSET Val
    BY <1>2, <2>0 DEF Kind
  <2> HIDE DEF w
  <2>5. CASE w.kind = "cast"
    <3>1. PICK x \in ValuesAt(e)[k + 1] : z = Cut(w.wide, x)
      BY <2>1, <2>5 DEF Wrapped
    <3>2. x \in Val
      BY <2>4, <3>1
    <3> QED BY <2>3, <3>1, <3>2, CutTyped
  <2>6. CASE w.kind = "call"
    <3>1. z \in Val
      BY <1>2
         DEF Kind
    <3>2. z = Cut(w.wide, z)
      BY <2>1, <2>6 DEF Wrapped, Returned
    <3> QED BY <2>3, <3>1, <3>2, CutTyped
  <2> QED BY <2>1, <2>3, <2>5, <2>6 DEF TypedWrap, Wraps
<1>4. CASE k = n + 1
  <2>1. ~(k <= Len(e.via)) /\ k > Len(e.via)
    BY ONLY <1>n, <1>4
  <2>2. e.leaf.kind = "var" /\ e.leaf.var \in Narrow
    BY <2>1 DEF NodeWidth, Width
  <2>3. LeafValues(e.leaf) = {env[e.leaf.var]} /\ env[e.leaf.var] \in {0, 1}
    BY <2>2 DEF LeafValues, Started, EnvTyped
  <2> QED BY <1>2, <1>4, <2>3
<1>5. k \in 1 .. n \/ k = n + 1
  BY ONLY <1>n
<1> QED BY <1>3, <1>4, <1>5

\* What is not cut is what it was.
LEMMA CutZero ==
    ASSUME NEW z \in Val, NEW wide \in BOOLEAN, Cut(wide, z) = 0, ~wide => z \in {0, 1}
    PROVE  z = 0
<1>1. CASE wide
  BY <1>1 DEF Cut
<1>2. CASE ~wide
  <2>1. z % 2 = 0 /\ z \in {0, 1}
    BY <1>2 DEF Cut
  <2> QED BY ONLY <2>1
<1> QED BY <1>1, <1>2

\* A result of zero comes from the parameter that the text resolves it to.
LEMMA ZeroResolved ==
    ASSUME Started, func.type = "integer", NEW e, TypedValue(func, e), NEW y \in Values(e), Cut(func.wide, y) = 0,
           \A v \in unwrittenParams : env[v] = entry[ParamIndex(v)]
    PROVE  resolveZeroReturn(e) # NonNull /\ (resolveZeroReturn(e) # Blocked => entry[resolveZeroReturn(e)] = 0)
<1> DEFINE n == Len(e.via)
           vals == ValuesAt(e)
           slot == SlotWidth(e)
           ends == {k \in DOMAIN e.via : Ends(e.via[k])}
           narrow == {k \in 1 .. n + 1 : Narrows(e, k)}
           res == resolveZeroReturn(e)
           early == \E k \in narrow : \A j \in ends : k <= j
<1>1. n \in Nat /\ DOMAIN e.via = 1 .. n /\ \A k \in 1 .. n : e.via[k] \in Wraps /\ TypedWrap(func, e.via[k])
  BY ViaTyped
<1>2. /\ vals \in [1 .. n + 1 -> SUBSET Val] /\ vals[n + 1] = LeafValues(e.leaf) /\ y \in vals[1]
      /\ \A k \in 1 .. n : vals[k] = Wrapped(e.via[k], vals[k + 1])
  BY ValuesUnfold DEF Layers, Kind, Values
<1>3. res = IF early THEN Blocked ELSE ResolvedAt(e, ends, ResolvedLeaf(e))
  BY DEF resolveZeroReturn
<1>4. Slots(e, slot)
  BY ViaTyped, SlotUnfold
<1>5. \A k \in 1 .. n + 1 : NodeWidth(e, k) \in {1, 2} /\ (NodeWidth(e, k) = 1 => vals[k] \subseteq {0, 1})
  <2>1. \A k : NodeWidth(e, k) \in {1, 2}
    BY DEF NodeWidth, Width
  <2> QED BY <2>1, NodeFits
<1>6. \A k \in 1 .. n + 1 : k \in narrow <=> NodeWidth(e, k) > slot[k]
  BY DEF Narrows
<1>t. func.wide \in BOOLEAN
  BY DEF Started, TypedFunction
<1>n. n \in Nat /\ 1 .. n \subseteq Nat /\ 1 \in 1 .. n + 1 /\ n + 1 \in 1 .. n + 1 /\ ends \subseteq 1 .. n
  <2>1. n \in Nat /\ ends \subseteq 1 .. n
    BY <1>1
  <2> HIDE DEF n, ends
  <2> QED BY ONLY <2>1
<1> DEFINE m == IF ends = {} THEN n + 1 ELSE Min(ends)
<1>7. m \in 1 .. n + 1 /\ (ends # {} => m \in ends /\ m \in 1 .. n) /\ (ends = {} => m = n + 1) /\ \A j \in ends : m <= j
  <2>1. ends # {} => Min(ends) \in ends /\ \A j \in ends : Min(ends) <= j
    <3>1. ends \in SUBSET Nat
      BY <1>n
    <3> HIDE DEF ends
    <3> QED BY <3>1, LeastMember
  <2>2. ends # {} => m = Min(ends)
    OBVIOUS
  <2>3. ends = {} => m = n + 1
    OBVIOUS
  <2> HIDE DEF ends, n, m
  <2>4. CASE ends = {}
    BY ONLY <1>n, <2>3, <2>4
  <2>5. CASE ends # {}
    <3>1. m \in ends /\ \A j \in ends : m <= j
      BY ONLY <2>1, <2>2, <2>5
    <3>2. m \in 1 .. n
      BY ONLY <1>n, <3>1
    <3>3. m \in 1 .. n + 1
      BY ONLY <1>n, <3>2
    <3> QED BY ONLY <2>5, <3>1, <3>2, <3>3
  <2> QED BY ONLY <2>4, <2>5
<1>8. ASSUME early PROVE res = Blocked
  BY <1>3, <1>8
<1>9. ASSUME ~early PROVE res # NonNull /\ (res # Blocked => entry[res] = 0)
  <2>1. ASSUME NEW k \in 1 .. m PROVE k \in 1 .. n + 1 /\ ~(NodeWidth(e, k) > slot[k])
    <3>1. k \in 1 .. n + 1 /\ k <= m
      <4> HIDE DEF m, n, ends
      <4> QED BY ONLY <1>n, <1>7, <2>1
    <3>2. \A j \in ends : k <= j
      <4>1. \A j \in ends : j \in Nat /\ m <= j /\ m \in Nat /\ k \in Nat
        <5> HIDE DEF m, n, ends
        <5> QED BY ONLY <1>n, <1>7, <2>1
      <4> HIDE DEF m, n, ends
      <4> QED BY ONLY <3>1, <4>1
    <3>3. k \notin narrow
      BY <1>9, <3>2
    <3> QED BY <1>6, <3>1, <3>3
  <2>2. ASSUME NEW k \in 1 .. m, slot[k] = 1 PROVE vals[k] \subseteq {0, 1}
    <3>1. k \in 1 .. n + 1 /\ ~(NodeWidth(e, k) > 1) /\ NodeWidth(e, k) \in {1, 2}
      BY <1>5, <2>1, <2>2
    <3>2. NodeWidth(e, k) = 1
      BY ONLY <3>1
    <3> QED BY <1>5, <3>1, <3>2
  <2>3. y = 0
    <3>1. slot[1] = Width(func.wide) /\ y \in Val
      BY <1>2, <1>4, <1>n DEF Slots
    <3>2. 1 \in 1 .. m
      <4> HIDE DEF m, n, ends
      <4> QED BY ONLY <1>n, <1>7
    <3>3. ~func.wide => y \in {0, 1}
      BY <1>2, <2>2, <3>1, <3>2 DEF Width
    <3> QED BY <1>t, <3>1, <3>3, CutZero
  <2>4. ASSUME NEW k \in 1 .. m - 1, 0 \in vals[k] PROVE 0 \in vals[k + 1]
    <3> DEFINE w == e.via[k]
    <3>1. k \in 1 .. n /\ k + 1 \in 1 .. m /\ k + 1 \in 1 .. n + 1 /\ ~(m <= k)
      <4> HIDE DEF m, n, ends
      <4> QED BY ONLY <1>n, <1>7, <2>4
    <3>2. ~Ends(w) /\ w \in Wraps /\ TypedWrap(func, w) /\ 0 \in Wrapped(w, vals[k + 1])
      BY <1>1, <1>2, <1>7, <2>4, <3>1
    <3>3. \A z \in vals[k + 1] : z \in Val
      BY <1>2, <3>1
    <3>4. slot[k + 1] = 1 => \A z \in vals[k + 1] : z \in {0, 1}
      BY <2>2, <3>1
    <3>5. /\ w.kind = "call" => slot[k + 1] = Width(w.param)
          /\ w.kind = "cast" => slot[k + 1] = Width(w.wide)
      <4>1. k <= Len(e.via)
        <5>1. k <= n
          <6> HIDE DEF n, m, ends
          <6> QED BY ONLY <1>n, <3>1
        <5> QED BY <5>1
      <4>2. NodeWidth(e, k) = Width(w.wide)
        BY <4>1 DEF NodeWidth
      <4> QED BY <1>4, <3>1, <4>2 DEF Slots
    <3> HIDE DEF w, m, vals, slot, ends, early, narrow
    <3>6. CASE w.kind = "cast"
      <4>1. PICK z \in vals[k + 1] : Cut(w.wide, z) = 0
        BY <3>2, <3>6 DEF Wrapped
      <4>2. w.wide \in BOOLEAN /\ (~w.wide => z \in {0, 1})
        BY <3>2, <3>4, <3>5, <3>6, <4>1 DEF Wraps, Width
      <4> QED BY <3>3, <4>1, <4>2, CutZero
    <3>7. CASE w.kind = "call"
      <4>1. PICK z \in vals[k + 1] : 0 \in Returned(w, z)
        BY <3>2, <3>7 DEF Wrapped
      <4>2. w.from /\ w.claim = "Unknown"
        BY <3>2, <3>7 DEF Ends, Wraps
      <4>3. Cut(w.param, z) = 0
        BY <4>1, <4>2 DEF Returned
      <4>4. w.param \in BOOLEAN /\ (~w.param => z \in {0, 1})
        BY <3>2, <3>4, <3>5, <3>7, <4>1 DEF Wraps, Width
      <4> QED BY <3>3, <4>1, <4>3, <4>4, CutZero
    <3>8. CASE w.kind = "minus"
      <4>1. -0 \in vals[k + 1]
        BY <3>2, <3>8 DEF Wrapped
      <4> QED BY <4>1
    <3> QED BY <3>2, <3>6, <3>7, <3>8 DEF Wraps, TypedWrap
  <2>5. 0 \in vals[m]
    <3>1. 0 \in Values(e)
      BY <2>3
    <3> HIDE DEF m
    <3> QED BY <1>7, <2>4, <3>1, ZeroInside
  <2>6. res = ResolvedAt(e, ends, ResolvedLeaf(e))
    BY <1>3, <1>9
  <2>7. CASE ends = {}
    <3>1. res = ResolvedLeaf(e)
      BY <2>6, <2>7 DEF ResolvedAt
    <3>2. 0 \in LeafValues(e.leaf) /\ e.leaf.kind # "nothrow"
      BY <1>2, <1>7, <2>5, <2>7 DEF TypedValue, TypedLeaf
    <3> QED BY <3>1, <3>2, LeafResolved
  <2>8. CASE ends # {}
    <3> DEFINE w == e.via[m]
    <3>1. Ends(w) /\ 0 \in Wrapped(w, vals[m + 1])
      BY <1>2, <1>7, <2>5, <2>8
    <3>2. m = Min(ends)
      BY <2>8
    <3>3. res = CASE w.kind = "call" /\ w.claim = "Never" -> NonNull
                  [] w.kind = "hop" /\ vstateOf(e) = "NonBad" -> NonNull
                  [] OTHER -> Blocked
      BY <2>6, <2>8, <3>2 DEF ResolvedAt
    <3> HIDE DEF w, m, res, ends
    <3>4. w.kind = "call" /\ w.claim # "Never"
      BY <3>1 DEF Ends, Wrapped, Returned
    <3>5. res = Blocked
      BY <3>3, <3>4
    <3> QED BY ONLY <3>5, BlockedDiffers
  <2> QED BY <2>7, <2>8
<1> HIDE DEF res, early
<1>10. early => res = Blocked
  BY <1>8
<1>11. ~early => res # NonNull /\ (res # Blocked => entry[res] = 0)
  BY <1>9
<1> QED BY ONLY <1>10, <1>11, BlockedDiffers DEF res

-----------------------------------------------------------------------------
(* The claims that name a parameter *)

\* The member of a set that has one.
LEMMA OnlyMember ==
    ASSUME NEW S, IsFiniteSet(S), Cardinality(S) = 1, NEW x \in S
    PROVE  S = {x} /\ (CHOOSE y \in S : TRUE) = x
<1>1. PICK z : S = {z}
  BY FS_Singleton
<1>2. S = {x}
  BY <1>1
<1> QED BY <1>2

\* What some return resolves to.
Resolved(n) == IF func.type = "pointer" THEN resolveNullReturn(At(n).value) ELSE resolveZeroReturn(At(n).value)

\* If a parameter is returned, each return resolves to it or is not bad.
LEMMA PassedOnly ==
    ASSUME func \in Program, passthroughParam # 0, NEW n \in returns
    PROVE  passthroughParam # Blocked /\ Resolved(n) \in {NonNull, passthroughParam}
<1> DEFINE resolved == {Resolved(m) : m \in returns}
           passed == resolved \ {NonNull}
           chosen == CHOOSE i \in passed : TRUE
<1>1. passthroughParam = IF Cardinality(passed) = 1 /\ Blocked \notin passed THEN chosen ELSE 0
  BY DEF passthroughParam, Resolved
<1>2. Cardinality(passed) = 1 /\ Blocked \notin passed /\ passthroughParam = chosen
  BY <1>1
<1>3. IsFiniteSet(passed)
  <2>1. IsFiniteSet(Nodes) /\ returns \subseteq Nodes
    BY TextTyped DEF returns
  <2>2. IsFiniteSet(returns)
    BY <2>1, FS_Subset
  <2> DEFINE f == [m \in returns |-> Resolved(m)]
  <2>3. IsFiniteSet({f[m] : m \in returns})
    <3>1. DOMAIN f = returns
      OBVIOUS
    <3> HIDE DEF f
    <3> QED BY <2>2, <3>1, FiniteImage
  <2>4. {f[m] : m \in returns} = resolved
    OBVIOUS
  <2>5. IsFiniteSet(resolved)
    BY <2>3, <2>4
  <2> HIDE DEF resolved
  <2> QED BY <2>5, FS_Subset
<1>4. Resolved(n) \in resolved
  OBVIOUS
<1> HIDE DEF resolved
<1>5. ASSUME Resolved(n) # NonNull PROVE Resolved(n) = chosen
  <2>1. Resolved(n) \in passed
    BY <1>4, <1>5
  <2> HIDE DEF passed
  <2> QED BY <1>2, <1>3, <2>1, OnlyMember
<1>6. chosen \in passed
  <2>1. PICK z : passed = {z}
    BY <1>2, <1>3, FS_Singleton
  <2> QED BY <2>1
<1> QED BY <1>2, <1>5, <1>6

\* What a return does.
Yields(y) ==
    /\ y \in Values(At(at).value) /\ result' = {IF func.type = "pointer" THEN y ELSE Cut(func.wide, y)}
    /\ outside' = outside \cup Surprises(At(at).value, y) \cup Note("narrowed", y # 0 /\ 0 \in result')

\* A return yields a value of its expression.
LEMMA ReturnYields ==
    ASSUME Runs, Return
    PROVE  /\ Started /\ at \in returns /\ TypedValue(func, At(at).value) /\ func \in Program
           /\ summary' = Summary /\ entry' = entry /\ \E y : Yields(y)
<1>1. \E y : Yields(y)
  BY DEF Return, Yields
<1>2. At(at).kind = "return" /\ summary' = summary /\ entry' = entry
  BY DEF Return, Running
<1>3. Started /\ TypedValue(func, At(at).value) /\ at \in Nodes
  BY <1>2, RunsStarted DEF TypedStatement
<1>4. summary = Summary /\ func \in Program
  BY DEF Runs, FlowInv
<1> QED BY <1>1, <1>2, <1>3, <1>4 DEF returns

\* A bad result comes from the parameter that is handed through.
LEMMA ReturnedFrom ==
    ASSUME Runs, at \in returns, Summary.from # 0, NEW y, Yields(y), outside' \cap {"reference", "nothrow", "round trip"} = {},
           Started, TypedValue(func, At(at).value), 0 \in result'
    PROVE  entry[Summary.from] = 0
<1> DEFINE e == At(at).value
<1>1. Summary.from = passthroughParam /\ func \in Program
  BY DEF Summary, Runs, FlowInv
<1>2. passthroughParam # Blocked /\ Resolved(at) \in {NonNull, passthroughParam}
  BY <1>1, PassedOnly
<1>3. outside \subseteq outside' /\ Surprises(e, y) \subseteq outside' /\ y \in Values(e)
  BY DEF Yields
<1>4. \A v \in unwrittenParams : env[v] = entry[ParamIndex(v)]
  <2>1. "reference" \notin outside
    BY <1>3
  <2> QED BY <2>1 DEF Runs, Truth, Unwritten
<1>5. Resolved(at) # NonNull /\ (Resolved(at) # Blocked => entry[Resolved(at)] = 0)
  <2>1. CASE func.type = "pointer"
    <3>1. y = 0
      BY <2>1 DEF Yields
    <3>2. Surprises(e, 0) \cap {"nothrow", "round trip"} = {}
      BY <1>3, <3>1
    <3>3. 0 \in Values(e) /\ Resolved(at) = resolveNullReturn(e)
      BY <1>3, <2>1, <3>1 DEF Resolved
    <3> QED BY <1>4, <2>1, <3>2, <3>3, NullResolved
  <2>2. CASE func.type # "pointer"
    <3>1. func.type = "integer" /\ Cut(func.wide, y) = 0
      BY <2>2 DEF Yields, Started, TypedFunction
    <3>2. Resolved(at) = resolveZeroReturn(e)
      BY <2>2 DEF Resolved
    <3> QED BY <1>3, <1>4, <3>1, <3>2, ZeroResolved
  <2> QED BY <2>1, <2>2
<1> QED BY <1>1, <1>2, <1>5

\* The result is the argument whose entry object all returns denote.
LEMMA ReturnedAlias ==
    ASSUME Runs, at \in returns, Summary.alias # 0, NEW y, Yields(y), outside' \cap Replaced = {},
           Started, TypedValue(func, At(at).value)
    PROVE  result' = {entry[Summary.alias]}
<1> DEFINE e == At(at).value
           origins == UNION {{originOf(At(n).value, S) : S \in flow[n]} : n \in returns}
<1>1. PICK S \in States : flow[at] = {S}
  BY RunsStarted
<1>2. func \in Program /\ Summary.alias = computeReturnAliasParam
  BY DEF Summary, Runs, FlowInv
<1>3. func.type = "pointer" /\ Cardinality(origins) = 1 /\ computeReturnAliasParam = CHOOSE i \in origins : TRUE
  BY <1>2 DEF computeReturnAliasParam
<1>4. originOf(e, S) \in origins
  BY <1>1
<1>5. IsFiniteSet(origins)
  <2>1. ASSUME NEW n \in returns, NEW T \in flow[n] PROVE originOf(At(n).value, T) \in {0} \cup DOMAIN func.params
    <3>1. n \in Nodes /\ TypedStatement(func, At(n)) /\ At(n).kind = "return"
      BY <1>2, TextTyped DEF returns
    <3>2. TypedValue(func, At(n).value)
      BY <3>1 DEF TypedStatement
    <3>3. T \in States
      BY <3>1, <2>1 DEF Runs, FlowInv, FlowTyped
    <3> QED BY <1>2, <3>2, <3>3, OriginTyped
  <2>2. IsFiniteSet({0} \cup DOMAIN func.params)
    <3>1. func.params \in Seq(Var \ Global)
      BY DEF Started, TypedFunction
    <3>2. DOMAIN func.params = 1 .. Len(func.params) /\ Len(func.params) \in Nat
      BY <3>1
    <3>3. IsFiniteSet(1 .. Len(func.params))
      BY <3>2, FS_Interval
    <3> QED BY <3>2, <3>3, FS_AddElement
  <2>3. origins \subseteq {0} \cup DOMAIN func.params
    BY <2>1
  <2> HIDE DEF origins
  <2> QED BY <2>2, <2>3, FS_Subset
<1>6. originOf(e, S) = Summary.alias
  <2> HIDE DEF origins
  <2> QED BY <1>2, <1>3, <1>4, <1>5, OnlyMember
<1> DEFINE fact == [bad |-> vstateOf(e), origin |-> originOf(e, S), owner |-> ownershipOf(e, S)]
<1>7. FactTrue(fact, y, kept, outside')
  <2>1. fact.bad = vstateOf(e) /\ fact.origin = originOf(e, S) /\ fact.owner = ownershipOf(e, S)
    OBVIOUS
  <2>2. outside \subseteq outside' /\ Surprises(e, y) \subseteq outside' /\ y \in Values(e) /\ S \in flow[at]
    BY <1>1 DEF Yields
  <2> HIDE DEF fact
  <2> QED BY <2>1, <2>2, ValueTrue
<1>8. y = entry[originOf(e, S)]
  BY <1>3, <1>6, <1>7 DEF FactTrue, OriginHolds
<1> QED BY <1>3, <1>6, <1>8 DEF Yields

\* If the result is null, no argument is in the range that excludes it.
LEMMA ReturnedNull ==
    ASSUME Runs, at \in returns, NEW c \in Summary.null, NEW y, Yields(y),
           outside' \cap {"reference", "converted", "labelled", "dynamic", "nothrow"} = {},
           Started, TypedValue(func, At(at).value), 0 \in result'
    PROVE  entry[c.param] \notin c.range
<1> DEFINE e == At(at).value
           bad == {n \in returns : vstateOf(At(n).value) # "NonBad"}
<1>1. func \in Program /\ func.type = "pointer" /\ c \in detectNullCondition
  BY DEF Summary, Runs, FlowInv
<1>2. y = 0 /\ y \in Values(e) /\ outside \subseteq outside' /\ Surprises(e, y) \subseteq outside'
  BY <1>1 DEF Yields
<1>3. vstateOf(e) # "NonBad"
  <2>1. Surprises(e, y) \cap {"narrowed", "mixed"} = {}
    BY <1>1 DEF Surprises, CutsDown, Note
  <2>2. Surprises(e, y) \cap Sound = {}
    BY <1>2, <2>1 DEF Sound
  <2> QED BY <1>2, <2>2, ValueKnown
<1>4. Cardinality(bad) = 1 /\ c \in UNION {findGuardAbove(n) : n \in bad}
  BY <1>1 DEF detectNullCondition
<1>5. at \in bad
  BY <1>3
<1>6. IsFiniteSet(bad)
  <2>1. IsFiniteSet(Nodes) /\ bad \subseteq Nodes
    BY <1>1, TextTyped DEF returns
  <2> QED BY <2>1, FS_Subset
<1>7. bad = {at}
  <2> HIDE DEF bad
  <2> QED BY <1>4, <1>5, <1>6, OnlyMember
<1>8. c \in findGuardAbove(at)
  BY <1>4, <1>7
<1> DEFINE found == {k \in DOMAIN At(at).under : guard(At(at).under[k]) # {}}
<1>9. found # {} /\ c \in guard(At(at).under[Min(found)])
  BY <1>8 DEF findGuardAbove
<1>10. TypedUnder(func, at)
  BY <1>1, TextTyped DEF TypedFunction, returns, Nodes, At
<1>11. Min(found) \in DOMAIN At(at).under
  <2>1. found \in SUBSET Nat
    BY <1>10 DEF TypedUnder, At
  <2>2. found \subseteq DOMAIN At(at).under
    OBVIOUS
  <2> HIDE DEF found
  <2> QED BY <1>9, <2>1, <2>2, LeastMember
<1> DEFINE u == At(at).under[Min(found)]
<1>12. u \in Unders /\ ~Leads(Around(func, u), at)
  <2>1. u \in Unders
    <3>1. u \in {At(at).under[j] : j \in DOMAIN At(at).under}
      BY <1>11
    <3> HIDE DEF u
    <3> QED BY <3>1 DEF Unders
  <2> DEFINE k == Min(found)
  <2>2. k \in DOMAIN func.code[at].under /\ u = func.code[at].under[k]
    BY <1>11 DEF At
  <2> HIDE DEF k, u
  <2>3. ~Leads(Around(func, u), at)
    BY <1>10, <2>2 DEF TypedUnder
  <2> QED BY <2>1, <2>3
<1>13. Entered(at, u, outside)
  BY <1>12 DEF Runs, Truth
<1> HIDE DEF u, found
<1>14. \A g \in guard(u) : entry[g.param] \notin g.range
  BY <1>2, <1>12, <1>13 DEF Entered
<1> QED BY <1>9, <1>14 DEF u

\* What is claimed of a parameter comes true.
LEMMA ReturnedParameter ==
    ASSUME Runs, Return
    PROVE  ParameterClaimsHold'
<1>1. /\ Started /\ at \in returns /\ TypedValue(func, At(at).value)
      /\ summary' = Summary /\ entry' = entry
  BY ReturnYields
<1>2. PICK y : Yields(y)
  BY ReturnYields
<1> SUFFICES ASSUME NEW z \in result'
             PROVE  /\ summary'.from # 0 /\ outside' \cap {"reference", "nothrow", "round trip"} = {} => (z = 0 => entry'[summary'.from] = 0)
                    /\ summary'.alias # 0 /\ outside' \cap {"retained", "static"} = {} => z = entry'[summary'.alias]
                    /\ outside' \cap {"reference", "converted", "labelled", "dynamic", "nothrow"} = {} =>
                          \A c \in summary'.null : entry'[c.param] \in c.range => z # 0
  BY DEF ParameterClaimsHold
<1>3. ASSUME Summary.from # 0, outside' \cap {"reference", "nothrow", "round trip"} = {}, z = 0 PROVE entry[Summary.from] = 0
  BY <1>1, <1>2, <1>3, ReturnedFrom
<1>4. ASSUME Summary.alias # 0, outside' \cap {"retained", "static"} = {} PROVE z = entry[Summary.alias]
  BY <1>1, <1>2, <1>4, ReturnedAlias DEF Replaced
<1>5. ASSUME outside' \cap {"reference", "converted", "labelled", "dynamic", "nothrow"} = {}, NEW c \in Summary.null, entry[c.param] \in c.range
      PROVE  z # 0
  BY <1>1, <1>2, <1>5, ReturnedNull
<1> QED BY <1>1, <1>3, <1>4, <1>5

-----------------------------------------------------------------------------
(* The claims hold of every execution *)

\* Before the start nothing is returned; then what the dataflow and the text say is true
\* of the execution, until it returns and the claims have come true.
ReturnInv ==
    \/ Waits
    \/ Runs
    \/ FlowInv /\ phase = "returned" /\ ReturnClaimsHold /\ OwnershipHolds /\ ParameterClaimsHold

LEMMA ReturnInit == Init => ReturnInv
<1> SUFFICES ASSUME Init PROVE ReturnInv
  OBVIOUS
<1>1. FlowInv
  BY FlowInit
<1> QED BY <1>1 DEF Init, Waits, ReturnInv

\* A statement other than a return that takes the truth along.
LEMMA RunsOn ==
    ASSUME Runs, FlowInv', UNCHANGED <<func, flow, entry, phase, result>>,
           Truth(at', env', made', kept', exposed', outside')
    PROVE  Runs'
<1>1. Truth(at, env, made, kept, exposed, outside)'
  BY TruthFrame
<1>2. EntryTyped'
  BY EntryFrame DEF Runs
<1> QED BY <1>1, <1>2 DEF Runs

\* Nothing that the claims are about changes.
LEMMA ClaimsFrame ==
    ASSUME UNCHANGED vars
    PROVE  /\ ReturnClaimsHold => ReturnClaimsHold'
           /\ OwnershipHolds => OwnershipHolds'
           /\ ParameterClaimsHold => ParameterClaimsHold'
BY DEF vars, execution, ReturnClaimsHold, OwnershipHolds, ParameterClaimsHold, own

\* Each step preserves it.
LEMMA ReturnStep == ReturnInv /\ [Next]_vars => ReturnInv'
<1> SUFFICES ASSUME ReturnInv, [Next]_vars PROVE ReturnInv'
  OBVIOUS
<1>1. FlowInv'
  BY FlowStep DEF ReturnInv, Waits, Runs
<1>2. CASE Sweep
  <2>1. Waits /\ phase' \in {"flow", "harvest"} /\ UNCHANGED <<at, made, kept, exposed, outside, result>>
    BY <1>2 DEF Sweep, execution, ReturnInv, Waits, Runs
  <2> QED BY <1>1, <2>1 DEF Waits, ReturnInv
<1>3. CASE Harvest
  <2>1. Waits /\ phase' = "ready" /\ UNCHANGED <<at, made, kept, exposed, outside, result>>
    BY <1>3 DEF Harvest, execution, ReturnInv, Waits, Runs
  <2> QED BY <1>1, <2>1 DEF Waits, ReturnInv
<1>4. CASE \E args \in [DOMAIN func.params -> UNION {Arguments(i) : i \in DOMAIN func.params}] :
             \E globals \in [Global -> UNION {Inputs(v) : v \in Global}] :
                /\ \A i \in DOMAIN args : args[i] \in Arguments(i)
                /\ \A v \in Global : globals[v] \in Inputs(v)
                /\ Start(args, globals)
  <2>1. PICK args \in [DOMAIN func.params -> UNION {Arguments(i) : i \in DOMAIN func.params}] :
             \E globals \in [Global -> UNION {Inputs(v) : v \in Global}] :
                /\ \A i \in DOMAIN args : args[i] \in Arguments(i)
                /\ \A v \in Global : globals[v] \in Inputs(v)
                /\ Start(args, globals)
    BY <1>4
  <2>2. PICK globals \in [Global -> UNION {Inputs(v) : v \in Global}] :
                /\ \A i \in DOMAIN args : args[i] \in Arguments(i)
                /\ \A v \in Global : globals[v] \in Inputs(v)
                /\ Start(args, globals)
    BY <2>1
  <2>3. Waits
    BY <2>2 DEF Start, ReturnInv, Runs
  <2>4. Runs'
    BY <1>1, <2>2, <2>3, StartRuns
  <2> QED BY <2>4 DEF ReturnInv
<1>5. ASSUME phase = "running" PROVE Runs
  BY <1>5 DEF ReturnInv, Waits
<1>6. CASE Assign
  <2>1. phase = "running" /\ UNCHANGED <<func, flow, entry, phase, result>>
    BY <1>6 DEF Assign, Running
  <2>2. Runs'
    BY <1>1, <1>5, <1>6, <2>1, AssignTrue, RunsOn
  <2> QED BY <2>2 DEF ReturnInv
<1>7. CASE Change
  <2>1. phase = "running" /\ UNCHANGED <<func, flow, entry, phase, result>>
    BY <1>7 DEF Change, Running
  <2>2. Runs'
    BY <1>1, <1>5, <1>7, <2>1, ChangeTrue, RunsOn
  <2> QED BY <2>2 DEF ReturnInv
<1>8. CASE Pass
  <2>1. phase = "running" /\ UNCHANGED <<func, flow, entry, phase, result>>
    BY <1>8 DEF Pass, Running
  <2>2. Runs'
    BY <1>1, <1>5, <1>8, <2>1, PassTrue, RunsOn
  <2> QED BY <2>2 DEF ReturnInv
<1>9. CASE Expose
  <2>1. phase = "running" /\ UNCHANGED <<func, flow, entry, phase, result>>
    BY <1>9 DEF Expose, Running
  <2>2. Runs'
    BY <1>1, <1>5, <1>9, <2>1, ExposeTrue, RunsOn
  <2> QED BY <2>2 DEF ReturnInv
<1>10. CASE \E taken \in BOOLEAN : Branch(taken)
  <2>1. PICK taken \in BOOLEAN : Branch(taken)
    BY <1>10
  <2>2. phase = "running" /\ UNCHANGED <<func, flow, entry, phase, result>>
    BY <2>1 DEF Branch, Running
  <2>3. Runs'
    BY <1>1, <1>5, <2>1, <2>2, BranchTrue, RunsOn
  <2> QED BY <2>3 DEF ReturnInv
<1>11. CASE Switch
  <2>1. phase = "running" /\ UNCHANGED <<func, flow, entry, phase, result>>
    BY <1>11 DEF Switch, Running
  <2>2. Runs'
    BY <1>1, <1>5, <1>11, <2>1, SwitchTrue, RunsOn
  <2> QED BY <2>2 DEF ReturnInv
<1>12. CASE Return
  <2>1. Runs /\ phase' = "returned"
    BY <1>5, <1>12 DEF Return, Running
  <2>2. ReturnClaimsHold' /\ OwnershipHolds' /\ ParameterClaimsHold'
    BY <1>12, <2>1, ReturnedClaim, ReturnedOwner, ReturnedParameter
  <2> QED BY <1>1, <2>1, <2>2 DEF ReturnInv
<1>13. CASE UNCHANGED vars
  <2>1. CASE Waits
    <3>1. Waits'
      BY <1>1, <1>13, <2>1 DEF Waits, vars, execution
    <3> QED BY <3>1 DEF ReturnInv
  <2>2. CASE Runs
    <3>1. UNCHANGED <<func, flow, entry, phase, result, at, env, made, kept, exposed, outside>>
      BY <1>13 DEF vars, execution
    <3>2. Truth(at', env', made', kept', exposed', outside')
      BY <2>2, <3>1 DEF Runs
    <3>3. Runs'
      BY <1>1, <2>2, <3>1, <3>2, RunsOn
    <3> QED BY <3>3 DEF ReturnInv
  <2>3. CASE FlowInv /\ phase = "returned" /\ ReturnClaimsHold /\ OwnershipHolds /\ ParameterClaimsHold
    <3>1. phase' = "returned"
      BY <1>13, <2>3 DEF vars
    <3>2. ReturnClaimsHold' /\ OwnershipHolds' /\ ParameterClaimsHold'
      BY <1>13, <2>3, ClaimsFrame
    <3> QED BY <1>1, <3>1, <3>2 DEF ReturnInv
  <2> QED BY <2>1, <2>2, <2>3 DEF ReturnInv
<1> QED BY <1>2, <1>3, <1>4, <1>6, <1>7, <1>8, <1>9, <1>10, <1>11, <1>12, <1>13 DEF Next

\* The invariant implies the three properties.
LEMMA ReturnHolds == ReturnInv => ReturnClaimsHold /\ OwnershipHolds /\ ParameterClaimsHold
<1>1. ASSUME result = {} PROVE ReturnClaimsHold /\ OwnershipHolds /\ ParameterClaimsHold
  BY <1>1 DEF ReturnClaimsHold, OwnershipHolds, ParameterClaimsHold
<1>2. Waits \/ Runs => result = {}
  BY DEF Waits, Runs
<1> QED BY <1>1, <1>2 DEF ReturnInv

\* ReturnClaimsHold: whatever function is summarised, with whatever arguments it runs, a
\* result that is claimed never to be null or zero is not, one that is claimed always to be
\* zero is (computeReturnFlow), unless the execution met what the dataflow does not see.
THEOREM ClaimOfReturn == Spec => []ReturnClaimsHold
BY ReturnInit, ReturnStep, ReturnHolds, PTL DEF Spec

\* OwnershipHolds: what a function returns as owned is a block that it allocated and that
\* nobody else has, what it returns as borrowed is not (computeReturnOwnership).
THEOREM OwnerOfReturn == Spec => []OwnershipHolds
BY ReturnInit, ReturnStep, ReturnHolds, PTL DEF Spec

\* ParameterClaimsHold: a result is bad only if the parameter that is handed through is
\* (resolveNullReturn, resolveZeroReturn), it is the parameter that all returns denote
\* (computeReturnAliasParam), and it is null only if a parameter is outside the range that
\* guards the one null return (detectNullCondition).
THEOREM ParametersOfReturn == Spec => []ParameterClaimsHold
BY ReturnInit, ReturnStep, ReturnHolds, PTL DEF Spec

=============================================================================
