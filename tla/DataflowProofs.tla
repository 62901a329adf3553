--------------------------- MODULE DataflowProofs ---------------------------
(***************************************************************************)
(* Proofs about module DataflowSoundness, for every CFG, every lattice and *)
(* every analysis that meets the named assumptions.                        *)
(*                                                                         *)
(* The argument: a block that is not pending is settled, that is, its exit *)
(* covers what the block makes of its entry state (IInv).  A visit settles *)
(* the block it visits, and can unsettle only successors of that block,    *)
(* which it enqueues.  So a drained queue leaves every block settled, and  *)
(* an execution, edge by edge, stays inside the reported entry states.     *)
(* Without widening the exit even equals that (FixpointInv), by the same   *)
(* steps; that a recorded exit is never taken back keeps a block reached.  *)
(*                                                                         *)
(* The loops over predecessors and successors are recursive functions; the *)
(* first lemmas derive what they compute from least-counterexample         *)
(* reasoning on the naturals.                                              *)
(***************************************************************************)
EXTENDS DataflowSoundness, Integers, TLAPS, WellFoundedInduction

ValueOrNone == Value \cup {NoValue}
ExitMap == [Block -> ValueOrNone]

-----------------------------------------------------------------------------
(* Bounded induction, with a set instead of a predicate. *)

\* A property of the naturals that fails somewhere fails at a least place.
LEMMA LeastElement ==
    ASSUME NEW T \in SUBSET Nat, T # {}
    PROVE  \E n \in T : \A m \in T : n <= m
<1>1. PICK n \in T : \A m \in T : ~ (<<m, n>> \in OpToRel(<, Nat))
  BY NatLessThanWellFounded, WFMin
<1>2. \A m \in T : n <= m
  <2> TAKE m \in T
  <2>1. ~(m < n)
    BY <1>1 DEF OpToRel
  <2> QED BY <2>1
<1> QED BY <1>2

\* A set that holds 0 and is closed under successor below n holds 0..n.
LEMMA UpTo ==
    ASSUME NEW n \in Nat, NEW S,
           0 \in S,
           \A m \in 0..n : m # n /\ m \in S => m + 1 \in S
    PROVE  \A m \in 0..n : m \in S
<1> DEFINE Bad == {m \in Nat : m <= n /\ m \notin S}
<1> SUFFICES ASSUME Bad # {} PROVE FALSE
  OBVIOUS
<1>1. PICK m \in Bad : \A k \in Bad : m <= k
  BY LeastElement
<1>2. m - 1 \in 0..n /\ m - 1 # n /\ m - 1 \notin Bad
  BY <1>1
<1> QED BY <1>1, <1>2

\* A loop that turns x into f[n] in n steps, each a function on S.
Loops(f, n, S, x, step) ==
    /\ f \in [0..n -> S]
    /\ f[0] = x
    /\ \A i \in 1..n : f[i] = step[i][f[i - 1]]

LEMMA Loop ==
    ASSUME NEW n \in Nat, NEW S, NEW x \in S, NEW step \in [1..n -> [S -> S]]
    PROVE  \E f : Loops(f, n, S, x, step)
<1> DEFINE Upto(f, m) == f[0] = x /\ \A i \in 1..m : f[i] = step[i][f[i - 1]]
           T == {m \in 0..n : \E f \in [0..m -> S] : Upto(f, m)}
<1>1. 0 \in T
  <2> DEFINE g == [i \in 0..0 |-> x]
  <2>1. g \in [0..0 -> S] /\ Upto(g, 0)
    OBVIOUS
  <2>2. 0 \in 0..n
    OBVIOUS
  <2> HIDE DEF g
  <2> QED BY <2>1, <2>2, Zenon
<1>2. ASSUME NEW m \in 0..n, m # n, m \in T
      PROVE  m + 1 \in T
  <2>1. PICK f \in [0..m -> S] : Upto(f, m)
    BY <1>2
  <2> DEFINE g == [i \in 0..(m + 1) |-> IF i = m + 1 THEN step[m + 1][f[m]] ELSE f[i]]
  <2>2. m + 1 \in 1..n /\ m + 1 \in 0..n
    BY <1>2
  <2>3. f[m] \in S /\ step[m + 1][f[m]] \in S
    <3>1. m \in 0..m
      OBVIOUS
    <3>2. f[m] \in S
      BY <3>1
    <3> QED BY <2>2, <3>2
  <2>4. g \in [0..(m + 1) -> S]
    BY <2>3
  <2>5. ASSUME NEW i \in 1..(m + 1) PROVE g[i] = step[i][g[i - 1]]
    <3>1. CASE i = m + 1
      BY <3>1
    <3>2. CASE i \in 1..m
      <4>1. f[i] = step[i][f[i - 1]]
        BY <2>1, <3>2
      <4>2. g[i] = f[i] /\ g[i - 1] = f[i - 1]
        BY <3>2
      <4> QED BY <4>1, <4>2
    <3> QED BY <3>1, <3>2
  <2>6. g[0] = x
    BY <2>1
  <2> QED BY <2>2, <2>4, <2>5, <2>6
<1>3. n \in T
  <2> HIDE DEF T
  <2>1. \A m \in 0..n : m \in T
    BY <1>1, <1>2, UpTo
  <2> QED BY <2>1
<1> QED BY <1>3 DEF Loops

-----------------------------------------------------------------------------
(* MergeIncoming *)

\* What an edge contributes is a value of the analysis, or nothing.
LEMMA IncomingType ==
    ASSUME NEW j \in Job, NEW ex \in ExitMap, NEW p \in Block, NEW b
    PROVE  Incoming(j, ex, p, b) \in ValueOrNone
<1>1. /\ ex[p] \in ValueOrNone
      /\ j.refine \in [Block -> [BOOLEAN -> [Value -> Value]]]
  BY JobAssumption DEF JobType, ExitMap
<1>2. \A side \in BOOLEAN : ex[p] # NoValue => j.refine[p][side][ex[p]] \in Value
  BY <1>1 DEF ValueOrNone
<1>3. (b = j.succ[p][1]) \in BOOLEAN
  OBVIOUS
<1> HIDE DEF ExitMap
<1> DEFINE onTrue == b = j.succ[p][1]
<1>4. ex[p] # NoValue => j.refine[p][onTrue][ex[p]] \in Value
  BY <1>2, <1>3
<1> HIDE DEF onTrue
<1>5. Incoming(j, ex, p, b) \in {NoValue, ex[p], j.refine[p][onTrue][ex[p]]}
  BY DEF Incoming, onTrue
<1>6. ex[p] = NoValue => Incoming(j, ex, p, b) = NoValue
  BY DEF Incoming
<1> QED BY <1>1, <1>4, <1>5, <1>6 DEF ValueOrNone

\* Absorbing a contribution yields a value, or nothing when nothing came.
LEMMA AbsorbType ==
    ASSUME NEW v \in ValueOrNone, NEW w \in ValueOrNone
    PROVE  Absorb(v, w) \in ValueOrNone
BY ValueAssumption DEF Absorb, ValueOrNone

\* f lists the accumulator of the predecessor loop, turn by turn.
MergeSteps(j, ex, b, f, n) ==
    /\ f \in [0..n -> ValueOrNone]
    /\ f[0] = NoValue
    /\ \A m \in 0..n : m # n => f[m + 1] = Absorb(f[m], Incoming(j, ex, j.pred[b][m + 1], b))

\* The predecessor loop, as the sequence of its accumulators.
LEMMA MergeUnfold ==
    ASSUME NEW j \in Job, NEW ex \in ExitMap, NEW b \in Block
    PROVE  \E f : /\ MergeSteps(j, ex, b, f, Len(j.pred[b]))
                  /\ MergeIncoming(j, ex, b) = f[Len(j.pred[b])]
<1> DEFINE n == Len(j.pred[b])
           In(i) == Incoming(j, ex, j.pred[b][i], b)
           step == [i \in 1..n |-> [v \in ValueOrNone |-> Absorb(v, In(i))]]
           Body(g) == [i \in 0..n |-> IF i = 0 THEN NoValue ELSE Absorb(g[i - 1], In(i))]
<1>1. n \in Nat /\ j.pred[b] \in Seq(Block)
  BY JobAssumption DEF JobType
<1>2. \A i \in 1..n : In(i) \in ValueOrNone
  <2> TAKE i \in 1..n
  <2>1. j.pred[b][i] \in Block
    BY <1>1
  <2> QED BY <2>1, IncomingType
<1> HIDE DEF n, In
<1>3. step \in [1..n -> [ValueOrNone -> ValueOrNone]]
  BY <1>2, AbsorbType
<1>4. NoValue \in ValueOrNone
  BY DEF ValueOrNone
<1>5. PICK f : Loops(f, n, ValueOrNone, NoValue, step)
  <2> HIDE DEF step
  <2> QED BY <1>1, <1>3, <1>4, Loop
<1>6. \A i \in 1..n : f[i] = Absorb(f[i - 1], In(i))
  <2> TAKE i \in 1..n
  <2>1. f[i - 1] \in ValueOrNone
    BY <1>1, <1>5 DEF Loops
  <2> QED BY <1>5, <2>1 DEF Loops
<1>7. f = Body(f)
  <2>1. ASSUME NEW i \in 0..n
        PROVE  f[i] = IF i = 0 THEN NoValue ELSE Absorb(f[i - 1], In(i))
    <3>1. i = 0 \/ i \in 1..n
      BY <1>1
    <3> QED BY <3>1, <1>5, <1>6 DEF Loops
  <2>2. f = [i \in 0..n |-> f[i]]
    BY <1>5 DEF Loops
  <2> QED BY <2>1, <2>2, Zenon
<1> DEFINE acc == CHOOSE g : g = Body(g)
<1>8. acc = Body(acc)
  BY <1>7
<1>9. MergeIncoming(j, ex, b) = acc[n]
  BY DEF MergeIncoming, n, In
<1> HIDE DEF acc
<1>10. \A i \in 0..n : acc[i] = IF i = 0 THEN NoValue ELSE Absorb(acc[i - 1], In(i))
  BY <1>8, Zenon
<1>11. acc[0] = NoValue
  BY <1>10, <1>1
<1>12. \A m \in 0..n : m # n => acc[m + 1] = Absorb(acc[m], In(m + 1))
  <2> TAKE m \in 0..n
  <2> HAVE m # n
  <2>1. m + 1 \in 0..n /\ m + 1 # 0 /\ (m + 1) - 1 = m
    BY <1>1
  <2> QED BY <2>1, <1>10
<1>13. acc \in [0..n -> ValueOrNone]
  <2>1. \A m \in 0..n : acc[m] \in ValueOrNone
    <3> DEFINE T == {m \in 0..n : acc[m] \in ValueOrNone}
    <3>1. 0 \in T
      BY <1>1, <1>4, <1>11
    <3>2. ASSUME NEW m \in 0..n, m # n, m \in T PROVE m + 1 \in T
      <4>1. m + 1 \in 0..n /\ m + 1 \in 1..n
        BY <1>1, <3>2
      <4> QED BY <4>1, <3>2, <1>2, <1>12, AbsorbType
    <3> HIDE DEF T
    <3>3. \A m \in 0..n : m \in T
      BY <1>1, <3>1, <3>2, UpTo
    <3> QED BY <3>3 DEF T
  <2>2. acc = [i \in 0..n |-> acc[i]]
    BY <1>8
  <2> QED BY <2>1, <2>2
<1>14. MergeSteps(j, ex, b, acc, n)
  BY <1>11, <1>12, <1>13 DEF MergeSteps, In
<1> QED BY <1>9, <1>14 DEF n

\* The merged state covers every contribution: the loop never loses one.
LEMMA MergeCovers ==
    ASSUME NEW j \in Job, NEW ex \in ExitMap, NEW b \in Block
    PROVE  /\ MergeIncoming(j, ex, b) \in ValueOrNone
           /\ \A p \in Elements(j.pred[b]) :
                 Incoming(j, ex, p, b) # NoValue
                   => /\ MergeIncoming(j, ex, b) # NoValue
                      /\ Gamma(Incoming(j, ex, p, b)) \subseteq Gamma(MergeIncoming(j, ex, b))
<1> DEFINE n == Len(j.pred[b])
           In(i) == Incoming(j, ex, j.pred[b][i], b)
<1>1. n \in Nat /\ j.pred[b] \in Seq(Block)
  BY JobAssumption DEF JobType
<1>2. PICK f : /\ MergeSteps(j, ex, b, f, n)
               /\ MergeIncoming(j, ex, b) = f[n]
  BY MergeUnfold
<1>3. \A i \in 1..n : In(i) \in ValueOrNone
  <2> TAKE i \in 1..n
  <2>1. j.pred[b][i] \in Block
    BY <1>1
  <2> QED BY <2>1, IncomingType
<1> DEFINE Fine(m) == /\ f[m] \in ValueOrNone
                      /\ \A i \in 1..m : In(i) # NoValue =>
                            f[m] # NoValue /\ Gamma(In(i)) \subseteq Gamma(f[m])
           S == {m \in 0..n : Fine(m)}
<1>4. 0 \in S
  BY <1>1, <1>2 DEF MergeSteps, ValueOrNone
<1>5. ASSUME NEW m \in 0..n, m # n, m \in S
      PROVE  m + 1 \in S
  <2> DEFINE v == In(m + 1)
  <2>1. m + 1 \in 1..n /\ m + 1 - 1 = m
    BY <1>1, <1>5
  <2>2. f[m + 1] = Absorb(f[m], v)
    BY <2>1, <1>2, <1>5 DEF MergeSteps
  <2>3. v \in ValueOrNone /\ f[m] \in ValueOrNone
    BY <2>1, <1>3, <1>5
  <2>4. f[m + 1] \in ValueOrNone
    BY <2>2, <2>3, ValueAssumption DEF Absorb, ValueOrNone
  <2>5. v # NoValue => f[m + 1] # NoValue /\ Gamma(v) \subseteq Gamma(f[m + 1])
    BY <2>2, <2>3, ValueAssumption, GammaAssumption DEF Absorb, ValueOrNone
  <2>6. f[m] # NoValue => f[m + 1] # NoValue /\ Gamma(f[m]) \subseteq Gamma(f[m + 1])
    BY <2>2, <2>3, ValueAssumption, GammaAssumption DEF Absorb, ValueOrNone
  <2>7. ASSUME NEW i \in 1..(m + 1), In(i) # NoValue
        PROVE  f[m + 1] # NoValue /\ Gamma(In(i)) \subseteq Gamma(f[m + 1])
    <3>1. CASE i = m + 1
      BY <3>1, <2>5, <2>7
    <3>2. CASE i \in 1..m
      <4>1. f[m] # NoValue /\ Gamma(In(i)) \subseteq Gamma(f[m])
        BY <3>2, <2>7, <1>5
      <4> QED BY <4>1, <2>6
    <3> QED BY <3>1, <3>2, <2>1
  <2> QED BY <2>1, <2>4, <2>7
<1>6. n \in S
  <2> HIDE DEF S
  <2>1. \A m \in 0..n : m \in S
    BY <1>1, <1>4, <1>5, UpTo
  <2> QED BY <2>1, <1>1
<1>7. \A p \in Elements(j.pred[b]) : \E i \in 1..n : p = j.pred[b][i]
  BY <1>1 DEF Elements
<1> QED BY <1>2, <1>6, <1>7

\* The merged state of a block depends on the exits of its predecessors only.
LEMMA MergeDependsOnPreds ==
    ASSUME NEW j \in Job, NEW ex \in ExitMap, NEW ey \in ExitMap, NEW b \in Block,
           \A p \in Elements(j.pred[b]) : ex[p] = ey[p]
    PROVE  MergeIncoming(j, ex, b) = MergeIncoming(j, ey, b)
<1> DEFINE n == Len(j.pred[b])
<1>1. n \in Nat /\ j.pred[b] \in Seq(Block)
  BY JobAssumption DEF JobType
<1>2. PICK f : MergeSteps(j, ex, b, f, n) /\ MergeIncoming(j, ex, b) = f[n]
  BY MergeUnfold
<1>3. PICK g : MergeSteps(j, ey, b, g, n) /\ MergeIncoming(j, ey, b) = g[n]
  BY MergeUnfold
<1>4. \A i \in 1..n : Incoming(j, ex, j.pred[b][i], b) = Incoming(j, ey, j.pred[b][i], b)
  <2> TAKE i \in 1..n
  <2>1. j.pred[b][i] \in Elements(j.pred[b])
    BY <1>1 DEF Elements
  <2>2. ex[j.pred[b][i]] = ey[j.pred[b][i]]
    BY <2>1
  <2> QED BY <2>2 DEF Incoming
<1> DEFINE S == {m \in 0..n : f[m] = g[m]}
<1>5. 0 \in S
  BY <1>1, <1>2, <1>3 DEF MergeSteps
<1>6. ASSUME NEW m \in 0..n, m # n, m \in S
      PROVE  m + 1 \in S
  <2>1. m + 1 \in 1..n /\ m + 1 - 1 = m
    BY <1>1, <1>6
  <2>2. /\ f[m + 1] = Absorb(f[m], Incoming(j, ex, j.pred[b][m + 1], b))
        /\ g[m + 1] = Absorb(g[m], Incoming(j, ey, j.pred[b][m + 1], b))
    BY <2>1, <1>2, <1>3, <1>6 DEF MergeSteps
  <2>3. Incoming(j, ex, j.pred[b][m + 1], b) = Incoming(j, ey, j.pred[b][m + 1], b)
    BY <2>1, <1>4
  <2>4. f[m] = g[m]
    BY <1>6
  <2>5. m + 1 \in 0..n
    BY <2>1
  <2> QED BY <2>2, <2>3, <2>4, <2>5
<1>7. n \in S
  <2> HIDE DEF S
  <2>1. \A m \in 0..n : m \in S
    BY <1>1, <1>5, <1>6, UpTo
  <2> QED BY <2>1, <1>1
<1> QED BY <1>2, <1>3, <1>7

-----------------------------------------------------------------------------
(* EntryState *)

\* An entry state is a value, whether it is rewound, merged or initial.
LEMMA EntryStateType ==
    ASSUME NEW j \in Job, NEW ex \in ExitMap, NEW b \in Block
    PROVE  EntryState(j, ex, b) \in Value
<1> DEFINE R == {g \in Block : Rewinds(j, ex, g, b)}
<1>1. CASE R # {}
  <2> DEFINE g == CHOOSE h \in R : TRUE
  <2>1. g \in R
    BY <1>1
  <2>2. g \in Block /\ ex[g] # NoValue
    BY <2>1 DEF Rewinds
  <2>3. ex[g] \in Value
    BY <2>2 DEF ExitMap, ValueOrNone
  <2>4. EntryState(j, ex, b) = ex[g]
    BY <1>1 DEF EntryState
  <2> QED BY <2>3, <2>4
<1>2. CASE R = {}
  <2>1. EntryState(j, ex, b) = IF MergeIncoming(j, ex, b) = NoValue THEN InitialState
                               ELSE MergeIncoming(j, ex, b)
    BY <1>2 DEF EntryState
  <2> QED BY <2>1, MergeCovers, ValueAssumption DEF ValueOrNone
<1> QED BY <1>1, <1>2

\* Without a ?: the entry state is the merge over the predecessors.
LEMMA EntryStateNoTernary ==
    ASSUME NEW j \in Job, NEW ex, NEW b, j.ternary = {}
    PROVE  /\ EntryState(j, ex, b) = IF MergeIncoming(j, ex, b) = NoValue THEN InitialState
                                     ELSE MergeIncoming(j, ex, b)
           /\ HasPreds(j, ex, b) <=> MergeIncoming(j, ex, b) # NoValue
<1>1. \A g : ~Rewinds(j, ex, g, b)
  BY DEF Rewinds
<1>2. {g \in Block : Rewinds(j, ex, g, b)} = {}
  BY <1>1
<1> QED BY <1>1, <1>2 DEF EntryState, HasPreds

-----------------------------------------------------------------------------
(* The worklist *)

\* The first conjunct of PendingOnce and its second, of one worklist.
Agree(w) == \A b \in Block : w.queued[b] <=> b \in Elements(w.order)
Distinct(w) == \A i, k \in DOMAIN w.order : i # k => w.order[i] # w.order[k]
Pending == {w \in WorklistType : Agree(w) /\ Distinct(w)}

\* enqueue() keeps PendingOnce, adds its block and drops none.
LEMMA EnqueuePending ==
    ASSUME NEW w \in Pending, NEW b \in Block \cup {NoBlock}
    PROVE  /\ Enqueue(w, b) \in Pending
           /\ \A c \in Block : w.queued[c] => Enqueue(w, b).queued[c]
           /\ b # NoBlock => Enqueue(w, b).queued[b]
<1> DEFINE r == [order |-> Append(w.order, b), queued |-> [w.queued EXCEPT ![b] = TRUE]]
<1>1. w.order \in Seq(Block) /\ w.queued \in [Block -> BOOLEAN] /\ Agree(w) /\ Distinct(w)
  BY DEF Pending, WorklistType
<1>2. CASE b = NoBlock \/ w.queued[b]
  BY <1>2 DEF Enqueue
<1>3. CASE ~(b = NoBlock \/ w.queued[b])
  <2>1. b \in Block /\ Enqueue(w, b) = r
    BY <1>3 DEF Enqueue
  <2> DEFINE n == Len(w.order)
             o == Append(w.order, b)
  <2>2. /\ n \in Nat /\ o \in Seq(Block) /\ DOMAIN o = 1..(n + 1) /\ DOMAIN w.order = 1..n
        /\ o[n + 1] = b
        /\ \A i \in 1..n : o[i] = w.order[i]
    BY <1>1, <2>1
  <2>3. b \notin Elements(w.order)
    BY <1>1, <1>3, <2>1 DEF Agree
  <2>4. Elements(o) = Elements(w.order) \cup {b}
    <3> HIDE DEF o, n
    <3>1. 1..(n + 1) = 1..n \cup {n + 1}
      BY <2>2
    <3> QED BY <2>2, <3>1 DEF Elements
  <2>5. r \in WorklistType
    BY <1>1, <2>1, <2>2 DEF WorklistType
  <2>6. Agree(r)
    BY <1>1, <2>1, <2>4 DEF Agree
  <2>7. Distinct(r)
    <3> SUFFICES ASSUME NEW i \in 1..(n + 1), NEW k \in 1..(n + 1), i # k
                 PROVE  o[i] # o[k]
      BY <2>2 DEF Distinct
    <3>1. \A m \in 1..n : o[m] # b
      BY <2>2, <2>3 DEF Elements
    <3>2. CASE i \in 1..n /\ k \in 1..n
      BY <1>1, <2>2, <3>2 DEF Distinct
    <3>3. CASE i = n + 1
      BY <2>2, <3>1, <3>3
    <3>4. CASE k = n + 1
      BY <2>2, <3>1, <3>4
    <3> QED BY <2>2, <3>2, <3>3, <3>4
  <2> QED BY <1>1, <2>1, <2>5, <2>6, <2>7 DEF Pending
<1> QED BY <1>2, <1>3

\* Taking the head of the queue keeps PendingOnce and drops that block only.
LEMMA DequeuePending ==
    ASSUME NEW w \in Pending, w.order # <<>>
    PROVE  /\ Head(w.order) \in Block
           /\ Dequeue(w) \in Pending
           /\ \A c \in Block \ {Head(w.order)} : Dequeue(w).queued[c] <=> w.queued[c]
<1> DEFINE n == Len(w.order)
           h == Head(w.order)
           t == Tail(w.order)
<1>1. w.order \in Seq(Block) /\ w.queued \in [Block -> BOOLEAN] /\ Agree(w) /\ Distinct(w)
  BY DEF Pending, WorklistType
<1>2. /\ n \in Nat /\ n >= 1 /\ h \in Block /\ h = w.order[1]
      /\ t \in Seq(Block) /\ DOMAIN t = 1..(n - 1) /\ DOMAIN w.order = 1..n
      /\ \A i \in 1..(n - 1) : t[i] = w.order[i + 1]
  BY <1>1
<1> HIDE DEF n, h, t
<1>3. \A i \in 1..(n - 1) : i + 1 \in 1..n /\ i + 1 # 1
  BY <1>2
<1>11. \A i, k \in 1..n : i # k => w.order[i] # w.order[k]
  BY <1>1, <1>2, Zenon DEF Distinct
<1>4. \A i \in 1..(n - 1) : t[i] # h
  <2> TAKE i \in 1..(n - 1)
  <2>1. i + 1 \in 1..n /\ 1 \in 1..n /\ i + 1 # 1
    BY <1>2
  <2>2. w.order[i + 1] # w.order[1]
    BY <2>1, <1>11
  <2> QED BY <1>2, <2>2
<1>5. \A i \in 1..n : i = 1 \/ i - 1 \in 1..(n - 1)
  BY <1>2
<1>6. Elements(t) = Elements(w.order) \ {h}
  <2>1. ASSUME NEW c \in Elements(w.order), c # h PROVE c \in Elements(t)
    <3>1. PICK i \in 1..n : c = w.order[i]
      BY <1>2, <2>1 DEF Elements
    <3>2. i - 1 \in 1..(n - 1) /\ (i - 1) + 1 = i
      BY <1>2, <1>5, <2>1, <3>1
    <3> QED BY <1>2, <3>1, <3>2 DEF Elements
  <2>2. ASSUME NEW c \in Elements(t) PROVE c \in Elements(w.order) /\ c # h
    BY <1>2, <1>3, <1>4, <2>2 DEF Elements
  <2> QED BY <2>1, <2>2
<1>7. Dequeue(w) = [order |-> t, queued |-> [w.queued EXCEPT ![h] = FALSE]]
  BY DEF Dequeue, t, h
<1>8. Dequeue(w) \in WorklistType
  BY <1>1, <1>2, <1>7 DEF WorklistType
<1>9. Agree(Dequeue(w))
  BY <1>1, <1>2, <1>6, <1>7 DEF Agree
<1>10. Distinct(Dequeue(w))
  <2> SUFFICES ASSUME NEW i \in 1..(n - 1), NEW k \in 1..(n - 1), i # k
               PROVE  t[i] # t[k]
    BY <1>2, <1>7 DEF Distinct
  <2>1. i + 1 \in 1..n /\ k + 1 \in 1..n /\ i + 1 # k + 1
    BY <1>2
  <2>2. w.order[i + 1] # w.order[k + 1]
    BY <2>1, <1>11
  <2> QED BY <1>2, <2>2
<1> QED BY <1>1, <1>2, <1>7, <1>8, <1>9, <1>10 DEF Pending, h

\* The loop over the successors leaves every one of them pending and drops none.
LEMMA EnqueueSuccessorsPending ==
    ASSUME NEW j \in Job, NEW w \in Pending, NEW b \in Block
    PROVE  /\ EnqueueSuccessors(j, w, b) \in Pending
           /\ \A c \in Block : w.queued[c] => EnqueueSuccessors(j, w, b).queued[c]
           /\ \A c \in Elements(j.succ[b]) \ {NoBlock} :
                 EnqueueSuccessors(j, w, b).queued[c]
<1> DEFINE n == Len(j.succ[b])
           s(i) == j.succ[b][i]
           step == [i \in 1..n |-> [v \in Pending |-> Enqueue(v, s(i))]]
           Body(g) == [i \in 0..n |-> IF i = 0 THEN w ELSE Enqueue(g[i - 1], s(i))]
<1>1. n \in Nat /\ j.succ[b] \in Seq(Block \cup {NoBlock})
  BY JobAssumption DEF JobType
<1>2. \A i \in 1..n : s(i) \in Block \cup {NoBlock}
  BY <1>1
<1>3. Elements(j.succ[b]) = {s(i) : i \in 1..n}
  BY <1>1 DEF Elements
<1> HIDE DEF n, s
<1>4. step \in [1..n -> [Pending -> Pending]]
  BY <1>2, EnqueuePending
<1>5. PICK f : Loops(f, n, Pending, w, step)
  <2> HIDE DEF step
  <2> QED BY <1>1, <1>4, Loop
<1>6. \A i \in 1..n : f[i] = Enqueue(f[i - 1], s(i))
  <2> TAKE i \in 1..n
  <2>1. f[i - 1] \in Pending
    BY <1>1, <1>5 DEF Loops
  <2> QED BY <1>5, <2>1 DEF Loops
<1>7. f = Body(f)
  <2>1. ASSUME NEW i \in 0..n
        PROVE  f[i] = IF i = 0 THEN w ELSE Enqueue(f[i - 1], s(i))
    <3>1. i = 0 \/ i \in 1..n
      BY <1>1
    <3> QED BY <3>1, <1>5, <1>6 DEF Loops
  <2>2. f = [i \in 0..n |-> f[i]]
    BY <1>5 DEF Loops
  <2> QED BY <2>1, <2>2, Zenon
<1> DEFINE push == CHOOSE g : g = Body(g)
<1>8. push = Body(push)
  BY <1>7
<1>9. EnqueueSuccessors(j, w, b) = push[n]
  BY DEF EnqueueSuccessors, n, s
<1> HIDE DEF push
<1>10. \A i \in 0..n : push[i] = IF i = 0 THEN w ELSE Enqueue(push[i - 1], s(i))
  BY <1>8, Zenon
<1> DEFINE Fine(m) == /\ push[m] \in Pending
                      /\ \A c \in Block : w.queued[c] => push[m].queued[c]
                      /\ \A i \in 1..m : s(i) # NoBlock => push[m].queued[s(i)]
           T == {m \in 0..n : Fine(m)}
<1>11. 0 \in T
  BY <1>1, <1>10
<1>12. ASSUME NEW m \in 0..n, m # n, m \in T
       PROVE  m + 1 \in T
  <2>0. Fine(m)
    BY <1>12
  <2>1. m + 1 \in 0..n /\ m + 1 \in 1..n /\ m + 1 # 0 /\ (m + 1) - 1 = m
    BY <1>1, <1>12
  <2>2. push[m + 1] = Enqueue(push[m], s(m + 1))
    BY <2>1, <1>10
  <2>3. push[m] \in Pending /\ s(m + 1) \in Block \cup {NoBlock}
    BY <1>2, <1>12, <2>1
  <2>4. /\ push[m + 1] \in Pending
        /\ \A c \in Block : push[m].queued[c] => push[m + 1].queued[c]
        /\ s(m + 1) # NoBlock => push[m + 1].queued[s(m + 1)]
    BY <2>2, <2>3, EnqueuePending
  <2>5. ASSUME NEW i \in 1..(m + 1), s(i) # NoBlock PROVE push[m + 1].queued[s(i)]
    <3>1. CASE i = m + 1
      BY <2>4, <2>5, <3>1
    <3>2. CASE i \in 1..m
      <4>1. push[m].queued[s(i)]
        BY <2>0, <2>5, <3>2
      <4>2. i \in 1..n
        BY <2>1, <3>2, <1>1
      <4>3. s(i) \in Block
        BY <1>2, <2>5, <4>2
      <4> QED BY <2>4, <4>1, <4>3
    <3> QED BY <2>1, <3>1, <3>2
  <2> QED BY <2>1, <2>4, <2>5, <1>12
<1>13. n \in T
  <2> HIDE DEF T
  <2>1. \A m \in 0..n : m \in T
    BY <1>1, <1>11, <1>12, UpTo
  <2> QED BY <2>1, <1>1
<1> QED BY <1>3, <1>9, <1>13

-----------------------------------------------------------------------------
(* The inductive invariant *)

\* The exit of b covers what b makes of its entry state.
Settled(j, ex, b) ==
    \/ b \in j.dies
    \/ b # Entry /\ ~HasPreds(j, ex, b)
    \/ /\ ex[b] # NoValue
       /\ \A c \in Gamma(EntryState(j, ex, b)) : Run(j, b, c) \subseteq Gamma(ex[b])

ReportOf(j, ex) == [b \in Block |-> IF b = Entry \/ HasPreds(j, ex, b)
                                      THEN EntryState(j, ex, b)
                                      ELSE NoValue]

\* Before the analysis nothing is recorded; between visits every block is
\* pending or settled; convergence is an empty queue.
EngineInv ==
    /\ phase = "start" => exits = [b \in Block |-> NoValue] /\ worklist = EmptyWorklist
    /\ phase \in {"fixpoint", "report"} => job.body = "cfg"
    /\ phase # "start" /\ job.body = "cfg" /\ job.ternary = {}
         => \A b \in Block : worklist.queued[b] \/ Settled(job, exits, b)
    /\ phase \in {"report", "done"} /\ job.body = "cfg" /\ result.converged
         => worklist.order = <<>>
    /\ phase = "done" /\ job.body = "cfg" => reported = ReportOf(job, exits)

\* The execution is where the analysis says it can be.
WalkInv ==
    at # NoBlock =>
      /\ phase = "done" /\ job.body = "cfg"
      /\ result.converged /\ job.ternary = {} =>
            /\ at = Entry \/ HasPreds(job, exits, at)
            /\ value \in Gamma(EntryState(job, exits, at))

IInv ==
    /\ WalkTypeOK
    /\ worklist \in Pending
    /\ EngineInv
    /\ WalkInv

-----------------------------------------------------------------------------
(* What the invariant needs of the two loops *)

\* The shape of a job, as the step lemmas use it.
LEMMA JobFacts ==
    ASSUME NEW j \in Job
    PROVE  /\ \A b \in Block : j.xfer[b] \in [Value -> Value]
           /\ \A b \in Block : \A c \in Elements(j.succ[b]) \ {NoBlock} :
                 c \in Block /\ b \in Elements(j.pred[c])
           /\ \A a, b \in Block : a \in Elements(j.pred[b]) => b \in Elements(j.succ[a]) \ {NoBlock}
           /\ j.pred[Entry] = <<>>
<1>1. j \in JobType /\ WellFormed(j)
  BY JobAssumption
<1>2. \A b \in Block : j.succ[b] \in Seq(Block \cup {NoBlock})
  BY <1>1 DEF JobType
<1>3. \A b \in Block : \A c \in Elements(j.succ[b]) \ {NoBlock} : c \in Block
  BY <1>2 DEF Elements
<1>4. \A a, b \in Block : b \in Elements(j.succ[a]) <=> a \in Elements(j.pred[b])
  BY <1>1 DEF WellFormed
<1>5. \A b \in Block : j.xfer[b] \in [Value -> Value]
  BY <1>1 DEF JobType
<1> QED BY <1>1, <1>3, <1>4, <1>5, BlockAssumption DEF WellFormed

\* Where no predecessor contributes there is nothing to merge; one without an exit
\* contributes nothing.
LEMMA MergeOfNone ==
    ASSUME NEW j \in Job, NEW ex \in ExitMap, NEW b \in Block,
           \A p \in Elements(j.pred[b]) : Incoming(j, ex, p, b) = NoValue
    PROVE  MergeIncoming(j, ex, b) = NoValue
<1> DEFINE n == Len(j.pred[b])
<1>1. n \in Nat /\ j.pred[b] \in Seq(Block)
  BY JobAssumption DEF JobType
<1>2. PICK f : MergeSteps(j, ex, b, f, n) /\ MergeIncoming(j, ex, b) = f[n]
  BY MergeUnfold
<1>3. \A i \in 1..n : Incoming(j, ex, j.pred[b][i], b) = NoValue
  <2> TAKE i \in 1..n
  <2>1. j.pred[b][i] \in Elements(j.pred[b])
    BY <1>1 DEF Elements
  <2> QED BY <2>1
<1> DEFINE S == {m \in 0..n : f[m] = NoValue}
<1>4. 0 \in S
  BY <1>1, <1>2 DEF MergeSteps
<1>5. ASSUME NEW m \in 0..n, m # n, m \in S
      PROVE  m + 1 \in S
  <2>1. m + 1 \in 1..n /\ m + 1 \in 0..n
    BY <1>1, <1>5
  <2>2. f[m + 1] = Absorb(f[m], Incoming(j, ex, j.pred[b][m + 1], b))
    BY <1>2, <1>5 DEF MergeSteps
  <2>3. f[m] = NoValue /\ Incoming(j, ex, j.pred[b][m + 1], b) = NoValue
    BY <1>3, <1>5, <2>1
  <2> QED BY <2>1, <2>2, <2>3 DEF Absorb
<1>6. n \in S
  <2> HIDE DEF S
  <2>1. \A m \in 0..n : m \in S
    BY <1>1, <1>4, <1>5, UpTo
  <2> QED BY <2>1, <1>1
<1> QED BY <1>2, <1>6

LEMMA MergeOfNothing ==
    ASSUME NEW j \in Job, NEW ex \in ExitMap, NEW b \in Block,
           \A p \in Elements(j.pred[b]) : ex[p] = NoValue
    PROVE  MergeIncoming(j, ex, b) = NoValue
BY MergeOfNone DEF Incoming

\* A block that had a contributing predecessor keeps one: an exit is never taken back.
LEMMA HasPredsGrows ==
    ASSUME NEW j \in Job, j.ternary = {}, NEW ex \in ExitMap, NEW ey \in ExitMap,
           \A p \in Block : ex[p] # NoValue => ey[p] # NoValue,
           NEW b \in Block, HasPreds(j, ex, b)
    PROVE  HasPreds(j, ey, b)
<1>1. PICK p \in Elements(j.pred[b]) : Incoming(j, ex, p, b) # NoValue
  BY MergeOfNone, EntryStateNoTernary
<1>2. p \in Block
  BY JobAssumption DEF JobType, Elements
<1>3. ex[p] # NoValue /\ ey[p] \in Value
  BY <1>1, <1>2 DEF Incoming, ExitMap, ValueOrNone
<1>4. Incoming(j, ey, p, b) # NoValue
  <2> DEFINE onTrue == b = j.succ[p][1]
  <2>1. onTrue \in BOOLEAN
    OBVIOUS
  <2> HIDE DEF onTrue
  <2>2. j.refine[p][onTrue][ey[p]] \in Value
    <3>1. j.refine \in [Block -> [BOOLEAN -> [Value -> Value]]]
      BY JobAssumption DEF JobType
    <3> QED BY <1>2, <1>3, <2>1, <3>1
  <2>3. Incoming(j, ey, p, b) = IF p \notin j.branch THEN ey[p]
                                ELSE IF <<p, onTrue>> \in j.infeasible THEN NoValue
                                ELSE j.refine[p][onTrue][ey[p]]
    BY <1>3, ValueAssumption DEF Incoming, onTrue
  <2>4. ~(p \in j.branch /\ <<p, onTrue>> \in j.infeasible)
    BY <1>1, <1>3 DEF Incoming, onTrue
  <2> QED BY <1>3, <2>2, <2>3, <2>4, ValueAssumption
<1> QED BY <1>1, <1>4, MergeCovers, EntryStateNoTernary

\* A new exit of b disturbs the entry states of b's successors only.
LEMMA SettledElsewhere ==
    ASSUME NEW j \in Job, j.ternary = {}, NEW ex \in ExitMap, NEW ey \in ExitMap,
           NEW b \in Block, \A p \in Block \ {b} : ex[p] = ey[p],
           NEW c \in Block, c \notin Elements(j.succ[b]) \ {NoBlock}
    PROVE  /\ EntryState(j, ey, c) = EntryState(j, ex, c)
           /\ HasPreds(j, ey, c) <=> HasPreds(j, ex, c)
           /\ c # b /\ Settled(j, ex, c) => Settled(j, ey, c)
<1>1. \A p \in Elements(j.pred[c]) : p \in Block /\ p # b
  <2>1. b \notin Elements(j.pred[c])
    BY JobFacts
  <2>2. j.pred[c] \in Seq(Block)
    BY JobAssumption DEF JobType
  <2> QED BY <2>1, <2>2 DEF Elements
<1>2. MergeIncoming(j, ey, c) = MergeIncoming(j, ex, c)
  BY <1>1, MergeDependsOnPreds
<1>3. /\ EntryState(j, ey, c) = EntryState(j, ex, c)
      /\ HasPreds(j, ey, c) <=> HasPreds(j, ex, c)
  BY <1>2, EntryStateNoTernary
<1> QED BY <1>3 DEF Settled

\* Along an edge an execution takes, the successor's entry state covers it.
LEMMA EdgeCovered ==
    ASSUME NEW j \in Job, j.ternary = {}, NEW ex \in ExitMap,
           NEW a \in Block, NEW b \in Elements(j.succ[a]) \ {NoBlock},
           ex[a] # NoValue, NEW c \in Gamma(ex[a]),
           c \in IF a \in j.branch THEN Takes(j, a, b = j.succ[a][1]) ELSE Concrete
    PROVE  HasPreds(j, ex, b) /\ c \in Gamma(EntryState(j, ex, b))
<1> DEFINE onTrue == b = j.succ[a][1]
           in == Incoming(j, ex, a, b)
<1>1. b \in Block /\ a \in Elements(j.pred[b])
  BY JobFacts
<1>2. onTrue \in BOOLEAN
  OBVIOUS
<1>3. ex[a] \in Value
  BY DEF ExitMap, ValueOrNone
<1>4. in # NoValue /\ c \in Gamma(in)
  <2>1. CASE a \notin j.branch
    BY <2>1, <1>3 DEF Incoming
  <2>2. CASE a \in j.branch
    <3> HIDE DEF onTrue
    <3>1. c \in Takes(j, a, onTrue)
      BY <2>2 DEF onTrue
    <3>2. <<a, onTrue>> \notin j.infeasible
      BY <2>2, <3>1, <1>2, AnalysisAssumption
    <3>3. c \in Gamma(j.refine[a][onTrue][ex[a]])
      BY <2>2, <3>1, <1>2, <1>3, AnalysisAssumption
    <3>4. j.refine[a][onTrue][ex[a]] # NoValue
      <4>1. j.refine \in [Block -> [BOOLEAN -> [Value -> Value]]]
        BY JobAssumption DEF JobType
      <4> QED BY <4>1, <1>2, <1>3, ValueAssumption
    <3>5. in = j.refine[a][onTrue][ex[a]]
      BY <2>2, <3>2 DEF Incoming, onTrue
    <3> QED BY <3>3, <3>4, <3>5
  <2> QED BY <2>1, <2>2
<1> HIDE DEF in
<1>5. MergeIncoming(j, ex, b) # NoValue /\ Gamma(in) \subseteq Gamma(MergeIncoming(j, ex, b))
  BY <1>1, <1>4, MergeCovers DEF in
<1> QED BY <1>4, <1>5, EntryStateNoTernary

-----------------------------------------------------------------------------
(* The invariant is inductive *)

\* The invariant holds before the analysis starts.
LEMMA InitInv == WalkInit => IInv
<1> SUFFICES ASSUME WalkInit PROVE IInv
  OBVIOUS
<1>1. EmptyWorklist \in Pending
  BY DEF EmptyWorklist, Pending, WorklistType, Agree, Distinct, Elements
<1>2. WalkTypeOK
  BY <1>1 DEF WalkInit, Init, WalkTypeOK, TypeOK, Pending
<1>3. EngineInv /\ WalkInv
  BY DEF WalkInit, Init, EngineInv, WalkInv
<1> QED BY <1>1, <1>2, <1>3 DEF IInv, WalkInit, Init

\* What a visit takes for the block's entry state covers the merged one.
LEMMA VisitEntryFacts ==
    ASSUME TypeOK, NEW b \in Block
    PROVE  /\ VisitEntry(b) \in Value
           /\ Gamma(EntryState(job, exits, b)) \subseteq Gamma(VisitEntry(b))
           /\ WidensNow(b) /\ widenMemory[b] # NoValue
                => Gamma(widenMemory[b]) \subseteq Gamma(VisitEntry(b))
<1> DEFINE e == EntryState(job, exits, b)
           m == IF widenMemory[b] = NoValue THEN e ELSE Merge(widenMemory[b], e)
<1>1. e \in Value /\ widenMemory[b] \in Value \cup {NoValue}
  BY EntryStateType DEF TypeOK, ExitMap, ValueOrNone
<1> HIDE DEF e
<1>2. /\ m \in Value /\ Gamma(e) \subseteq Gamma(m)
      /\ widenMemory[b] # NoValue => Gamma(widenMemory[b]) \subseteq Gamma(m)
  BY <1>1, ValueAssumption, GammaAssumption
<1> HIDE DEF m
<1>3. Widen(m) \in Value /\ Gamma(m) \subseteq Gamma(Widen(m))
  BY <1>2, ValueAssumption, GammaAssumption
<1>4. VisitEntry(b) = IF WidensNow(b) THEN Widen(m) ELSE e
  BY DEF VisitEntry, Widened, m, e
<1> QED BY <1>1, <1>2, <1>3, <1>4 DEF e

\* What every turn of the worklist loop does to the flags.
LEMMA VisitBlock ==
    ASSUME IInv, Visit
    PROVE  LET b == Head(worklist.order)
           IN  /\ b \in Block
               /\ Dequeue(worklist) \in Pending
               /\ \A c \in Block \ {b} : Dequeue(worklist).queued[c] <=> worklist.queued[c]
               /\ phase = "fixpoint" /\ job.body = "cfg"
BY DequeuePending DEF IInv, EngineInv, Visit, Running

\* A turn of the worklist loop keeps every variable well typed.
LEMMA VisitTypeOK ==
    ASSUME IInv, Visit, UNCHANGED walkVars
    PROVE  WalkTypeOK' /\ worklist' \in Pending
<1> DEFINE b == Head(worklist.order)
<1>1. b \in Block /\ Dequeue(worklist) \in Pending
  BY VisitBlock
<1>2. TypeOK /\ WalkTypeOK
  BY DEF IInv, WalkTypeOK
<1>3. VisitEntry(b) \in Value
  BY <1>1, <1>2, VisitEntryFacts
<1>4. Skip(b) \/ Die(b) \/ Record(b)
  BY DEF Visit
<1> HIDE DEF b
<1>5. CountVisit(b) => /\ visitCounts' \in [Block -> Nat]
                       /\ widenMemory' \in [Block -> Value \cup {NoValue}]
  BY <1>1, <1>2, <1>3 DEF CountVisit, TypeOK
<1>6. /\ visitCounts' \in [Block -> Nat]
      /\ widenMemory' \in [Block -> Value \cup {NoValue}]
  BY <1>2, <1>4, <1>5 DEF Skip, Die, Record, TypeOK
<1>7. exits' \in [Block -> Value \cup {NoValue}]
  <2>1. job.xfer[b][VisitEntry(b)] \in Value
    BY <1>1, <1>2, <1>3, JobFacts DEF TypeOK
  <2> QED BY <1>2, <1>4, <2>1 DEF Skip, Die, Record, TypeOK
<1>8. worklist' \in Pending
  <2>1. worklist' = Dequeue(worklist) \/ worklist' = EnqueueSuccessors(job, Dequeue(worklist), b)
    BY <1>4 DEF Skip, Die, Record
  <2> QED BY <1>1, <1>2, <2>1, EnqueueSuccessorsPending DEF TypeOK
<1>9. worklist' \in WorklistType
  BY <1>8 DEF Pending
<1>10. iterations' \in Nat
  BY <1>2 DEF Visit, TypeOK
<1>11. TypeOK'
  BY <1>2, <1>6, <1>7, <1>9, <1>10 DEF Visit, TypeOK
<1> QED BY <1>2, <1>8, <1>11 DEF WalkTypeOK, walkVars

\* A visit settles the block it visits, or keeps it pending, and unsettles
\* nothing that it does not enqueue.
LEMMA VisitSettles ==
    ASSUME IInv, Visit, job.ternary = {}, NEW c \in Block
    PROVE  worklist'.queued[c] \/ Settled(job, exits', c)
<1> DEFINE b == Head(worklist.order)
           q == Dequeue(worklist)
           exit == job.xfer[b][VisitEntry(b)]
<1>1. /\ b \in Block /\ q \in Pending
      /\ \A d \in Block \ {b} : q.queued[d] <=> worklist.queued[d]
  BY VisitBlock
<1>2. TypeOK /\ job \in Job /\ exits \in ExitMap
  BY DEF IInv, WalkTypeOK, TypeOK, ExitMap, ValueOrNone
<1>3. worklist.queued[c] \/ Settled(job, exits, c)
  BY VisitBlock DEF IInv, EngineInv
<1>4. Skip(b) \/ Die(b) \/ Record(b)
  BY DEF Visit
<1> HIDE DEF b, q
<1>5. CASE Skip(b)
  <2>1. exits' = exits /\ worklist' = q /\ Settled(job, exits, b)
    BY <1>5 DEF Skip, Settled, q
  <2> QED BY <1>1, <1>3, <2>1
<1>6. CASE Die(b)
  <2>1. exits' = exits /\ worklist' = q /\ Settled(job, exits, b)
    BY <1>6 DEF Die, Settled, q
  <2> QED BY <1>1, <1>3, <2>1
<1>7. CASE Record(b)
  <2>1. /\ exits' = [exits EXCEPT ![b] = exit]
        /\ worklist' = IF exits[b] # exit THEN EnqueueSuccessors(job, q, b) ELSE q
        /\ b = Entry \/ HasPreds(job, exits, b)
    BY <1>7 DEF Record, q
  <2>2. VisitEntry(b) \in Value /\ Gamma(EntryState(job, exits, b)) \subseteq Gamma(VisitEntry(b))
    BY <1>1, <1>2, VisitEntryFacts
  <2>3. exit \in Value
    BY <1>1, <1>2, <2>2, JobFacts
  <2>4. /\ exit # NoValue
        /\ \A d \in Gamma(EntryState(job, exits, b)) : Run(job, b, d) \subseteq Gamma(exit)
    <3>1. \A d \in Gamma(VisitEntry(b)) : d \in Concrete
      BY <2>2, GammaAssumption
    <3>2. \A d \in Gamma(VisitEntry(b)) : Run(job, b, d) \subseteq Gamma(exit)
      BY <1>1, <1>2, <2>2, <3>1, AnalysisAssumption
    <3> QED BY <2>2, <2>3, <3>2, ValueAssumption
  <2> HIDE DEF exit
  <2>5. exits' \in ExitMap /\ exits'[b] = exit /\ \A d \in Block \ {b} : exits[d] = exits'[d]
    BY <1>1, <1>2, <2>1, <2>3 DEF ExitMap, ValueOrNone
  <2>6. CASE exits[b] = exit
    <3>1. exits' = exits /\ worklist' = q
      BY <1>1, <1>2, <2>1, <2>6 DEF ExitMap
    <3>2. Settled(job, exits, b)
      BY <2>4, <2>6 DEF Settled
    <3> QED BY <1>1, <1>3, <3>1, <3>2
  <2>7. CASE exits[b] # exit
    <3>1. worklist' = EnqueueSuccessors(job, q, b)
      BY <2>1, <2>7
    <3>2. CASE c \in Elements(job.succ[b]) \ {NoBlock}
      BY <1>1, <1>2, <3>1, <3>2, EnqueueSuccessorsPending
    <3>3. CASE c \notin Elements(job.succ[b]) \ {NoBlock}
      <4>1. /\ EntryState(job, exits', c) = EntryState(job, exits, c)
            /\ c # b /\ Settled(job, exits, c) => Settled(job, exits', c)
        BY <1>1, <1>2, <2>5, <3>3, SettledElsewhere
      <4>2. CASE c = b
        <5>1. Settled(job, exits', c)
          BY <2>4, <2>5, <4>1, <4>2 DEF Settled
        <5> QED BY <5>1
      <4>3. CASE c # b
        <5>1. worklist.queued[c] => worklist'.queued[c]
          BY <1>1, <1>2, <3>1, <4>3, EnqueueSuccessorsPending
        <5> QED BY <1>3, <4>1, <4>3, <5>1
      <4> QED BY <4>2, <4>3
    <3> QED BY <3>2, <3>3
  <2> QED BY <2>6, <2>7
<1> QED BY <1>4, <1>5, <1>6, <1>7

\* A step of the execution along an edge stays inside the reported states.
LEMMA WalkStep ==
    ASSUME IInv, Walk
    PROVE  IInv'
<1>1. TypeOK /\ job \in Job /\ exits \in ExitMap /\ WalkTypeOK /\ EngineInv /\ WalkInv
  BY DEF IInv, WalkTypeOK, TypeOK, ExitMap, ValueOrNone
<1>2. at \in Block /\ at \notin job.dies /\ UNCHANGED vars
  BY <1>1 DEF Walk, WalkTypeOK
<1>3. PICK b \in Elements(job.succ[at]) \ {NoBlock} :
         at' = b /\ value' \in Run(job, at, value) \cap Leaves(at, b)
  BY DEF Walk
<1>4. b \in Block
  BY <1>1, <1>2, JobFacts
<1>5. value' \in Concrete
  BY <1>1, <1>2, <1>3, AnalysisAssumption DEF Leaves
<1>6. WalkTypeOK'
  BY <1>1, <1>2, <1>3, <1>4, <1>5 DEF WalkTypeOK, TypeOK, vars
<1>7. WalkInv'
  <2>1. phase' = "done" /\ job'.body = "cfg" /\ at' # NoBlock
    BY <1>1, <1>2, <1>3, <1>4, BlockAssumption DEF WalkInv, vars
  <2>2. ASSUME result.converged, job.ternary = {}
        PROVE  HasPreds(job, exits, b) /\ value' \in Gamma(EntryState(job, exits, b))
    <3>1. /\ at = Entry \/ HasPreds(job, exits, at)
          /\ value \in Gamma(EntryState(job, exits, at))
          /\ phase = "done" /\ job.body = "cfg"
      BY <1>1, <1>2, <2>2, BlockAssumption DEF WalkInv
    <3>2. worklist.order = <<>> /\ (worklist.queued[at] \/ Settled(job, exits, at))
      BY <1>1, <1>2, <2>2, <3>1 DEF EngineInv
    <3>3. ~worklist.queued[at]
      BY <1>2, <3>2 DEF IInv, Pending, Agree, Elements
    <3>4. exits[at] # NoValue /\ Run(job, at, value) \subseteq Gamma(exits[at])
      BY <1>2, <3>1, <3>2, <3>3 DEF Settled
    <3>5. value' \in Gamma(exits[at]) /\ value' \in Leaves(at, b)
      BY <1>3, <3>4
    <3> QED BY <1>1, <1>2, <1>3, <2>2, <3>4, <3>5, EdgeCovered DEF Leaves
  <2> QED BY <1>2, <1>3, <2>1, <2>2 DEF WalkInv, vars
<1>8. EngineInv' /\ worklist' \in Pending
  <2>1. EngineInv /\ worklist \in Pending
    BY <1>1 DEF IInv
  <2> QED BY <1>2, <2>1 DEF EngineInv, vars
<1> QED BY <1>6, <1>7, <1>8 DEF IInv

\* Entering the function starts inside the reported entry state.
LEMMA EnterStep ==
    ASSUME IInv, Enter
    PROVE  IInv'
<1>1. job \in Job /\ exits \in ExitMap /\ WalkTypeOK /\ EngineInv /\ worklist \in Pending
  BY DEF IInv, WalkTypeOK, TypeOK, ExitMap, ValueOrNone
<1>2. EntryState(job, exits, Entry) = InitialState \/ job.ternary # {}
  <2>1. Elements(job.pred[Entry]) = {}
    BY <1>1, JobFacts DEF Elements
  <2>2. MergeIncoming(job, exits, Entry) = NoValue
    BY <1>1, <2>1, BlockAssumption, MergeOfNothing
  <2> QED BY <1>1, <2>2, EntryStateNoTernary
<1>3. value' \in Gamma(InitialState) /\ value' \in Concrete
  BY GammaAssumption, ValueAssumption DEF Enter
<1>4. WalkTypeOK'
  BY <1>1, <1>3, BlockAssumption DEF Enter, WalkTypeOK, TypeOK, vars
<1>5. WalkInv'
  BY <1>2, <1>3 DEF Enter, WalkInv, vars
<1>6. EngineInv' /\ worklist' \in Pending
  BY <1>1 DEF Enter, EngineInv, vars
<1> QED BY <1>4, <1>5, <1>6 DEF IInv

\* A turn of the worklist loop preserves the invariant.
LEMMA VisitStep ==
    ASSUME IInv, Visit, UNCHANGED walkVars
    PROVE  IInv'
<1>1. phase = "fixpoint" /\ phase' = "fixpoint" /\ job' = job /\ job.body = "cfg"
  BY VisitBlock DEF Visit
<1>2. EngineInv'
  BY <1>1, VisitSettles DEF EngineInv
<1>3. WalkInv'
  BY <1>1 DEF IInv, WalkInv, walkVars
<1> QED BY <1>2, <1>3, VisitTypeOK DEF IInv

\* Queueing the entry block establishes the invariant of the loop.
LEMMA BeginStep ==
    ASSUME IInv, Begin, UNCHANGED walkVars
    PROVE  IInv'
<1>1. job \in Job /\ WalkTypeOK /\ EngineInv /\ WalkInv /\ worklist \in Pending
  BY DEF IInv, WalkTypeOK, TypeOK
<1>2. exits = [b \in Block |-> NoValue] /\ worklist = EmptyWorklist
  BY <1>1 DEF Begin, EngineInv
<1>3. worklist' \in Pending /\ worklist'.queued[Entry]
  BY <1>1, <1>2, EnqueuePending, BlockAssumption DEF Begin
<1>4. ASSUME job.ternary = {}, NEW c \in Block, c # Entry PROVE Settled(job, exits, c)
  <2>1. exits \in ExitMap /\ \A p \in Elements(job.pred[c]) : exits[p] = NoValue
    <3>1. job.pred[c] \in Seq(Block)
      BY <1>1, JobAssumption DEF JobType
    <3> QED BY <1>2, <3>1 DEF Elements, ExitMap, ValueOrNone
  <2> QED BY <1>1, <1>4, <2>1, MergeOfNothing, EntryStateNoTernary DEF Settled
<1>5. WalkTypeOK'
  BY <1>1, <1>3 DEF Begin, WalkTypeOK, TypeOK, Pending, walkVars
<1>6. EngineInv'
  <2>1. phase' = "fixpoint" /\ job' = job /\ exits' = exits /\ job.body = "cfg"
    BY DEF Begin
  <2>2. job.ternary = {} => \A b \in Block : worklist'.queued[b] \/ Settled(job, exits, b)
    BY <1>3, <1>4
  <2> QED BY <2>1, <2>2 DEF EngineInv
<1>7. WalkInv'
  BY <1>1 DEF Begin, WalkInv, walkVars
<1> QED BY <1>3, <1>5, <1>6, <1>7 DEF IInv

\* Every step preserves the invariant.
LEMMA StepInv == IInv /\ [WalkNext]_allVars => IInv'
<1> SUFFICES ASSUME IInv, [WalkNext]_allVars PROVE IInv'
  OBVIOUS
<1>1. WalkTypeOK /\ TypeOK /\ job \in Job /\ EngineInv /\ WalkInv /\ worklist \in Pending
  BY DEF IInv, WalkTypeOK, TypeOK
<1>2. CASE Unavailable /\ UNCHANGED walkVars
  <2>1. WalkTypeOK' /\ worklist' \in Pending
    BY <1>1, <1>2 DEF Unavailable, WalkTypeOK, TypeOK, walkVars
  <2>2. EngineInv' /\ WalkInv'
    BY <1>1, <1>2 DEF Unavailable, EngineInv, WalkInv, walkVars
  <2> QED BY <2>1, <2>2 DEF IInv
<1>3. CASE Begin /\ UNCHANGED walkVars
  BY <1>3, BeginStep
<1>4. CASE Visit /\ UNCHANGED walkVars
  BY <1>4, VisitStep
<1>5. CASE Settle /\ UNCHANGED walkVars
  <2>1. WalkTypeOK' /\ worklist' \in Pending
    BY <1>1, <1>5 DEF Settle, WalkTypeOK, TypeOK, walkVars
  <2>2. EngineInv' /\ WalkInv'
    BY <1>1, <1>5 DEF Settle, EngineInv, WalkInv, walkVars
  <2> QED BY <2>1, <2>2 DEF IInv
<1>6. CASE Report /\ UNCHANGED walkVars
  <2>1. reported' = ReportOf(job, exits)
    BY <1>6 DEF Report, ReportOf
  <2>2. reported' \in [Block -> Value \cup {NoValue}]
    BY <1>1, <2>1, EntryStateType DEF ReportOf, TypeOK, ExitMap, ValueOrNone
  <2>3. WalkTypeOK' /\ worklist' \in Pending
    BY <1>1, <1>6, <2>2 DEF Report, WalkTypeOK, TypeOK, walkVars
  <2>4. EngineInv' /\ WalkInv'
    BY <1>1, <1>6, <2>1 DEF Report, EngineInv, WalkInv, walkVars
  <2> QED BY <2>3, <2>4 DEF IInv
<1>7. CASE Enter
  BY <1>7, EnterStep
<1>8. CASE Walk
  BY <1>8, WalkStep
<1>9. CASE UNCHANGED allVars
  <2>1. WalkTypeOK' /\ worklist' \in Pending
    BY <1>1, <1>9 DEF WalkTypeOK, TypeOK, allVars
  <2>2. EngineInv' /\ WalkInv'
    BY <1>1, <1>9 DEF EngineInv, WalkInv, allVars
  <2> QED BY <2>1, <2>2 DEF IInv
<1> QED BY <1>2, <1>3, <1>4, <1>5, <1>6, <1>7, <1>8, <1>9 DEF WalkNext, Analyse, Next

-----------------------------------------------------------------------------
(* The fixpoint itself *)

\* The exit of b is what the block makes of its entry state, and a block that
\* nothing reaches has none.
Fixed(j, ex, b) ==
    ex[b] = IF b = Entry \/ HasPreds(j, ex, b) THEN j.xfer[b][EntryState(j, ex, b)]
                                               ELSE NoValue

\* Between visits an exit is recorded only where the entry or a predecessor
\* reaches, and without widening every block is pending or at its fixpoint.
FixpointInv ==
    phase # "start" /\ job.body = "cfg" /\ job.ternary = {} =>
      /\ \A b \in Block : exits[b] # NoValue => b = Entry \/ HasPreds(job, exits, b)
      /\ ~job.widens => \A b \in Block \ job.dies :
                           worklist.queued[b] \/ Fixed(job, exits, b)

\* A visit that changes an exit wakes whatever that takes from its fixpoint.
LEMMA VisitFixes ==
    ASSUME IInv, FixpointInv, Visit
    PROVE  FixpointInv'
<1> DEFINE b == Head(worklist.order)
           q == Dequeue(worklist)
           exit == job.xfer[b][VisitEntry(b)]
<1>1. /\ b \in Block /\ q \in Pending
      /\ \A d \in Block \ {b} : q.queued[d] <=> worklist.queued[d]
      /\ phase # "start" /\ job.body = "cfg" /\ job' = job
  BY VisitBlock DEF Visit
<1>2. TypeOK /\ job \in Job /\ exits \in ExitMap
  BY DEF IInv, WalkTypeOK, TypeOK, ExitMap, ValueOrNone
<1>3. Skip(b) \/ Die(b) \/ Record(b)
  BY DEF Visit
<1> HIDE DEF b, q
<1> SUFFICES ASSUME job.ternary = {}
             PROVE  /\ \A c \in Block : exits'[c] # NoValue => c = Entry \/ HasPreds(job, exits', c)
                    /\ ~job.widens => \A c \in Block \ job.dies :
                           worklist'.queued[c] \/ Fixed(job, exits', c)
  BY <1>1 DEF FixpointInv
<1>4. /\ \A c \in Block : exits[c] # NoValue => c = Entry \/ HasPreds(job, exits, c)
      /\ ~job.widens => \A c \in Block \ job.dies : worklist.queued[c] \/ Fixed(job, exits, c)
  BY <1>1 DEF FixpointInv
<1>5. CASE Skip(b)
  <2>1. exits' = exits /\ worklist' = q /\ Fixed(job, exits, b)
    BY <1>1, <1>4, <1>5 DEF Skip, Fixed, q
  <2> QED BY <1>1, <1>4, <2>1
<1>6. CASE Die(b)
  <2>1. exits' = exits /\ worklist' = q /\ b \in job.dies
    BY <1>6 DEF Die, q
  <2> QED BY <1>1, <1>4, <2>1
<1>7. CASE Record(b)
  <2>1. /\ exits' = [exits EXCEPT ![b] = exit]
        /\ worklist' = IF exits[b] # exit THEN EnqueueSuccessors(job, q, b) ELSE q
        /\ b = Entry \/ HasPreds(job, exits, b)
    BY <1>7 DEF Record, q
  <2>2. exit \in Value /\ exit # NoValue
    BY <1>1, <1>2, VisitEntryFacts, JobFacts, ValueAssumption
  <2>3. ~job.widens => exit = job.xfer[b][EntryState(job, exits, b)]
    BY DEF VisitEntry, WidensNow
  <2> HIDE DEF exit
  <2>4. /\ exits' \in ExitMap /\ exits'[b] = exit
        /\ \A d \in Block \ {b} : exits[d] = exits'[d]
        /\ \A d \in Block : exits[d] # NoValue => exits'[d] # NoValue
    BY <1>1, <1>2, <2>1, <2>2 DEF ExitMap, ValueOrNone
  <2>5. \A c \in Block : HasPreds(job, exits, c) => HasPreds(job, exits', c)
    BY <1>2, <2>4, HasPredsGrows
  <2>6. \A c \in Block : exits'[c] # NoValue => c = Entry \/ HasPreds(job, exits', c)
    BY <1>4, <2>1, <2>4, <2>5
  <2>7. ASSUME ~job.widens, NEW c \in Block \ job.dies
        PROVE  worklist'.queued[c] \/ Fixed(job, exits', c)
    <3>1. CASE exits[b] = exit
      <4>1. exits' = exits /\ worklist' = q
        BY <1>1, <1>2, <2>1, <3>1 DEF ExitMap
      <4>2. Fixed(job, exits, b)
        BY <2>1, <2>3, <2>7, <3>1 DEF Fixed
      <4> QED BY <1>1, <1>4, <2>7, <4>1, <4>2
    <3>2. CASE exits[b] # exit
      <4>1. worklist' = EnqueueSuccessors(job, q, b)
        BY <2>1, <3>2
      <4>2. CASE c \in Elements(job.succ[b]) \ {NoBlock}
        BY <1>1, <1>2, <4>1, <4>2, EnqueueSuccessorsPending
      <4>3. CASE c \notin Elements(job.succ[b]) \ {NoBlock}
        <5>1. /\ EntryState(job, exits', c) = EntryState(job, exits, c)
              /\ HasPreds(job, exits', c) <=> HasPreds(job, exits, c)
          BY <1>1, <1>2, <2>4, <4>3, SettledElsewhere
        <5>2. CASE c = b
          BY <2>1, <2>3, <2>4, <2>7, <5>1, <5>2 DEF Fixed
        <5>3. CASE c # b
          <6>1. worklist.queued[c] => worklist'.queued[c]
            BY <1>1, <1>2, <4>1, <5>3, EnqueueSuccessorsPending
          <6>2. Fixed(job, exits, c) => Fixed(job, exits', c)
            BY <2>4, <5>1, <5>3 DEF Fixed
          <6> QED BY <1>4, <2>7, <6>1, <6>2
        <5> QED BY <5>2, <5>3
      <4> QED BY <4>2, <4>3
    <3> QED BY <3>1, <3>2
  <2> QED BY <2>6, <2>7
<1> QED BY <1>3, <1>5, <1>6, <1>7

\* Every step preserves the fixpoint invariant.
LEMMA FixpointStep == IInv /\ FixpointInv /\ [WalkNext]_allVars => FixpointInv'
<1> SUFFICES ASSUME IInv, FixpointInv, [WalkNext]_allVars PROVE FixpointInv'
  OBVIOUS
<1>1. CASE Visit
  BY <1>1, VisitFixes
<1>2. CASE Begin
  <2>1. job \in Job /\ worklist \in Pending /\ WalkTypeOK
    BY DEF IInv, WalkTypeOK, TypeOK
  <2>2. /\ exits = [b \in Block |-> NoValue] /\ worklist = EmptyWorklist
        /\ exits' = exits /\ job' = job /\ worklist' = Enqueue(worklist, Entry)
    BY <1>2 DEF Begin, IInv, EngineInv
  <2>3. worklist'.queued[Entry]
    BY <2>1, <2>2, EnqueuePending, BlockAssumption
  <2>4. ASSUME job.ternary = {}, NEW c \in Block, c # Entry PROVE Fixed(job, exits, c)
    <3>1. exits \in ExitMap /\ \A p \in Elements(job.pred[c]) : exits[p] = NoValue
      <4>1. job.pred[c] \in Seq(Block)
        BY <2>1, JobAssumption DEF JobType
      <4> QED BY <2>2, <4>1 DEF Elements, ExitMap, ValueOrNone
    <3> QED BY <2>1, <2>2, <2>4, <3>1, MergeOfNothing, EntryStateNoTernary DEF Fixed
  <2>5. \A b \in Block : exits[b] = NoValue
    BY <2>2
  <2> QED BY <2>2, <2>3, <2>4, <2>5 DEF FixpointInv
<1>3. CASE Unavailable
  BY <1>3 DEF Unavailable, FixpointInv
<1>4. CASE UNCHANGED <<job, exits, worklist>> /\ (phase' # "start" => phase # "start")
  BY <1>4 DEF FixpointInv
<1>5. Visit \/ Begin \/ Unavailable
        \/ (UNCHANGED <<job, exits, worklist>> /\ (phase' # "start" => phase # "start"))
  BY DEF WalkNext, Analyse, Next, Settle, Report, Enter, Walk, vars, allVars
<1> QED BY <1>1, <1>2, <1>3, <1>4, <1>5

-----------------------------------------------------------------------------
(* Theorems *)

\* The strengthened invariant holds in every run of every job.
THEOREM Inductive == WalkSpec => []IInv
BY InitInv, StepInv, PTL DEF WalkSpec

\* Every variable keeps its type: no visit, widening or report ever records
\* something that is not a value of the analysis.
THEOREM TypeCorrect == WalkSpec => []WalkTypeOK
<1>1. IInv => WalkTypeOK
  BY DEF IInv
<1> QED BY <1>1, Inductive, PTL

\* `At most one pending entry per block': queue and queued[] flags agree,
\* whatever the CFG.
THEOREM PendingOnceAlways == WalkSpec => []PendingOnce
<1>1. IInv => PendingOnce
  BY DEF IInv, Pending, Agree, Distinct, PendingOnce
<1> QED BY <1>1, Inductive, PTL

\* A converged analysis misses no execution, for every CFG without a ?:, every
\* lattice and every sound analysis, monotone or not, widening or not, with
\* dying blocks and refuted edges.
THEOREM CoveredAlways == WalkSpec => [](job.ternary = {} => Covered)
<1>1. IInv => (job.ternary = {} => Covered)
  <2> SUFFICES ASSUME IInv, job.ternary = {}, at # NoBlock, result.converged
               PROVE  reported[at] # NoValue /\ value \in Gamma(reported[at])
    BY DEF Covered
  <2>1. job \in Job /\ exits \in ExitMap /\ at \in Block
    BY DEF IInv, WalkTypeOK, TypeOK, ExitMap, ValueOrNone
  <2>2. /\ phase = "done" /\ job.body = "cfg"
        /\ at = Entry \/ HasPreds(job, exits, at)
        /\ value \in Gamma(EntryState(job, exits, at))
    BY DEF IInv, WalkInv
  <2>3. reported = ReportOf(job, exits)
    BY <2>2 DEF IInv, EngineInv
  <2>4. reported[at] = EntryState(job, exits, at)
    BY <2>1, <2>2, <2>3 DEF ReportOf
  <2>5. EntryState(job, exits, at) # NoValue
    BY <2>1, EntryStateType, ValueAssumption
  <2> QED BY <2>2, <2>4, <2>5
<1> QED BY <1>1, Inductive, PTL

\* `Reports therefore always reflect the fixpoint': without a ?:, once a
\* non-widening analysis has converged, every block's exit is its function of the
\* entry state the reporting pass starts from, whatever the CFG and the order of
\* the visits.
THEOREM ReportsReflectAlways == WalkSpec => [](job.ternary = {} => ReportsReflectFixpoint)
<1>1. WalkInit => FixpointInv
  BY DEF WalkInit, Init, FixpointInv
<1>2. WalkSpec => []FixpointInv
  BY <1>1, FixpointStep, Inductive, PTL DEF WalkSpec
<1>3. IInv /\ FixpointInv => (job.ternary = {} => ReportsReflectFixpoint)
  <2> SUFFICES ASSUME IInv, FixpointInv, job.ternary = {}, phase = "done", job.body = "cfg",
                      result.converged, ~job.widens, NEW b \in Block \ job.dies
               PROVE  exits[b] = IF reported[b] = NoValue THEN NoValue
                                                         ELSE job.xfer[b][reported[b]]
    BY DEF ReportsReflectFixpoint
  <2>1. job \in Job /\ exits \in ExitMap /\ worklist \in Pending
    BY DEF IInv, WalkTypeOK, TypeOK, ExitMap, ValueOrNone
  <2>2. worklist.order = <<>> /\ reported = ReportOf(job, exits)
    BY DEF IInv, EngineInv
  <2>3. ~worklist.queued[b]
    BY <2>1, <2>2 DEF Pending, Agree, Elements
  <2>4. Fixed(job, exits, b)
    BY <2>3 DEF FixpointInv
  <2>5. EntryState(job, exits, b) # NoValue
    BY <2>1, EntryStateType, ValueAssumption
  <2>6. reported[b] = IF b = Entry \/ HasPreds(job, exits, b) THEN EntryState(job, exits, b)
                                                             ELSE NoValue
    BY <2>2 DEF ReportOf
  <2> QED BY <2>4, <2>5, <2>6 DEF Fixed
<1> QED BY <1>2, <1>3, Inductive, PTL

\* From one widened visit of a block to the next, its remembered entry state
\* only gains concrete states, in every run of every job.
THEOREM WidenMemoryClimbsAlways == WalkSpec => WidenMemoryClimbs
<1> DEFINE Climbs == \A b \in Block : widenMemory[b] # NoValue
                         => Gamma(widenMemory[b]) \subseteq Gamma(widenMemory'[b])
<1>1. IInv /\ [WalkNext]_allVars => Climbs
  <2> SUFFICES ASSUME IInv, [WalkNext]_allVars, NEW b \in Block, widenMemory[b] # NoValue
               PROVE  Gamma(widenMemory[b]) \subseteq Gamma(widenMemory'[b])
    OBVIOUS
  <2>1. CASE Visit
    <3> DEFINE h == Head(worklist.order)
    <3>1. TypeOK /\ h \in Block
      BY <2>1, VisitBlock DEF IInv, WalkTypeOK
    <3>2. Skip(h) \/ Die(h) \/ Record(h)
      BY <2>1 DEF Visit
    <3> HIDE DEF h
    <3>3. widenMemory' = widenMemory \/ /\ WidensNow(h)
                                        /\ widenMemory' = [widenMemory EXCEPT ![h] = VisitEntry(h)]
      BY <3>2 DEF Skip, Die, Record, CountVisit
    <3>4. WidensNow(h) /\ widenMemory[h] # NoValue
            => Gamma(widenMemory[h]) \subseteq Gamma(VisitEntry(h))
      BY <3>1, VisitEntryFacts
    <3>5. widenMemory \in [Block -> Value \cup {NoValue}]
      BY <3>1 DEF TypeOK
    <3> QED BY <3>1, <3>3, <3>4, <3>5
  <2>2. CASE UNCHANGED widenMemory
    BY <2>2
  <2>3. Visit \/ UNCHANGED widenMemory
    BY DEF WalkNext, Analyse, Next, Unavailable, Begin, Settle, Report, Enter, Walk, vars, allVars
  <2> QED BY <2>1, <2>2, <2>3
<1> HIDE DEF Climbs
<1>2. WalkSpec => [][Climbs]_allVars
  BY <1>1, Inductive, PTL DEF WalkSpec
<1> QED BY <1>2 DEF WidenMemoryClimbs, Climbs
=============================================================================
