-------------------------- MODULE AnalysisRunProofs --------------------------
(***************************************************************************)
(* Proofs about module AnalysisRun, for every project, every request and   *)
(* every baseline file that meets the named assumptions.                   *)
(*                                                                         *)
(* The argument: the walk over the compile commands loses count of a file  *)
(* only by leaving the tally of analysed and broken units behind the       *)
(* number of files it passed (Tallied), what the rules found in a file     *)
(* stays in diagnostics_ until a filter the user asked for takes it        *)
(* (Found, SeenWhole), what the store has of files listed bottom-up says   *)
(* all from the first harvest on (SeenFrom), and the report is a function  *)
(* of diagnostics_ and of the baseline (Shown).  What Baseline::filter     *)
(* lets through follows from two facts about the turns of its loop: a key  *)
(* never has more budget left than its entries, nor less than its entries  *)
(* minus its occurrences.                                                  *)
(***************************************************************************)
EXTENDS AnalysisRun, FiniteSetTheorems, SequenceTheorems, TLAPS, WellFoundedInduction

-----------------------------------------------------------------------------
(* Bounded induction, with a set instead of a predicate. *)

\* A property of the naturals that fails somewhere fails at a least place.
LEMMA LeastElement ==
    ASSUME NEW T \in SUBSET Nat, T # {}
    PROVE  \E n \in T : \A m \in T : n <= m
<1>1. PICK n \in T : \A m \in T : ~ (<<m, n>> \in OpToRel(<, Nat))
  BY NatLessThanWellFounded, WFMin
<1>2. \A m \in T : n <= m
  <2> TAKE m \in T
  <2>1. ~(m < n)
    BY <1>1 DEF OpToRel
  <2> QED BY <2>1
<1> QED BY <1>2

\* A set that holds 0 and is closed under successor below n holds 0..n.
LEMMA UpTo ==
    ASSUME NEW n \in Nat, NEW S,
           0 \in S,
           \A m \in 0..n : m # n /\ m \in S => m + 1 \in S
    PROVE  \A m \in 0..n : m \in S
<1> DEFINE Bad == {m \in Nat : m <= n /\ m \notin S}
<1> SUFFICES ASSUME Bad # {} PROVE FALSE
  OBVIOUS
<1>1. PICK m \in Bad : \A k \in Bad : m <= k
  BY LeastElement
<1>2. m - 1 \in 0..n /\ m - 1 # n /\ m - 1 \notin Bad
  BY <1>1
<1> QED BY <1>1, <1>2

\* A loop that turns x into f[n] in n steps, each a function on S.
Loops(f, n, S, x, step) ==
    /\ f \in [0..n -> S]
    /\ f[0] = x
    /\ \A i \in 1..n : f[i] = step[i][f[i - 1]]

LEMMA Loop ==
    ASSUME NEW n \in Nat, NEW S, NEW x \in S, NEW step \in [1..n -> [S -> S]]
    PROVE  \E f : Loops(f, n, S, x, step)
<1> DEFINE Upto(f, m) == f[0] = x /\ \A i \in 1..m : f[i] = step[i][f[i - 1]]
           T == {m \in 0..n : \E f \in [0..m -> S] : Upto(f, m)}
<1>1. 0 \in T
  <2> DEFINE g == [i \in 0..0 |-> x]
  <2>1. g \in [0..0 -> S] /\ Upto(g, 0)
    OBVIOUS
  <2>2. 0 \in 0..n
    OBVIOUS
  <2> HIDE DEF g
  <2> QED BY <2>1, <2>2, Zenon
<1>2. ASSUME NEW m \in 0..n, m # n, m \in T
      PROVE  m + 1 \in T
  <2>1. PICK f \in [0..m -> S] : Upto(f, m)
    BY <1>2
  <2> DEFINE g == [i \in 0..(m + 1) |-> IF i = m + 1 THEN step[m + 1][f[m]] ELSE f[i]]
  <2>2. m + 1 \in 1..n /\ m + 1 \in 0..n
    BY <1>2
  <2>3. f[m] \in S /\ step[m + 1][f[m]] \in S
    <3>1. m \in 0..m
      OBVIOUS
    <3>2. f[m] \in S
      BY <3>1
    <3> QED BY <2>2, <3>2
  <2>4. g \in [0..(m + 1) -> S]
    BY <2>3
  <2>5. ASSUME NEW i \in 1..(m + 1) PROVE g[i] = step[i][g[i - 1]]
    <3>1. CASE i = m + 1
      BY <3>1
    <3>2. CASE i \in 1..m
      <4>1. f[i] = step[i][f[i - 1]]
        BY <2>1, <3>2
      <4>2. g[i] = f[i] /\ g[i - 1] = f[i - 1]
        BY <3>2
      <4> QED BY <4>1, <4>2
    <3> QED BY <3>1, <3>2
  <2>6. g[0] = x
    BY <2>1
  <2> QED BY <2>2, <2>4, <2>5, <2>6
<1>3. n \in T
  <2> HIDE DEF T
  <2>1. \A m \in 0..n : m \in T
    BY <1>1, <1>2, UpTo
  <2> QED BY <2>1
<1> QED BY <1>3 DEF Loops

-----------------------------------------------------------------------------
(* Among *)

\* f lists what is kept of s, element by element.
AmongSteps(s, keep, f) ==
    /\ f[0] = <<>>
    /\ \A i \in 1..Len(s) : f[i] = IF s[i] \in keep THEN Append(f[i - 1], s[i]) ELSE f[i - 1]

LEMMA AmongUnfold ==
    ASSUME NEW S, NEW s \in Seq(S), NEW keep
    PROVE  \E f : AmongSteps(s, keep, f) /\ Among(s, keep) = f[Len(s)]
<1> DEFINE n == Len(s)
           step == [i \in 1..n |-> [t \in Seq(S) |-> IF s[i] \in keep THEN Append(t, s[i]) ELSE t]]
           Body(g) == [i \in 0..n |->
                          IF i = 0 THEN <<>>
                          ELSE IF s[i] \in keep THEN Append(g[i - 1], s[i]) ELSE g[i - 1]]
<1>1. n \in Nat
  OBVIOUS
<1>2. \A i \in 1..n : s[i] \in S
  OBVIOUS
<1>3. Among(s, keep) = (CHOOSE g : g = Body(g))[n]
  BY DEF Among
<1> HIDE DEF n
<1>4. step \in [1..n -> [Seq(S) -> Seq(S)]]
  BY <1>2
<1>5. PICK f : Loops(f, n, Seq(S), <<>>, step)
  <2> HIDE DEF step
  <2>1. <<>> \in Seq(S)
    OBVIOUS
  <2> QED BY <1>1, <1>4, <2>1, Loop
<1>6. ASSUME NEW i \in 0..n
      PROVE  f[i] = IF i = 0 THEN <<>>
                    ELSE IF s[i] \in keep THEN Append(f[i - 1], s[i]) ELSE f[i - 1]
  <2>1. CASE i = 0
    BY <2>1, <1>5 DEF Loops
  <2>2. CASE i \in 1..n
    <3>1. f[i - 1] \in Seq(S)
      BY <1>1, <1>5, <2>2 DEF Loops
    <3> QED BY <1>5, <2>2, <3>1 DEF Loops
  <2> QED BY <1>1, <2>1, <2>2
<1>7. f = Body(f)
  <2>1. f = [i \in 0..n |-> f[i]]
    BY <1>5 DEF Loops
  <2> QED BY <2>1, <1>6, Zenon
<1> DEFINE kept == CHOOSE g : g = Body(g)
<1>8. kept = Body(kept)
  BY <1>7
<1> HIDE DEF kept
<1>9. \A i \in 0..n : kept[i] = IF i = 0 THEN <<>>
                    ELSE IF s[i] \in keep THEN Append(kept[i - 1], s[i]) ELSE kept[i - 1]
  BY <1>8, Zenon
<1>10. AmongSteps(s, keep, kept)
  BY <1>1, <1>9 DEF AmongSteps, n
<1> QED BY <1>3, <1>10 DEF n, kept

\* Appending adds one element.
LEMMA AppendElements ==
    ASSUME NEW S, NEW s \in Seq(S), NEW e \in S
    PROVE  /\ Append(s, e) \in Seq(S)
           /\ Elements(Append(s, e)) = Elements(s) \cup {e}
<1> DEFINE t == Append(s, e)
<1>1. /\ t \in Seq(S) /\ Len(t) = Len(s) + 1 /\ t[Len(s) + 1] = e
      /\ \A i \in 1..Len(s) : t[i] = s[i]
      /\ DOMAIN t = 1..(Len(s) + 1) /\ DOMAIN s = 1..Len(s) /\ Len(s) \in Nat
  OBVIOUS
<1> HIDE DEF t
<1>2. ASSUME NEW x \in Elements(t) PROVE x \in Elements(s) \cup {e}
  BY <1>1 DEF Elements
<1>3. ASSUME NEW x \in Elements(s) \cup {e} PROVE x \in Elements(t)
  <2>1. CASE x = e
    <3>1. Len(s) + 1 \in DOMAIN t
      BY <1>1
    <3> QED BY <1>1, <2>1, <3>1 DEF Elements
  <2>2. CASE x \in Elements(s)
    <3>1. PICK i \in DOMAIN s : x = s[i]
      BY <2>2 DEF Elements
    <3>2. i \in DOMAIN t /\ t[i] = x
      BY <1>1, <3>1
    <3> QED BY <3>2 DEF Elements
  <2> QED BY <1>3, <2>1, <2>2
<1> QED BY <1>1, <1>2, <1>3 DEF t

\* A filter returns the elements that pass it, and no others.
LEMMA AmongElements ==
    ASSUME NEW S, NEW s \in Seq(S), NEW keep
    PROVE  /\ Among(s, keep) \in Seq(S)
           /\ Elements(Among(s, keep)) = Elements(s) \cap keep
<1> DEFINE n == Len(s)
<1>1. n \in Nat /\ DOMAIN s = 1..n /\ \A i \in 1..n : s[i] \in S
  OBVIOUS
<1>2. PICK f : AmongSteps(s, keep, f) /\ Among(s, keep) = f[n]
  BY AmongUnfold
<1> HIDE DEF n
<1> DEFINE Before(m) == {s[i] : i \in 1..m}
           T == {m \in 0..n : f[m] \in Seq(S) /\ Elements(f[m]) = Before(m) \cap keep}
<1>3. 0 \in T
  <2>1. f[0] = <<>>
    BY <1>2 DEF AmongSteps
  <2>2. Elements(<<>>) = {}
    BY DEF Elements
  <2>3. <<>> \in Seq(S) /\ 0 \in 0..n
    BY <1>1
  <2>4. Before(0) = {}
    OBVIOUS
  <2> HIDE DEF Before
  <2> QED BY <2>1, <2>2, <2>3, <2>4
<1>4. ASSUME NEW m \in 0..n, m # n, m \in T PROVE m + 1 \in T
  <2>1. m + 1 \in 1..n /\ (m + 1) - 1 = m
    BY <1>1, <1>4
  <2>2. s[m + 1] \in S /\ f[m] \in Seq(S)
    BY <1>1, <1>4, <2>1
  <2>3. Before(m + 1) = Before(m) \cup {s[m + 1]}
    <3>1. 1..(m + 1) = (1..m) \cup {m + 1}
      BY <2>1
    <3> QED BY <3>1
  <2>4. n = Len(s)
    BY DEF n
  <2>5. f[m + 1] = IF s[m + 1] \in keep THEN Append(f[m], s[m + 1]) ELSE f[m]
    BY <1>2, <2>1, <2>4 DEF AmongSteps
  <2> HIDE DEF Before
  <2>6. CASE s[m + 1] \in keep
    <3>1. f[m + 1] \in Seq(S) /\ Elements(f[m + 1]) = Elements(f[m]) \cup {s[m + 1]}
      BY <2>2, <2>5, <2>6, AppendElements
    <3> QED BY <1>4, <2>1, <2>3, <2>6, <3>1
  <2>7. CASE s[m + 1] \notin keep
    BY <1>4, <2>1, <2>3, <2>5, <2>7
  <2> QED BY <2>6, <2>7
<1> HIDE DEF T
<1>5. \A m \in 0..n : m \in T
  BY <1>1, <1>3, <1>4, UpTo
<1>6. n \in T
  BY <1>1, <1>5
<1> QED BY <1>1, <1>2, <1>6 DEF T, Elements

-----------------------------------------------------------------------------
(* Occurrences *)

\* The occurrences of key k among the first m findings.
Upfront(k, ds, m) == {i \in 1..m : KeyV2(ds[i]) = k}

LEMMA UpfrontFinite ==
    ASSUME NEW k, NEW ds, NEW m \in Nat
    PROVE  /\ IsFiniteSet(Upfront(k, ds, m))
           /\ Cardinality(Upfront(k, ds, m)) \in Nat
<1>1. IsFiniteSet(1..m)
  BY FS_Interval
<1>2. IsFiniteSet(Upfront(k, ds, m))
  BY <1>1, FS_Subset DEF Upfront
<1> QED BY <1>2, FS_CardinalityType

\* The next finding adds one occurrence of its key.
LEMMA UpfrontNext ==
    ASSUME NEW k, NEW ds, NEW m \in Nat
    PROVE  Cardinality(Upfront(k, ds, m + 1)) =
             IF KeyV2(ds[m + 1]) = k THEN Cardinality(Upfront(k, ds, m)) + 1
             ELSE Cardinality(Upfront(k, ds, m))
<1>1. IsFiniteSet(Upfront(k, ds, m)) /\ m + 1 \notin Upfront(k, ds, m)
  BY UpfrontFinite DEF Upfront
<1>2. 1..(m + 1) = (1..m) \cup {m + 1}
  OBVIOUS
<1>3. CASE KeyV2(ds[m + 1]) = k
  <2>1. Upfront(k, ds, m + 1) = Upfront(k, ds, m) \cup {m + 1}
    BY <1>2, <1>3 DEF Upfront
  <2> QED BY <1>1, <1>3, <2>1, FS_AddElement
<1>4. CASE KeyV2(ds[m + 1]) # k
  <2>1. Upfront(k, ds, m + 1) = Upfront(k, ds, m)
    BY <1>2, <1>4 DEF Upfront
  <2> QED BY <1>4, <2>1
<1> QED BY <1>3, <1>4

\* More findings, no fewer occurrences.
LEMMA UpfrontGrows ==
    ASSUME NEW k, NEW ds, NEW m \in Nat, NEW n \in Nat, m <= n
    PROVE  Cardinality(Upfront(k, ds, m)) <= Cardinality(Upfront(k, ds, n))
<1>1. Upfront(k, ds, m) \subseteq Upfront(k, ds, n)
  BY DEF Upfront
<1> QED BY <1>1, UpfrontFinite, FS_Subset

LEMMA OccurrencesUpfront ==
    ASSUME NEW S, NEW ds \in Seq(S), NEW k
    PROVE  Occurrences(k, ds) = Cardinality(Upfront(k, ds, Len(ds)))
<1>1. DOMAIN ds = 1..Len(ds)
  OBVIOUS
<1>2. {i \in DOMAIN ds : KeyV2(ds[i]) = k} = Upfront(k, ds, Len(ds))
  BY <1>1 DEF Upfront
<1> QED BY <1>2 DEF Occurrences

-----------------------------------------------------------------------------
(* Filtered *)

\* What the loop of filter() carries: the budget left and the findings kept.
FilterState == [budget : [Key -> Nat], kept : Seq(Finding)]

Turn(a, d) ==
    IF a.budget[KeyV1(d)] > 0 THEN [a EXCEPT !.budget[KeyV1(d)] = @ - 1]
    ELSE IF a.budget[KeyV2(d)] > 0 THEN [a EXCEPT !.budget[KeyV2(d)] = @ - 1]
    ELSE [a EXCEPT !.kept = Append(@, d)]

\* a turned into b by consuming an entry of key k.
Consumes(a, b, k) ==
    /\ a.budget[k] > 0
    /\ b.budget = [a.budget EXCEPT ![k] = @ - 1]
    /\ b.kept = a.kept

\* a turned into b by keeping d.
Keeps(a, b, d) ==
    /\ a.budget[KeyV1(d)] = 0 /\ a.budget[KeyV2(d)] = 0
    /\ b.budget = a.budget
    /\ b.kept = Append(a.kept, d)

LEMMA KeysOf ==
    ASSUME NEW d \in Finding
    PROVE  KeyV1(d) \in Key /\ KeyV2(d) \in Key
BY DEF Key

LEMMA ConsumeType ==
    ASSUME NEW a \in FilterState, NEW k \in Key, NEW b, b = [a EXCEPT !.budget[k] = @ - 1],
           a.budget[k] > 0
    PROVE  b \in FilterState /\ Consumes(a, b, k)
<1>1. PICK bud \in [Key -> Nat], kep \in Seq(Finding) : a = [budget |-> bud, kept |-> kep]
  BY DEF FilterState
<1>2. b = [budget |-> [bud EXCEPT ![k] = @ - 1], kept |-> kep]
  BY <1>1
<1>3. bud[k] - 1 \in Nat
  BY <1>1
<1>4. [bud EXCEPT ![k] = @ - 1] \in [Key -> Nat]
  BY <1>3
<1> QED BY <1>1, <1>2, <1>4 DEF FilterState, Consumes

LEMMA KeepType ==
    ASSUME NEW a \in FilterState, NEW d \in Finding, NEW b, b = [a EXCEPT !.kept = Append(@, d)],
           ~(a.budget[KeyV1(d)] > 0), ~(a.budget[KeyV2(d)] > 0)
    PROVE  b \in FilterState /\ Keeps(a, b, d)
<1>1. PICK bud \in [Key -> Nat], kep \in Seq(Finding) : a = [budget |-> bud, kept |-> kep]
  BY DEF FilterState
<1>2. b = [budget |-> bud, kept |-> Append(kep, d)]
  BY <1>1
<1>3. Append(kep, d) \in Seq(Finding)
  BY AppendElements
<1>4. bud[KeyV1(d)] = 0 /\ bud[KeyV2(d)] = 0
  BY <1>1, KeysOf
<1> QED BY <1>1, <1>2, <1>3, <1>4 DEF FilterState, Keeps

\* A turn consumes an entry of the old key or else of the new one, or keeps the finding.
LEMMA TurnEffect ==
    ASSUME NEW a \in FilterState, NEW d \in Finding
    PROVE  /\ Turn(a, d) \in FilterState
           /\ \/ Consumes(a, Turn(a, d), KeyV1(d))
              \/ Consumes(a, Turn(a, d), KeyV2(d))
              \/ Keeps(a, Turn(a, d), d)
<1>1. KeyV1(d) \in Key /\ KeyV2(d) \in Key
  BY KeysOf
<1>2. CASE a.budget[KeyV1(d)] > 0
  <2>1. Turn(a, d) = [a EXCEPT !.budget[KeyV1(d)] = @ - 1]
    BY <1>2 DEF Turn
  <2> QED BY <1>1, <1>2, <2>1, ConsumeType
<1>3. CASE ~(a.budget[KeyV1(d)] > 0) /\ a.budget[KeyV2(d)] > 0
  <2>1. Turn(a, d) = [a EXCEPT !.budget[KeyV2(d)] = @ - 1]
    BY <1>3 DEF Turn
  <2> QED BY <1>1, <1>3, <2>1, ConsumeType
<1>4. CASE ~(a.budget[KeyV1(d)] > 0) /\ ~(a.budget[KeyV2(d)] > 0)
  <2>1. Turn(a, d) = [a EXCEPT !.kept = Append(@, d)]
    BY <1>4 DEF Turn
  <2> QED BY <1>4, <2>1, KeepType
<1> QED BY <1>2, <1>3, <1>4

\* f lists what the loop carries, turn by turn.
FilterSteps(counts, ds, f) ==
    /\ f \in [0..Len(ds) -> FilterState]
    /\ f[0] = [budget |-> counts, kept |-> <<>>]
    /\ \A i \in 1..Len(ds) : f[i] = Turn(f[i - 1], ds[i])

LEMMA FilterUnfold ==
    ASSUME NEW counts \in [Key -> Nat], NEW ds \in Seq(Finding)
    PROVE  \E f : FilterSteps(counts, ds, f) /\ Filtered(counts, ds) = f[Len(ds)].kept
<1> DEFINE n == Len(ds)
           first == [budget |-> counts, kept |-> <<>>]
           step == [i \in 1..n |-> [a \in FilterState |-> Turn(a, ds[i])]]
           Body(g) == [i \in 0..n |-> IF i = 0 THEN first ELSE Turn(g[i - 1], ds[i])]
<1>1. n \in Nat
  OBVIOUS
<1>2. \A i \in 1..n : ds[i] \in Finding
  OBVIOUS
<1>3. Filtered(counts, ds) = (CHOOSE g : g = Body(g))[n].kept
  BY DEF Filtered, Turn
<1>4. first \in FilterState
  BY DEF FilterState
<1> HIDE DEF n, first
<1>5. step \in [1..n -> [FilterState -> FilterState]]
  BY <1>2, TurnEffect
<1>6. PICK f : Loops(f, n, FilterState, first, step)
  <2> HIDE DEF step
  <2> QED BY <1>1, <1>4, <1>5, Loop
<1>7. ASSUME NEW i \in 0..n
      PROVE  f[i] = IF i = 0 THEN first ELSE Turn(f[i - 1], ds[i])
  <2>1. CASE i = 0
    BY <2>1, <1>6 DEF Loops
  <2>2. CASE i \in 1..n
    <3>1. f[i - 1] \in FilterState
      BY <1>1, <1>6, <2>2 DEF Loops
    <3> QED BY <1>6, <2>2, <3>1 DEF Loops
  <2> QED BY <1>1, <2>1, <2>2
<1>8. f = Body(f)
  <2>1. f = [i \in 0..n |-> f[i]]
    BY <1>6 DEF Loops
  <2> QED BY <2>1, <1>7, Zenon
<1> DEFINE acc == CHOOSE g : g = Body(g)
<1>9. acc = Body(acc)
  BY <1>8
<1> HIDE DEF acc
<1>10. \A i \in 0..n : acc[i] = IF i = 0 THEN first ELSE Turn(acc[i - 1], ds[i])
  BY <1>9, Zenon
<1>11. \A i \in 1..n : acc[i] = Turn(acc[i - 1], ds[i])
  BY <1>1, <1>10
<1>12. acc[0] = first
  BY <1>1, <1>10
<1>13. \A m \in 0..n : acc[m] \in FilterState
  <2> DEFINE T == {m \in 0..n : acc[m] \in FilterState}
  <2>1. 0 \in T
    BY <1>1, <1>4, <1>12
  <2>2. ASSUME NEW m \in 0..n, m # n, m \in T PROVE m + 1 \in T
    <3>1. m + 1 \in 1..n /\ m + 1 \in 0..n /\ (m + 1) - 1 = m
      BY <1>1, <2>2
    <3>2. acc[m + 1] = Turn(acc[m], ds[m + 1]) /\ ds[m + 1] \in Finding
      BY <1>2, <1>11, <3>1
    <3> QED BY <2>2, <3>1, <3>2, TurnEffect
  <2> HIDE DEF T
  <2>3. \A m \in 0..n : m \in T
    BY <1>1, <2>1, <2>2, UpTo
  <2> QED BY <2>3 DEF T
<1>14. acc \in [0..n -> FilterState]
  <2>1. acc = [i \in 0..n |-> acc[i]]
    BY <1>9, Zenon
  <2> QED BY <1>13, <2>1
<1>15. FilterSteps(counts, ds, acc)
  BY <1>11, <1>12, <1>14 DEF FilterSteps, n, first
<1> QED BY <1>3, <1>15 DEF n, acc

\* One turn, with what is known of the lists around it.
LEMMA FilterTurn ==
    ASSUME NEW counts \in [Key -> Nat], NEW ds \in Seq(Finding), NEW f,
           FilterSteps(counts, ds, f), NEW m \in 0..Len(ds), m # Len(ds)
    PROVE  /\ m \in Nat /\ m + 1 \in 0..Len(ds) /\ m + 1 \in 1..Len(ds)
           /\ ds[m + 1] \in Finding
           /\ f[m] \in FilterState /\ f[m + 1] \in FilterState
           /\ \/ Consumes(f[m], f[m + 1], KeyV1(ds[m + 1]))
              \/ Consumes(f[m], f[m + 1], KeyV2(ds[m + 1]))
              \/ Keeps(f[m], f[m + 1], ds[m + 1])
<1>1. m + 1 \in 1..Len(ds) /\ (m + 1) - 1 = m /\ m \in Nat /\ m + 1 \in 0..Len(ds)
  OBVIOUS
<1>2. f[m + 1] = Turn(f[m], ds[m + 1]) /\ f[m] \in FilterState
  BY <1>1 DEF FilterSteps
<1>3. ds[m + 1] \in Finding
  BY <1>1
<1> QED BY <1>1, <1>2, <1>3, TurnEffect

\* The budget of a key only shrinks, and what is kept stays kept.
LEMMA TurnShrinks ==
    ASSUME NEW a \in FilterState, NEW b \in FilterState, NEW d \in Finding,
           \/ Consumes(a, b, KeyV1(d))
           \/ Consumes(a, b, KeyV2(d))
           \/ Keeps(a, b, d)
    PROVE  /\ \A k \in Key : b.budget[k] <= a.budget[k]
           /\ Elements(a.kept) \subseteq Elements(b.kept)
           /\ Elements(b.kept) \subseteq Elements(a.kept) \cup {d}
<1>1. a.budget \in [Key -> Nat] /\ a.kept \in Seq(Finding)
  BY DEF FilterState
<1>2. ASSUME NEW c \in Key, Consumes(a, b, c)
      PROVE  (\A k \in Key : b.budget[k] <= a.budget[k]) /\ b.kept = a.kept
  BY <1>1, <1>2 DEF Consumes
<1>3. ASSUME Keeps(a, b, d)
      PROVE  b.budget = a.budget /\ Elements(b.kept) = Elements(a.kept) \cup {d}
  BY <1>1, <1>3, AppendElements DEF Keeps
<1>4. KeyV1(d) \in Key /\ KeyV2(d) \in Key
  BY KeysOf
<1>5. CASE Keeps(a, b, d)
  BY <1>1, <1>3, <1>5
<1>6. CASE Consumes(a, b, KeyV1(d)) \/ Consumes(a, b, KeyV2(d))
  BY <1>2, <1>4, <1>6
<1> QED BY <1>5, <1>6

\* filter() never has more budget for a key than entries, and keeps a finding
\* that has no entry at all.
LEMMA UnlistedKept ==
    ASSUME NEW counts \in [Key -> Nat], NEW ds \in Seq(Finding)
    PROVE  /\ Filtered(counts, ds) \in Seq(Finding)
           /\ Elements(Filtered(counts, ds)) \subseteq Elements(ds)
           /\ \A d \in Elements(ds) :
                counts[KeyV1(d)] + counts[KeyV2(d)] = 0 => d \in Elements(Filtered(counts, ds))
<1> DEFINE n == Len(ds)
<1>1. PICK f : FilterSteps(counts, ds, f) /\ Filtered(counts, ds) = f[n].kept
  BY FilterUnfold
<1> DEFINE Fine(m) ==
              /\ \A k \in Key : f[m].budget[k] <= counts[k]
              /\ Elements(f[m].kept) \subseteq Elements(ds)
              /\ \A i \in 1..m : counts[KeyV1(ds[i])] + counts[KeyV2(ds[i])] = 0
                                   => ds[i] \in Elements(f[m].kept)
           T == {m \in 0..n : Fine(m)}
<1>2. n \in Nat /\ DOMAIN ds = 1..n /\ \A i \in 1..n : ds[i] \in Finding
  OBVIOUS
<1>3. 0 \in T
  <2>1. f[0].budget = counts /\ f[0].kept = <<>>
    BY <1>1 DEF FilterSteps
  <2>2. Elements(<<>>) = {}
    BY DEF Elements
  <2>3. 0 \in 0..n
    BY <1>2
  <2>4. \A k \in Key : counts[k] \in Nat
    OBVIOUS
  <2> QED BY <2>1, <2>2, <2>3, <2>4
<1>4. ASSUME NEW m \in 0..n, m # n, m \in T PROVE m + 1 \in T
  <2> DEFINE d == ds[m + 1]
  <2>1. /\ m \in Nat /\ m + 1 \in 0..n /\ m + 1 \in 1..n
        /\ d \in Finding
        /\ f[m] \in FilterState /\ f[m + 1] \in FilterState
        /\ \/ Consumes(f[m], f[m + 1], KeyV1(d))
           \/ Consumes(f[m], f[m + 1], KeyV2(d))
           \/ Keeps(f[m], f[m + 1], d)
    BY <1>1, <1>4, FilterTurn
  <2>2. Fine(m)
    BY <1>4
  <2>3. /\ \A k \in Key : f[m + 1].budget[k] <= f[m].budget[k]
        /\ Elements(f[m].kept) \subseteq Elements(f[m + 1].kept)
        /\ Elements(f[m + 1].kept) \subseteq Elements(f[m].kept) \cup {d}
    <3> HIDE DEF d
    <3> QED BY <2>1, TurnShrinks
  <2>4. \A k \in Key : f[m + 1].budget[k] <= counts[k]
    <3>1. \A k \in Key : f[m].budget[k] \in Int /\ f[m + 1].budget[k] \in Int /\ counts[k] \in Int
      BY <2>1 DEF FilterState
    <3> QED BY <2>2, <2>3, <3>1
  <2>5. Elements(f[m + 1].kept) \subseteq Elements(ds)
    <3>1. d \in Elements(ds)
      BY <1>2, <2>1 DEF Elements
    <3> QED BY <2>2, <2>3, <3>1
  <2>6. ASSUME counts[KeyV1(d)] + counts[KeyV2(d)] = 0
        PROVE  d \in Elements(f[m + 1].kept)
    <3>1. KeyV1(d) \in Key /\ KeyV2(d) \in Key
      BY <2>1, KeysOf
    <3>2. counts[KeyV1(d)] = 0 /\ counts[KeyV2(d)] = 0
      <4>1. counts[KeyV1(d)] \in Nat /\ counts[KeyV2(d)] \in Nat
        BY <3>1
      <4> QED BY <2>6, <4>1
    <3>3. f[m].budget[KeyV1(d)] \in Nat /\ f[m].budget[KeyV2(d)] \in Nat
      BY <2>1, <3>1 DEF FilterState
    <3>4. f[m].budget[KeyV1(d)] <= 0 /\ f[m].budget[KeyV2(d)] <= 0
      BY <2>2, <3>1, <3>2
    <3>5. ~Consumes(f[m], f[m + 1], KeyV1(d)) /\ ~Consumes(f[m], f[m + 1], KeyV2(d))
      BY <3>3, <3>4 DEF Consumes
    <3>6. f[m + 1].kept = Append(f[m].kept, d) /\ f[m].kept \in Seq(Finding)
      BY <2>1, <3>5 DEF Keeps, FilterState
    <3> QED BY <2>1, <3>6, AppendElements
  <2>7. ASSUME NEW i \in 1..(m + 1), counts[KeyV1(ds[i])] + counts[KeyV2(ds[i])] = 0
        PROVE  ds[i] \in Elements(f[m + 1].kept)
    <3>1. CASE i = m + 1
      BY <2>6, <2>7, <3>1
    <3>2. CASE i \in 1..m
      BY <2>2, <2>3, <2>7, <3>2
    <3> QED BY <2>1, <3>1, <3>2
  <2> QED BY <2>1, <2>4, <2>5, <2>7
<1> HIDE DEF T
<1>5. \A m \in 0..n : m \in T
  BY <1>2, <1>3, <1>4, UpTo
<1>6. Fine(n)
  BY <1>2, <1>5 DEF T
<1>7. f[n] \in FilterState
  BY <1>1, <1>2 DEF FilterSteps
<1>8. Filtered(counts, ds) \in Seq(Finding)
  BY <1>1, <1>7 DEF FilterState
<1> QED BY <1>1, <1>2, <1>6, <1>8 DEF Elements

\* filter() lets a finding through only when its key occurs more often than it
\* has entries: a turn that met the key spent an entry of it or had none left.
LEMMA KeptIsNew ==
    ASSUME NEW counts \in [Key -> Nat], NEW ds \in Seq(Finding),
           NEW e \in Elements(Filtered(counts, ds))
    PROVE  Occurrences(KeyV2(e), ds) > counts[KeyV2(e)]
<1> DEFINE n == Len(ds)
           Seen(m, d) == Cardinality(Upfront(KeyV2(d), ds, m))
<1>1. PICK f : FilterSteps(counts, ds, f) /\ Filtered(counts, ds) = f[n].kept
  BY FilterUnfold
<1> DEFINE Fine(m) ==
              /\ \A d \in Finding : f[m].budget[KeyV2(d)] + Seen(m, d) >= counts[KeyV2(d)]
              /\ \A d \in Elements(f[m].kept) : Seen(m, d) > counts[KeyV2(d)]
           T == {m \in 0..n : Fine(m)}
<1>2. n \in Nat
  OBVIOUS
<1>3. \A m \in Nat : \A d \in Finding : Seen(m, d) \in Nat
  BY UpfrontFinite
<1>4. 0 \in T
  <2>1. f[0].budget = counts /\ f[0].kept = <<>>
    BY <1>1 DEF FilterSteps
  <2>2. Elements(<<>>) = {}
    BY DEF Elements
  <2>3. \A d \in Finding : counts[KeyV2(d)] \in Nat /\ Seen(0, d) \in Nat
    BY <1>3, KeysOf
  <2>4. 0 \in 0..n
    BY <1>2
  <2> HIDE DEF Seen
  <2> QED BY <2>1, <2>2, <2>3, <2>4
<1>5. ASSUME NEW m \in 0..n, m # n, m \in T PROVE m + 1 \in T
  <2> DEFINE c == ds[m + 1]
  <2>1. /\ m \in Nat /\ m + 1 \in 0..n /\ m + 1 \in 1..n
        /\ c \in Finding
        /\ f[m] \in FilterState /\ f[m + 1] \in FilterState
        /\ \/ Consumes(f[m], f[m + 1], KeyV1(c))
           \/ Consumes(f[m], f[m + 1], KeyV2(c))
           \/ Keeps(f[m], f[m + 1], c)
    BY <1>1, <1>5, FilterTurn
  <2>2. Fine(m)
    BY <1>5
  <2>3. \A d \in Finding :
          Seen(m + 1, d) = IF KeyV2(c) = KeyV2(d) THEN Seen(m, d) + 1 ELSE Seen(m, d)
    BY <2>1, UpfrontNext
  <2>4. \A d \in Finding : /\ Seen(m, d) \in Nat /\ Seen(m + 1, d) \in Nat
                           /\ counts[KeyV2(d)] \in Nat
                           /\ f[m].budget[KeyV2(d)] \in Nat
                           /\ f[m + 1].budget[KeyV2(d)] \in Nat
    <3> TAKE d \in Finding
    <3>1. KeyV2(d) \in Key
      BY KeysOf
    <3>2. f[m].budget \in [Key -> Nat] /\ f[m + 1].budget \in [Key -> Nat]
      BY <2>1 DEF FilterState
    <3>3. Seen(m, d) \in Nat /\ Seen(m + 1, d) \in Nat
      BY <1>3, <2>1
    <3> HIDE DEF Seen
    <3> QED BY <3>1, <3>2, <3>3
  <2> HIDE DEF Seen
  <2>5. ASSUME NEW d \in Finding
        PROVE  f[m + 1].budget[KeyV2(d)] + Seen(m + 1, d) >= counts[KeyV2(d)]
    <3>1. f[m].budget[KeyV2(d)] + Seen(m, d) >= counts[KeyV2(d)]
      BY <2>2
    <3>2. KeyV1(c) # KeyV2(d)
      BY <2>1, KeysAssumption
    <3>3. KeyV2(d) \in Key /\ f[m].budget \in [Key -> Nat]
      BY <2>1, KeysOf DEF FilterState
    <3>4. \/ f[m + 1].budget[KeyV2(d)] = f[m].budget[KeyV2(d)]
          \/ KeyV2(c) = KeyV2(d) /\ f[m + 1].budget[KeyV2(d)] = f[m].budget[KeyV2(d)] - 1
      <4>1. CASE Consumes(f[m], f[m + 1], KeyV1(c))
        BY <3>2, <3>3, <4>1 DEF Consumes
      <4>2. CASE Consumes(f[m], f[m + 1], KeyV2(c))
        BY <3>3, <4>2 DEF Consumes
      <4>3. CASE Keeps(f[m], f[m + 1], c)
        BY <4>3 DEF Keeps
      <4> HIDE DEF c
      <4> QED BY <2>1, <4>1, <4>2, <4>3
    <3> HIDE DEF c
    <3>5. /\ Seen(m, d) \in Nat /\ Seen(m + 1, d) \in Nat /\ counts[KeyV2(d)] \in Nat
          /\ f[m].budget[KeyV2(d)] \in Nat /\ f[m + 1].budget[KeyV2(d)] \in Nat
      BY <2>4
    <3>6. Seen(m + 1, d) = IF KeyV2(c) = KeyV2(d) THEN Seen(m, d) + 1 ELSE Seen(m, d)
      BY <2>3
    <3> DEFINE before == f[m].budget[KeyV2(d)]
               after == f[m + 1].budget[KeyV2(d)]
               seenBefore == Seen(m, d)
               seenAfter == Seen(m + 1, d)
               frozenCount == counts[KeyV2(d)]
    <3>7. /\ seenBefore \in Nat /\ seenAfter \in Nat /\ frozenCount \in Nat
          /\ before \in Nat /\ after \in Nat /\ before + seenBefore >= frozenCount
      BY <3>1, <3>5
    <3>8. \/ after = before /\ seenAfter \in {seenBefore, seenBefore + 1}
          \/ after = before - 1 /\ seenAfter = seenBefore + 1
      BY <3>4, <3>6
    <3> HIDE DEF before, after, seenBefore, seenAfter, frozenCount
    <3>9. after + seenAfter >= frozenCount
      BY ONLY <3>7, <3>8
    <3> QED BY <3>9 DEF after, seenAfter, frozenCount
  <2>6. ASSUME NEW d \in Elements(f[m + 1].kept)
        PROVE  Seen(m + 1, d) > counts[KeyV2(d)]
    <3>1. f[m].kept \in Seq(Finding) /\ f[m + 1].kept \in Seq(Finding)
      BY <2>1 DEF FilterState
    <3>2. d \in Finding
      BY <2>6, <3>1 DEF Elements
    <3>3. CASE d \in Elements(f[m].kept)
      <4>1. Seen(m, d) > counts[KeyV2(d)]
        BY <2>2, <3>3
      <4> HIDE DEF c
      <4> QED BY <2>3, <2>4, <3>2, <4>1
    <3>4. CASE d \notin Elements(f[m].kept)
      <4>1. \A k : ~Consumes(f[m], f[m + 1], k)
        BY <2>6, <3>4 DEF Consumes
      <4>2. Keeps(f[m], f[m + 1], c)
        BY <2>1, <4>1
      <4>3. d = c
        BY <2>1, <2>6, <3>1, <3>4, <4>2, AppendElements DEF Keeps
      <4>4. f[m].budget[KeyV2(d)] = 0
        BY <4>2, <4>3 DEF Keeps
      <4>5. f[m].budget[KeyV2(d)] + Seen(m, d) >= counts[KeyV2(d)]
        BY <2>2, <3>2
      <4>6. Seen(m + 1, d) = Seen(m, d) + 1
        BY <2>3, <3>2, <4>3
      <4> HIDE DEF c
      <4> QED BY <2>4, <3>2, <4>4, <4>5, <4>6
    <3> QED BY <3>3, <3>4
  <2> QED BY <2>1, <2>5, <2>6
<1> HIDE DEF T
<1>6. \A m \in 0..n : m \in T
  BY <1>2, <1>4, <1>5, UpTo
<1>7. Fine(n)
  BY <1>2, <1>6 DEF T
<1>8. Occurrences(KeyV2(e), ds) = Seen(n, e)
  BY OccurrencesUpfront
<1> HIDE DEF Seen
<1> QED BY <1>1, <1>7, <1>8

\* The findings of key k among ds that have no entry in the old form, those in
\* kept aside.
Eaten(counts, ds, m, k, kept) ==
    {d \in {ds[i] : i \in 1..m} : KeyV2(d) = k /\ counts[KeyV1(d)] = 0} \ Elements(kept)

\* filter() hides at most as many of them as the key has entries: each one it
\* hides has spent an entry of the key.
LEMMA EatenBound ==
    ASSUME NEW counts \in [Key -> Nat], NEW ds \in Seq(Finding), NEW k \in Key
    PROVE  LET hidden == {d \in Elements(ds) : KeyV2(d) = k /\ counts[KeyV1(d)] = 0}
                            \ Elements(Filtered(counts, ds))
           IN  IsFiniteSet(hidden) /\ Cardinality(hidden) <= counts[k]
<1> DEFINE n == Len(ds)
<1>1. PICK f : FilterSteps(counts, ds, f) /\ Filtered(counts, ds) = f[n].kept
  BY FilterUnfold
<1> DEFINE E(m) == Eaten(counts, ds, m, k, f[m].kept)
           Fine(m) == /\ \A j \in Key : f[m].budget[j] <= counts[j]
                      /\ IsFiniteSet(E(m))
                      /\ Cardinality(E(m)) + f[m].budget[k] <= counts[k]
           T == {m \in 0..n : Fine(m)}
<1>2. n \in Nat /\ DOMAIN ds = 1..n
  OBVIOUS
<1>3. 0 \in T
  <2>1. f[0].budget = counts
    BY <1>1 DEF FilterSteps
  <2>2. E(0) = {}
    BY DEF Eaten
  <2>3. 0 \in 0..n
    BY <1>2
  <2>4. \A j \in Key : counts[j] \in Nat
    OBVIOUS
  <2>5. IsFiniteSet(E(0)) /\ Cardinality(E(0)) = 0
    BY <2>2, FS_EmptySet
  <2> HIDE DEF E
  <2> QED BY <2>1, <2>3, <2>4, <2>5
<1>4. ASSUME NEW m \in 0..n, m # n, m \in T PROVE m + 1 \in T
  <2> DEFINE c == ds[m + 1]
  <2>1. /\ m \in Nat /\ m + 1 \in 0..n /\ m + 1 \in 1..n
        /\ c \in Finding
        /\ f[m] \in FilterState /\ f[m + 1] \in FilterState
        /\ \/ Consumes(f[m], f[m + 1], KeyV1(c))
           \/ Consumes(f[m], f[m + 1], KeyV2(c))
           \/ Keeps(f[m], f[m + 1], c)
    BY <1>1, <1>4, FilterTurn
  <2>2. Fine(m)
    BY <1>4
  <2>3. /\ \A j \in Key : f[m + 1].budget[j] <= f[m].budget[j]
        /\ Elements(f[m].kept) \subseteq Elements(f[m + 1].kept)
    <3> HIDE DEF c
    <3> QED BY <2>1, TurnShrinks
  <2>4. \A j \in Key : f[m].budget[j] \in Nat /\ f[m + 1].budget[j] \in Nat /\ counts[j] \in Nat
    BY <2>1 DEF FilterState
  <2>5. \A j \in Key : f[m + 1].budget[j] <= counts[j]
    BY <2>2, <2>3, <2>4
  <2>6. E(m + 1) \subseteq E(m) \cup {c}
    <3>1. 1..(m + 1) = (1..m) \cup {m + 1}
      BY <2>1
    <3> QED BY <2>3, <3>1 DEF Eaten
  <2>7. Cardinality(E(m)) \in Nat
    BY <2>2, FS_CardinalityType
  <2>8. /\ IsFiniteSet(E(m) \cup {c})
        /\ Cardinality(E(m) \cup {c}) <= Cardinality(E(m)) + 1
    <3> DEFINE Em == E(m)
    <3>1. IsFiniteSet(Em) /\ Cardinality(Em) \in Nat
      BY <2>2, <2>7
    <3> HIDE DEF E, c, Em
    <3>2. /\ IsFiniteSet(Em \cup {c})
          /\ Cardinality(Em \cup {c}) = IF c \in Em THEN Cardinality(Em) ELSE Cardinality(Em) + 1
      BY <3>1, FS_AddElement, Zenon
    <3>3. Cardinality(Em \cup {c}) <= Cardinality(Em) + 1
      BY <3>1, <3>2
    <3> QED BY <3>2, <3>3 DEF Em
  <2>9. IsFiniteSet(E(m + 1)) /\ Cardinality(E(m + 1)) <= Cardinality(E(m)) + 1
    <3>1. /\ IsFiniteSet(E(m + 1)) /\ Cardinality(E(m + 1)) \in Nat
          /\ Cardinality(E(m + 1)) <= Cardinality(E(m) \cup {c})
          /\ Cardinality(E(m) \cup {c}) \in Nat
      <4> HIDE DEF E, c
      <4> QED BY <2>6, <2>8, FS_Subset, FS_CardinalityType
    <3> HIDE DEF E, c
    <3> QED BY <2>7, <2>8, <3>1
  <2>10. c \notin E(m + 1) =>
           IsFiniteSet(E(m + 1)) /\ Cardinality(E(m + 1)) <= Cardinality(E(m))
    <3>1. c \notin E(m + 1) => E(m + 1) \subseteq E(m)
      BY <2>6
    <3> HIDE DEF E
    <3> QED BY <2>2, <3>1, FS_Subset
  <2>11. c \in E(m + 1) => f[m + 1].budget[k] = f[m].budget[k] - 1
    <3> SUFFICES ASSUME c \in E(m + 1)
                 PROVE  f[m + 1].budget[k] = f[m].budget[k] - 1
      OBVIOUS
    <3>1. KeyV2(c) = k /\ counts[KeyV1(c)] = 0 /\ c \notin Elements(f[m + 1].kept)
      BY DEF Eaten
    <3>2. ~Keeps(f[m], f[m + 1], c)
      <4>1. f[m].kept \in Seq(Finding)
        BY <2>1 DEF FilterState
      <4>2. c \in Elements(Append(f[m].kept, c))
        <5> HIDE DEF c
        <5> QED BY <2>1, <4>1, AppendElements
      <4> QED BY <3>1, <4>2 DEF Keeps
    <3>3. ~Consumes(f[m], f[m + 1], KeyV1(c))
      <4>1. KeyV1(c) \in Key
        BY <2>1, KeysOf
      <4>2. f[m].budget[KeyV1(c)] <= 0
        BY <2>2, <3>1, <4>1
      <4> QED BY <2>4, <4>1, <4>2 DEF Consumes
    <3>4. Consumes(f[m], f[m + 1], k)
      BY <2>1, <3>1, <3>2, <3>3
    <3> QED BY <2>1, <3>4 DEF Consumes, FilterState
  <2>12. Cardinality(E(m + 1)) + f[m + 1].budget[k] <= counts[k]
    <3>1. Cardinality(E(m + 1)) \in Nat
      BY <2>9, FS_CardinalityType
    <3> DEFINE before == Cardinality(E(m))
               after == Cardinality(E(m + 1))
               left == f[m].budget[k]
               leftAfter == f[m + 1].budget[k]
               count == counts[k]
    <3>2. before + left <= count
      BY <2>2
    <3>3. leftAfter <= left
      BY <2>3
    <3>4. before \in Nat /\ after \in Nat /\ left \in Nat /\ leftAfter \in Nat /\ count \in Nat
      BY <2>4, <2>7, <3>1
    <3>5. after <= before + 1
      BY <2>9
    <3>6. c \notin E(m + 1) => after <= before
      BY <2>10
    <3>7. c \in E(m + 1) => leftAfter = left - 1
      BY <2>11
    <3>8. after + leftAfter <= count
      <4> HIDE DEF before, after, left, leftAfter, count, E, c
      <4>1. CASE c \in E(m + 1)
        BY <3>2, <3>4, <3>5, <3>7, <4>1
      <4>2. CASE c \notin E(m + 1)
        BY <3>2, <3>3, <3>4, <3>6, <4>2
      <4> QED BY <4>1, <4>2
    <3> QED BY <3>8
  <2> HIDE DEF E
  <2> QED BY <2>1, <2>5, <2>9, <2>12
<1> HIDE DEF T
<1>5. \A m \in 0..n : m \in T
  BY <1>2, <1>3, <1>4, UpTo
<1>6. Fine(n)
  BY <1>2, <1>5 DEF T
<1>7. f[n].budget[k] \in Nat /\ counts[k] \in Nat
  BY <1>1, <1>2 DEF FilterSteps, FilterState
<1>8. E(n) = {d \in Elements(ds) : KeyV2(d) = k /\ counts[KeyV1(d)] = 0}
                \ Elements(Filtered(counts, ds))
  BY <1>1, <1>2 DEF Eaten, Elements
<1>9. Cardinality(E(n)) \in Nat
  BY <1>6, FS_CardinalityType
<1> HIDE DEF E
<1> QED BY <1>6, <1>7, <1>8, <1>9

-----------------------------------------------------------------------------
(***************************************************************************)
(* The inductive invariant.                                                *)
(***************************************************************************)

ResultType ==
    [attempted_tus : Nat, analyzed_tus : Nat, broken_tus : Nat,
     incomplete_functions : Nat, findings : Nat, report_only : Nat,
     analyze_broken_tus : BOOLEAN, accept_partial : BOOLEAN,
     no_inputs : BOOLEAN, no_rules : BOOLEAN, tool_failed : BOOLEAN,
     summary_load_failed : BOOLEAN, summary_stale : BOOLEAN,
     summary_save_failed : BOOLEAN, baseline_load_failed : BOOLEAN,
     baseline_write_failed : BOOLEAN, baseline_recorded : BOOLEAN,
     report_write_failed : BOOLEAN]

\* The types, for one: what TypeOK says, and the type of the result.
WalkOK ==
    /\ unit \in (1..(Len(request.files) + 1)) \X (Nat \ {0})
    /\ UnitsLeft /\ unit[2] # 1 => unit[2] \in DOMAIN request.commands[Current]
    /\ ~UnitsLeft => unit[2] = 1

Shape ==
    /\ request \in RequestType
    /\ phase \in {"start", "pass1", "accept", "pass2", "filter", "done"}
    /\ WalkOK
    /\ toolResult \in BOOLEAN
    /\ full \subseteq store /\ store \subseteq File /\ examined \subseteq File
    /\ brokenTUs \subseteq Sources /\ incomplete \subseteq Sources
    /\ diagnostics \in Seq(Finding) /\ frozen \in Seq(Finding)
    /\ visible \subseteq Finding
    /\ result \in ResultType /\ result.findings >= result.report_only
    /\ baseline \in BaselineType
    /\ runs \in Nat

\* The run analyses something.
Runs == request.files # <<>> /\ request.rulesEnabled

\* Where the run is, and what is still untouched there.
Phases ==
    /\ phase \in {"pass1", "accept", "pass2", "filter"} => Runs
    /\ phase = "start" => visible = {} /\ unit[1] = 1
    /\ phase = "accept" => ~request.wholeProgram
    /\ phase = "pass1" => request.wholeProgram
    /\ phase \in {"start", "pass1", "accept"} =>
         /\ examined = {} /\ incomplete = {} /\ diagnostics = <<>>
         /\ result.analyzed_tus = 0
    /\ phase \in {"filter", "done"} /\ Runs => ~UnitsLeft
    /\ phase = "done" /\ ~Runs =>
         /\ result.no_inputs \/ result.no_rules
         /\ diagnostics = <<>> /\ visible = {} /\ examined = {}

\* What the result repeats of the request.
Flags ==
    /\ phase # "start" =>
         /\ result.attempted_tus = Len(request.files)
         /\ result.accept_partial = request.acceptPartial
         /\ result.analyze_broken_tus = request.analyzeBroken
    /\ request.writeBaseline = "none" => ~result.baseline_recorded
    /\ phase \in {"filter", "done"} /\ Runs =>
         /\ result.broken_tus = Cardinality(brokenTUs)
         /\ result.incomplete_functions = Cardinality(incomplete)

\* No file has several compile commands.
OneCommand == \A f \in Sources : Len(request.commands[f]) <= 1

\* Every file the walk has passed is analysed, or broken and recorded as such,
\* or leaves the tally behind the walk.
Tallied ==
    /\ examined \cap request.gaps \subseteq incomplete
    /\ phase \in {"pass2", "filter", "done"} /\ Runs =>
         /\ request.analyzeBroken => brokenTUs = {}
         /\ OneCommand =>
              /\ result.analyzed_tus + Cardinality(brokenTUs) <= unit[1] - 1
              /\ result.analyzed_tus + Cardinality(brokenTUs) = unit[1] - 1 =>
                   \A i \in 1..(unit[1] - 1) : request.files[i] \in examined \cup brokenTUs

\* The findings of file f that need no more than the summaries of known, as far
\* as they are not hidden, are there.
SeenIn(f, known) ==
    \A i \in DOMAIN request.emits[f] :
        request.emits[f][i].needs \subseteq known =>
            request.emits[f][i].finding \in Elements(diagnostics) \cup request.hidden

Found == \A f \in examined : SeenIn(f, {f})

\* A run with --whole-program in which every unit compiles and nothing is loaded.
Whole == request.wholeProgram /\ Runs /\ ~Loads /\ AllCompile

\* What the store has of the files in S says all, and so the rules saw what it shows.
SeenFrom(S) ==
    /\ phase \in {"pass1", "pass2", "filter", "done"} => S \cap store \subseteq full
    /\ phase \in {"pass2", "filter", "done"} =>
         \A i \in 1..(unit[1] - 1) : SeenIn(request.files[i], S \cup {request.files[i]})

SeenWhole ==
    Whole =>
        /\ phase = "pass1" => \A i \in 1..(unit[1] - 1) : request.files[i] \in store
        /\ phase \in {"pass2", "filter", "done"} => Sources \subseteq store
        /\ \A S \in SUBSET Sources : Bottomup(S) => SeenFrom(S)

\* The report, as a function of the findings and the baseline.
Shown ==
    Reported /\ Runs =>
        /\ visible = Elements(Remaining) \ request.low
        /\ result.findings = Cardinality(visible)
        /\ result.report_only = Cardinality(visible \cap request.reportOnly)

\* The baseline has an entry for each finding it was made from.
Entered ==
    /\ \A k \in Key : baseline.count[k] >= Occurrences(k, frozen)
    /\ ~baseline.present => frozen = <<>>

IInv == Shape /\ Phases /\ Flags /\ Tallied /\ Found /\ SeenWhole /\ Shown /\ Entered

-----------------------------------------------------------------------------
(* Lists and units *)

LEMMA ConcatElements ==
    ASSUME NEW S, NEW s \in Seq(S), NEW t \in Seq(S)
    PROVE  s \o t \in Seq(S) /\ Elements(s \o t) = Elements(s) \cup Elements(t)
<1> DEFINE u == s \o t
<1>1. /\ u \in Seq(S)
      /\ DOMAIN u = 1..(Len(s) + Len(t)) /\ DOMAIN s = 1..Len(s) /\ DOMAIN t = 1..Len(t)
      /\ Len(s) \in Nat /\ Len(t) \in Nat
      /\ \A i \in 1..Len(s) : u[i] = s[i]
      /\ \A i \in 1..Len(t) : u[Len(s) + i] = t[i]
  OBVIOUS
<1> HIDE DEF u
<1>2. ASSUME NEW i \in DOMAIN u PROVE u[i] \in Elements(s) \cup Elements(t)
  <2>1. CASE i \in 1..Len(s)
    BY <1>1, <2>1 DEF Elements
  <2>2. CASE i \notin 1..Len(s)
    <3>1. i - Len(s) \in 1..Len(t) /\ Len(s) + (i - Len(s)) = i
      BY <1>1, <2>2
    <3>2. u[i] = t[i - Len(s)]
      BY <1>1, <3>1
    <3> QED BY <1>1, <3>1, <3>2 DEF Elements
  <2> QED BY <2>1, <2>2
<1>3. ASSUME NEW i \in DOMAIN s PROVE s[i] \in Elements(u)
  <2>1. i \in DOMAIN u /\ u[i] = s[i]
    BY <1>1
  <2> QED BY <2>1 DEF Elements
<1>4. ASSUME NEW i \in DOMAIN t PROVE t[i] \in Elements(u)
  <2>1. Len(s) + i \in DOMAIN u /\ u[Len(s) + i] = t[i]
    BY <1>1
  <2> QED BY <2>1 DEF Elements
<1> QED BY <1>1, <1>2, <1>3, <1>4 DEF Elements, u

LEMMA ElementsFinite ==
    ASSUME NEW S, NEW s \in Seq(S)
    PROVE  IsFiniteSet(Elements(s)) /\ Elements(s) \subseteq S
<1> DEFINE f == [i \in 1..Len(s) |-> s[i]]
<1>1. DOMAIN s = 1..Len(s) /\ Len(s) \in Nat
  OBVIOUS
<1>2. IsFiniteSet(1..Len(s))
  BY <1>1, FS_Interval
<1>3. f \in Surjection(1..Len(s), Elements(s))
  BY <1>1 DEF Surjection, Elements
<1>4. IsFiniteSet(Elements(s))
  <2> HIDE DEF f
  <2> QED BY <1>2, <1>3, FS_Surjection
<1> QED BY <1>4 DEF Elements

\* The fields of a request that the steps read.
LEMMA RequestFields ==
    ASSUME NEW r \in RequestType
    PROVE  /\ r.files \in Seq(File) /\ r.commands \in [File -> Seq({"ok", "broken", "lost"})]
           /\ r.emits \in [File -> Seq([finding : Finding, needs : SUBSET File])]
           /\ r.wholeProgram \in BOOLEAN /\ r.analyzeBroken \in BOOLEAN
           /\ r.acceptPartial \in BOOLEAN /\ r.useBaseline \in BOOLEAN
           /\ r.reportWritable \in BOOLEAN /\ r.rulesEnabled \in BOOLEAN
           /\ Elements(r.files) \subseteq File
<1>1. r.files \in Seq(File)
  BY DEF RequestType
<1>2. Elements(r.files) \subseteq File
  BY <1>1, ElementsFinite
<1> QED BY <1>2 DEF RequestType

\* What the rules find in a unit of f, and nothing else.
LEMMA RunAllElements ==
    ASSUME NEW r \in RequestType, NEW f \in File, NEW known
    PROVE  /\ runAll(r, f, known) \in Seq(Finding)
           /\ \A i \in DOMAIN r.emits[f] :
                r.emits[f][i].needs \subseteq known \cup {f}
                  => r.emits[f][i].finding \in Elements(runAll(r, f, known))
<1> DEFINE E == [finding : Finding, needs : SUBSET File]
           all == r.emits[f]
           seen == Among(all, {e \in Elements(all) : e.needs \subseteq known \cup {f}})
<1>1. all \in Seq(E)
  BY RequestFields
<1>2. /\ seen \in Seq(E)
      /\ Elements(seen) = Elements(all) \cap {e \in Elements(all) : e.needs \subseteq known \cup {f}}
  <2> HIDE DEF E, all
  <2> QED BY <1>1, AmongElements
<1>3. runAll(r, f, known) = [i \in DOMAIN seen |-> seen[i].finding]
  BY DEF runAll
<1> HIDE DEF seen
<1>4. DOMAIN seen = 1..Len(seen) /\ Len(seen) \in Nat /\ \A i \in DOMAIN seen : seen[i] \in E
  <2>1. seen \in Seq(E)
    BY <1>2
  <2> HIDE DEF E
  <2> QED BY <2>1
<1>5. \A i \in DOMAIN seen : seen[i].finding \in Finding
  BY <1>4
<1>6. runAll(r, f, known) \in Seq(Finding)
  BY <1>3, <1>4, <1>5, SeqDef
<1>7. ASSUME NEW i \in DOMAIN all, all[i].needs \subseteq known \cup {f}
      PROVE  all[i].finding \in Elements(runAll(r, f, known))
  <2>1. all[i] \in Elements(seen)
    BY <1>2, <1>7 DEF Elements
  <2>2. PICK j \in DOMAIN seen : seen[j] = all[i]
    BY <2>1 DEF Elements
  <2>3. j \in DOMAIN runAll(r, f, known) /\ runAll(r, f, known)[j] = all[i].finding
    BY <1>3, <2>2
  <2> QED BY <2>3 DEF Elements
<1> QED BY <1>6, <1>7

\* The unit the walk is at.
LEMMA AtUnit ==
    ASSUME request \in RequestType, WalkOK, UnitsLeft
    PROVE  /\ unit[1] \in 1..Len(request.files) /\ unit[2] \in Nat \ {0}
           /\ unit = <<unit[1], unit[2]>>
           /\ Current \in Sources /\ Current \in File
           /\ request.commands[Current] \in Seq({"ok", "broken", "lost"})
           /\ request.commands[Current] # <<>> =>
                unit[2] \in DOMAIN request.commands[Current]
<1>1. /\ request.files \in Seq(File)
      /\ request.commands \in [File -> Seq({"ok", "broken", "lost"})]
  BY RequestFields
<1>2. /\ unit[1] \in 1..Len(request.files) /\ unit[2] \in Nat \ {0}
      /\ unit = <<unit[1], unit[2]>>
  BY <1>1 DEF WalkOK, UnitsLeft
<1>3. Current \in Sources /\ Current \in File
  BY <1>1, <1>2 DEF Current, Sources, Elements
<1>4. request.commands[Current] \in Seq({"ok", "broken", "lost"})
  BY <1>1, <1>3
<1>5. request.commands[Current] # <<>> => 1 \in DOMAIN request.commands[Current]
  BY <1>4
<1> QED BY <1>2, <1>3, <1>4, <1>5 DEF WalkOK

\* One step of the walk: on to the next command of the file, or past the file
\* with its last command.
LEMMA WalkOn ==
    ASSUME request \in RequestType, WalkOK, UnitsLeft, unit' = NextUnit, request' = request
    PROVE  /\ WalkOK'
           /\ \/ unit'[1] = unit[1] /\ ~OneCommand
              \/ unit'[1] = unit[1] + 1
<1> DEFINE c == request.commands[Current]
<1>1. /\ unit[1] \in 1..Len(request.files) /\ unit[2] \in Nat \ {0}
      /\ Current \in Sources
      /\ c \in Seq({"ok", "broken", "lost"})
  BY AtUnit
<1>2. Len(request.files) \in Nat /\ Len(c) \in Nat /\ DOMAIN c = 1..Len(c)
  BY <1>1, RequestFields
<1>3. CASE unit[2] < Len(c)
  <2>1. unit' = <<unit[1], unit[2] + 1>>
    BY <1>3 DEF NextUnit
  <2>2. unit'[1] = unit[1] /\ unit'[2] = unit[2] + 1
    BY <2>1
  <2>3. Current' = Current
    BY <2>2 DEF Current
  <2>4. unit' \in (1..(Len(request.files) + 1)) \X (Nat \ {0})
    BY <1>1, <1>2, <2>1
  <2>5. unit'[2] \in DOMAIN c
    BY <1>1, <1>2, <1>3, <2>2
  <2>6. UnitsLeft'
    BY <2>2 DEF UnitsLeft
  <2>7. WalkOK'
    BY <2>3, <2>4, <2>5, <2>6 DEF WalkOK
  <2>8. ~OneCommand
    BY <1>1, <1>2, <1>3 DEF OneCommand
  <2> QED BY <2>2, <2>7, <2>8
<1>4. CASE ~(unit[2] < Len(c))
  <2>1. unit' = <<unit[1] + 1, 1>>
    BY <1>4 DEF NextUnit
  <2>2. unit'[1] = unit[1] + 1 /\ unit'[2] = 1
    BY <2>1
  <2>3. unit' \in (1..(Len(request.files) + 1)) \X (Nat \ {0})
    BY <1>1, <1>2, <2>1
  <2>4. WalkOK'
    BY <2>2, <2>3 DEF WalkOK
  <2> QED BY <2>2, <2>4
<1> QED BY <1>3, <1>4

\* The walk starts on the first command of the first file.
LEMMA WalkStart ==
    ASSUME NEW r \in RequestType, NEW u, u = <<1, 1>>
    PROVE  /\ u \in (1..(Len(r.files) + 1)) \X (Nat \ {0})
           /\ u[1] = 1 /\ u[2] = 1
<1>1. Len(r.files) \in Nat
  BY RequestFields
<1> QED BY <1>1

\* The walk has passed every file when no unit is left.
LEMMA WalkEnd ==
    ASSUME request \in RequestType, WalkOK, ~UnitsLeft
    PROVE  /\ unit[1] - 1 = Len(request.files)
           /\ Sources = {request.files[i] : i \in 1..(unit[1] - 1)}
<1>1. request.files \in Seq(File)
  BY RequestFields
<1>2. Len(request.files) \in Nat /\ DOMAIN request.files = 1..Len(request.files)
  BY <1>1
<1>3. unit[1] = Len(request.files) + 1
  BY <1>2 DEF WalkOK, UnitsLeft
<1> QED BY <1>2, <1>3 DEF Sources, Elements

LEMMA WalkStill ==
    ASSUME WalkOK, unit' = unit, request' = request
    PROVE  WalkOK' /\ UnitsLeft' = UnitsLeft /\ Current' = Current /\ Sources' = Sources
BY DEF WalkOK, UnitsLeft, Current, Sources

LEMMA OccurrencesType ==
    ASSUME NEW ds \in Seq(Finding), NEW k
    PROVE  Occurrences(k, ds) \in Nat
<1>1. Len(ds) \in Nat
  OBVIOUS
<1> QED BY <1>1, OccurrencesUpfront, UpfrontFinite

\* A prefix of a list of findings.
LEMMA PrefixType ==
    ASSUME NEW ds \in Seq(Finding), NEW n \in 0..Len(ds)
    PROVE  SubSeq(ds, 1, n) \in Seq(Finding)
BY SubSeqProperties

-----------------------------------------------------------------------------
(* Types *)

LEMMA NoResultType ==
    /\ NoResult \in ResultType /\ NoResult.findings = 0 /\ NoResult.report_only = 0
    /\ NoResult.analyzed_tus = 0 /\ ~NoResult.baseline_recorded
BY DEF NoResult, ResultType

\* The counts of a list: it has no fewer findings than experimental ones.
LEMMA CountedType ==
    ASSUME result \in ResultType, diagnostics \in Seq(Finding)
    PROVE  /\ Counted(diagnostics) \in ResultType
           /\ Counted(diagnostics).findings >= Counted(diagnostics).report_only
           /\ Counted(diagnostics).attempted_tus = result.attempted_tus
           /\ Counted(diagnostics).analyzed_tus = result.analyzed_tus
           /\ Counted(diagnostics).broken_tus = result.broken_tus
           /\ Counted(diagnostics).incomplete_functions = result.incomplete_functions
           /\ Counted(diagnostics).accept_partial = result.accept_partial
           /\ Counted(diagnostics).analyze_broken_tus = result.analyze_broken_tus
<1> DEFINE n == Len(diagnostics)
           some == {i \in DOMAIN diagnostics : diagnostics[i] \in request.reportOnly}
           k == Cardinality(some)
<1>1. n \in Nat /\ DOMAIN diagnostics = 1..n
  OBVIOUS
<1>2. IsFiniteSet(1..n) /\ Cardinality(1..n) = n
  BY <1>1, FS_Interval
<1>3. some \subseteq 1..n
  BY <1>1
<1> HIDE DEF some, n
<1>4. k \in Nat /\ k <= n
  <2>1. IsFiniteSet(some) /\ Cardinality(some) <= Cardinality(1..n)
    <3> DEFINE all == 1..n
    <3>1. IsFiniteSet(all) /\ some \subseteq all
      BY <1>2, <1>3
    <3> HIDE DEF all
    <3>2. IsFiniteSet(some) /\ Cardinality(some) <= Cardinality(all)
      BY <3>1, FS_Subset
    <3> QED BY <3>2 DEF all
  <2>2. Cardinality(some) \in Nat
    BY <2>1, FS_CardinalityType
  <2> QED BY <1>2, <2>1, <2>2
<1>5. Counted(diagnostics) = [result EXCEPT !.findings = n, !.report_only = k]
  BY DEF Counted, n, some
<1> HIDE DEF k
<1> QED BY <1>1, <1>4, <1>5 DEF ResultType

\* What each step makes of the result.
LEMMA RefuseResult ==
    ASSUME request \in RequestType, Refuse
    PROVE  /\ result' \in ResultType /\ result'.findings = 0 /\ result'.report_only = 0
           /\ result'.attempted_tus = Len(request.files)
           /\ result'.accept_partial = request.acceptPartial
           /\ result'.analyze_broken_tus = request.analyzeBroken
           /\ result'.no_inputs \/ result'.no_rules
           /\ ~result'.baseline_recorded
<1>1. /\ Len(request.files) \in Nat /\ request.acceptPartial \in BOOLEAN
      /\ request.analyzeBroken \in BOOLEAN
  BY RequestFields
<1>2. result' = [NoResult EXCEPT !.attempted_tus = Len(request.files),
                                 !.analyze_broken_tus = request.analyzeBroken,
                                 !.accept_partial = request.acceptPartial,
                                 !.no_inputs = request.files = <<>>,
                                 !.no_rules = request.files # <<>>]
  BY DEF Refuse
<1> QED BY <1>1, <1>2 DEF NoResult, ResultType

LEMMA LoadResult ==
    ASSUME request \in RequestType, LoadSummaries
    PROVE  /\ result' \in ResultType /\ result'.findings = 0 /\ result'.report_only = 0
           /\ result'.attempted_tus = Len(request.files)
           /\ result'.analyzed_tus = 0
           /\ result'.accept_partial = request.acceptPartial
           /\ result'.analyze_broken_tus = request.analyzeBroken
           /\ ~result'.baseline_recorded
<1>1. /\ Len(request.files) \in Nat /\ request.acceptPartial \in BOOLEAN
      /\ request.analyzeBroken \in BOOLEAN
  BY RequestFields
<1>2. result' = [NoResult EXCEPT !.attempted_tus = Len(request.files),
                                 !.analyze_broken_tus = request.analyzeBroken,
                                 !.accept_partial = request.acceptPartial,
                                 !.summary_load_failed = request.summaryIn = "unreadable",
                                 !.summary_stale = request.summaryIn = "stale"]
  BY DEF LoadSummaries
<1> QED BY <1>1, <1>2 DEF NoResult, ResultType

\* The fields of the result that a step leaves alone.
Keeping(r, s) ==
    /\ s.attempted_tus = r.attempted_tus
    /\ s.accept_partial = r.accept_partial
    /\ s.analyze_broken_tus = r.analyze_broken_tus

LEMMA AnalyzeResult ==
    ASSUME result \in ResultType, AnalyzeUnit
    PROVE  /\ result' \in ResultType /\ Keeping(result, result')
           /\ result'.findings = result.findings /\ result'.report_only = result.report_only
           /\ result'.analyzed_tus = result.analyzed_tus + 1
           /\ result'.baseline_recorded = result.baseline_recorded
<1>1. result' = [result EXCEPT !.analyzed_tus = @ + 1]
  BY DEF AnalyzeUnit
<1> QED BY <1>1 DEF ResultType, Keeping

LEMMA AccountResult ==
    ASSUME result \in ResultType, Account, IsFiniteSet(brokenTUs), IsFiniteSet(incomplete),
           toolResult \in BOOLEAN
    PROVE  /\ result' \in ResultType /\ Keeping(result, result')
           /\ result'.findings = result.findings /\ result'.report_only = result.report_only
           /\ result'.analyzed_tus = result.analyzed_tus
           /\ result'.broken_tus = Cardinality(brokenTUs)
           /\ result'.incomplete_functions = Cardinality(incomplete)
           /\ result'.baseline_recorded = result.baseline_recorded
<1> DEFINE b == Cardinality(brokenTUs)
           c == Cardinality(incomplete)
           failed == toolResult /\ result.analyzed_tus + b < result.attempted_tus
           lost == request.summaryOut = "unwritable"
<1>1. b \in Nat /\ c \in Nat /\ failed \in BOOLEAN /\ lost \in BOOLEAN
  BY FS_CardinalityType
<1>2. result' = [result EXCEPT !.broken_tus = b, !.tool_failed = failed,
                               !.incomplete_functions = c, !.summary_save_failed = lost]
  BY DEF Account
<1> HIDE DEF b, c, failed, lost
<1>3. /\ result' \in ResultType /\ Keeping(result, result')
      /\ result'.findings = result.findings /\ result'.report_only = result.report_only
      /\ result'.analyzed_tus = result.analyzed_tus
      /\ result'.broken_tus = b /\ result'.incomplete_functions = c
      /\ result'.baseline_recorded = result.baseline_recorded
  BY <1>1, <1>2 DEF ResultType, Keeping
<1> QED BY <1>3 DEF b, c

LEMMA RecordResult ==
    ASSUME result \in ResultType, diagnostics \in Seq(Finding), RecordBaseline
    PROVE  /\ result' \in ResultType /\ Keeping(result, result')
           /\ result'.findings >= result'.report_only
           /\ result'.analyzed_tus = result.analyzed_tus
           /\ result'.broken_tus = result.broken_tus
           /\ result'.incomplete_functions = result.incomplete_functions
<1> DEFINE r == Counted(diagnostics)
<1>1. /\ r \in ResultType /\ Keeping(result, r) /\ r.findings >= r.report_only
      /\ r.analyzed_tus = result.analyzed_tus
      /\ r.broken_tus = result.broken_tus
      /\ r.incomplete_functions = result.incomplete_functions
  BY CountedType DEF Keeping
<1>2. \/ result' = [r EXCEPT !.baseline_write_failed = TRUE]
      \/ \E good \in BOOLEAN : result' = [r EXCEPT !.baseline_recorded = good,
                                                  !.baseline_write_failed = ~good]
  BY DEF RecordBaseline
<1> HIDE DEF r
<1>3. \A recorded \in BOOLEAN, failed \in BOOLEAN :
         LET t == [r EXCEPT !.baseline_recorded = recorded, !.baseline_write_failed = failed]
         IN  /\ t \in ResultType /\ Keeping(result, t) /\ t.findings >= t.report_only
             /\ t.analyzed_tus = result.analyzed_tus
             /\ t.broken_tus = result.broken_tus
             /\ t.incomplete_functions = result.incomplete_functions
  <2> TAKE recorded \in BOOLEAN, failed \in BOOLEAN
  <2> DEFINE t == [r EXCEPT !.baseline_recorded = recorded, !.baseline_write_failed = failed]
  <2>1. t \in ResultType
    BY <1>1 DEF ResultType
  <2>2. /\ t.attempted_tus = r.attempted_tus /\ t.accept_partial = r.accept_partial
        /\ t.analyze_broken_tus = r.analyze_broken_tus
        /\ t.findings = r.findings /\ t.report_only = r.report_only
        /\ t.analyzed_tus = r.analyzed_tus /\ t.broken_tus = r.broken_tus
        /\ t.incomplete_functions = r.incomplete_functions
    BY <1>1 DEF ResultType
  <2> HIDE DEF t
  <2>3. Keeping(result, t)
    BY <1>1, <2>2 DEF Keeping
  <2> QED BY <1>1, <2>1, <2>2, <2>3 DEF t
<1>4. \E recorded \in BOOLEAN, failed \in BOOLEAN :
         result' = [r EXCEPT !.baseline_recorded = recorded, !.baseline_write_failed = failed]
  <2>1. CASE result' = [r EXCEPT !.baseline_write_failed = TRUE]
    <3>1. r.baseline_recorded \in BOOLEAN
      BY <1>1 DEF ResultType
    <3>2. result' = [r EXCEPT !.baseline_recorded = r.baseline_recorded, !.baseline_write_failed = TRUE]
      BY <1>1, <2>1 DEF ResultType
    <3> QED BY <3>1, <3>2
  <2>2. ASSUME NEW good \in BOOLEAN,
               result' = [r EXCEPT !.baseline_recorded = good, !.baseline_write_failed = ~good]
        PROVE  \E recorded \in BOOLEAN, failed \in BOOLEAN :
                  result' = [r EXCEPT !.baseline_recorded = recorded, !.baseline_write_failed = failed]
    <3>1. (~good) \in BOOLEAN
      BY ONLY Zenon
    <3> QED BY ONLY <2>2, <3>1
  <2> QED BY <1>2, <2>1, <2>2
<1> QED BY <1>3, <1>4

\* What is left of the findings, and what the report makes of it.
LEMMA RemainingType ==
    ASSUME diagnostics \in Seq(Finding), baseline \in BaselineType
    PROVE  Remaining \in Seq(Finding) /\ Elements(Remaining) \subseteq Elements(diagnostics)
<1>1. baseline.count \in [Key -> Nat]
  BY DEF BaselineType
<1>2. CASE request.useBaseline /\ baseline.present
  BY <1>1, <1>2, UnlistedKept DEF Remaining
<1>3. CASE ~(request.useBaseline /\ baseline.present)
  BY <1>3 DEF Remaining
<1> QED BY <1>2, <1>3

LEMMA ReportResult ==
    ASSUME result \in ResultType, request \in RequestType,
           diagnostics \in Seq(Finding), baseline \in BaselineType, Report
    PROVE  /\ result' \in ResultType /\ Keeping(result, result')
           /\ visible' = Elements(Remaining) \ request.low /\ visible' \subseteq Finding
           /\ result'.findings = Cardinality(visible')
           /\ result'.report_only = Cardinality(visible' \cap request.reportOnly)
           /\ result'.findings >= result'.report_only
           /\ result'.analyzed_tus = result.analyzed_tus
           /\ result'.broken_tus = result.broken_tus
           /\ result'.incomplete_functions = result.incomplete_functions
           /\ result'.baseline_recorded = result.baseline_recorded
<1> DEFINE shown == Elements(Remaining) \ request.low
           n == Cardinality(shown)
           k == ReportOnlyAmong(shown)
           absent == request.useBaseline /\ ~baseline.present
           failed == ~request.reportWritable
<1>1. IsFiniteSet(Elements(Remaining)) /\ Elements(Remaining) \subseteq Finding
  BY RemainingType, ElementsFinite
<1>2. /\ visible' = shown
      /\ result' = [result EXCEPT !.findings = n, !.report_only = k,
                                  !.baseline_load_failed = absent, !.report_write_failed = failed]
  BY DEF Report
<1>3. IsFiniteSet(shown) /\ shown \subseteq Finding
  BY <1>1, FS_Subset
<1>4. k = Cardinality(shown \cap request.reportOnly)
  BY DEF ReportOnlyAmong
<1>5. n \in Nat /\ k \in Nat /\ k <= n
  <2>1. shown \cap request.reportOnly \subseteq shown
    OBVIOUS
  <2> HIDE DEF shown
  <2> QED BY <1>3, <1>4, <2>1, FS_Subset, FS_CardinalityType
<1>6. absent \in BOOLEAN /\ failed \in BOOLEAN
  OBVIOUS
<1> HIDE DEF n, k, absent, failed
<1>7. /\ result' \in ResultType /\ Keeping(result, result')
      /\ result'.findings = n /\ result'.report_only = k
      /\ result'.analyzed_tus = result.analyzed_tus
      /\ result'.broken_tus = result.broken_tus
      /\ result'.incomplete_functions = result.incomplete_functions
      /\ result'.baseline_recorded = result.baseline_recorded
  BY <1>2, <1>5, <1>6 DEF ResultType, Keeping
<1> QED BY <1>2, <1>3, <1>4, <1>5, <1>7 DEF n

LEMMA SourcesFinite ==
    ASSUME request \in RequestType
    PROVE  /\ IsFiniteSet(Sources) /\ Sources \subseteq File
           /\ \A X \in SUBSET Sources : IsFiniteSet(X)
<1>1. IsFiniteSet(Sources) /\ Sources \subseteq File
  BY RequestFields, ElementsFinite DEF Sources
<1> QED BY <1>1, FS_Subset

\* A harvest adds to the store at most the file it is of.
LEMMA HarvestType ==
    ASSUME full \subseteq store, store \subseteq File, Current \in File,
           harvestGlobal(Current) \/ UNCHANGED <<store, full>>
    PROVE  store \subseteq store' /\ full' \subseteq store' /\ store' \subseteq File
BY DEF harvestGlobal

\* Every step leaves a well-typed state.
LEMMA ShapeStep ==
    ASSUME Shape, Phases, Next
    PROVE  Shape'
<1>0. /\ request \in RequestType /\ WalkOK
      /\ phase \in {"start", "pass1", "accept", "pass2", "filter", "done"}
      /\ toolResult \in BOOLEAN
      /\ full \subseteq store /\ store \subseteq File /\ examined \subseteq File
      /\ brokenTUs \subseteq Sources /\ incomplete \subseteq Sources
      /\ diagnostics \in Seq(Finding) /\ frozen \in Seq(Finding)
      /\ visible \subseteq Finding
      /\ result \in ResultType /\ result.findings >= result.report_only
      /\ baseline \in BaselineType /\ runs \in Nat
  BY DEF Shape
<1>a. IsFiniteSet(brokenTUs) /\ IsFiniteSet(incomplete) /\ Sources \subseteq File
  BY <1>0, SourcesFinite
<1>1. CASE Refuse
  <2>1. result' \in ResultType /\ result'.findings = 0 /\ result'.report_only = 0
    BY <1>0, <1>1, RefuseResult
  <2>2. /\ request' = request /\ unit' = unit /\ phase' = "done" /\ toolResult' = toolResult
        /\ UNCHANGED <<store, full>> /\ examined' = examined /\ brokenTUs' = brokenTUs
        /\ incomplete' = incomplete /\ diagnostics' = diagnostics /\ frozen' = frozen
        /\ visible' = visible /\ baseline' = baseline /\ runs' = runs
    BY <1>1 DEF Refuse
  <2>3. WalkOK' /\ Sources' = Sources
    BY <1>0, <2>2, WalkStill
  <2> QED BY <1>0, <2>1, <2>2, <2>3 DEF Shape
<1>2. CASE LoadSummaries
  <2>1. result' \in ResultType /\ result'.findings = 0 /\ result'.report_only = 0
    BY <1>0, <1>2, LoadResult
  <2>2. /\ request' = request /\ unit' = unit /\ phase' \in {"pass1", "accept"}
        /\ toolResult' = toolResult /\ store' \in {{}, Sources} /\ full' \subseteq store'
        /\ examined' = examined /\ brokenTUs' = brokenTUs
        /\ incomplete' = incomplete /\ diagnostics' = diagnostics /\ frozen' = frozen
        /\ visible' = visible /\ baseline' = baseline /\ runs' = runs
    BY <1>2 DEF LoadSummaries, Sources
  <2>3. WalkOK' /\ Sources' = Sources
    BY <1>0, <2>2, WalkStill
  <2>4. store' \subseteq File
    BY <1>a, <2>2
  <2> QED BY <1>0, <2>1, <2>2, <2>3, <2>4 DEF Shape
<1>3. CASE HarvestUnit
  <2>1. UnitsLeft /\ unit' = NextUnit /\ request' = request
    BY <1>3 DEF HarvestUnit
  <2>2. Current \in Sources /\ Current \in File
    BY <1>0, <2>1, AtUnit
  <2>3. WalkOK' /\ Sources' = Sources
    BY <1>0, <2>1, WalkOn DEF Sources
  <2>4. /\ phase' = phase /\ toolResult' = toolResult
        /\ brokenTUs' \in {brokenTUs, brokenTUs \cup {Current}}
        /\ examined' = examined /\ result' = result
        /\ incomplete' = incomplete /\ diagnostics' = diagnostics /\ frozen' = frozen
        /\ visible' = visible /\ baseline' = baseline /\ runs' = runs
    BY <1>3 DEF HarvestUnit
  <2>5. full' \subseteq store' /\ store' \subseteq File /\ brokenTUs' \subseteq Sources
    BY <1>0, <1>3, <2>2, <2>4, HarvestType DEF HarvestUnit
  <2> QED BY <1>0, <2>1, <2>3, <2>4, <2>5 DEF Shape
<1>4. CASE BeginAnalysis
  <2>1. /\ request' = request /\ unit' = <<1, 1>> /\ phase' = "pass2"
        /\ toolResult' = toolResult /\ UNCHANGED <<store, full>> /\ brokenTUs' = {}
        /\ examined' = examined /\ result' = result
        /\ incomplete' = incomplete /\ diagnostics' = diagnostics /\ frozen' = frozen
        /\ visible' = visible /\ baseline' = baseline /\ runs' = runs
    BY <1>4 DEF BeginAnalysis
  <2>2. /\ unit' \in (1..(Len(request.files) + 1)) \X (Nat \ {0})
        /\ unit'[1] = 1 /\ unit'[2] = 1
    BY <1>0, <2>1, WalkStart
  <2>3. WalkOK'
    BY <2>1, <2>2 DEF WalkOK
  <2>4. Sources' = Sources
    BY <2>1 DEF Sources
  <2> QED BY <1>0, <2>1, <2>3, <2>4 DEF Shape
<1>5. CASE AnalyzeUnit
  <2>1. UnitsLeft /\ unit' = NextUnit /\ request' = request
    BY <1>5 DEF AnalyzeUnit
  <2>2. Current \in Sources /\ Current \in File
    BY <1>0, <2>1, AtUnit
  <2>3. WalkOK' /\ Sources' = Sources
    BY <1>0, <2>1, WalkOn DEF Sources
  <2>4. /\ result' \in ResultType
        /\ result'.findings = result.findings /\ result'.report_only = result.report_only
    BY <1>0, <1>5, AnalyzeResult
  <2>5. /\ phase' = phase /\ brokenTUs' = brokenTUs
        /\ toolResult' \in BOOLEAN
        /\ examined' = examined \cup {Current}
        /\ incomplete' = incomplete \cup (request.gaps \cap {Current})
        /\ diagnostics' = diagnostics \o runAll(request, Current, full)
        /\ frozen' = frozen /\ visible' = visible /\ baseline' = baseline /\ runs' = runs
    BY <1>0, <1>5 DEF AnalyzeUnit
  <2>6. diagnostics' \in Seq(Finding)
    BY <1>0, <2>2, <2>5, RunAllElements, ConcatElements
  <2>7. examined' \subseteq File /\ incomplete' \subseteq Sources
    BY <1>0, <2>2, <2>5
  <2>8. full' \subseteq store' /\ store' \subseteq File
    BY <1>0, <1>5, <2>2, HarvestType DEF AnalyzeUnit
  <2> QED BY <1>0, <2>1, <2>3, <2>4, <2>5, <2>6, <2>7, <2>8 DEF Shape
<1>6. CASE SkipUnit
  <2>1. UnitsLeft /\ unit' = NextUnit /\ request' = request
    BY <1>6 DEF SkipUnit
  <2>2. Current \in Sources /\ Current \in File
    BY <1>0, <2>1, AtUnit
  <2>3. WalkOK' /\ Sources' = Sources
    BY <1>0, <2>1, WalkOn DEF Sources
  <2>4. /\ phase' = phase /\ toolResult' = TRUE /\ UNCHANGED <<store, full>>
        /\ brokenTUs' = brokenTUs \cup {Current}
        /\ examined' = examined /\ result' = result
        /\ incomplete' = incomplete /\ diagnostics' = diagnostics /\ frozen' = frozen
        /\ visible' = visible /\ baseline' = baseline /\ runs' = runs
    BY <1>6 DEF SkipUnit
  <2>5. brokenTUs' \subseteq Sources
    BY <1>0, <2>2, <2>4
  <2> QED BY <1>0, <2>1, <2>3, <2>4, <2>5 DEF Shape
<1>7. CASE LoseUnit
  <2>1. UnitsLeft /\ unit' = NextUnit /\ request' = request
    BY <1>7 DEF LoseUnit
  <2>2. WalkOK' /\ Sources' = Sources
    BY <1>0, <2>1, WalkOn DEF Sources
  <2>3. /\ phase' = phase /\ toolResult' = TRUE /\ UNCHANGED <<store, full>>
        /\ brokenTUs' = brokenTUs /\ examined' = examined /\ result' = result
        /\ incomplete' = incomplete /\ diagnostics' = diagnostics /\ frozen' = frozen
        /\ visible' = visible /\ baseline' = baseline /\ runs' = runs
    BY <1>7 DEF LoseUnit
  <2> QED BY <1>0, <2>1, <2>2, <2>3 DEF Shape
<1>8. CASE Account
  <2>1. /\ request' = request /\ unit' = unit /\ phase' = "filter"
        /\ toolResult' = toolResult /\ UNCHANGED <<store, full>> /\ brokenTUs' = brokenTUs
        /\ examined' = examined /\ incomplete' = incomplete
        /\ diagnostics' = Among(diagnostics, Finding \ request.hidden)
        /\ frozen' = frozen /\ visible' = visible /\ baseline' = baseline /\ runs' = runs
    BY <1>8 DEF Account
  <2>2. WalkOK' /\ Sources' = Sources
    BY <1>0, <2>1, WalkStill
  <2>3. /\ result' \in ResultType
        /\ result'.findings = result.findings /\ result'.report_only = result.report_only
    BY <1>0, <1>a, <1>8, AccountResult
  <2>4. diagnostics' \in Seq(Finding)
    BY <1>0, <2>1, AmongElements
  <2> QED BY <1>0, <2>1, <2>2, <2>3, <2>4 DEF Shape
<1>9. CASE RecordBaseline
  <2>1. /\ request' = request /\ unit' = unit /\ phase' = "done"
        /\ toolResult' = toolResult /\ UNCHANGED <<store, full>> /\ brokenTUs' = brokenTUs
        /\ examined' = examined /\ incomplete' = incomplete
        /\ diagnostics' = diagnostics /\ visible' = visible /\ runs' = runs
    BY <1>9 DEF RecordBaseline
  <2>2. WalkOK' /\ Sources' = Sources
    BY <1>0, <2>1, WalkStill
  <2>3. result' \in ResultType /\ result'.findings >= result'.report_only
    BY <1>0, <1>9, RecordResult
  <2>4. \/ baseline' = baseline /\ frozen' = frozen
        \/ \E n \in 0..Len(diagnostics) :
              /\ frozen' = SubSeq(diagnostics, 1, n)
              /\ baseline' = [present |-> TRUE, count |-> Recorded(frozen')]
    BY <1>9 DEF RecordBaseline
  <2>5. baseline' \in BaselineType /\ frozen' \in Seq(Finding)
    <3>1. CASE baseline' = baseline /\ frozen' = frozen
      BY <1>0, <3>1
    <3>2. ASSUME NEW n \in 0..Len(diagnostics),
                 frozen' = SubSeq(diagnostics, 1, n),
                 baseline' = [present |-> TRUE, count |-> Recorded(frozen')]
          PROVE  baseline' \in BaselineType /\ frozen' \in Seq(Finding)
      <4>1. frozen' \in Seq(Finding)
        BY <1>0, <3>2, PrefixType
      <4>2. Recorded(frozen') \in [Key -> Nat]
        BY <4>1, OccurrencesType DEF Recorded
      <4> QED BY <3>2, <4>1, <4>2 DEF BaselineType
    <3> QED BY <2>4, <3>1, <3>2
  <2> QED BY <1>0, <2>1, <2>2, <2>3, <2>5 DEF Shape
<1>10. CASE Report
  <2>1. /\ request' = request /\ unit' = unit /\ phase' = "done"
        /\ toolResult' = toolResult /\ UNCHANGED <<store, full>> /\ brokenTUs' = brokenTUs
        /\ examined' = examined /\ incomplete' = incomplete
        /\ diagnostics' = diagnostics /\ frozen' = frozen
        /\ baseline' = baseline /\ runs' = runs
    BY <1>10 DEF Report
  <2>2. WalkOK' /\ Sources' = Sources
    BY <1>0, <2>1, WalkStill
  <2>3. /\ result' \in ResultType /\ result'.findings >= result'.report_only
        /\ visible' \subseteq Finding
    BY <1>0, <1>10, ReportResult
  <2> QED BY <1>0, <2>1, <2>2, <2>3 DEF Shape
<1>11. CASE NextRun
  <2>1. /\ request' \in RequestType /\ unit' = <<1, 1>> /\ phase' = "start"
        /\ toolResult' = FALSE /\ store' = {} /\ full' = {} /\ brokenTUs' = {}
        /\ examined' = {} /\ incomplete' = {} /\ diagnostics' = <<>>
        /\ visible' = {} /\ result' = NoResult
        /\ frozen' = frozen /\ baseline' = baseline /\ runs' = runs + 1
    BY <1>11, RequestAssumption DEF NextRun
  <2>2. /\ unit' \in (1..(Len(request'.files) + 1)) \X (Nat \ {0})
        /\ unit'[1] = 1 /\ unit'[2] = 1
    BY <2>1, WalkStart
  <2>3. WalkOK'
    BY <2>2 DEF WalkOK
  <2>4. result' \in ResultType /\ result'.findings >= result'.report_only
    BY <2>1, NoResultType
  <2>5. /\ diagnostics' \in Seq(Finding) /\ runs' \in Nat
        /\ brokenTUs' \subseteq Sources' /\ incomplete' \subseteq Sources'
        /\ frozen' \in Seq(Finding) /\ baseline' \in BaselineType
        /\ full' \subseteq store' /\ store' \subseteq File /\ examined' \subseteq File
        /\ visible' \subseteq Finding
    BY <1>0, <2>1
  <2> QED BY <2>1, <2>3, <2>4, <2>5 DEF Shape
<1> QED
  BY <1>1, <1>2, <1>3, <1>4, <1>5, <1>6, <1>7, <1>8, <1>9, <1>10, <1>11 DEF Next

-----------------------------------------------------------------------------
(* Where the run is, and what the result repeats. *)

LEMMA PhasesStep ==
    ASSUME Shape, Phases, Next
    PROVE  Phases'
<1>0. /\ request \in RequestType /\ WalkOK /\ result \in ResultType
  BY DEF Shape
<1>1. CASE Refuse
  <2>1. result'.no_inputs \/ result'.no_rules
    BY <1>0, <1>1, RefuseResult
  <2>2. phase' = "done" /\ UNCHANGED <<request, diagnostics, visible, examined>>
    BY <1>1 DEF Refuse
  <2>3. phase = "start" /\ ~Runs
    BY <1>1 DEF Refuse, Runs
  <2>4. ~Runs'
    BY <2>2, <2>3 DEF Runs
  <2>5. diagnostics' = <<>> /\ examined' = {}
    BY <2>2, <2>3 DEF Phases
  <2>6. visible' = {}
    BY <2>2, <2>3 DEF Phases
  <2> QED BY <2>1, <2>2, <2>4, <2>5, <2>6 DEF Phases
<1>2. CASE LoadSummaries
  <2>1. result'.analyzed_tus = 0
    BY <1>0, <1>2, LoadResult
  <2>2. /\ phase = "start" /\ UNCHANGED <<request, diagnostics, incomplete, examined, unit>>
        /\ phase' = IF request.wholeProgram THEN "pass1" ELSE "accept"
    BY <1>2 DEF LoadSummaries
  <2>3. Runs'
    BY <1>2, <2>2 DEF LoadSummaries, Runs
  <2> QED BY <2>1, <2>2, <2>3 DEF Phases
<1>3. CASE HarvestUnit
  <2>1. /\ phase = "pass1" /\ phase' = phase
        /\ UNCHANGED <<request, diagnostics, incomplete, examined, result>>
    BY <1>3 DEF HarvestUnit
  <2>2. Runs' = Runs
    BY <2>1 DEF Runs
  <2> QED BY <2>1, <2>2 DEF Phases
<1>4. CASE BeginAnalysis
  <2>1. phase \in {"pass1", "accept"} /\ phase' = "pass2" /\ request' = request
    BY <1>4 DEF BeginAnalysis
  <2>2. Runs' = Runs
    BY <2>1 DEF Runs
  <2> QED BY <2>1, <2>2 DEF Phases
<1>5. CASE AnalyzeUnit \/ SkipUnit \/ LoseUnit
  <2>1. phase = "pass2" /\ phase' = "pass2" /\ request' = request
    BY <1>5 DEF AnalyzeUnit, SkipUnit, LoseUnit
  <2>2. Runs' = Runs
    BY <2>1 DEF Runs
  <2> QED BY <2>1, <2>2 DEF Phases
<1>6. CASE Account
  <2>1. phase = "pass2" /\ phase' = "filter" /\ UNCHANGED <<request, unit>> /\ ~UnitsLeft
    BY <1>6 DEF Account
  <2>2. Runs' = Runs /\ UnitsLeft' = UnitsLeft
    BY <2>1 DEF Runs, UnitsLeft
  <2> QED BY <2>1, <2>2 DEF Phases
<1>7. CASE RecordBaseline \/ Report
  <2>1. phase = "filter" /\ phase' = "done" /\ UNCHANGED <<request, unit>>
    BY <1>7 DEF RecordBaseline, Report
  <2>2. Runs' = Runs /\ UnitsLeft' = UnitsLeft
    BY <2>1 DEF Runs, UnitsLeft
  <2> QED BY <2>1, <2>2 DEF Phases
<1>8. CASE NextRun
  <2>1. /\ phase' = "start" /\ unit' = <<1, 1>> /\ examined' = {} /\ incomplete' = {}
        /\ diagnostics' = <<>> /\ visible' = {} /\ result' = NoResult
    BY <1>8 DEF NextRun
  <2> QED BY <2>1, NoResultType DEF Phases
<1> QED
  BY <1>1, <1>2, <1>3, <1>4, <1>5, <1>6, <1>7, <1>8 DEF Next

LEMMA FlagsStep ==
    ASSUME Shape, Phases, Flags, Next
    PROVE  Flags'
<1>0. /\ request \in RequestType /\ WalkOK /\ result \in ResultType
      /\ toolResult \in BOOLEAN
      /\ diagnostics \in Seq(Finding) /\ baseline \in BaselineType
      /\ brokenTUs \subseteq Sources /\ incomplete \subseteq Sources
  BY DEF Shape
<1>1. CASE Refuse
  <2>1. phase = "start" /\ phase' = "done" /\ request' = request /\ ~Runs
    BY <1>1 DEF Refuse, Runs
  <2>2. ~Runs'
    BY <2>1 DEF Runs
  <2> QED BY <1>0, <1>1, <2>1, <2>2, RefuseResult DEF Flags
<1>2. CASE LoadSummaries
  <2>1. phase' \in {"pass1", "accept"} /\ request' = request
    BY <1>2 DEF LoadSummaries
  <2> QED BY <1>0, <1>2, <2>1, LoadResult DEF Flags
<1>3. CASE HarvestUnit \/ BeginAnalysis \/ SkipUnit \/ LoseUnit
  <2>1. /\ phase' \in {"pass1", "pass2"} /\ phase # "start" /\ request' = request
        /\ result' = result
    BY <1>3 DEF HarvestUnit, BeginAnalysis, SkipUnit, LoseUnit
  <2> QED BY <2>1 DEF Flags
<1>4. CASE AnalyzeUnit
  <2>1. phase = "pass2" /\ phase' = phase /\ request' = request
    BY <1>4 DEF AnalyzeUnit
  <2> QED BY <1>0, <1>4, <2>1, AnalyzeResult DEF Flags, Keeping
<1>5. CASE Account
  <2>1. /\ phase = "pass2" /\ phase' = "filter"
        /\ UNCHANGED <<request, brokenTUs, incomplete>>
    BY <1>5 DEF Account
  <2>2. IsFiniteSet(brokenTUs) /\ IsFiniteSet(incomplete)
    BY <1>0, SourcesFinite
  <2> QED BY <1>0, <1>5, <2>1, <2>2, AccountResult DEF Flags, Keeping
<1>6. CASE RecordBaseline
  <2>1. /\ phase = "filter" /\ phase' = "done" /\ request.writeBaseline # "none"
        /\ UNCHANGED <<request, brokenTUs, incomplete>>
    BY <1>6 DEF RecordBaseline
  <2>2. Runs' = Runs
    BY <2>1 DEF Runs
  <2> QED BY <1>0, <1>6, <2>1, <2>2, RecordResult DEF Flags, Keeping
<1>7. CASE Report
  <2>1. /\ phase = "filter" /\ phase' = "done"
        /\ UNCHANGED <<request, brokenTUs, incomplete>>
    BY <1>7 DEF Report
  <2>2. Runs' = Runs
    BY <2>1 DEF Runs
  <2> QED BY <1>0, <1>7, <2>1, <2>2, ReportResult DEF Flags, Keeping
<1>8. CASE NextRun
  <2>1. phase' = "start" /\ result' = NoResult
    BY <1>8 DEF NextRun
  <2> QED BY <2>1, NoResultType DEF Flags
<1> QED
  BY <1>1, <1>2, <1>3, <1>4, <1>5, <1>6, <1>7, <1>8 DEF Next

-----------------------------------------------------------------------------
(* The tally *)

LEMMA TalliedStep ==
    ASSUME Shape, Phases, Tallied, Next
    PROVE  Tallied'
<1>0. /\ request \in RequestType /\ WalkOK /\ result \in ResultType
      /\ examined \subseteq File
      /\ brokenTUs \subseteq Sources /\ incomplete \subseteq Sources
  BY DEF Shape
<1>a. IsFiniteSet(brokenTUs) /\ Cardinality(brokenTUs) \in Nat /\ result.analyzed_tus \in Nat
  BY <1>0, SourcesFinite, FS_CardinalityType DEF ResultType
<1>1. CASE Refuse
  <2>1. /\ phase = "start" /\ phase' = "done" /\ ~Runs
        /\ UNCHANGED <<request, examined, incomplete>>
    BY <1>1 DEF Refuse, Runs
  <2>2. ~Runs'
    BY <2>1 DEF Runs
  <2> QED BY <2>1, <2>2 DEF Tallied
<1>2. CASE LoadSummaries \/ HarvestUnit
  <2>1. phase' \in {"pass1", "accept"} /\ UNCHANGED <<request, examined, incomplete>>
    BY <1>2 DEF LoadSummaries, HarvestUnit
  <2> QED BY <2>1 DEF Tallied
<1>3. CASE BeginAnalysis
  <2>1. /\ phase \in {"pass1", "accept"} /\ phase' = "pass2" /\ unit' = <<1, 1>>
        /\ brokenTUs' = {} /\ result' = result
        /\ UNCHANGED <<request, examined, incomplete>>
    BY <1>3 DEF BeginAnalysis
  <2>2. result'.analyzed_tus = 0
    BY <2>1 DEF Phases
  <2>3. Cardinality(brokenTUs') = 0
    BY <2>1, FS_EmptySet
  <2>4. unit'[1] = 1
    BY <2>1
  <2> QED BY <2>1, <2>2, <2>3, <2>4 DEF Tallied
<1>4. ASSUME AnalyzeUnit \/ SkipUnit \/ LoseUnit
      PROVE  /\ phase = "pass2" /\ phase' = "pass2" /\ Runs /\ request' = request
             /\ Sources' = Sources /\ OneCommand' = OneCommand /\ Runs' = Runs
             /\ unit[1] \in Nat /\ unit'[1] \in Nat
             /\ Current = request.files[unit[1]]
             /\ unit'[1] = unit[1] \/ unit'[1] = unit[1] + 1
             /\ OneCommand => unit'[1] = unit[1] + 1
  <2>1. phase = "pass2" /\ phase' = "pass2" /\ request' = request /\ UnitsLeft /\ unit' = NextUnit
    BY <1>4 DEF AnalyzeUnit, SkipUnit, LoseUnit
  <2>2. (unit'[1] = unit[1] /\ ~OneCommand) \/ unit'[1] = unit[1] + 1
    BY <1>0, <2>1, WalkOn
  <2>3. unit[1] \in Nat
    BY <1>0, <2>1, AtUnit
  <2> QED BY <2>1, <2>2, <2>3 DEF Phases, Sources, OneCommand, Current, Runs
<1>5. CASE AnalyzeUnit
  <2>1. /\ examined' = examined \cup {Current} /\ brokenTUs' = brokenTUs
        /\ incomplete' = incomplete \cup (request.gaps \cap {Current})
    BY <1>5 DEF AnalyzeUnit
  <2>2. result'.analyzed_tus = result.analyzed_tus + 1
    BY <1>0, <1>5, AnalyzeResult
  <2>3. (examined \cap request.gaps \subseteq incomplete)'
    BY <1>4, <1>5, <2>1 DEF Tallied
  <2>4. (request.analyzeBroken => brokenTUs = {})'
    BY <1>4, <1>5, <2>1 DEF Tallied
  <2>5. ASSUME OneCommand
        PROVE  /\ result'.analyzed_tus + Cardinality(brokenTUs') <= unit'[1] - 1
               /\ result'.analyzed_tus + Cardinality(brokenTUs') = unit'[1] - 1 =>
                    \A i \in 1..(unit'[1] - 1) : request'.files[i] \in examined' \cup brokenTUs'
    <3>1. /\ result.analyzed_tus + Cardinality(brokenTUs) <= unit[1] - 1
          /\ result.analyzed_tus + Cardinality(brokenTUs) = unit[1] - 1 =>
               \A i \in 1..(unit[1] - 1) : request.files[i] \in examined \cup brokenTUs
      BY <1>4, <1>5, <2>5 DEF Tallied
    <3>2. unit'[1] = unit[1] + 1 /\ unit[1] \in Nat
      BY <1>4, <1>5, <2>5
    <3>3. result'.analyzed_tus + Cardinality(brokenTUs') <= unit'[1] - 1
      BY <1>a, <2>1, <2>2, <3>1, <3>2
    <3>4. ASSUME result'.analyzed_tus + Cardinality(brokenTUs') = unit'[1] - 1,
                 NEW i \in 1..(unit'[1] - 1)
          PROVE  request'.files[i] \in examined' \cup brokenTUs'
      <4>1. \A j \in 1..(unit[1] - 1) : request.files[j] \in examined \cup brokenTUs
        BY <1>a, <2>1, <2>2, <3>1, <3>2, <3>4
      <4>2. i \in 1..(unit[1] - 1) \/ i = unit[1]
        BY <3>2
      <4> QED BY <1>4, <1>5, <2>1, <4>1, <4>2
    <3> QED BY <3>3, <3>4
  <2> QED BY <1>4, <1>5, <2>3, <2>4, <2>5 DEF Tallied
<1>6. CASE SkipUnit
  <2>1. /\ examined' = examined /\ brokenTUs' = brokenTUs \cup {Current}
        /\ incomplete' = incomplete /\ result' = result /\ ~request.analyzeBroken
    BY <1>6 DEF SkipUnit, Skipped
  <2>2. Cardinality(brokenTUs') \in Nat /\ Cardinality(brokenTUs') <= Cardinality(brokenTUs) + 1
    BY <1>a, <2>1, FS_AddElement
  <2>3. (examined \cap request.gaps \subseteq incomplete)'
    BY <1>4, <1>6, <2>1 DEF Tallied
  <2>4. (request.analyzeBroken => brokenTUs = {})'
    BY <1>4, <1>6, <2>1
  <2>5. ASSUME OneCommand
        PROVE  /\ result'.analyzed_tus + Cardinality(brokenTUs') <= unit'[1] - 1
               /\ result'.analyzed_tus + Cardinality(brokenTUs') = unit'[1] - 1 =>
                    \A i \in 1..(unit'[1] - 1) : request'.files[i] \in examined' \cup brokenTUs'
    <3>1. /\ result.analyzed_tus + Cardinality(brokenTUs) <= unit[1] - 1
          /\ result.analyzed_tus + Cardinality(brokenTUs) = unit[1] - 1 =>
               \A i \in 1..(unit[1] - 1) : request.files[i] \in examined \cup brokenTUs
      BY <1>4, <1>6, <2>5 DEF Tallied
    <3>2. unit'[1] = unit[1] + 1 /\ unit[1] \in Nat
      BY <1>4, <1>6, <2>5
    <3>3. result'.analyzed_tus + Cardinality(brokenTUs') <= unit'[1] - 1
      BY <1>a, <2>1, <2>2, <3>1, <3>2
    <3>4. ASSUME result'.analyzed_tus + Cardinality(brokenTUs') = unit'[1] - 1,
                 NEW i \in 1..(unit'[1] - 1)
          PROVE  request'.files[i] \in examined' \cup brokenTUs'
      <4>1. \A j \in 1..(unit[1] - 1) : request.files[j] \in examined \cup brokenTUs
        BY <1>a, <2>1, <2>2, <3>1, <3>2, <3>4
      <4>2. i \in 1..(unit[1] - 1) \/ i = unit[1]
        BY <3>2
      <4> QED BY <1>4, <1>6, <2>1, <4>1, <4>2
    <3> QED BY <3>3, <3>4
  <2> QED BY <1>4, <1>6, <2>3, <2>4, <2>5 DEF Tallied
<1>7. CASE LoseUnit
  <2>1. UNCHANGED <<examined, brokenTUs, incomplete, result>>
    BY <1>7 DEF LoseUnit
  <2>2. ASSUME OneCommand
        PROVE  result'.analyzed_tus + Cardinality(brokenTUs') < unit'[1] - 1
    <3>1. /\ result.analyzed_tus + Cardinality(brokenTUs) <= unit[1] - 1
          /\ unit'[1] = unit[1] + 1 /\ unit[1] \in Nat
      BY <1>4, <1>7, <2>2 DEF Tallied
    <3> QED BY <1>a, <2>1, <3>1
  <2>3. result'.analyzed_tus + Cardinality(brokenTUs') \in Int /\ unit'[1] - 1 \in Int
    BY <1>a, <1>4, <1>7, <2>1
  <2>4. OneCommand' =>
          /\ result'.analyzed_tus + Cardinality(brokenTUs') <= unit'[1] - 1
          /\ result'.analyzed_tus + Cardinality(brokenTUs') # unit'[1] - 1
    <3> DEFINE x == result'.analyzed_tus + Cardinality(brokenTUs')
               y == unit'[1] - 1
    <3>1. OneCommand' => x < y
      BY <1>4, <1>7, <2>2
    <3>2. x \in Int /\ y \in Int
      BY <2>3
    <3> HIDE DEF x, y
    <3>3. OneCommand' => x <= y /\ x # y
      BY <3>1, <3>2
    <3> QED BY <3>3 DEF x, y
  <2> QED BY <1>4, <1>7, <2>1, <2>4 DEF Tallied
<1>8. CASE Account \/ RecordBaseline \/ Report
  <2>1. /\ phase \in {"pass2", "filter"} /\ phase' \in {"filter", "done"}
        /\ UNCHANGED <<request, unit, examined, brokenTUs, incomplete>>
    BY <1>8 DEF Account, RecordBaseline, Report
  <2>2. result'.analyzed_tus = result.analyzed_tus
    <3>1. IsFiniteSet(incomplete) /\ toolResult \in BOOLEAN
          /\ diagnostics \in Seq(Finding) /\ baseline \in BaselineType
      BY <1>0, SourcesFinite DEF Shape
    <3> QED BY <1>0, <1>a, <1>8, <3>1, AccountResult, RecordResult, ReportResult
  <2>3. Runs' = Runs /\ OneCommand' = OneCommand
    BY <2>1 DEF Runs, OneCommand, Sources
  <2> QED BY <2>1, <2>2, <2>3 DEF Tallied
<1>9. CASE NextRun
  <2>1. phase' = "start" /\ examined' = {}
    BY <1>9 DEF NextRun
  <2> QED BY <2>1 DEF Tallied
<1> QED
  BY <1>1, <1>2, <1>3, <1>5, <1>6, <1>7, <1>8, <1>9 DEF Next

-----------------------------------------------------------------------------
(* What the rules found is kept. *)

LEMMA SeenStays ==
    ASSUME NEW f, NEW known, request' = request, SeenIn(f, known),
           Elements(diagnostics) \subseteq Elements(diagnostics') \cup request.hidden
    PROVE  SeenIn(f, known)'
<1>1. ASSUME NEW i \in DOMAIN request.emits[f], request.emits[f][i].needs \subseteq known
      PROVE  request.emits[f][i].finding \in Elements(diagnostics') \cup request.hidden
  BY <1>1 DEF SeenIn
<1> QED BY <1>1 DEF SeenIn

\* A unit adds what its rules find to the findings there are.
LEMMA SeenNow ==
    ASSUME Shape, AnalyzeUnit
    PROVE  /\ Elements(diagnostics) \subseteq Elements(diagnostics')
           /\ \A known : known \subseteq full \cup {Current} =>
                \A f : f = Current => SeenIn(f, known)'
<1> DEFINE new == runAll(request, Current, full)
<1>1. /\ request \in RequestType /\ diagnostics \in Seq(Finding)
      /\ Current \in File
  BY AtUnit DEF Shape, AnalyzeUnit
<1>2. diagnostics' = diagnostics \o new /\ request' = request
  BY DEF AnalyzeUnit
<1>3. /\ new \in Seq(Finding)
      /\ \A i \in DOMAIN request.emits[Current] :
           request.emits[Current][i].needs \subseteq full \cup {Current}
             => request.emits[Current][i].finding \in Elements(new)
  BY <1>1, RunAllElements
<1> HIDE DEF new
<1>4. Elements(diagnostics') = Elements(diagnostics) \cup Elements(new)
  BY <1>1, <1>2, <1>3, ConcatElements
<1>5. ASSUME NEW known, known \subseteq full \cup {Current}, NEW f, f = Current
      PROVE  SeenIn(f, known)'
  <2>1. ASSUME NEW i \in DOMAIN request.emits[f], request.emits[f][i].needs \subseteq known
        PROVE  request.emits[f][i].finding \in Elements(diagnostics')
    BY <1>3, <1>4, <1>5, <2>1
  <2> QED BY <1>2, <2>1 DEF SeenIn
<1> QED BY <1>4, <1>5

\* Dropping what is hidden loses nothing else.
LEMMA AccountKeeps ==
    ASSUME Shape, Account
    PROVE  /\ Elements(diagnostics) \subseteq Elements(diagnostics') \cup request.hidden
           /\ request' = request
<1>1. /\ diagnostics \in Seq(Finding)
      /\ diagnostics' = Among(diagnostics, Finding \ request.hidden) /\ request' = request
  BY DEF Shape, Account
<1>2. Elements(diagnostics') = Elements(diagnostics) \cap (Finding \ request.hidden)
  BY <1>1, AmongElements
<1>3. Elements(diagnostics) \subseteq Finding
  BY <1>1, ElementsFinite
<1> QED BY <1>1, <1>2, <1>3

LEMMA FoundStep ==
    ASSUME Shape, Phases, Found, Next
    PROVE  Found'
<1>1. CASE \/ Refuse \/ LoadSummaries \/ HarvestUnit \/ BeginAnalysis
           \/ SkipUnit \/ LoseUnit \/ RecordBaseline \/ Report
  <2>1. UNCHANGED <<request, diagnostics, examined>>
    BY <1>1 DEF Refuse, LoadSummaries, HarvestUnit, BeginAnalysis, SkipUnit, LoseUnit,
                RecordBaseline, Report
  <2> QED BY <2>1 DEF Found, SeenIn
<1>2. CASE AnalyzeUnit
  <2>1. examined' = examined \cup {Current} /\ request' = request
    BY <1>2 DEF AnalyzeUnit
  <2>2. /\ Elements(diagnostics) \subseteq Elements(diagnostics') \cup request.hidden
        /\ \A known : known \subseteq full \cup {Current} =>
             \A f : f = Current => SeenIn(f, known)'
    BY <1>2, SeenNow
  <2>3. ASSUME NEW f \in examined' PROVE SeenIn(f, {f})'
    <3>1. CASE f \in examined
      <4>1. SeenIn(f, {f})
        BY <3>1 DEF Found
      <4> QED BY <2>1, <2>2, <4>1, SeenStays
    <3>2. CASE f = Current
      <4>1. {f} \subseteq full \cup {Current}
        BY <3>2
      <4> QED BY <2>2, <3>2, <4>1
    <3> QED BY <2>1, <3>1, <3>2
  <2> QED BY <2>3 DEF Found
<1>3. CASE Account
  <2>1. examined' = examined
    BY <1>3 DEF Account
  <2>2. /\ Elements(diagnostics) \subseteq Elements(diagnostics') \cup request.hidden
        /\ request' = request
    BY <1>3, AccountKeeps
  <2>3. ASSUME NEW f \in examined PROVE SeenIn(f, {f})'
    <3>1. SeenIn(f, {f})
      BY DEF Found
    <3> QED BY <2>2, <3>1, SeenStays
  <2> QED BY <2>1, <2>3 DEF Found
<1>4. CASE NextRun
  <2>1. examined' = {}
    BY <1>4 DEF NextRun
  <2> QED BY <2>1 DEF Found
<1> QED
  BY <1>1, <1>2, <1>3, <1>4 DEF Next

\* When every unit compiles, every outcome is "ok".
LEMMA CompileOk ==
    ASSUME request \in RequestType, WalkOK, UnitsLeft, AllCompile
    PROVE  Outcome = "ok"
<1>1. /\ Current \in Sources
      /\ request.commands[Current] # <<>> =>
           unit[2] \in DOMAIN request.commands[Current]
  BY AtUnit
<1>2. /\ request.commands[Current] # <<>>
      /\ Elements(request.commands[Current]) = {"ok"}
  BY <1>1 DEF AllCompile
<1>3. request.commands[Current][unit[2]] \in Elements(request.commands[Current])
  BY <1>1, <1>2 DEF Elements
<1> QED BY <1>2, <1>3 DEF Outcome

\* Of a set listed bottom-up, what the store has still says all after a harvest.
LEMMA HarvestKeeps ==
    ASSUME request \in RequestType, WalkOK, UnitsLeft, full \subseteq store,
           \A i \in 1..(unit[1] - 1) : request.files[i] \in store,
           harvestGlobal(Current) \/ UNCHANGED <<store, full>>,
           NEW S, Bottomup(S), S \cap store \subseteq full
    PROVE  S \cap store' \subseteq full'
<1>1. /\ unit[1] \in 1..Len(request.files) /\ request.files \in Seq(File)
      /\ Current = request.files[unit[1]]
  BY AtUnit, RequestFields DEF Current
<1>2. ASSUME Current \in S
      PROVE  request.rests[Current] \subseteq full \cup {Current}
  <2>1. unit[1] \in DOMAIN request.files
    BY <1>1
  <2>2. request.rests[Current] \ {Current}
          \subseteq S \cap {request.files[k] : k \in 1..(unit[1] - 1)}
    BY <1>1, <1>2, <2>1 DEF Bottomup
  <2> QED BY <2>2
<1>3. Current \in S /\ Current \in store => Current \in full
  OBVIOUS
<1>4. CASE harvestGlobal(Current)
  <2>1. CASE Current \in S
    <3>1. store' = store \cup {Current} /\ full' = full \cup {Current}
      BY <1>2, <1>3, <1>4, <2>1 DEF harvestGlobal
    <3> QED BY <3>1
  <2>2. CASE Current \notin S
    <3>1. store' = store \cup {Current} /\ full \ {Current} \subseteq full'
      BY <1>4 DEF harvestGlobal
    <3> QED BY <2>2, <3>1
  <2> QED BY <2>1, <2>2
<1>5. CASE UNCHANGED <<store, full>>
  BY <1>5
<1> QED BY <1>4, <1>5

\* What a set of files lets the rules see is not lost when the findings are only added to.
LEMMA SeenFromStays ==
    ASSUME request' = request, unit' = unit,
           phase \in {"pass2", "filter", "done"},
           store' = store, full' = full,
           Elements(diagnostics) \subseteq Elements(diagnostics') \cup request.hidden,
           NEW S, SeenFrom(S)
    PROVE  SeenFrom(S)'
<1>1. ASSUME NEW i \in 1..(unit[1] - 1), NEW f, f = request.files[i]
      PROVE  SeenIn(f, S \cup {f})'
  <2>1. SeenIn(f, S \cup {f})
    BY <1>1 DEF SeenFrom
  <2> QED BY <2>1, SeenStays
<1>2. ASSUME NEW i \in 1..(unit[1] - 1)
      PROVE  SeenIn(request.files[i], S \cup {request.files[i]})'
  <2> DEFINE f == request.files[i]
  <2>1. \A g : g = f => SeenIn(g, S \cup {g})'
    BY <1>1
  <2>2. f' = f
    OBVIOUS
  <2> QED BY <2>1, <2>2 DEF SeenIn
<1> QED BY <1>2 DEF SeenFrom

LEMMA SeenWholeStep ==
    ASSUME Shape, Phases, SeenWhole, Next
    PROVE  SeenWhole'
<1>0. request \in RequestType /\ WalkOK /\ full \subseteq store
  BY DEF Shape
<1>a. ASSUME request' = request
      PROVE  /\ Whole' = Whole /\ Sources' = Sources
             /\ \A S : Bottomup(S)' = Bottomup(S)
  BY <1>a DEF Whole, AllCompile, Loads, Sources, Runs, Bottomup
<1>1. CASE Refuse
  <2>1. ~Runs /\ request' = request
    BY <1>1 DEF Refuse, Runs
  <2>2. ~Whole'
    BY <1>a, <2>1 DEF Whole
  <2> QED BY <2>2 DEF SeenWhole
<1>2. CASE LoadSummaries
  <2>1. /\ phase = "start" /\ phase' \in {"pass1", "accept"} /\ unit' = unit
        /\ request' = request
        /\ ~Loads => store' = {}
    BY <1>2 DEF LoadSummaries
  <2>2. unit'[1] - 1 = 0
    BY <2>1 DEF Phases
  <2>3. Whole' => store' = {}
    BY <1>a, <2>1 DEF Whole
  <2> QED BY <2>1, <2>2, <2>3 DEF SeenWhole, SeenFrom
<1>3. CASE HarvestUnit
  <2>1. /\ phase = "pass1" /\ phase' = "pass1" /\ request' = request
        /\ UnitsLeft /\ unit' = NextUnit
        /\ Outcome = "ok" => harvestGlobal(Current)
    BY <1>3 DEF HarvestUnit
  <2>2. /\ unit'[1] = unit[1] \/ unit'[1] = unit[1] + 1
        /\ unit[1] \in Nat
    BY <1>0, <2>1, WalkOn, AtUnit
  <2>3. ASSUME Whole
        PROVE  harvestGlobal(Current) /\ \A i \in 1..(unit[1] - 1) : request.files[i] \in store
    BY <1>0, <2>1, <2>3, CompileOk DEF SeenWhole, Whole
  <2>4. ASSUME Whole, NEW i \in 1..(unit'[1] - 1) PROVE request.files[i] \in store'
    <3>1. store' = store \cup {request.files[unit[1]]}
      BY <2>3, <2>4 DEF harvestGlobal, Current
    <3>2. CASE i \in 1..(unit[1] - 1)
      BY <2>3, <2>4, <3>1, <3>2
    <3>3. CASE i = unit[1]
      BY <3>1, <3>3
    <3> QED BY <2>2, <3>2, <3>3
  <2>5. ASSUME Whole, NEW S, S \in SUBSET Sources, Bottomup(S) PROVE SeenFrom(S)'
    <3>1. S \cap store \subseteq full
      BY <2>1, <2>5 DEF SeenWhole, SeenFrom
    <3>2. S \cap store' \subseteq full'
      BY <1>0, <2>1, <2>3, <2>5, <3>1, HarvestKeeps
    <3> QED BY <2>1, <3>2 DEF SeenFrom
  <2> QED BY <1>a, <2>1, <2>4, <2>5 DEF SeenWhole
<1>4. CASE BeginAnalysis
  <2>1. /\ phase' = "pass2" /\ unit' = <<1, 1>> /\ UNCHANGED <<request, store, full>>
        /\ phase = "accept" \/ (phase = "pass1" /\ ~UnitsLeft)
    BY <1>4 DEF BeginAnalysis
  <2>2. Whole => phase = "pass1" /\ ~UnitsLeft
    BY <2>1 DEF Whole, Phases
  <2>3. Whole => Sources \subseteq store
    <3> SUFFICES ASSUME Whole PROVE Sources \subseteq store
      OBVIOUS
    <3>1. Sources = {request.files[i] : i \in 1..(unit[1] - 1)}
      BY <1>0, <2>2, WalkEnd
    <3>2. \A i \in 1..(unit[1] - 1) : request.files[i] \in store
      BY <2>2 DEF SeenWhole
    <3> QED BY <3>1, <3>2
  <2>4. \A i \in 1..(unit'[1] - 1) : FALSE
    BY <2>1
  <2>5. Whole' => (Sources \subseteq store)'
    BY <1>a, <2>1, <2>3
  <2>6. ASSUME Whole, NEW S, S \in SUBSET Sources, Bottomup(S) PROVE SeenFrom(S)'
    <3>1. S \cap store \subseteq full
      BY <2>2, <2>6 DEF SeenWhole, SeenFrom
    <3> QED BY <2>1, <2>4, <3>1 DEF SeenFrom
  <2> QED BY <1>a, <2>1, <2>5, <2>6 DEF SeenWhole
<1>5. CASE AnalyzeUnit
  <2>1. /\ phase = "pass2" /\ phase' = "pass2" /\ request' = request
        /\ UnitsLeft /\ unit' = NextUnit
        /\ harvestGlobal(Current) \/ UNCHANGED <<store, full>>
    BY <1>5 DEF AnalyzeUnit
  <2>2. /\ unit'[1] = unit[1] \/ unit'[1] = unit[1] + 1
        /\ unit[1] \in 1..Len(request.files)
    BY <1>0, <2>1, WalkOn, AtUnit
  <2>3. /\ Elements(diagnostics) \subseteq Elements(diagnostics') \cup request.hidden
        /\ \A known : known \subseteq full \cup {Current} =>
             \A f : f = Current => SeenIn(f, known)'
    BY <1>5, SeenNow
  <2>4. store \subseteq store'
    BY <2>1 DEF harvestGlobal
  <2>5. ASSUME Whole
        PROVE  Sources \subseteq store /\ \A i \in 1..(unit[1] - 1) : request.files[i] \in store
    <3>1. Sources \subseteq store
      BY <2>1, <2>5 DEF SeenWhole
    <3>2. \A i \in 1..(unit[1] - 1) : request.files[i] \in Sources
      BY <1>0, <2>2, RequestFields DEF Sources, Elements
    <3> QED BY <3>1, <3>2
  <2>6. ASSUME Whole, NEW S, S \in SUBSET Sources, Bottomup(S)
        PROVE  S \subseteq full /\ S \cap store' \subseteq full'
    <3>1. S \cap store \subseteq full
      BY <2>1, <2>6 DEF SeenWhole, SeenFrom
    <3>2. S \cap store' \subseteq full'
      BY <1>0, <2>1, <2>5, <2>6, <3>1, HarvestKeeps
    <3> QED BY <2>5, <2>6, <3>1, <3>2
  <2>7. ASSUME Whole, NEW S, S \in SUBSET Sources, Bottomup(S),
               NEW i \in 1..(unit'[1] - 1), NEW f, f = request.files[i]
        PROVE  SeenIn(f, S \cup {f})'
    <3>1. CASE i \in 1..(unit[1] - 1)
      <4>1. SeenIn(f, S \cup {f})
        BY <2>1, <2>7, <3>1 DEF SeenWhole, SeenFrom
      <4> QED BY <2>1, <2>3, <4>1, SeenStays
    <3>2. CASE i = unit[1]
      <4>1. f = Current
        BY <2>7, <3>2 DEF Current
      <4>2. S \cup {f} \subseteq full \cup {Current}
        BY <2>6, <2>7, <4>1
      <4> QED BY <2>3, <4>1, <4>2
    <3> QED BY <2>2, <3>1, <3>2
  <2>8. ASSUME Whole, NEW S, S \in SUBSET Sources, Bottomup(S) PROVE SeenFrom(S)'
    <3>1. ASSUME NEW i \in 1..(unit'[1] - 1)
          PROVE  SeenIn(request.files[i], S \cup {request.files[i]})'
      <4> DEFINE f == request.files[i]
      <4>1. \A g : g = f => SeenIn(g, S \cup {g})'
        BY <2>7, <2>8, <3>1
      <4>2. f' = f
        BY <2>1
      <4> QED BY <4>1, <4>2 DEF SeenIn
    <3>2. S \cap store' \subseteq full'
      BY <2>6, <2>8
    <3> QED BY <2>1, <3>1, <3>2 DEF SeenFrom
  <2>9. Whole' => (Sources \subseteq store)'
    BY <1>a, <2>1, <2>4, <2>5
  <2> QED BY <1>a, <2>1, <2>8, <2>9 DEF SeenWhole
<1>6. CASE SkipUnit \/ LoseUnit
  <2>1. UnitsLeft /\ Outcome # "ok" /\ request' = request
    BY <1>6 DEF SkipUnit, LoseUnit, Skipped
  <2>2. ~Whole'
    BY <1>0, <1>a, <2>1, CompileOk DEF Whole
  <2> QED BY <2>2 DEF SeenWhole
<1>7. CASE Account \/ RecordBaseline \/ Report
  <2>1. /\ phase \in {"pass2", "filter"} /\ phase' \in {"filter", "done"}
        /\ UNCHANGED <<request, unit, store, full>>
    BY <1>7 DEF Account, RecordBaseline, Report
  <2>2. Elements(diagnostics) \subseteq Elements(diagnostics') \cup request.hidden
    BY <1>7, AccountKeeps DEF RecordBaseline, Report
  <2>3. ASSUME Whole, NEW S, S \in SUBSET Sources, Bottomup(S) PROVE SeenFrom(S)'
    <3>1. SeenFrom(S)
      BY <2>3 DEF SeenWhole
    <3> QED BY <2>1, <2>2, <3>1, SeenFromStays
  <2>4. Whole' => (Sources \subseteq store)'
    BY <1>a, <2>1 DEF SeenWhole
  <2> QED BY <1>a, <2>1, <2>3, <2>4 DEF SeenWhole
<1>8. CASE NextRun
  <2>1. phase' = "start"
    BY <1>8 DEF NextRun
  <2> QED BY <2>1 DEF SeenWhole, SeenFrom
<1> QED
  BY <1>1, <1>2, <1>3, <1>4, <1>5, <1>6, <1>7, <1>8 DEF Next

-----------------------------------------------------------------------------
(* The report and the baseline. *)

LEMMA ShownStep ==
    ASSUME Shape, Phases, Shown, Next
    PROVE  Shown'
<1>1. CASE Refuse
  <2>1. ~Runs /\ request' = request
    BY <1>1 DEF Refuse, Runs
  <2>2. ~Runs'
    BY <2>1 DEF Runs
  <2> QED BY <2>2 DEF Shown
<1>2. CASE \/ LoadSummaries \/ HarvestUnit \/ BeginAnalysis \/ AnalyzeUnit
           \/ SkipUnit \/ LoseUnit \/ Account \/ NextRun
  <2>1. phase' # "done"
    BY <1>2 DEF LoadSummaries, HarvestUnit, BeginAnalysis, AnalyzeUnit, SkipUnit, LoseUnit,
                Account, NextRun
  <2> QED BY <2>1 DEF Shown, Reported, Finished
<1>3. CASE RecordBaseline
  <2>1. request'.writeBaseline # "none"
    BY <1>3 DEF RecordBaseline
  <2> QED BY <2>1 DEF Shown, Reported
<1>4. CASE Report
  <2>1. /\ visible' = Elements(Remaining) \ request.low
        /\ result'.findings = Cardinality(visible')
        /\ result'.report_only = Cardinality(visible' \cap request.reportOnly)
    BY <1>4, ReportResult DEF Shape
  <2>2. UNCHANGED <<request, diagnostics, baseline>>
    BY <1>4 DEF Report
  <2>3. Remaining' = Remaining
    BY <2>2 DEF Remaining
  <2> QED BY <2>1, <2>2, <2>3 DEF Shown
<1> QED BY <1>1, <1>2, <1>3, <1>4 DEF Next

LEMMA EnteredStep ==
    ASSUME Shape, Entered, Next
    PROVE  Entered'
<1>1. CASE baseline' = baseline /\ frozen' = frozen
  BY <1>1 DEF Entered
<1>2. ASSUME NEW n \in 0..Len(diagnostics),
             frozen' = SubSeq(diagnostics, 1, n),
             baseline' = [present |-> TRUE, count |-> Recorded(frozen')]
      PROVE  Entered'
  <2>1. frozen' \in Seq(Finding)
    BY <1>2, PrefixType DEF Shape
  <2>2. \A k \in Key : baseline'.count[k] = Occurrences(k, frozen') /\ Occurrences(k, frozen') \in Nat
    BY <1>2, <2>1, OccurrencesType DEF Recorded
  <2>3. \A k \in Key : baseline'.count[k] >= Occurrences(k, frozen')
    <3> TAKE k \in Key
    <3> DEFINE a == baseline'.count[k]
               b == Occurrences(k, frozen')
    <3>1. a = b /\ b \in Nat
      BY <2>2
    <3> HIDE DEF a, b
    <3>2. a >= b
      BY <3>1
    <3> QED BY <3>2 DEF a, b
  <2> QED BY <1>2, <2>3 DEF Entered
<1>3. CASE \/ Refuse \/ LoadSummaries \/ HarvestUnit \/ BeginAnalysis \/ AnalyzeUnit
           \/ SkipUnit \/ LoseUnit \/ Account \/ Report \/ NextRun
  BY <1>1, <1>3 DEF Refuse, LoadSummaries, HarvestUnit, BeginAnalysis, AnalyzeUnit, SkipUnit,
                    LoseUnit, Account, Report, NextRun
<1>4. CASE RecordBaseline
  <2>1. \/ baseline' = baseline /\ frozen' = frozen
        \/ \E n \in 0..Len(diagnostics) :
              /\ frozen' = SubSeq(diagnostics, 1, n)
              /\ baseline' = [present |-> TRUE, count |-> Recorded(frozen')]
    BY <1>4 DEF RecordBaseline
  <2> QED BY <1>1, <1>2, <2>1
<1> QED BY <1>3, <1>4 DEF Next

-----------------------------------------------------------------------------
(* The invariant *)

LEMMA EmptyOccurs ==
    ASSUME NEW k
    PROVE  Occurrences(k, <<>>) = 0
<1>1. {i \in DOMAIN <<>> : KeyV2(<<>>[i]) = k} = {}
  OBVIOUS
<1> QED BY <1>1, FS_EmptySet DEF Occurrences

LEMMA Initially == Init => IInv
<1> SUFFICES ASSUME Init PROVE IInv
  OBVIOUS
<1>1. /\ request \in RequestType /\ baseline \in BaselineType
      /\ unit = <<1, 1>> /\ phase = "start" /\ result = NoResult
  BY RequestAssumption, BaselineAssumption DEF Init
<1>2. /\ unit \in (1..(Len(request.files) + 1)) \X (Nat \ {0})
      /\ unit[1] = 1 /\ unit[2] = 1
  BY <1>1, WalkStart
<1>3. WalkOK
  BY <1>2 DEF WalkOK
<1>4. /\ result \in ResultType /\ result.findings >= result.report_only
      /\ result.analyzed_tus = 0 /\ ~result.baseline_recorded
  BY <1>1, NoResultType
<1>5. Shape
  <2>1. /\ diagnostics \in Seq(Finding) /\ frozen \in Seq(Finding) /\ runs \in Nat
        /\ toolResult \in BOOLEAN
        /\ brokenTUs \subseteq Sources /\ incomplete \subseteq Sources
        /\ full \subseteq store /\ store \subseteq File /\ examined \subseteq File
        /\ visible \subseteq Finding
    <3>1. /\ diagnostics = <<>> /\ frozen = <<>> /\ runs = 1 /\ toolResult = FALSE
          /\ brokenTUs = {} /\ incomplete = {} /\ store = {} /\ full = {}
          /\ examined = {} /\ visible = {}
      BY DEF Init
    <3>2. <<>> \in Seq(Finding) /\ 1 \in Nat
      OBVIOUS
    <3> QED BY <3>1, <3>2
  <2> QED BY <1>1, <1>3, <1>4, <2>1 DEF Shape
<1>6. Phases
  BY <1>1, <1>2, <1>4 DEF Phases, Init
<1>7. Flags /\ Tallied /\ Found /\ SeenWhole /\ Shown
  BY <1>1, <1>4 DEF Init, Flags, Tallied, Found, SeenWhole, SeenFrom, Shown, Reported, Finished
<1>8. Entered
  <2>1. \A k \in Key : Occurrences(k, frozen) = 0
    BY EmptyOccurs DEF Init
  <2>2. \A k \in Key : baseline.count[k] \in Nat
    BY <1>1 DEF BaselineType
  <2>3. frozen = <<>>
    BY DEF Init
  <2>4. \A k \in Key : baseline.count[k] >= 0
    BY <2>2
  <2> QED BY <2>1, <2>3, <2>4 DEF Entered
<1> QED BY <1>5, <1>6, <1>7, <1>8 DEF IInv

LEMMA Preserved == IInv /\ [Next]_vars => IInv'
<1> SUFFICES ASSUME IInv, [Next]_vars PROVE IInv'
  OBVIOUS
<1>1. Shape /\ Phases /\ Flags /\ Tallied /\ Found /\ SeenWhole /\ Shown /\ Entered
  BY DEF IInv
<1>2. CASE Next
  <2>1. Shape' /\ Phases' /\ Flags' /\ Tallied'
    BY <1>1, <1>2, ShapeStep, PhasesStep, FlagsStep, TalliedStep
  <2>2. Found' /\ SeenWhole' /\ Shown' /\ Entered'
    BY <1>1, <1>2, FoundStep, SeenWholeStep, ShownStep, EnteredStep
  <2> QED BY <2>1, <2>2 DEF IInv
<1>3. CASE UNCHANGED vars
  <2>1. Shape' /\ Phases' /\ Flags' /\ Tallied'
    BY <1>1, <1>3 DEF vars, Shape, WalkOK, UnitsLeft, Current, Sources, Phases, Flags, Tallied,
                      Runs, OneCommand
  <2>2. Found' /\ Entered'
    BY <1>1, <1>3 DEF vars, Found, SeenIn, Entered
  <2>3. SeenWhole'
    <3>1. UNCHANGED <<request, phase, unit, store, full, diagnostics>>
      BY <1>3 DEF vars
    <3>2. Whole' = Whole /\ Sources' = Sources /\ \A S : Bottomup(S)' = Bottomup(S)
      BY <3>1 DEF Whole, AllCompile, Loads, Sources, Runs, Bottomup
    <3>3. \A S : SeenFrom(S)' = SeenFrom(S)
      BY <3>1 DEF SeenFrom, SeenIn
    <3> QED BY <1>1, <3>1, <3>2, <3>3 DEF SeenWhole
  <2>4. Shown'
    BY <1>1, <1>3 DEF vars, Shown, Reported, Finished, Remaining, Runs
  <2> QED BY <2>1, <2>2, <2>3, <2>4 DEF IInv
<1> QED BY <1>2, <1>3

\* In every reachable state of every project the invariant holds.
THEOREM Inductive == Spec => []IInv
BY Initially, Preserved, PTL DEF Spec

\* The types of StaticAnalyzer's state, and of what it writes.
THEOREM TypesHold == Spec => []TypeOK
<1>1. IInv => TypeOK
  <2> SUFFICES ASSUME IInv PROVE TypeOK
    OBVIOUS
  <2>1. Shape
    BY DEF IInv
  <2>2. Sources \subseteq File /\ Len(request.files) \in Nat
    BY <2>1, SourcesFinite, RequestFields DEF Shape
  <2>3. /\ unit[1] \in 1..(Len(request.files) + 1)
        /\ UnitsLeft /\ unit[2] # 1 => unit[2] \in DOMAIN request.commands[Current]
        /\ ~UnitsLeft => unit[2] = 1
    BY <2>1, <2>2 DEF Shape, WalkOK
  <2> QED BY <2>1, <2>2, <2>3 DEF Shape, TypeOK
<1> QED BY <1>1, Inductive, PTL

-----------------------------------------------------------------------------
(* The verdict *)

\* A verdict of 0 or 1 counts every unit and every function.
LEMMA VerdictCounts ==
    ASSUME result \in ResultType, exitCode(result) # 2
    PROVE  /\ ~result.no_inputs /\ ~result.no_rules
           /\ ~(result.broken_tus > 0) \/ result.analyze_broken_tus \/ result.accept_partial
           /\ ~(result.analyzed_tus + result.broken_tus < result.attempted_tus)
           /\ ~(result.incomplete_functions > 0)
BY DEF exitCode, Complete, HardFailure, IncompleteEvidence

LEMMA NonEmptyCounts ==
    ASSUME NEW X, IsFiniteSet(X), ~(Cardinality(X) > 0)
    PROVE  X = {}
BY FS_CardinalityType, FS_EmptySet

\* An exit code of 0 or 1 covers the files the user asked for: however their
\* compilation went, each was analysed to the end, or is broken and the user
\* accepted partial coverage (StaticAnalyzer::run, AnalysisResult::exitCode).
THEOREM VerdictIsCovered == Spec => []VerdictCovered
<1>1. IInv => VerdictCovered
  <2> SUFFICES ASSUME IInv, OneCommand, phase = "done", exitCode(result) # 2,
                      NEW f \in Sources
               PROVE  HasEvidence(f)
    BY DEF VerdictCovered, OneCommand, Finished
  <2>1. /\ request \in RequestType /\ WalkOK /\ result \in ResultType
        /\ brokenTUs \subseteq Sources /\ incomplete \subseteq Sources
    BY DEF IInv, Shape
  <2>2. /\ ~result.no_inputs /\ ~result.no_rules
        /\ ~(result.broken_tus > 0) \/ result.analyze_broken_tus \/ result.accept_partial
        /\ ~(result.analyzed_tus + result.broken_tus < result.attempted_tus)
        /\ ~(result.incomplete_functions > 0)
    BY <2>1, VerdictCounts
  <2>3. Runs /\ ~UnitsLeft
    BY <2>2 DEF IInv, Phases
  <2>4. /\ unit[1] - 1 = Len(request.files)
        /\ Sources = {request.files[i] : i \in 1..(unit[1] - 1)}
    BY <2>1, <2>3, WalkEnd
  <2>5. /\ result.attempted_tus = Len(request.files)
        /\ result.accept_partial = request.acceptPartial
        /\ result.analyze_broken_tus = request.analyzeBroken
        /\ result.broken_tus = Cardinality(brokenTUs)
        /\ result.incomplete_functions = Cardinality(incomplete)
    BY <2>3 DEF IInv, Flags
  <2>6. IsFiniteSet(brokenTUs) /\ IsFiniteSet(incomplete)
    BY <2>1, SourcesFinite
  <2>7. incomplete = {}
    BY <2>2, <2>5, <2>6, NonEmptyCounts
  <2>8. /\ examined \cap request.gaps = {}
        /\ request.analyzeBroken => brokenTUs = {}
        /\ result.analyzed_tus + Cardinality(brokenTUs) <= unit[1] - 1
        /\ result.analyzed_tus + Cardinality(brokenTUs) = unit[1] - 1 =>
             \A i \in 1..(unit[1] - 1) : request.files[i] \in examined \cup brokenTUs
    BY <2>3, <2>7 DEF IInv, Tallied
  <2>9. result.analyzed_tus + Cardinality(brokenTUs) = unit[1] - 1
    <3>1. result.analyzed_tus \in Nat /\ Cardinality(brokenTUs) \in Nat /\ Len(request.files) \in Nat
      BY <2>1, <2>6, FS_CardinalityType, RequestFields DEF ResultType
    <3> DEFINE a == result.analyzed_tus
               b == Cardinality(brokenTUs)
               n == Len(request.files)
    <3>2. ~(a + b < n) /\ unit[1] - 1 = n /\ a + b <= unit[1] - 1
      BY <2>2, <2>4, <2>5, <2>8
    <3>3. a \in Nat /\ b \in Nat /\ n \in Nat
      BY <3>1
    <3> HIDE DEF a, b, n
    <3>4. a + b = unit[1] - 1
      BY <3>2, <3>3
    <3> QED BY <3>4 DEF a, b
  <2>10. f \in examined \cup brokenTUs
    BY <2>4, <2>8, <2>9
  <2>11. CASE f \in examined
    BY <2>8, <2>11 DEF HasEvidence
  <2>12. CASE f \in brokenTUs
    <3>1. result.broken_tus > 0
      BY <2>5, <2>6, <2>12, NonEmptyCounts
    <3>2. request.acceptPartial
      BY <2>2, <2>5, <2>8, <2>12, <3>1
    <3> QED BY <2>12, <3>2 DEF HasEvidence
  <2> QED BY <2>10, <2>11, <2>12
<1> QED BY <1>1, Inductive, PTL

\* With exit 0 no finding of an analysed file is lost on its way to the report:
\* neither the filters of run(), nor the baseline, nor the count of the
\* experimental findings passes over one the user did not excuse.
THEOREM NothingIsOverlooked == Spec => []NothingOverlooked
<1>1. IInv => NothingOverlooked
  <2> SUFFICES ASSUME IInv, Reported, exitCode(result) = 0, NEW f \in examined,
                      NEW i \in DOMAIN request.emits[f], request.emits[f][i].needs \subseteq {f}
               PROVE  Excused(request.emits[f][i].finding)
    BY DEF NothingOverlooked
  <2> DEFINE d == request.emits[f][i].finding
  <2>1. /\ request \in RequestType /\ result \in ResultType
        /\ diagnostics \in Seq(Finding) /\ baseline \in BaselineType /\ visible \subseteq Finding
    BY DEF IInv, Shape
  <2>2. ~result.no_inputs /\ ~result.no_rules
    BY <2>1, VerdictCounts
  <2>3. Runs
    BY <2>2 DEF IInv, Phases, Reported, Finished
  <2>4. d \in Elements(diagnostics) \cup request.hidden
    BY DEF IInv, Found, SeenIn
  <2>5. /\ visible = Elements(Remaining) \ request.low
        /\ result.findings = Cardinality(visible)
        /\ result.report_only = Cardinality(visible \cap request.reportOnly)
    BY <2>3 DEF IInv, Shown
  <2>6. visible \subseteq request.reportOnly
    <3>1. ~result.baseline_recorded
      BY DEF IInv, Flags, Reported
    <3>2. ~(BlockingFindings(result) > 0)
      BY <3>1 DEF exitCode
    <3>3. IsFiniteSet(visible)
      BY <2>1, <2>5, RemainingType, ElementsFinite, FS_Subset
    <3> DEFINE some == visible \cap request.reportOnly
    <3>4. /\ Cardinality(visible) \in Nat /\ Cardinality(some) \in Nat
          /\ Cardinality(some) <= Cardinality(visible)
          /\ Cardinality(visible) = Cardinality(some) => visible = some
      <4>1. some \subseteq visible
        OBVIOUS
      <4> HIDE DEF some
      <4> QED BY <3>3, <4>1, FS_Subset, FS_CardinalityType
    <3>5. result.findings = Cardinality(visible) /\ result.report_only = Cardinality(some)
      BY <2>5
    <3> HIDE DEF some
    <3>6. visible = some
      BY <3>2, <3>4, <3>5 DEF BlockingFindings
    <3> QED BY <3>6 DEF some
  <2> SUFFICES Excused(d)
    OBVIOUS
  <2> HIDE DEF d
  <2>7. CASE d \in request.hidden
    BY <2>7 DEF Excused
  <2>8. CASE d \in Elements(Remaining)
    BY <2>5, <2>6, <2>8 DEF Excused
  <2>9. CASE d \in Elements(diagnostics) \ Elements(Remaining)
    <3>1. request.useBaseline /\ baseline.present /\ Remaining = Filtered(baseline.count, diagnostics)
      BY <2>9 DEF Remaining
    <3>2. baseline.count \in [Key -> Nat]
      BY <2>1 DEF BaselineType
    <3>3. baseline.count[KeyV1(d)] + baseline.count[KeyV2(d)] # 0
      BY <2>1, <2>9, <3>1, <3>2, UnlistedKept
    <3>4. baseline.count[KeyV1(d)] \in Nat /\ baseline.count[KeyV2(d)] \in Nat
      <4>1. d \in Finding
        BY <2>1, <2>9, ElementsFinite
      <4> QED BY <3>2, <4>1, KeysOf
    <3>5. baseline.count[KeyV1(d)] + baseline.count[KeyV2(d)] > 0
      BY <3>3, <3>4
    <3> QED BY <3>1, <3>5 DEF Excused
  <2> QED BY <2>4, <2>7, <2>8, <2>9
<1> QED BY <1>1, Inductive, PTL

-----------------------------------------------------------------------------
(* The baseline *)

\* A finding is shown past the baseline only when its text occurs more often
\* than when the baseline was recorded (Baseline::filter, Baseline::write).
THEOREM FrozenStaysHiddenAlways == Spec => []FrozenStaysHidden
<1>1. IInv => FrozenStaysHidden
  <2> SUFFICES ASSUME IInv, Reported, request.useBaseline, NEW d \in visible
               PROVE  Occurrences(KeyV2(d), diagnostics) > Occurrences(KeyV2(d), frozen)
    BY DEF FrozenStaysHidden
  <2> DEFINE now == Occurrences(KeyV2(d), diagnostics)
             then == Occurrences(KeyV2(d), frozen)
             listed == baseline.count[KeyV2(d)]
  <2>1. /\ diagnostics \in Seq(Finding) /\ frozen \in Seq(Finding)
        /\ baseline \in BaselineType /\ visible \subseteq Finding
    BY DEF IInv, Shape
  <2>2. Runs
    BY DEF IInv, Phases, Reported, Finished
  <2>3. d \in Elements(Remaining)
    BY <2>2 DEF IInv, Shown
  <2>4. KeyV2(d) \in Key
    BY <2>1, KeysOf
  <2>5. listed >= then
    BY <2>4 DEF IInv, Entered
  <2>6. now \in Nat /\ then \in Nat /\ listed \in Nat
    BY <2>1, <2>4, OccurrencesType DEF BaselineType
  <2>7. CASE baseline.present
    <3>1. baseline.count \in [Key -> Nat] /\ Remaining = Filtered(baseline.count, diagnostics)
      BY <2>1, <2>7 DEF BaselineType, Remaining
    <3>2. now > listed
      BY <2>1, <2>3, <3>1, KeptIsNew
    <3> HIDE DEF now, then, listed
    <3>3. now > then
      BY <2>5, <2>6, <3>2
    <3> QED BY <3>3 DEF now, then
  <2>8. CASE ~baseline.present
    <3>1. then = 0
      BY <2>8, EmptyOccurs DEF IInv, Entered
    <3>2. d \in Elements(diagnostics)
      BY <2>3, <2>8 DEF Remaining
    <3>3. now # 0
      <4>1. PICK i \in DOMAIN diagnostics : diagnostics[i] = d
        BY <3>2 DEF Elements
      <4> DEFINE X == {j \in DOMAIN diagnostics : KeyV2(diagnostics[j]) = KeyV2(d)}
      <4>2. i \in X
        BY <4>1
      <4>3. IsFiniteSet(X)
        <5>1. DOMAIN diagnostics = 1..Len(diagnostics) /\ Len(diagnostics) \in Nat
          BY <2>1
        <5>2. IsFiniteSet(1..Len(diagnostics))
          BY <5>1, FS_Interval
        <5> QED BY <5>1, <5>2, FS_Subset
      <4>4. now = Cardinality(X)
        BY DEF Occurrences
      <4> HIDE DEF X
      <4> QED BY <4>2, <4>3, <4>4, FS_EmptySet
    <3> HIDE DEF now, then
    <3>4. now > then
      BY <2>6, <3>1, <3>3
    <3> QED BY <3>4 DEF now, then
  <2> QED BY <2>7, <2>8
<1> QED BY <1>1, Inductive, PTL

\* The baseline hides no more findings of a key than it has entries for them,
\* and without one nothing is hidden.
THEOREM BudgetIsRespected == Spec => []BudgetRespected
<1>1. IInv => BudgetRespected
  <2> SUFFICES ASSUME IInv, Reported, NEW k \in Key
               PROVE  IF request.useBaseline
                        THEN Cardinality({d \in Concealed(k) : baseline.count[KeyV1(d)] = 0})
                               <= baseline.count[k]
                      ELSE Concealed(k) = {}
    BY DEF BudgetRespected
  <2> DEFINE some == {d \in Concealed(k) : baseline.count[KeyV1(d)] = 0}
  <2>1. diagnostics \in Seq(Finding) /\ baseline \in BaselineType
    BY DEF IInv, Shape
  <2>2. baseline.count \in [Key -> Nat] /\ baseline.count[k] \in Nat
    BY <2>1 DEF BaselineType
  <2>3. Concealed(k) \subseteq
          {d \in Elements(diagnostics) : KeyV2(d) = k} \ Elements(Remaining)
    <3>1. CASE Runs
      <4>1. visible = Elements(Remaining) \ request.low
        BY <3>1 DEF IInv, Shown
      <4> QED BY <4>1 DEF Concealed
    <3>2. CASE ~Runs
      <4>1. diagnostics = <<>>
        BY <3>2 DEF IInv, Phases, Reported, Finished
      <4>2. Elements(diagnostics) = {}
        BY <4>1 DEF Elements
      <4> QED BY <4>2 DEF Concealed
    <3> QED BY <3>1, <3>2
  <2>4. CASE ~(request.useBaseline /\ baseline.present)
    <3>1. Concealed(k) = {}
      BY <2>3, <2>4 DEF Remaining
    <3>2. Cardinality(some) = 0
      BY <3>1, FS_EmptySet
    <3> HIDE DEF some
    <3>3. Cardinality(some) <= baseline.count[k]
      BY <2>2, <3>2
    <3> QED BY <3>1, <3>3 DEF some
  <2>5. CASE request.useBaseline /\ baseline.present
    <3> DEFINE eaten == {d \in Elements(diagnostics) :
                            KeyV2(d) = k /\ baseline.count[KeyV1(d)] = 0}
                          \ Elements(Filtered(baseline.count, diagnostics))
    <3>1. IsFiniteSet(eaten) /\ Cardinality(eaten) <= baseline.count[k]
      BY <2>1, <2>2, EatenBound
    <3>2. some \subseteq eaten
      BY <2>3, <2>5 DEF Remaining
    <3> HIDE DEF some, eaten
    <3>3. /\ Cardinality(some) <= Cardinality(eaten)
          /\ Cardinality(some) \in Nat /\ Cardinality(eaten) \in Nat
      BY <3>1, <3>2, FS_Subset, FS_CardinalityType
    <3>4. Cardinality(some) <= baseline.count[k]
      BY <2>2, <3>1, <3>3
    <3> QED BY <2>5, <3>4 DEF some
  <2> QED BY <2>4, <2>5
<1> QED BY <1>1, Inductive, PTL

-----------------------------------------------------------------------------
(* Whole-program mode *)

\* With no summaries loaded and every unit compiling, two passes let the rules see in each
\* file what the summaries of a set of files show, wherever these come on the command line:
\* the set has to be listed bottom-up, each file after those its own summaries rest on.
THEOREM WholeProgramSeesAllAlways == Spec => []WholeProgramSeesAll
<1>1. IInv => WholeProgramSeesAll
  <2> SUFFICES ASSUME IInv, phase = "done", request.wholeProgram, request.rulesEnabled,
                      ~Loads, AllCompile,
                      NEW S \in SUBSET Sources, Bottomup(S),
                      NEW f \in Sources, NEW i \in DOMAIN request.emits[f],
                      request.emits[f][i].needs \subseteq S \cup {f},
                      request.emits[f][i].finding \notin request.hidden
               PROVE  request.emits[f][i].finding \in Elements(diagnostics)
    BY DEF WholeProgramSeesAll, SeenWith, Finished
  <2>1. request \in RequestType /\ WalkOK
    BY DEF IInv, Shape
  <2>2. request.files # <<>>
    BY DEF Sources, Elements
  <2>3. Runs /\ Whole
    BY <2>2 DEF Runs, Whole
  <2>4. ~UnitsLeft
    BY <2>3 DEF IInv, Phases
  <2>5. PICK j \in 1..(unit[1] - 1) : f = request.files[j]
    BY <2>1, <2>4, WalkEnd
  <2>6. SeenFrom(S)
    BY <2>3 DEF IInv, SeenWhole
  <2>7. SeenIn(f, S \cup {f})
    BY <2>5, <2>6 DEF SeenFrom
  <2> QED BY <2>7 DEF SeenIn
<1> QED BY <1>1, Inductive, PTL

=============================================================================
