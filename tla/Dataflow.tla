------------------------------ MODULE Dataflow ------------------------------
(***************************************************************************)
(* The forward dataflow engine: runDataflow of src/src/engine/             *)
(* DataflowEngine.h.  One behaviour is one call: a function's CFG and one  *)
(* analysis (together a `job') are drained by a FIFO worklist, the result  *)
(* is marked converged or not, and a second pass recomputes every block's  *)
(* entry state, which is what the rules report from.                       *)
(*                                                                         *)
(* The statements of a block are abstracted to the function they compose   *)
(* (job.xfer); a value of the analysis' State is an element of Value.      *)
(***************************************************************************)
EXTENDS Naturals, Sequences, FiniteSets

CONSTANTS
    Block,          \* the block IDs of the CFG
    Entry,          \* CFG::getEntry()
    NoBlock,        \* an edge getReachableBlock() prunes
    Value,          \* the values of Analysis::State
    NoValue,        \* no exit state recorded
    InitialState,   \* Analysis::initialState()
    Merge(_, _),    \* Analysis::merge
    Widen(_),       \* Analysis::widen, for the analyses that have one
    Job             \* the calls considered

ASSUME BlockAssumption == /\ IsFiniteSet(Block)
                          /\ Entry \in Block
                          /\ NoBlock \notin Block

ASSUME ValueAssumption == /\ InitialState \in Value
                          /\ NoValue \notin Value
                          /\ \A v, w \in Value : Merge(v, w) \in Value
                          /\ \A v \in Value : Widen(v) \in Value

(***************************************************************************)
(* A job: the CFG (succ and pred list the edges; succ[b][1] is the true    *)
(* edge of a branch), the blocks whose terminator tests a condition and    *)
(* has two distinct successors, the ones whose terminator is a ?: operator,  *)
(* the (block, polarity) edges that the immutable flags refute, the blocks a fatal or noreturn call    *)
(* cuts, and the analysis: its block functions, its edge refinements,      *)
(* whether it widens and its lattice height.                               *)
(***************************************************************************)
JobType ==
    [body : {"cfg", "missing", "dependent"},
     succ : [Block -> Seq(Block \cup {NoBlock})],
     pred : [Block -> Seq(Block)],
     branch : SUBSET Block,
     ternary : SUBSET Block,
     infeasible : SUBSET (Block \X BOOLEAN),
     dies : SUBSET Block,
     xfer : [Block -> [Value -> Value]],
     refine : [Block -> [BOOLEAN -> [Value -> Value]]],
     widens : BOOLEAN,
     height : Nat]

Elements(s) == {s[i] : i \in DOMAIN s}

\* pred and succ describe the same edges and the entry has no predecessor.
WellFormed(j) ==
    /\ \A a, b \in Block : b \in Elements(j.succ[a]) <=> a \in Elements(j.pred[b])
    /\ j.pred[Entry] = <<>>
    /\ \A b \in j.branch : Len(j.succ[b]) = 2 /\ j.succ[b][1] # j.succ[b][2]
    /\ j.ternary \subseteq j.branch

ASSUME JobAssumption == \A j \in Job : j \in JobType /\ WellFormed(j)

VARIABLES
    job,            \* the function and the analysis of this call
    phase,          \* where runDataflow is
    worklist,       \* the queue and the queued[] flags
    exits,          \* result.blockExitStates
    visitCounts,    \* block -> number of visits that reached the widening test
    widenMemory,    \* block -> the previous widened entry state
    iterations,     \* turns of the worklist loop
    result,         \* converged and failure, as the caller sees them
    reported        \* block -> the entry state the reporting pass starts from

vars == <<job, phase, worklist, exits, visitCounts, widenMemory,
          iterations, result, reported>>

maxIterations == Cardinality(Block) * (job.height + 2)
widenAfter == job.height + 2

-----------------------------------------------------------------------------
(* computeEntryState *)

\* Mutant: the immutable flags are not consulted.
IncomingUnpruned(j, ex, p, b) ==
    IF ex[p] = NoValue THEN NoValue
    ELSE IF p \notin j.branch THEN ex[p]
    ELSE j.refine[p][b = j.succ[p][1]][ex[p]]

\* What the edge p -> b contributes, given the recorded exits ex of job j.
Incoming(j, ex, p, b) ==
    LET onTrue == b = j.succ[p][1]
    IN  IF ex[p] = NoValue
          THEN NoValue
        ELSE IF p \notin j.branch
          THEN ex[p]
        ELSE IF <<p, onTrue>> \in j.infeasible
          THEN NoValue
        ELSE j.refine[p][onTrue][ex[p]]

\* Mutant: the last predecessor wins.
AbsorbLast(acc, v) == IF v = NoValue THEN acc ELSE v

Absorb(acc, v) ==
    IF v = NoValue THEN acc
    ELSE IF acc = NoValue THEN v
    ELSE Merge(acc, v)

\* The loop over the predecessors; NoValue when none contributes (!hasPreds).
MergeIncoming(j, ex, b) ==
    LET acc[i \in 0..Len(j.pred[b])] ==
            IF i = 0 THEN NoValue
                     ELSE Absorb(acc[i - 1], Incoming(j, ex, j.pred[b][i], b))
    IN  acc[Len(j.pred[b])]

\* The two arms of one ?: rejoin at b and neither changed anything but what
\* the condition says: the condition block's exit is the entry of b.
Rewinds(j, ex, g, b) ==
    /\ g \in j.ternary
    /\ ex[g] # NoValue
    /\ Elements(j.pred[b]) = Elements(j.succ[g])
    /\ Len(j.pred[b]) = 2
    /\ \A side \in BOOLEAN :
          LET arm == j.succ[g][IF side THEN 1 ELSE 2]
          IN  /\ arm \in Block
              /\ j.pred[arm] = <<g>>
              /\ ex[arm] = j.refine[g][side][ex[g]]

EntryState(j, ex, b) ==
    LET rewound == {g \in Block : Rewinds(j, ex, g, b)}
        merged == MergeIncoming(j, ex, b)
    IN  IF rewound # {} THEN ex[CHOOSE g \in rewound : TRUE]
        ELSE IF merged = NoValue THEN InitialState
        ELSE merged

HasPreds(j, ex, b) ==
    \/ \E g \in Block : Rewinds(j, ex, g, b)
    \/ MergeIncoming(j, ex, b) # NoValue

-----------------------------------------------------------------------------
(* The worklist *)

\* Mutants: a pending block is queued again; a pruned edge is queued.
EnqueueAlways(w, b) ==
    IF b = NoBlock THEN w
    ELSE [order |-> Append(w.order, b), queued |-> [w.queued EXCEPT ![b] = TRUE]]

EnqueuePruned(w, b) ==
    IF b # NoBlock /\ w.queued[b]
      THEN w
      ELSE [order |-> Append(w.order, b), queued |-> [w.queued EXCEPT ![b] = TRUE]]

\* enqueue(): a pruned edge and a block that is already pending are skipped.
Enqueue(w, b) ==
    IF b = NoBlock \/ w.queued[b]
      THEN w
      ELSE [order |-> Append(w.order, b), queued |-> [w.queued EXCEPT ![b] = TRUE]]

\* Mutant: only the first successor is woken.
EnqueueFirstSuccessor(j, w, b) ==
    IF j.succ[b] = <<>> THEN w ELSE Enqueue(w, j.succ[b][1])

EnqueueSuccessors(j, w, b) ==
    LET push[i \in 0..Len(j.succ[b])] ==
            IF i = 0 THEN w ELSE Enqueue(push[i - 1], j.succ[b][i])
    IN  push[Len(j.succ[b])]

Dequeue(w) == [order |-> Tail(w.order),
               queued |-> [w.queued EXCEPT ![Head(w.order)] = FALSE]]

EmptyWorklist == [order |-> <<>>, queued |-> [b \in Block |-> FALSE]]

\* Mutant: widening without memory.
WidenedMemoryless(b, entry) == Widen(entry)

\* The entry state after the widening step of one visit.
Widened(b, entry) ==
    Widen(IF widenMemory[b] = NoValue THEN entry ELSE Merge(widenMemory[b], entry))

WidensNow(b) == job.widens /\ visitCounts[b] + 1 > widenAfter

VisitEntry(b) ==
    IF WidensNow(b) THEN Widened(b, EntryState(job, exits, b)) ELSE EntryState(job, exits, b)

-----------------------------------------------------------------------------
Init ==
    /\ job \in Job
    /\ phase = "start"
    /\ worklist = EmptyWorklist
    /\ exits = [b \in Block |-> NoValue]
    /\ visitCounts = [b \in Block |-> 0]
    /\ widenMemory = [b \in Block |-> NoValue]
    /\ iterations = 0
    /\ result = [converged |-> FALSE, failure |-> "None"]
    /\ reported = [b \in Block |-> NoValue]

\* No body, or no CFG: a dependent template pattern is deferred to its
\* instantiations and is not a failure.
Unavailable ==
    /\ phase = "start"
    /\ job.body # "cfg"
    /\ phase' = "done"
    /\ result' = IF job.body = "dependent"
                   THEN [converged |-> TRUE, failure |-> "None"]
                   ELSE [converged |-> FALSE, failure |-> "CfgUnavailable"]
    /\ UNCHANGED <<job, worklist, exits, visitCounts, widenMemory, iterations, reported>>

Begin ==
    /\ phase = "start"
    /\ job.body = "cfg"
    /\ phase' = "fixpoint"
    /\ worklist' = Enqueue(EmptyWorklist, Entry)
    /\ UNCHANGED <<job, exits, visitCounts, widenMemory, iterations, result, reported>>

Running == phase = "fixpoint" /\ worklist.order # <<>> /\ iterations < maxIterations

\* One turn of the loop.  A block with no contributing predecessor is dropped;
\* a block cut by a fatal or noreturn call records no exit; any other block
\* records its exit and wakes its successors when the exit changed.
Skip(b) ==
    /\ b # Entry /\ ~HasPreds(job, exits, b)
    /\ worklist' = Dequeue(worklist)
    /\ UNCHANGED <<exits, visitCounts, widenMemory>>

CountVisit(b) ==
    /\ visitCounts' = IF job.widens THEN [visitCounts EXCEPT ![b] = @ + 1] ELSE visitCounts
    /\ widenMemory' = IF WidensNow(b) THEN [widenMemory EXCEPT ![b] = VisitEntry(b)]
                                      ELSE widenMemory

Die(b) ==
    /\ b = Entry \/ HasPreds(job, exits, b)
    /\ b \in job.dies
    /\ worklist' = Dequeue(worklist)
    /\ CountVisit(b)
    /\ UNCHANGED exits

Record(b) ==
    LET exit == job.xfer[b][VisitEntry(b)]
    IN  /\ b = Entry \/ HasPreds(job, exits, b)
        /\ b \notin job.dies
        /\ CountVisit(b)
        /\ exits' = [exits EXCEPT ![b] = exit]
        /\ worklist' = IF exits[b] # exit
                         THEN EnqueueSuccessors(job, Dequeue(worklist), b)
                         ELSE Dequeue(worklist)

Visit ==
    /\ Running
    /\ LET b == Head(worklist.order) IN Skip(b) \/ Die(b) \/ Record(b)
    /\ iterations' = iterations + 1
    /\ UNCHANGED <<job, phase, result, reported>>

Settle ==
    /\ phase = "fixpoint"
    /\ ~Running
    /\ phase' = "report"
    /\ result' = IF worklist.order = <<>>
                   THEN [converged |-> TRUE, failure |-> "None"]
                   ELSE [converged |-> FALSE, failure |-> "IterationLimit"]
    /\ UNCHANGED <<job, worklist, exits, visitCounts, widenMemory, iterations, reported>>

\* Phase 2 walks every block from its recomputed entry state.
Report ==
    /\ phase = "report"
    /\ phase' = "done"
    /\ reported' = [b \in Block |-> IF b = Entry \/ HasPreds(job, exits, b)
                                      THEN EntryState(job, exits, b)
                                      ELSE NoValue]
    /\ UNCHANGED <<job, worklist, exits, visitCounts, widenMemory, iterations, result>>

Next == Unavailable \/ Begin \/ Visit \/ Settle \/ Report

Spec == Init /\ [][Next]_vars
-----------------------------------------------------------------------------
(* Properties *)

WorklistType == [order : Seq(Block), queued : [Block -> BOOLEAN]]

TypeOK ==
    /\ job \in Job
    /\ phase \in {"start", "fixpoint", "report", "done"}
    /\ worklist \in WorklistType
    /\ exits \in [Block -> Value \cup {NoValue}]
    /\ visitCounts \in [Block -> Nat]
    /\ widenMemory \in [Block -> Value \cup {NoValue}]
    /\ iterations \in Nat
    /\ result \in [converged : BOOLEAN,
                   failure : {"None", "CfgUnavailable", "IterationLimit"}]
    /\ reported \in [Block -> Value \cup {NoValue}]

\* `At most one pending entry per block' (DataflowEngine.h, above the worklist):
\* the queue and the queued[] flags agree, and no block is in the queue twice,
\* whatever order the predecessors of a block change in.
PendingOnce ==
    /\ \A b \in Block : worklist.queued[b] <=> b \in Elements(worklist.order)
    /\ \A i, k \in DOMAIN worklist.order :
          i # k => worklist.order[i] # worklist.order[k]

\* `Reports therefore always reflect the fixpoint': once a non-widening analysis
\* has converged, every exit state is its block's function of the entry state
\* the reporting pass recomputes, and only a dying block has an entry state and
\* no exit.
ReportsReflectFixpoint ==
    phase = "done" /\ job.body = "cfg" /\ result.converged /\ ~job.widens
      => \A b \in Block \ job.dies :
            exits[b] = IF reported[b] = NoValue THEN NoValue ELSE job.xfer[b][reported[b]]

\* The iteration cap is a fuse for analyses that climb forever, and widening is
\* what stops those: an analysis that widens converges.
WideningConverges ==
    phase = "done" /\ job.body = "cfg" /\ job.widens => result.converged

=============================================================================
