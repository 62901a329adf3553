-------------------------- MODULE DataflowSoundness --------------------------
(***************************************************************************)
(* What the rules rely on in module Dataflow: after runDataflow has        *)
(* converged, execute the analysed function.  Whatever path the execution  *)
(* takes, the concrete value it has on entering a block is one that the    *)
(* block's reported entry state stands for.                                *)
(***************************************************************************)
EXTENDS Dataflow

CONSTANTS
    Concrete,       \* the concrete states of the function
    Gamma(_),       \* the concrete states an abstract value stands for
    Run(_, _, _),   \* Run(j, b, c): the states block b of job j can end in
    Takes(_, _, _)  \* Takes(j, b, side): the states that take that edge of b

VARIABLES
    at,             \* the block the execution is entering, or NoBlock
    value           \* its concrete state there, or NoValue before it starts

walkVars == <<at, value>>
allVars == <<job, phase, worklist, exits, visitCounts, widenMemory,
             iterations, result, reported, at, value>>

\* The concrete states that leave p for b.
Leaves(p, b) == IF p \in job.branch THEN Takes(job, p, b = job.succ[p][1]) ELSE Concrete

(***************************************************************************)
(* The contract of an analysis: its operations over-approximate.  The      *)
(* flags refute an edge only when nothing takes it.                        *)
(***************************************************************************)
ASSUME GammaAssumption ==
    /\ \A v \in Value : Gamma(v) \subseteq Concrete
    /\ \A v, w \in Value : Gamma(v) \cup Gamma(w) \subseteq Gamma(Merge(v, w))
    /\ \A v \in Value : Gamma(v) \subseteq Gamma(Widen(v))

ASSUME AnalysisAssumption ==
    \A j \in Job :
      /\ \A b \in Block, v \in Value, c \in Concrete :
            c \in Gamma(v) => Run(j, b, c) \subseteq Gamma(j.xfer[b][v])
      /\ \A b \in j.branch, side \in BOOLEAN :
            /\ \A v \in Value :
                  Gamma(v) \cap Takes(j, b, side) \subseteq Gamma(j.refine[b][side][v])
            /\ Takes(j, b, side) \subseteq Concrete
            /\ <<b, side>> \in j.infeasible => Takes(j, b, side) = {}

-----------------------------------------------------------------------------
WalkInit == Init /\ at = NoBlock /\ value = NoValue

Analyse == Next /\ UNCHANGED walkVars

Enter ==
    /\ phase = "done"
    /\ job.body = "cfg"
    /\ at = NoBlock
    /\ at' = Entry
    /\ value' \in Gamma(InitialState)
    /\ UNCHANGED vars

\* Run the block and leave by an edge; nothing leaves a dying block.
Walk ==
    /\ at # NoBlock
    /\ at \notin job.dies
    /\ \E b \in Elements(job.succ[at]) \ {NoBlock} :
          /\ at' = b
          /\ value' \in Run(job, at, value) \cap Leaves(at, b)
    /\ UNCHANGED vars

WalkNext == Analyse \/ Enter \/ Walk

WalkSpec == WalkInit /\ [][WalkNext]_allVars
-----------------------------------------------------------------------------
(* Properties *)

WalkTypeOK == TypeOK /\ at \in Block \cup {NoBlock} /\ value \in Concrete \cup {NoValue}

\* No path the function can take is missed: after convergence, the state in
\* which an execution enters a block is one the reported entry state covers.
Covered ==
    at # NoBlock /\ result.converged
      => reported[at] # NoValue /\ value \in Gamma(reported[at])

\* `The classical fix, WITH time memory': from one widened visit of a block to
\* the next its entry state only gains concrete states, so a fact that flips
\* from visit to visit is lost for good.
WidenMemoryClimbs ==
    [][\A b \in Block :
          widenMemory[b] # NoValue => Gamma(widenMemory[b]) \subseteq Gamma(widenMemory'[b])]_allVars
=============================================================================
