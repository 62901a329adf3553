------------------------------ MODULE MCWidening ------------------------------
(***************************************************************************)
(* Module Dataflow on the interval analysis (src/src/engine/               *)
(* IntervalAnalysis.h) of                                                  *)
(*    i = 0; while (more()) { if (a) ..; if (b) ..; ...; i++; }            *)
(* with Diamonds ifs in the body.  A state is the upper bound of i, whose  *)
(* lower bound is 0, or Top.                                               *)
(***************************************************************************)
EXTENDS Dataflow, TLC, SequencesExt

CONSTANTS Diamonds, Top

\* 1 entry, 2 i = 0, 3 the loop head, then three blocks for each if, the
\* increment, the return and the exit.
Inc == 4 + 3 * Diamonds
MCBlock == 1..(Inc + 2)

SuccOf(b) ==
    CASE b < 3               -> <<b + 1>>
      [] b = 3               -> <<4, Inc + 1>>
      [] b = Inc             -> <<3>>
      [] b = Inc + 1         -> <<Inc + 2>>
      [] b = Inc + 2         -> <<>>
      [] OTHER -> CASE b % 3 = 1 -> <<b + 1, b + 2>>
                    [] OTHER -> IF b % 3 = 2 THEN <<b + 2>> ELSE <<b + 1>>

\* One interval variable: latticeHeight() is 2 * 1 + 4.
Height == 6

\* Larger than any bound the iteration cap lets i reach.
MaxBound == Cardinality(MCBlock) * (Height + 2)
Bound == 0..MaxBound \cup {Top}

Join(v, w) == IF Top \in {v, w} THEN Top ELSE IF v < w THEN w ELSE v

\* IntervalAnalysis::widen keeps singletons only.
WidenBound(v) == IF v = 0 THEN v ELSE Top

MCJob ==
    { [body |-> "cfg",
       succ |-> [b \in MCBlock |-> SuccOf(b)],
       pred |-> [b \in MCBlock |-> SetToSortSeq({a \in MCBlock : b \in Elements(SuccOf(a))}, <)],
       branch |-> {b \in MCBlock : Len(SuccOf(b)) = 2},
       ternary |-> {}, infeasible |-> {}, dies |-> {},
       xfer |-> [b \in MCBlock |->
                   [v \in Bound |-> IF b = 2 THEN 0
                                    ELSE IF b = Inc /\ v \notin {Top, MaxBound} THEN v + 1
                                    ELSE v]],
       refine |-> [b \in MCBlock |-> [side \in BOOLEAN |-> [v \in Bound |-> v]]],
       widens |-> TRUE, height |-> Height] }
=============================================================================
