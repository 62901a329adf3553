------------------------------ MODULE Service ------------------------------
(***************************************************************************)
(* What the MCP server promises its client: the lines are dealt with one   *)
(* after another, each that wants an answer gets exactly one, the answers  *)
(* come in the order of the lines, and every line is dealt with in the end.*)
(***************************************************************************)
EXTENDS Naturals, Sequences

CONSTANTS
    Line,   \* what a client may send
    Silent  \* the lines that get no answer

VARIABLES
    asked,      \* the lines sent
    done,       \* how many have been dealt with
    answers     \* for each answer, the number of the line it answers

vars == <<asked, done, answers>>

Init == asked = <<>> /\ done = 0 /\ answers = <<>>

Ask(l) == asked' = Append(asked, l) /\ UNCHANGED <<done, answers>>

Deal ==
    /\ done < Len(asked)
    /\ done' = done + 1
    /\ answers' = IF asked[done'] \in Silent THEN answers ELSE Append(answers, done')
    /\ UNCHANGED asked

Next == Deal \/ \E l \in Line : Ask(l)

Spec == Init /\ [][Next]_vars /\ WF_vars(Deal)
=============================================================================
