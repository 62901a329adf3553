----------------------------- MODULE MCSummaries -----------------------------
(***************************************************************************)
(* Module Summaries for two units (three, with overloads), three functions that call each other in *)
(* every way (across units, in cycles, through a function pointer) and a   *)
(* library function (a function that calls f, with overloads).             *)
(***************************************************************************)
EXTENDS Summaries, TLC

CONSTANTS Overloads     \* are g and h overloads with as many parameters

MCFn == {"f", "g", "h", "lib"}
MCTU == IF Overloads THEN {"a", "b", "c"} ELSE {"a", "b"}
MCKey == {"f/1", "g/1", "h/1", "lib/1"}

Lit(kind) == [kind |-> kind, targets |-> {}]
Call(targets) == [kind |-> "call", targets |-> targets]

ReturnsOfF ==
    LET es == {Lit("null"), Lit("address"), Call({"f"}), Call({"g"}), Call({"g", "h"}), Call({"h", "lib"})}
    IN  {{a, b} : a, b \in es}

ReturnsOfG == {{Lit("address")}, {Lit("null")}, {Call({"h"})},
               {Call({"f"}), Lit("address")}, {Call({"f"}), Call({"h"})}, {Call({"lib"})}}
ReturnsOfH == {{Lit("address")}, {Lit("null"), Lit("address")}, {Call({"f"})}, {Lit("opaque")}}

ReturnsOfLib == IF Overloads THEN {Call({"f"})} ELSE {}
Library == IF Overloads THEN {} ELSE {"lib"}

\* The least solutions of what Faithful asks of a program.
Closure(returns, sources, outside) ==
    LET step[n \in 0..4] ==
            IF n = 0 THEN outside
            ELSE LET last == step[n - 1]
                 IN  {f \in MCFn : f \in last \/ \E e \in returns[f] :
                                      e.kind \in sources \/ e.targets \cap last # {}}
    IN  step[4]

ProgramOf(returns, tus, hidden, whole, out) ==
    [tus |-> tus, key |-> [f \in MCFn |-> IF Overloads /\ f = "h" THEN "g/1" ELSE f \o "/1"],
     visible |-> MCFn \ hidden, returns |-> returns,
     canBeNull |-> Closure(returns, {"null", "opaque"}, Library),
     hasNullSource |-> Closure(returns, {"null"}, {}),
     wholeProgram |-> whole, summaryOut |-> out]

\* The units of g, those of h, and the functions that are static.
Placements ==
    IF Overloads THEN {<<{"b"}, {"c"}, {}>>}
    ELSE {<<{"a"}, {"b"}, {}>>, <<{"b"}, {"b"}, {}>>, <<{"a"}, {"a", "b"}, {}>>,
          <<{"b"}, {"a", "b"}, {}>>, <<{"b"}, {"a", "b"}, {"h"}>>}

MCProgram ==
    { ProgramOf("f" :> rf @@ "g" :> rg @@ "h" :> rh @@ "lib" :> ReturnsOfLib,
                "f" :> {"a"} @@ "g" :> at[1] @@ "h" :> at[2] @@ "lib" :> (IF Overloads THEN {"c"} ELSE {}),
                at[3], mode[1], mode[2]) :
        rf \in ReturnsOfF, rg \in ReturnsOfG, rh \in ReturnsOfH, at \in Placements,
        mode \in {<<TRUE, FALSE>>, <<FALSE, TRUE>>, <<TRUE, TRUE>>} }
=============================================================================
