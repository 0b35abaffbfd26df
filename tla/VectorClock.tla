---------------------------- MODULE VectorClock ----------------------------
(***************************************************************************)
(* VectorClock (src/src/vector_clock.ts).  A missing entry counts as 0, so *)
(* a clock is a function from the nodes to their ticks.                    *)
(***************************************************************************)
EXTENDS Naturals

CONSTANT Nodes

Clock == [Nodes -> Nat]

NoTicks == [n \in Nodes |-> 0]

increment(c, n) == [c EXCEPT ![n] = @ + 1]

Larger(x, y) == IF x >= y THEN x ELSE y

merge(c, d) == [n \in Nodes |-> Larger(c[n], d[n])]

\* Equal clocks compare as "concurrent", as in the code.
compare(c, d) ==
    LET hasGreater == \E n \in Nodes : c[n] > d[n]
        hasLess    == \E n \in Nodes : c[n] < d[n]
    IN  IF hasGreater /\ ~hasLess THEN "after"
        ELSE IF hasLess /\ ~hasGreater THEN "before"
        ELSE "concurrent"

\* c knows every tick d knows.
Covers(c, d) == \A n \in Nodes : d[n] <= c[n]
=============================================================================
