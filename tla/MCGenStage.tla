----------------------------- MODULE MCGenStage -----------------------------
(* A producer p that feeds a consumer and a producer-consumer, which feeds a *)
(* consumer supervisor.                                                      *)
EXTENDS GenStage

MCUp == [t \in {"a", "b", "c"} |-> IF t = "c" THEN "pc" ELSE "p"]
MCDown == [t \in {"a", "b", "c"} |-> CASE t = "a" -> "cons" [] t = "b" -> "pc" [] t = "c" -> "sup"]
MCDispatchers == [s \in {"p", "pc"} |-> IF s = "p" THEN {"demand", "broadcast", "partition"}
                                                    ELSE {"demand"}]

\* Subscribers of a broadcast each get all events: two will do, but for a
\* willing producer, which has one more than a demand asks for.
MCMaxEvents == [d \in {"demand", "broadcast", "partition"}, w \in BOOLEAN |->
                   IF d = "broadcast" /\ ~w THEN 2 ELSE 3]

\* Both subscriptions of p want partition 0, or each its own.
MCPartOptions == {[t \in {"a", "b", "c"} |-> 0], [t \in {"a", "b", "c"} |-> IF t = "b" THEN 1 ELSE 0]}
=============================================================================
