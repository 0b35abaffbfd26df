----------------------------- MODULE MCMailbox -----------------------------
(* Small instances of Mailbox: two casts and a call, a first buffer of two *)
(* slots, an unbounded mailbox and one of two places per strategy.         *)
EXTENDS Mailbox

MCConfigs ==
    {[bounded |-> FALSE, maxSize |-> 1, strategy |-> "drop-newest"]} \union
    {[bounded |-> TRUE, maxSize |-> 2, strategy |-> s] :
        s \in {"drop-newest", "drop-oldest", "error"}}
=============================================================================
