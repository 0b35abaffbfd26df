---------------------------- MODULE BoundedFifo ----------------------------
(***************************************************************************)
(* What an actor's mailbox promises its users: a queue of messages, with   *)
(* an optional bound that only enqueue enforces, a priority lane for       *)
(* messages that were accepted before (unshift), and an answer for every   *)
(* operation.  BoundedMailbox (Mailbox.tla) implements it with a ring.     *)
(***************************************************************************)
EXTENDS Integers, Sequences, FiniteSets, SequencesExt

CONSTANTS
    Casts,       \* messages nobody waits for
    Calls,       \* messages whose sender waits for an answer
    Configs,     \* the bounds and overflow strategies to choose from
    MaxLen,      \* bound of the model: messages in the mailbox
    MaxDropped,  \* bound of the model: messages dropped on overflow
    MaxBatch     \* bound of the model: messages of one unshift

Msgs == Casts \union Calls

\* The batches unstashAll and injectMessages may prepend.
Batches == UNION {[1..n -> Msgs] : n \in 1..MaxBatch}

VARIABLES
    config,   \* the bound and the strategy, fixed at creation
    queue,    \* the messages waiting, oldest first
    dropped,  \* droppedCount
    answer    \* what the last operation returned and which messages left

vars == <<config, queue, dropped, answer>>

\* The answer to an operation: its outcome, and the messages it took out.
Answer(outcome, left) == [outcome |-> outcome, left |-> left]

NoAnswer == Answer("none", <<>>)

Full == config.bounded /\ Len(queue) >= config.maxSize

Init ==
    /\ config \in Configs
    /\ queue = <<>> /\ dropped = 0 /\ answer = NoAnswer

Accept(m) ==
    /\ ~Full
    /\ Len(queue) < MaxLen
    /\ queue' = Append(queue, m)
    /\ answer' = Answer("accepted", <<>>)
    /\ UNCHANGED dropped

\* Overflow: the new message, or the oldest one, is given up and counted.
Overflow(m) ==
    /\ Full
    /\ dropped < MaxDropped
    /\ dropped' = dropped + 1
    /\ \/ /\ config.strategy = "drop-newest"
          /\ answer' = Answer("dropped", <<>>)
          /\ UNCHANGED queue
       \/ /\ config.strategy = "drop-oldest"
          /\ queue # <<>>
          /\ queue' = Append(Tail(queue), m)
          /\ answer' = Answer(IF Head(queue) \in Calls THEN "evictedCall"
                                                       ELSE "evictedCast",
                              <<Head(queue)>>)
       \/ /\ config.strategy = "error"
          /\ answer' = Answer("MailboxFullError", <<>>)
          /\ UNCHANGED queue

Take ==
    /\ UNCHANGED dropped
    /\ \/ /\ queue = <<>>
          /\ answer' = Answer("empty", <<>>)
          /\ UNCHANGED queue
       \/ /\ queue # <<>>
          /\ queue' = Tail(queue)
          /\ answer' = Answer("taken", <<Head(queue)>>)

\* Messages accepted earlier come back to the front, in their order.
PutBack(ms) ==
    /\ Len(queue) + Len(ms) <= MaxLen
    /\ queue' = ms \o queue
    /\ answer' = Answer("putBack", <<>>)
    /\ UNCHANGED dropped

TakeAll ==
    /\ queue' = <<>>
    /\ answer' = Answer("drained", queue)
    /\ UNCHANGED dropped

\* The calls are refused and leave; the casts stay, in their order.
RefuseCalls ==
    /\ queue' = SelectSeq(queue, LAMBDA m : m \notin Calls)
    /\ answer' = Answer("callsRefused", SelectSeq(queue, LAMBDA m : m \in Calls))
    /\ UNCHANGED dropped

Next ==
    /\ \/ \E m \in Msgs : Accept(m) \/ Overflow(m)
       \/ \E ms \in Batches : PutBack(ms)
       \/ Take \/ TakeAll \/ RefuseCalls
    /\ UNCHANGED config

Spec == Init /\ [][Next]_vars
=============================================================================
