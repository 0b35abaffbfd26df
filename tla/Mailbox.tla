------------------------------ MODULE Mailbox ------------------------------
(***************************************************************************)
(* BoundedMailbox (src/src/mailbox.ts): the ring buffer behind every       *)
(* actor's mailbox.  A slot is a message or Empty (undefined); the array   *)
(* is a function on 0..cap-1.  As in JavaScript, writing at index cap      *)
(* extends the array by one slot.                                          *)
(*                                                                         *)
(* The messages of one mailbox operation are chosen by its callers in      *)
(* actor_system.ts: dispatch (enqueue), processMailbox (dequeue),          *)
(* unstashAll and injectMessages (unshift), drainMailbox (drain) and       *)
(* _rejectPendingCallsForMigration (replaceWith).                          *)
(***************************************************************************)
EXTENDS Integers, Sequences, FiniteSets, SequencesExt

CONSTANTS
    Casts, Calls,         \* the messages, by type
    Empty,                \* undefined, in a slot
    Configs,              \* the MailboxConfigs an actor may be spawned with
    InitCap,              \* the 16 of the constructor and of replaceWith
    MaxLen,               \* bound of the model: messages in the mailbox
    MaxDropped,           \* bound of the model: messages dropped
    MaxBatch,             \* bound of the model: messages of one unshift
    MaxDoublings          \* bound of the model: doublings in one operation

ASSUME MailboxAssumption ==
    /\ Casts \intersect Calls = {}
    /\ Empty \notin Casts \union Calls
    /\ Configs \subseteq [bounded : BOOLEAN, maxSize : Nat \ {0},
                          strategy : {"drop-newest", "drop-oldest", "error"}]
    /\ InitCap \in Nat \ {0}
    /\ MaxLen \in Nat
    /\ MaxDropped \in Nat
    /\ MaxBatch \in Nat
    /\ MaxDoublings \in Nat

Msgs == Casts \union Calls

\* The batches unstashAll and injectMessages may prepend.
Batches == UNION {[1..n -> Msgs] : n \in 1..MaxBatch}

VARIABLES
    config,   \* maxSize (when bounded) and overflowStrategy, fixed at creation
    buf,      \* buf
    cap,      \* buf.length
    head,     \* head: index of the first element
    tail,     \* tail: index of the next write slot
    size,     \* size
    dropped,  \* droppedCount
    answer    \* what the last operation returned and which messages left

vars == <<config, buf, cap, head, tail, size, dropped, answer>>

Answer(outcome, left) == [outcome |-> outcome, left |-> left]

EmptyBuf(c) == [i \in 0..(c - 1) |-> Empty]

\* buf[i] = m, which extends the array when i is its length.
Written(b, c, i, m) ==
    IF i < c THEN [b EXCEPT ![i] = m]
             ELSE [j \in 0..i |-> IF j = i THEN m ELSE b[j]]

CapAfterWrite(c, i) == IF i < c THEN c ELSE i + 1

\* toArray(): the slots from head on, in ring order.
Contents == [i \in 1..size |-> buf[(head + i - 1) % cap]]

isFull == config.bounded /\ size >= config.maxSize

\* The capacities grow() reaches from c, and the first of them that holds n.
Doublings(c) == {c * (2 ^ k) : k \in 0..MaxDoublings}

FirstToHold(d, c, n) ==
    /\ d \in Nat /\ d >= n /\ d >= c
    /\ \A e \in Doublings(c) : e >= n => d <= e

\* Mutant of Grown: the array is copied as it lies, not from head on.
GrownAsItLies(d) == [i \in 0..(d - 1) |-> IF i < size THEN buf[i] ELSE Empty]

\* The array after grow() reaches capacity d: the elements from slot 0 on.
Grown(d) == [i \in 0..(d - 1) |->
                IF i < size THEN buf[(head + i) % cap] ELSE Empty]

Init ==
    /\ config \in Configs
    /\ buf = EmptyBuf(InitCap)
    /\ cap = InitCap
    /\ head = 0 /\ tail = 0 /\ size = 0
    /\ dropped = 0
    /\ answer = Answer("none", <<>>)

----------------------------------------------------------------------------
(* enqueue(msg) *)

EnqueueInPlace(m) ==
    /\ size # cap
    /\ LET c == CapAfterWrite(cap, tail)
       IN  /\ buf' = Written(buf, cap, tail, m)
           /\ cap' = c
           /\ tail' = (tail + 1) % c
    /\ UNCHANGED head

EnqueueGrown(m) ==
    /\ size = cap
    /\ buf' = [Grown(2 * cap) EXCEPT ![size] = m]
    /\ cap' = 2 * cap
    /\ head' = 0
    /\ tail' = (size + 1) % (2 * cap)

EnqueueAccepted(m) ==
    /\ ~isFull
    /\ size < MaxLen
    /\ EnqueueInPlace(m) \/ EnqueueGrown(m)
    /\ size' = size + 1
    /\ answer' = Answer("accepted", <<>>)
    /\ UNCHANGED dropped

\* The caller learns that its message was not taken: false, or an exception.
EnqueueRefused(m) ==
    /\ isFull
    /\ dropped < MaxDropped
    /\ dropped' = dropped + 1
    /\ \/ config.strategy = "drop-newest" /\ answer' = Answer("dropped", <<>>)
       \/ config.strategy = "error" /\ answer' = Answer("MailboxFullError", <<>>)
    /\ UNCHANGED <<buf, cap, head, tail, size>>

\* The oldest message makes room; a call among them is rejected.
EnqueueEvicting(m) ==
    /\ isFull
    /\ config.strategy = "drop-oldest"
    /\ dropped < MaxDropped
    /\ dropped' = dropped + 1
    /\ LET evicted == buf[head]
           c       == CapAfterWrite(cap, tail)
       IN  /\ answer' = Answer(IF evicted \in Calls THEN "evictedCall"
                                                    ELSE "evictedCast",
                               <<evicted>>)
           /\ buf' = Written([buf EXCEPT ![head] = Empty], cap, tail, m)
           /\ cap' = c
           /\ head' = (head + 1) % cap
           /\ tail' = (tail + 1) % c
    /\ UNCHANGED size

enqueue(m) == EnqueueAccepted(m) \/ EnqueueRefused(m) \/ EnqueueEvicting(m)

----------------------------------------------------------------------------
(* The other operations *)

dequeue ==
    /\ UNCHANGED <<cap, tail, dropped>>
    /\ \/ /\ size = 0
          /\ answer' = Answer("empty", <<>>)
          /\ UNCHANGED <<buf, head, size>>
       \/ /\ size # 0
          /\ answer' = Answer("taken", <<buf[head]>>)
          /\ buf' = [buf EXCEPT ![head] = Empty]
          /\ head' = (head + 1) % cap
          /\ size' = size - 1

\* unshift(...msgs): no capacity check, the ring grows until the batch fits.
UnshiftInPlace(ms) ==
    LET n     == Len(ms)
        h     == (head - n + cap) % cap
        at(i) == (i - h + cap) % cap
    IN  /\ size + n <= cap
        /\ head' = h
        /\ buf' = [i \in 0..(cap - 1) |->
                      IF at(i) < n THEN ms[at(i) + 1] ELSE buf[i]]
        /\ UNCHANGED <<cap, tail>>

UnshiftGrown(ms) ==
    LET n == Len(ms)
    IN  /\ size + n > cap
        /\ \E d \in Doublings(cap) :
              /\ FirstToHold(d, cap, size + n)
              /\ cap' = d
              /\ tail' = size
              /\ head' = d - n
              /\ buf' = [i \in 0..(d - 1) |->
                            IF i >= d - n THEN ms[i - (d - n) + 1]
                                          ELSE Grown(d)[i]]

unshift(ms) ==
    /\ size + Len(ms) <= MaxLen
    /\ UnshiftInPlace(ms) \/ UnshiftGrown(ms)
    /\ size' = size + Len(ms)
    /\ answer' = Answer("putBack", <<>>)
    /\ UNCHANGED dropped

\* drain(): toArray() and clear().
drain ==
    /\ answer' = Answer("drained", Contents)
    /\ buf' = EmptyBuf(cap)
    /\ head' = 0 /\ tail' = 0 /\ size' = 0
    /\ UNCHANGED <<cap, dropped>>

\* replaceWith(msgs): the tail is the number of messages, even when that is
\* the length of the array.
replaceWith(ms) ==
    /\ ms \in Seq(Msgs)
    /\ \E needed \in Doublings(InitCap) :
        /\ FirstToHold(needed, InitCap, Len(ms))
        /\ cap' = IF cap < needed THEN needed ELSE cap
        /\ buf' = [i \in 0..(cap' - 1) |->
                      IF i < Len(ms) THEN ms[i + 1] ELSE Empty]
        /\ head' = 0 /\ tail' = Len(ms) /\ size' = Len(ms)

\* _rejectPendingCallsForMigration: calls are rejected, the rest is kept.
Kept == SelectSeq(Contents, LAMBDA m : m \notin Calls)

rejectPendingCalls ==
    /\ replaceWith(Kept)
    /\ answer' = Answer("callsRefused",
                        SelectSeq(Contents, LAMBDA m : m \in Calls))
    /\ UNCHANGED dropped

----------------------------------------------------------------------------
OtherThanReplace ==
    \/ \E m \in Msgs : enqueue(m)
    \/ \E ms \in Batches : unshift(ms)
    \/ dequeue \/ drain

Next == (OtherThanReplace \/ rejectPendingCalls) /\ UNCHANGED config

Spec == Init /\ [][Next]_vars

(* The same system, when no migration attempt keeps exactly as many        *)
(* messages as the array then has slots, so that the tail stays a slot.    *)
NextNoExactFill ==
    /\ OtherThanReplace \/ (rejectPendingCalls /\ tail' < cap')
    /\ UNCHANGED config

SpecNoExactFill == Init /\ [][NextNoExactFill]_vars

----------------------------------------------------------------------------
(* Properties *)

\* The fields keep their types; head is a slot of the array, tail a slot or its end.
TypeOK ==
    /\ config \in Configs
    /\ cap \in Nat \ {0}
    /\ buf \in [0..(cap - 1) -> Msgs \union {Empty}]
    /\ head \in 0..(cap - 1)
    /\ tail \in 0..cap
    /\ size \in 0..cap
    /\ dropped \in 0..MaxDropped

InWindow(i) == (i - head + cap) % cap < size

\* The ring is where head, tail and size say it is, whatever sequence of
\* grow(), unshift(), drain() and replaceWith() led there: the tail is the
\* slot after the last element, the elements are messages, and every slot
\* outside them was cleared (the "allow GC" of dequeue and clear).
RingOK ==
    /\ tail = (head + size) % cap
    /\ \A i \in 0..(cap - 1) : buf[i] # Empty <=> InWindow(i)

\* Every message the mailbox counts is there to be dequeued: no element
\* between head and tail is undefined ("Ring-buffer backed mailbox",
\* mailbox.ts:16, with tail the "index of next write slot", mailbox.ts:27).
CountedAreThere == \A i \in 1..size : Contents[i] \in Msgs

Fifo == INSTANCE BoundedFifo WITH queue <- Contents

\* Seen from outside, the ring is a bounded queue: nothing is lost, doubled
\* or reordered by growth, wrap-around, unstashing or a migration attempt.
ImplementsFifo == Fifo!Spec

=============================================================================
