------------------------------ MODULE GenStage ------------------------------
(***************************************************************************)
(* The demand-driven stages of src/src/gen_stage.ts: producers, consumers, *)
(* producer-consumers and consumer supervisors, with the three dispatchers.*)
(*                                                                         *)
(* A subscription is a tag; Up[t] is the stage that produces for it and    *)
(* Down[t] the one that consumes.  Asks and cancels travel up, batches of  *)
(* events down; a cancel comes after the asks of its tag, and asks that    *)
(* take the synchronous path (_syncLocalCast) may pass asks in the mailbox.*)
(* Every handler is one step: none of them awaits.                         *)
(***************************************************************************)
EXTENDS Integers, FiniteSets, Sequences, SequencesExt, FiniteSetsExt

CONSTANTS
    Producers, ProducerConsumers, Consumers, Supervisors,
    Tags, Up, Down,
    Dispatchers,    \* stage -> the dispatcher types it may be created with
    NumPartitions,
    PartOptions,    \* the partition options its subscriptions may be made with
    MaxDemand, MinDemand, BufferSize, BufferKeep,
    Overshoot,      \* events handleDemand may return beyond the demand
    MaxEvents,      \* bound of the model: events a producer has, by its dispatcher
                    \* and whether it is willing
    MaxCrashes,     \* bound of the model: crashes of workers
    MaxLeaves       \* bound of the model: cancels and stops

Stages == Producers \cup ProducerConsumers \cup Consumers \cup Supervisors
Sources == Producers \cup ProducerConsumers
Sinks == Stages \ Producers
Partitions == 0..(NumPartitions - 1)

Kinds == {"demand", "broadcast", "partition"}

ASSUME StagesAssumption ==
    /\ Producers \cap ProducerConsumers = {} /\ Consumers \cap Supervisors = {}
    /\ (Consumers \cup Supervisors) \cap Sources = {}
    /\ Dispatchers \in [Sources -> SUBSET Kinds]
    /\ Up \in [Tags -> Sources] /\ Down \in [Tags -> Sinks]
    /\ NumPartitions \in Nat \ {0} /\ PartOptions \subseteq [Tags -> Partitions]
    /\ MaxDemand \in Nat \ {0} /\ MinDemand \in 0..MaxDemand
    /\ BufferSize \in Nat /\ BufferKeep \in {"first", "last"}
    /\ MaxEvents \in [Kinds \X BOOLEAN -> Nat]
    /\ {Overshoot, MaxCrashes, MaxLeaves} \subseteq Nat

VARIABLES
    disp,        \* the dispatcher of each source
    part,        \* the partition option of each subscription
    willing,     \* handleDemand returns all it is asked for while events remain
    src,         \* the state of each source's actor and dispatcher
    next,        \* events each producer's handleDemand has returned
    stopped,     \* stages whose actor has stopped
    made,        \* tags made so far: each is made once
    calling,     \* tags whose subscribe call is under way
    deferred,    \* tags whose __deferred_ask timer is pending
    active,      \* tags in the subscriptions map of their consumer
    pending,     \* pendingDemand
    asks,        \* asks under way, per tag
    cancelling,  \* tags whose cancel is under way
    batches,     \* batches of events under way, per tag
    taken,       \* history: the events the consumer was sent and received
    released,    \* releasedDemand
    workers,     \* activeWorkers whose worker runs, per tag
    respawned,   \* workers that a restart replaced: running, but unknown
    downs,       \* DOWN messages of known workers under way
    crashes

subscribing == <<made, calling, deferred, active, cancelling>>
working == <<workers, respawned, downs, crashes>>
setup == <<disp, part, willing>>
vars == <<setup, src, next, stopped, subscribing, pending, asks,
          batches, taken, released, working>>

Smaller(a, b) == IF a < b THEN a ELSE b

\* What is left of q when all but the members of S are taken out.
Only(q, S) ==
    LET kept[i \in 0..Len(q)] == IF i = 0 THEN <<>>
                                 ELSE IF q[i] \in S THEN Append(kept[i - 1], q[i])
                                 ELSE kept[i - 1]
    IN  kept[Len(q)]

Total(q) ==
    LET total[i \in 0..Len(q)] == IF i = 0 THEN 0 ELSE total[i - 1] + q[i]
    IN  total[Len(q)]

Place(q, x) == CHOOSE i \in DOMAIN q : q[i] = x

Unsubscribed ==
    [subs |-> <<>>, demand |-> [t \in Tags |-> 0], waiting |-> 0, requested |-> 0,
     parts |-> [p \in Partitions |-> <<>>], buffer |-> <<>>,
     mode |-> "forward", accumulated |-> 0,
     dropped |-> 0]      \* history: events a full buffer has dropped

Subs(a) == ToSet(a.subs)

----------------------------------------------------------------------------
(* The dispatchers, as functions of a source's state.                      *)

Hash(e) == e % NumPartitions

Entry(a, p) == {t \in Subs(a) : part[t] = p}

\* What the subscribers in S have asked for and not been sent.
Demand(a, S) ==
    Total([i \in DOMAIN a.subs |-> IF a.subs[i] \in S THEN a.demand[a.subs[i]] ELSE 0])

\* syncDemands: what every subscriber asks for becomes one waiting demand.
syncDemands(a) ==
    LET min == Min({a.demand[t] : t \in Subs(a)})
        waiting == a.waiting + min
        request == IF waiting > a.requested THEN waiting - a.requested ELSE 0
    IN  IF a.subs = <<>> \/ min = 0 THEN [state |-> a, request |-> 0]
        ELSE [state |-> [a EXCEPT !.demand = [t \in Tags |->
                                  IF t \in Subs(a) THEN @[t] - min ELSE @[t]],
                                  !.waiting = waiting,
                                  !.requested = @ + request],
              request |-> request]

\* Mutant: the waiting demand is not given back when a subscriber joins.
SubscribeForgets(s, a, t) ==
    [a EXCEPT !.subs = Append(@, t), !.demand[t] = 0,
              !.waiting = IF disp[s] = "broadcast" THEN 0 ELSE @]

Subscribe(s, a, t) ==
    [a EXCEPT !.subs = Append(@, t),
              !.demand = [u \in Tags |-> IF u = t THEN 0
                          ELSE IF disp[s] = "broadcast" /\ u \in Subs(a)
                          THEN @[u] + a.waiting ELSE @[u]],
              !.waiting = IF disp[s] = "broadcast" THEN 0 ELSE @]

Cancel(s, a, t) ==
    LET gone == [a EXCEPT !.subs = Only(@, Tags \ {t}), !.demand[t] = 0]
    IN  IF disp[s] # "broadcast" THEN gone
        ELSE IF gone.subs = <<>> THEN [gone EXCEPT !.waiting = 0, !.requested = 0]
        ELSE syncDemands(gone).state

Ask(s, a, t, d) ==
    LET more == IF t \in Subs(a) THEN [a EXCEPT !.demand[t] = @ + d] ELSE a
    IN  CASE disp[s] = "demand" ->
               [state |-> more, request |-> Demand(more, Subs(more))]
          [] disp[s] = "broadcast" ->
               IF t \in Subs(a) THEN syncDemands(more) ELSE [state |-> a, request |-> 0]
          [] disp[s] = "partition" ->
               [state |-> more, request |-> IF t \in Subs(a) THEN d ELSE 0]

\* The highest demand is served first; equal ones in the order of subscription.
ServedBefore(a, t) ==
    {u \in Subs(a) : \/ a.demand[u] > a.demand[t]
                     \/ /\ a.demand[u] = a.demand[t]
                        /\ Place(a.subs, u) < Place(a.subs, t)}

\* A result: the new state, the batch of each tag that is sent one, the rest.
DemandDispatch(a, events) ==
    LET share == [t \in Subs(a) |->
                     LET from == Demand(a, ServedBefore(a, t))
                     IN  SubSeq(events, from + 1, Smaller(from + a.demand[t], Len(events)))]
        to == {t \in Subs(a) : IF Len(a.subs) = 1 THEN a.demand[t] > 0 ELSE share[t] # <<>>}
    IN  [state |-> [a EXCEPT !.demand = [t \in Tags |->
                       IF t \in Subs(a) THEN @[t] - Len(share[t]) ELSE @[t]]],
         sent  |-> [t \in to |-> share[t]],
         rest  |-> SubSeq(events, Demand(a, Subs(a)) + 1, Len(events))]

\* Mutant: what was delivered still counts as requested.
BroadcastDispatchStillRequested(a, events) ==
    LET count == Smaller(Len(events), a.waiting)
    IN  IF a.waiting = 0 \/ a.subs = <<>>
        THEN [state |-> a, sent |-> <<>>, rest |-> events]
        ELSE [state |-> [a EXCEPT !.waiting = @ - count],
              sent  |-> [t \in Subs(a) |-> SubSeq(events, 1, count)],
              rest  |-> SubSeq(events, count + 1, Len(events))]

BroadcastDispatch(a, events) ==
    LET count == Smaller(Len(events), a.waiting)
    IN  IF a.waiting = 0 \/ a.subs = <<>>
        THEN [state |-> a, sent |-> <<>>, rest |-> events]
        ELSE [state |-> [a EXCEPT !.waiting = @ - count, !.requested = @ - count],
              sent  |-> [t \in Subs(a) |-> SubSeq(events, 1, count)],
              rest  |-> SubSeq(events, count + 1, Len(events))]

\* Fresh events go first, then the partition's buffer.
PartitionDispatch(a, events) ==
    LET demandOf(p) == IF Entry(a, p) = {} THEN 0 ELSE a.demand[CHOOSE t \in Entry(a, p) : TRUE]
        fresh(p) == Only(events, {e \in ToSet(events) : Hash(e) = p})
        now(p) == Smaller(demandOf(p), Len(fresh(p)))
        queue(p) == a.parts[p] \o SubSeq(fresh(p), now(p) + 1, Len(fresh(p)))
        drain(p) == Smaller(demandOf(p) - now(p), Len(queue(p)))
        bucket(p) == SubSeq(fresh(p), 1, now(p)) \o SubSeq(queue(p), 1, drain(p))
        to == {t \in Subs(a) : bucket(part[t]) # <<>>}
    IN  [state |-> [a EXCEPT
            !.parts = [p \in Partitions |-> SubSeq(queue(p), drain(p) + 1, Len(queue(p)))],
            !.demand = [t \in Tags |-> IF t \in to THEN @[t] - Len(bucket(part[t])) ELSE @[t]]],
         sent  |-> [t \in to |-> bucket(part[t])],
         rest  |-> <<>>]

Dispatch(s, a, events) ==
    CASE disp[s] = "demand"    -> DemandDispatch(a, events)
      [] disp[s] = "broadcast" -> BroadcastDispatch(a, events)
      [] disp[s] = "partition" -> PartitionDispatch(a, events)

----------------------------------------------------------------------------
(* What the producing half of a stage does with events.                    *)

addToBuffer(a, events) ==
    LET all == a.buffer \o events
        over == Len(all) - Smaller(Len(all), BufferSize)
    IN  [a EXCEPT !.buffer = IF BufferKeep = "last" THEN SubSeq(all, over + 1, Len(all))
                             ELSE SubSeq(all, 1, Len(all) - over),
                  !.dropped = @ + over]

\* A result of several dispatches: the state and the batches sent, in order.
Nothing == [t \in Tags |-> <<>>]

Sent(out, r) == [t \in Tags |-> IF t \in DOMAIN r.sent THEN Append(out[t], r.sent[t])
                                ELSE out[t]]

\* Mutant: what the dispatcher returns is not buffered.
dispatchOrBufferLossy(s, w, events) ==
    LET r == Dispatch(s, w.state, events)
    IN  IF w.state.subs = <<>> THEN [w EXCEPT !.state = addToBuffer(@, events)]
        ELSE [state |-> r.state, out |-> Sent(w.out, r)]

dispatchOrBuffer(s, w, events) ==
    LET r == Dispatch(s, w.state, events)
    IN  IF w.state.subs = <<>> THEN [w EXCEPT !.state = addToBuffer(@, events)]
        ELSE [state |-> addToBuffer(r.state, r.rest), out |-> Sent(w.out, r)]

drainBuffer(s, a) ==
    LET r == Dispatch(s, a, a.buffer)
    IN  [state |-> [r.state EXCEPT !.buffer = r.rest], out |-> Sent(Nothing, r)]

\* The source's new state, and its batches on their way.
Emit(s, w) ==
    /\ src' = [src EXCEPT ![s] = w.state]
    /\ batches' = [t \in Tags |-> batches[t] \o w.out[t]]

Events(s) == MaxEvents[disp[s], willing]

\* How many events handleDemand(d) returns.
Supply(s, d) ==
    LET left == Events(s) - next[s]
    IN  IF willing THEN {Smaller(d, left)} ELSE 0..Smaller(d + Overshoot, left)

\* callbacks.handleDemand(d), and what is done with the events.
handleDemand(s, w, d) ==
    \E k \in Supply(s, d) :
        LET events == [i \in 1..k |-> next[s] + i - 1]
        IN  /\ Emit(s, IF k > 0 THEN dispatchOrBuffer(s, w, events) ELSE w)
            /\ next' = [next EXCEPT ![s] = @ + k]

----------------------------------------------------------------------------
Init ==
    /\ disp \in {f \in [Sources -> Kinds] :
                    \A s \in Sources : f[s] \in Dispatchers[s]}
    /\ part \in {f \in PartOptions : \A t \in Tags : disp[Up[t]] # "partition" => f[t] = 0}
    /\ willing \in BOOLEAN
    /\ \E acc \in SUBSET Producers :
          src = [s \in Sources |-> IF s \in acc THEN [Unsubscribed EXCEPT !.mode = "accumulate"]
                                   ELSE Unsubscribed]
    /\ next = [s \in Producers |-> 0]
    /\ stopped = {} /\ made = {} /\ calling = {} /\ deferred = {} /\ active = {} /\ cancelling = {}
    /\ pending = [t \in Tags |-> 0]
    /\ asks = [t \in Tags |-> <<>>]
    /\ batches = [t \in Tags |-> <<>>]
    /\ taken = [t \in Tags |-> <<>>]
    /\ released = [t \in Tags |-> 0]
    /\ workers = [t \in Tags |-> 0]
    /\ respawned = [t \in Tags |-> 0]
    /\ downs = [t \in Tags |-> 0]
    /\ crashes = 0

\* subscribe: the tag is entered locally, then the producer is called.  A tag
\* is made once.
subscribe(t) ==
    /\ Down[t] \notin stopped
    /\ t \notin made
    /\ made' = made \cup {t}
    /\ active' = active \cup {t}
    /\ calling' = calling \cup {t}
    /\ UNCHANGED <<setup, src, next, stopped, deferred, cancelling,
                   pending, asks, batches, taken, released, working>>

\* The producer registers the tag, and the subscriber schedules its first ask;
\* a taken partition throws, and the local subscription stays.
handleSubscribe(t) ==
    LET s == Up[t]
        free == disp[s] = "partition" => Entry(src[s], part[t]) = {}
    IN  /\ t \in calling /\ s \notin stopped
        /\ calling' = calling \ {t}
        /\ src' = IF free THEN [src EXCEPT ![s] = Subscribe(s, @, t)] ELSE src
        /\ deferred' = IF free THEN deferred \cup {t} ELSE deferred
        /\ UNCHANGED <<setup, next, stopped, made, active, cancelling,
                       pending, asks, batches, taken, released, working>>

askProducer(t, d) ==
    /\ pending' = [pending EXCEPT ![t] = @ + d]
    /\ asks' = [asks EXCEPT ![t] = Append(@, d)]

\* Mutant: the first ask counts minDemand on top.
DeferredAskTooMuch(t) ==
    /\ t \in deferred /\ Down[t] \notin stopped
    /\ deferred' = deferred \ {t}
    /\ IF t \in active THEN askProducer(t, MaxDemand + MinDemand) ELSE UNCHANGED <<pending, asks>>
    /\ UNCHANGED <<setup, src, next, stopped, made, calling, active, cancelling,
                   batches, taken, released, working>>

\* The __deferred_ask timer of sendAfter(0).
DeferredAsk(t) ==
    /\ t \in deferred /\ Down[t] \notin stopped
    /\ deferred' = deferred \ {t}
    /\ IF t \in active THEN askProducer(t, MaxDemand) ELSE UNCHANGED <<pending, asks>>
    /\ UNCHANGED <<setup, src, next, stopped, made, calling, active, cancelling,
                   batches, taken, released, working>>

Leaves == Cardinality(made \ active) + Cardinality(stopped)

\* cancel / cancelUpstream, of a subscription whose subscribe has returned.
cancelSubscription(t) ==
    /\ t \in active \ calling /\ Down[t] \notin stopped /\ Leaves < MaxLeaves
    /\ cancelling' = cancelling \cup {t}
    /\ active' = active \ {t}
    /\ released' = [released EXCEPT ![t] = 0]
    /\ UNCHANGED <<setup, src, next, stopped, made, calling, deferred,
                   pending, asks, batches, taken, working>>

\* stop: cancelAll of what the stage subscribes to, then the actor ends, with
\* its workers.  A producer, and the producing half of a stage, tells nobody.
stop(s) ==
    LET own == {t \in active : Down[t] = s}
        mine == {t \in Tags : Down[t] = s}
    IN  /\ s \notin stopped /\ Leaves < MaxLeaves
        /\ stopped' = stopped \cup {s}
        /\ cancelling' = cancelling \cup own
        /\ active' = active \ own
        /\ deferred' = deferred \ mine
        /\ released' = [t \in Tags |-> IF t \in mine THEN 0 ELSE released[t]]
        /\ workers' = [t \in Tags |-> IF t \in mine THEN 0 ELSE workers[t]]
        /\ respawned' = [t \in Tags |-> IF t \in mine THEN 0 ELSE respawned[t]]
        /\ UNCHANGED <<setup, src, next, made, calling, pending, asks,
                       batches, taken, downs, crashes>>

----------------------------------------------------------------------------
(* The handlers of a producer.                                             *)

AskArrives(t, i) ==
    /\ i \in DOMAIN asks[t] /\ Up[t] \notin stopped
    /\ asks' = [asks EXCEPT ![t] = RemoveAt(@, i)]
    /\ UNCHANGED <<setup, stopped, subscribing, pending, taken, released, working>>

\* Mutant: new events are produced before the buffer is drained.
handleAskUndrained(t, i) ==
    LET s == Up[t]
        a == Ask(s, src[s], t, asks[t][i])
        w == [state |-> a.state, out |-> Nothing]
    IN  /\ s \in Producers
        /\ AskArrives(t, i)
        /\ IF asks[t][i] = 0 \/ a.request = 0
           THEN Emit(s, w) /\ UNCHANGED next
           ELSE IF src[s].mode = "accumulate"
           THEN Emit(s, [w EXCEPT !.state.accumulated = @ + a.request]) /\ UNCHANGED next
           ELSE handleDemand(s, w, a.request)

\* handleAsk: the demand is recorded, what is buffered is sent, and handleDemand
\* is called with what the dispatcher requests, unless demand accumulates.
handleAsk(t, i) ==
    LET s == Up[t]
        a == Ask(s, src[s], t, asks[t][i])
        w == drainBuffer(s, a.state)
    IN  /\ s \in Producers
        /\ AskArrives(t, i)
        /\ IF asks[t][i] = 0 THEN UNCHANGED <<src, batches, next>>
           ELSE IF a.request = 0 THEN Emit(s, w) /\ UNCHANGED next
           ELSE IF src[s].mode = "accumulate"
           THEN Emit(s, [w EXCEPT !.state.accumulated = @ + a.request]) /\ UNCHANGED next
           ELSE handleDemand(s, w, a.request)

\* demand("forward"): the accumulated demand is answered.
switchDemandMode(s) ==
    LET w == [state |-> [src[s] EXCEPT !.mode = "forward", !.accumulated = 0], out |-> Nothing]
    IN  /\ s \notin stopped /\ src[s].mode = "accumulate"
        /\ IF src[s].accumulated > 0 THEN handleDemand(s, w, src[s].accumulated)
           ELSE Emit(s, w) /\ UNCHANGED next
        /\ UNCHANGED <<setup, stopped, subscribing, pending, asks, taken, released, working>>

\* handleCancel of the source; the cancel follows the asks of its tag.
handleCancel(t) ==
    LET s == Up[t]
    IN  /\ t \in cancelling \ calling /\ asks[t] = <<>> /\ s \notin stopped
        /\ cancelling' = cancelling \ {t}
        /\ src' = IF t \in Subs(src[s]) THEN [src EXCEPT ![s] = Cancel(s, @, t)] ELSE src
        /\ UNCHANGED <<setup, next, stopped, made, calling, deferred, active,
                       pending, asks, batches, taken, released, working>>

----------------------------------------------------------------------------
(* The handlers of the consuming stages.                                   *)

\* A batch reaches its stage; one of an unknown subscription is discarded.
BatchArrives(t) ==
    /\ batches[t] # <<>> /\ Down[t] \notin stopped
    /\ taken' = [taken EXCEPT ![t] = @ \o Head(batches[t])]
    /\ UNCHANGED <<setup, next, stopped, subscribing>>

Discard(t) ==
    /\ t \notin active
    /\ BatchArrives(t)
    /\ batches' = [batches EXCEPT ![t] = Tail(@)]
    /\ UNCHANGED <<src, pending, asks, released, working>>

\* pendingDemand after a batch of n events.
Less(t, n) == pending[t] - Smaller(pending[t], n)

\* The re-ask at the minDemand threshold, up to maxDemand.
Reask(t, left) ==
    IF left <= MinDemand
    THEN /\ pending' = [pending EXCEPT ![t] = MaxDemand]
         /\ asks' = [asks EXCEPT ![t] = Append(@, MaxDemand - left)]
    ELSE /\ pending' = [pending EXCEPT ![t] = left]
         /\ UNCHANGED asks

handleEvents(t) ==
    /\ Down[t] \in Consumers /\ t \in active
    /\ BatchArrives(t)
    /\ batches' = [batches EXCEPT ![t] = Tail(@)]
    /\ Reask(t, Less(t, Len(Head(batches[t]))))
    /\ UNCHANGED <<src, released, working>>

\* A producer-consumer passes on its callback's events (all of them, or none)
\* and asks upstream for more, whatever its own subscribers have asked for.
handleUpstreamEvents(t) ==
    LET s == Down[t]
        batch == Head(batches[t])
        idle == [state |-> src[s], out |-> Nothing]
    IN  /\ s \in ProducerConsumers /\ t \in active
        /\ BatchArrives(t)
        /\ \E events \in {batch, <<>>} :
              LET w == IF events = <<>> THEN idle ELSE dispatchOrBuffer(s, idle, events)
              IN  /\ src' = [src EXCEPT ![s] = w.state]
                  /\ batches' = [u \in Tags |-> (IF u = t THEN Tail(batches[u])
                                                 ELSE batches[u]) \o w.out[u]]
        /\ Reask(t, Less(t, Len(batch)))
        /\ UNCHANGED <<released, working>>

\* A producer-consumer drains its buffer on an ask, and only its own: what
\* the partition dispatcher keeps waits for the next events.
handleDownstreamAsk(t, i) ==
    LET s == Up[t]
        a == Ask(s, src[s], t, asks[t][i]).state
    IN  /\ s \in ProducerConsumers
        /\ AskArrives(t, i)
        /\ UNCHANGED next
        /\ IF asks[t][i] = 0 THEN UNCHANGED <<src, batches>>
           ELSE IF a.buffer = <<>>
           THEN src' = [src EXCEPT ![s] = a] /\ UNCHANGED batches
           ELSE Emit(s, drainBuffer(s, a))

\* maybeAskForMore: the released slots, once there are minDemand of them.
maybeAskForMore(t, left, slots) ==
    IF slots >= MinDemand
    THEN /\ released' = [released EXCEPT ![t] = 0]
         /\ pending' = [pending EXCEPT ![t] = left + slots]
         /\ asks' = [asks EXCEPT ![t] = Append(@, slots)]
    ELSE /\ released' = [released EXCEPT ![t] = slots]
         /\ pending' = [pending EXCEPT ![t] = left]
         /\ UNCHANGED asks

\* A consumer supervisor starts a worker per event; one that cannot be started
\* releases its slot at once.
SpawnWorkers(t) ==
    LET n == Len(Head(batches[t]))
    IN  /\ Down[t] \in Supervisors /\ t \in active
        /\ BatchArrives(t)
        /\ batches' = [batches EXCEPT ![t] = Tail(@)]
        /\ \E failed \in 0..Smaller(n, MaxCrashes - crashes) :
              /\ workers' = [workers EXCEPT ![t] = @ + n - failed]
              /\ crashes' = crashes + failed
              /\ maybeAskForMore(t, Less(t, n), released[t] + failed)
        /\ UNCHANGED <<src, respawned, downs>>

\* A known worker stops, or is killed after too many restarts.
WorkerEnds(t) ==
    /\ workers[t] > 0
    /\ workers' = [workers EXCEPT ![t] = @ - 1]
    /\ downs' = [downs EXCEPT ![t] = @ + 1]
    /\ UNCHANGED <<setup, src, next, stopped, subscribing, pending, asks,
                   batches, taken, released, respawned, crashes>>

handleWorkerDown(t) ==
    /\ downs[t] > 0 /\ Down[t] \notin stopped
    /\ downs' = [downs EXCEPT ![t] = @ - 1]
    /\ IF t \in active THEN maybeAskForMore(t, pending[t], released[t] + 1)
       ELSE UNCHANGED <<released, pending, asks>>
    /\ UNCHANGED <<setup, src, next, stopped, subscribing,
                   batches, taken, workers, respawned, crashes>>

\* A worker crashes and is restarted: under a new id, without a DOWN.
WorkerRestarts(t) ==
    /\ workers[t] > 0 /\ crashes < MaxCrashes
    /\ workers' = [workers EXCEPT ![t] = @ - 1]
    /\ respawned' = [respawned EXCEPT ![t] = @ + 1]
    /\ crashes' = crashes + 1
    /\ UNCHANGED <<setup, src, next, stopped, subscribing, pending, asks,
                   batches, taken, released, downs>>

\* The restarted worker ends; nobody watches it.
RespawnedEnds(t) ==
    /\ respawned[t] > 0
    /\ respawned' = [respawned EXCEPT ![t] = @ - 1]
    /\ UNCHANGED <<setup, src, next, stopped, subscribing, pending, asks,
                   batches, taken, released, workers, downs, crashes>>

----------------------------------------------------------------------------
Next ==
    \/ \E t \in Tags :
          \/ subscribe(t) \/ handleSubscribe(t) \/ DeferredAsk(t)
          \/ cancelSubscription(t) \/ handleCancel(t) \/ Discard(t)
          \/ handleEvents(t) \/ handleUpstreamEvents(t) \/ SpawnWorkers(t)
          \/ WorkerEnds(t) \/ handleWorkerDown(t) \/ WorkerRestarts(t) \/ RespawnedEnds(t)
          \/ \E i \in DOMAIN asks[t] : handleAsk(t, i) \/ handleDownstreamAsk(t, i)
    \/ \E s \in Producers : switchDemandMode(s)
    \/ \E s \in Stages : stop(s)

Spec == Init /\ [][Next]_vars

----------------------------------------------------------------------------
TypeOK ==
    /\ \A s \in Sources :
          /\ ToSet(src[s].buffer) \subseteq Nat /\ Len(src[s].buffer) <= BufferSize
          /\ src[s].waiting >= 0 /\ src[s].requested >= 0
          /\ src[s].mode \in {"accumulate", "forward"}
          /\ \A t \in Tags : src[s].demand[t] >= 0
          /\ \A p \in Partitions : \A e \in ToSet(src[s].parts[p]) : Hash(e) = p
    /\ \A t \in Tags : pending[t] \in 0..MaxDemand /\ released[t] \in 0..MaxDemand

\* Events and asks of a tag under way.
InFlight(t) == FlattenSeq(batches[t])
Asked(t) == Total(asks[t])

\* The demand a source still owes a subscriber.
Owed(t) == src[Up[t]].demand[t] +
           (IF disp[Up[t]] = "broadcast" THEN src[Up[t]].waiting ELSE 0)

Registered(t) == t \in active /\ t \in Subs(src[Up[t]])

(* Demand is neither lost nor made up, whatever dispatcher, order of asks, *)
(* later subscribers and cancels of others: what a subscriber counts as    *)
(* pending is what is on its way up, owed to it by the dispatcher, or on   *)
(* its way down as events.                                                 *)
DemandAccounted ==
    \A t \in Tags :
        Registered(t) => pending[t] = Asked(t) + Owed(t) + Len(InFlight(t))

(* Back-pressure: never more than maxDemand events of a subscription are   *)
(* under way, and a consumer supervisor never has more than maxDemand      *)
(* workers, restarted ones included.                                       *)
BackPressure ==
    \A t \in Tags :
        Len(InFlight(t)) + workers[t] + respawned[t] <= MaxDemand

Increasing(q) == \A i, j \in DOMAIN q : i < j => q[i] < q[j]

\* Every producer-consumer has one subscription at most and serves its own
\* subscribers by their demand.
Straight ==
    \A s \in ProducerConsumers :
        disp[s] = "demand" /\ \A t, u \in Tags : Down[t] = s /\ Down[u] = s => t = u

(* A subscriber gets its events in the order in which they were produced,  *)
(* and none twice, through buffers, partition buffers and re-asks: that of *)
(* a producer always, and that of a producer-consumer on a straight path.  *)
InOrder ==
    \A t \in Tags :
        Up[t] \in Producers \/ Straight => Increasing(taken[t] \o InFlight(t))

\* The same without the exception.
OrderedPerKey == \A t \in Tags : Increasing(taken[t] \o InFlight(t))

(* No event is lost and none is sent to two subscribers by a demand or     *)
(* partition dispatcher: all that handleDemand returned is buffered, under *)
(* way, taken, or counted as dropped by the full buffer.  Subscribers of a *)
(* broadcast get the same events: of two, the one that came later has a    *)
(* final part of what the other has.                                       *)
EventsAccounted ==
    \A s \in Producers :
        LET tags == {t \in Tags : Up[t] = s}
            got(t) == taken[t] \o InFlight(t)
            size(t) == Len(got(t))
            parted(p) == Len(src[s].parts[p])
            kept == ToSet(src[s].buffer) \cup UNION {ToSet(src[s].parts[p]) : p \in Partitions}
        IN  IF disp[s] = "broadcast"
            THEN \A t, u \in {v \in tags : Registered(v)} :
                     IsSuffix(got(t), got(u)) \/ IsSuffix(got(u), got(t))
            ELSE /\ Cardinality(kept \cup UNION {ToSet(got(t)) : t \in tags}) = next[s] - src[s].dropped
                 /\ Len(src[s].buffer) + MapThenSumSet(parted, Partitions)
                      + MapThenSumSet(size, tags) = next[s] - src[s].dropped

NobodyLeft(s) == \A t \in made : Up[t] = s => t \in active

\* No event waits in a source while a subscriber has asked for it.  After a
\* cancel, a broadcast forgets this until the next ask; a producer-consumer
\* never looks at its partition buffers on an ask.
NoIdleEvents(s) ==
    LET a == src[s]
    IN  CASE disp[s] = "demand" -> a.buffer # <<>> => Demand(a, Subs(a)) = 0
          [] disp[s] = "broadcast" ->
               a.buffer # <<>> /\ NobodyLeft(s) => a.waiting = 0
          [] disp[s] = "partition" -> s \in Producers =>
               \A t \in Subs(a) : a.parts[part[t]] # <<>> => a.demand[t] = 0

Quiet ==
    /\ calling = {} /\ deferred = {} /\ cancelling = {}
    /\ \A t \in Tags : asks[t] = <<>> /\ batches[t] = <<>> /\ downs[t] = 0

(* Events keep flowing: no event waits in a source while a subscriber has  *)
(* asked for it (but for the cases at NoIdleEvents); and with a willing    *)
(* producer and nothing under way, a subscriber is left waiting only when  *)
(* the producer has no more events.                                        *)
NoStall ==
    /\ \A s \in Sources : NoIdleEvents(s)
    /\ \A s \in Producers :
          Quiet /\ willing /\ s \notin stopped /\ src[s].mode = "forward"
          /\ disp[s] # "partition"
          /\ (disp[s] = "broadcast" => NobodyLeft(s))
          /\ (\E t \in Tags : Up[t] = s /\ t \in active /\ Down[t] \notin Supervisors)
          => next[s] = Events(s)

(* A slot comes back when its worker has ended, restarted or not.          *)
SlotsReturn ==
    \A t \in Tags :
        Down[t] \in Supervisors /\ Registered(t) /\ t \notin deferred
        => pending[t] + released[t] + workers[t] + respawned[t] + downs[t] = MaxDemand

=============================================================================
