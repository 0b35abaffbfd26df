---------------------------- MODULE RegistrySync ----------------------------
(***************************************************************************)
(* RegistrySync (src/src/registry_sync.ts): the actor names of a cluster,  *)
(* replicated by publish/subscribe, with vector clocks to order updates.   *)
(* Each node keeps a registration per name; ActorSystem registers a name   *)
(* on the node that hosts the actor and unregisters it when that actor     *)
(* stops.  The transport delivers in order per publisher and subscriber    *)
(* and may lose what it publishes (ZeroMQ PUB/SUB, external).              *)
(***************************************************************************)
EXTENDS VectorClock, Integers, Sequences, FiniteSets, SequencesExt

CONSTANTS
    Names,         \* actor names
    Homes,         \* Homes[a]: the nodes that may host an actor named a
    Generations,   \* values of Date.now(), not synchronised between nodes
    None,          \* no registration
    MaxTicks,      \* bound of the model: registry operations of one node
    MaxRepublish,  \* bound of the model: calls of republishAll
    MaxLost,       \* bound of the model: publications lost
    MaxLeaves      \* bound of the model: member_leave events

ASSUME RegistryAssumption ==
    /\ Nodes \subseteq Int        \* node ids are ordered, as the strings are
    /\ IsFiniteSet(Names)
    /\ Homes \in [Names -> SUBSET Nodes]
    /\ Generations \subseteq Int
    /\ {MaxTicks, MaxRepublish, MaxLost, MaxLeaves} \subseteq Nat

Registration == [node : Nodes, generation : Generations, vectorClock : Clock]

ASSUME NoneAssumption == None \notin Registration

Update == [type : {"register", "unregister"}, name : Names, registration : Registration]

VARIABLES
    localClock,     \* localClock of each node
    registrations,  \* registrations of each node: a registration or None
    hosted,         \* the names whose actors live on each node
    wire,           \* wire[p][s]: publications of p on their way to s
    republished, lost, leaves

counters == <<republished, lost, leaves>>

vars == <<localClock, registrations, hosted, wire, counters>>

Init ==
    /\ localClock = [n \in Nodes |-> NoTicks]
    /\ registrations = [n \in Nodes |-> [a \in Names |-> None]]
    /\ hosted = [n \in Nodes |-> {}]
    /\ wire = [p \in Nodes |-> [s \in Nodes |-> <<>>]]
    /\ republished = 0 /\ lost = 0 /\ leaves = 0

\* transport.publish of several updates: every other node is a subscriber.
Published(n, updates) ==
    [wire EXCEPT ![n] = [s \in Nodes |-> IF s = n THEN @[s] ELSE @[s] \o updates]]

----------------------------------------------------------------------------
(* What the hosting node does *)

register(n, a, generation) ==
    /\ n \in Homes[a] /\ a \notin hosted[n]
    /\ localClock[n][n] < MaxTicks
    /\ LET clock == increment(localClock[n], n)
           reg   == [node |-> n, generation |-> generation, vectorClock |-> clock]
       IN  /\ localClock' = [localClock EXCEPT ![n] = clock]
           /\ registrations' = [registrations EXCEPT ![n][a] = reg]
           /\ wire' = Published(n, <<[type |-> "register", name |-> a,
                                      registration |-> reg]>>)
    /\ hosted' = [hosted EXCEPT ![n] = @ \union {a}]
    /\ UNCHANGED counters

\* Whatever registration the node holds under the name is withdrawn.
unregister(n, a) ==
    /\ a \in hosted[n]
    /\ hosted' = [hosted EXCEPT ![n] = @ \ {a}]
    /\ LET existing == registrations[n][a]
           clock    == increment(localClock[n], n)
       IN  \/ /\ existing = None
              /\ UNCHANGED <<localClock, registrations, wire>>
           \/ /\ existing # None
              /\ localClock[n][n] < MaxTicks
              /\ localClock' = [localClock EXCEPT ![n] = clock]
              /\ registrations' = [registrations EXCEPT ![n][a] = None]
              /\ wire' = Published(n,
                    <<[type |-> "unregister", name |-> a,
                       registration |-> [existing EXCEPT !.vectorClock = clock]]>>)
    /\ UNCHANGED counters

----------------------------------------------------------------------------
(* What a subscriber does: handleRegistryUpdate *)

\* Which of two conflicting registrations is kept.
Wins(incoming, existing) ==
    LET cmp == compare(incoming.vectorClock, existing.vectorClock)
    IN  \/ cmp = "after"
        \/ /\ cmp = "concurrent"
           /\ \/ incoming.generation > existing.generation
              \/ /\ incoming.generation = existing.generation
                 /\ incoming.node > existing.node

\* Mutant of Applies: only a concurrent unregister removes a registration.
AppliesUnlessAfter(update, existing) ==
    IF update.type = "unregister"
    THEN /\ existing # None
         /\ compare(update.registration.vectorClock, existing.vectorClock) = "concurrent"
    ELSE existing = None \/ Wins(update.registration, existing)

\* Whether an update changes what the node holds.
Applies(update, existing) ==
    IF update.type = "unregister"
    THEN /\ existing # None
         /\ compare(update.registration.vectorClock, existing.vectorClock) # "before"
    ELSE existing = None \/ Wins(update.registration, existing)

Delivery(p, s) ==
    /\ wire[p][s] # <<>>
    /\ wire' = [wire EXCEPT ![p][s] = Tail(@)]

\* Mutant of handleRegistryUpdate: the clock of an accepted update is not merged.
handleUpdateUnmerged(p, s) ==
    /\ Delivery(p, s)
    /\ LET update == Head(wire[p][s])
           a      == update.name
       IN  registrations' =
              IF Applies(update, registrations[s][a])
              THEN [registrations EXCEPT ![s][a] =
                       IF update.type = "register" THEN update.registration ELSE None]
              ELSE registrations
    /\ UNCHANGED <<localClock, hosted, counters>>

handleRegistryUpdate(p, s) ==
    /\ Delivery(p, s)
    /\ LET update == Head(wire[p][s])
           a      == update.name
       IN  IF Applies(update, registrations[s][a])
           THEN /\ registrations' = [registrations EXCEPT ![s][a] =
                       IF update.type = "register" THEN update.registration ELSE None]
                /\ localClock' = [localClock EXCEPT ![s] =
                       merge(@, update.registration.vectorClock)]
           ELSE UNCHANGED <<registrations, localClock>>
    /\ UNCHANGED <<hosted, counters>>

\* The publication never arrives: the SUB connection was not up yet.
Lose(p, s) ==
    /\ lost < MaxLost
    /\ lost' = lost + 1
    /\ Delivery(p, s)
    /\ UNCHANGED <<localClock, registrations, hosted, republished, leaves>>

----------------------------------------------------------------------------
(* Membership events *)

Held(n) == {a \in Names : registrations[n][a] # None}

\* republishAll: on every member_join, again 500 and 2000 ms later.  Whatever
\* the node holds is published, in the order it came to know the names.
republishAll(n) ==
    /\ republished < MaxRepublish
    /\ republished' = republished + 1
    /\ \E order \in Bijection(1..Cardinality(Held(n)), Held(n)) :
          wire' = Published(n, [i \in DOMAIN order |->
                     [type |-> "register", name |-> order[i],
                      registration |-> registrations[n][order[i]]]])
    /\ UNCHANGED <<localClock, registrations, hosted, lost, leaves>>

\* member_leave of node p, at n: rightly or wrongly.
handlePeerLeave(n, p) ==
    /\ n # p
    /\ leaves < MaxLeaves
    /\ leaves' = leaves + 1
    /\ registrations' = [registrations EXCEPT ![n] = [a \in Names |->
           IF a \in Held(n) /\ @[a].node = p THEN None ELSE @[a]]]
    /\ UNCHANGED <<localClock, hosted, wire, republished, lost>>

----------------------------------------------------------------------------
Next ==
    \/ \E n \in Nodes, a \in Names :
          \/ \E generation \in Generations : register(n, a, generation)
          \/ unregister(n, a)
    \/ \E p, s \in Nodes : handleRegistryUpdate(p, s) \/ Lose(p, s)
    \/ \E n \in Nodes : republishAll(n)
    \/ \E n, p \in Nodes : handlePeerLeave(n, p)

Spec == Init /\ [][Next]_vars

----------------------------------------------------------------------------
(* Properties *)

\* The types of all variables, and the bounds of the counters.
TypeOK ==
    /\ localClock \in [Nodes -> Clock]
    /\ registrations \in [Nodes -> [Names -> Registration \union {None}]]
    /\ hosted \in [Nodes -> SUBSET Names]
    /\ wire \in [Nodes -> [Nodes -> Seq(Update)]]
    /\ republished \in 0..MaxRepublish /\ lost \in 0..MaxLost /\ leaves \in 0..MaxLeaves

Past(c, clocks) == \A n \in Nodes : c[n] <= clocks[n][n]

\* Nobody has seen a tick a node has not made: localClock of a node is the
\* authority on its own entry, for what others know, hold or have under way,
\* although clocks are merged only when an update is accepted.
NoFutureTicks ==
    /\ \A m \in Nodes : Past(localClock[m], localClock)
    /\ \A m \in Nodes : \A a \in Held(m) :
          Past(registrations[m][a].vectorClock, localClock)
    /\ \A p, s \in Nodes : \A i \in 1..Len(wire[p][s]) :
          Past(wire[p][s][i].registration.vectorClock, localClock)

\* A node's clock covers every registration it holds, so what it registers or
\* withdraws itself always compares as "after" what it held.
HeldAreCovered ==
    \A n \in Nodes : \A a \in Held(n) :
        Covers(localClock[n], registrations[n][a].vectorClock)

\* Nothing is on its way.
Quiescent == \A p, s \in Nodes : wire[p][s] = <<>>

\* Nothing was lost, republished or cleaned up so far.
Undisturbed == republished = 0 /\ lost = 0 /\ leaves = 0

\* A name that only one node may host.  That node resolves it to itself as long
\* as its actor lives, whatever others publish, republish or forget.  Once
\* everything published has been delivered, and nothing was lost, it is
\* everywhere what it is on that node: registered exactly while its actor lives.
\* The vector clocks of updates to other names, which two nodes may host, do not
\* get in the way.
OwnNamesSettle ==
    \A n \in Nodes, a \in Names : Homes[a] = {n} =>
        /\ a \in hosted[n] => registrations[n][a] # None /\ registrations[n][a].node = n
        /\ Quiescent /\ Undisturbed =>
              /\ \A m \in Nodes : registrations[m][a] = registrations[n][a]
              /\ a \in Held(n) <=> a \in hosted[n]

\* "RegistryGossip manages the distributed actor registry using eventual
\* consistency." (registry_sync.ts:23): once everything published has been
\* delivered, and nothing was lost, all nodes hold the same registrations.
Agreement ==
    Quiescent /\ Undisturbed => \A m, n \in Nodes : registrations[m] = registrations[n]

=============================================================================
