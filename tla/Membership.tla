----------------------------- MODULE Membership -----------------------------
(***************************************************************************)
(* Gossip membership: GossipProtocol (src/src/gossip_protocol.ts), the     *)
(* member_join and member_leave events that DistributedCluster passes on,  *)
(* and the peer list and connections of the transport (ZeroMQTransport)    *)
(* that createSystem and RegistrySync keep in step with them.              *)
(*                                                                         *)
(* Datagrams (GossipUDP) carry the sender's whole table; they are lost,    *)
(* delayed and reordered.  Time is abstract: an entry is fresh until       *)
(* failureTimeoutMs have passed since it was last updated, which is always *)
(* possible, because everything about a live peer may have been lost.      *)
(***************************************************************************)
EXTENDS Integers, Sequences, FiniteSets, SequencesExt

CONSTANTS
    Nodes,           \* node ids
    Seeds,           \* Seeds[n]: seedNodes of n
    Founders,        \* nodes that never leave, crash or restart
    Callers,         \* bound of the model: nodes that send requests to others
    NoPeer,          \* no entry in the table
    MaxHeartbeat,    \* bound of the model: heartbeats counted before a leave
    MaxFaults        \* bound of the model: late datagrams, restarts, and timeouts
                     \* of peers that are up

ASSUME MembershipAssumption ==
    /\ IsFiniteSet(Nodes)
    /\ Seeds \in [Nodes -> SUBSET Nodes]
    /\ {Founders, Callers} \subseteq SUBSET Nodes
    /\ {MaxHeartbeat, MaxFaults} \subseteq Nat

PeerState == [generation : Nat, heartbeat : Nat,
              status : {"alive", "leaving"}, fresh : BOOLEAN]

ASSUME NoPeerAssumption == NoPeer \notin PeerState

NoDatagram == [to |-> 0, peers |-> <<>>]

VARIABLES
    running,     \* "down", "up" or "leaving"
    generation,  \* the generation of each node's latest start
    peers,       \* peers[n][m]: what n knows of m, itself included
    datagram,    \* a datagram that is late; a later one may take its place
    transport,   \* the peers in peerAddresses of each node's transport
    dealers,     \* and those in its dealerConnections
    told,        \* told[n]: peers that n's listeners heard join and not leave
    faults,      \* late datagrams, restarts, and timeouts of peers that are up
    left         \* history: nodes that left gracefully

vars == <<running, generation, peers, datagram, transport, dealers, told, faults, left>>

Table(n) == {m \in Nodes : peers[n][m] # NoPeer}

\* getLivePeers, without the node itself.
LivePeers(n, table) ==
    {m \in Nodes \ {n} : /\ table[m] # NoPeer
                         /\ table[m].fresh /\ table[m].status # "leaving"}

\* The table of a node that has just started.
Alone(n, gen) ==
    [m \in Nodes |-> IF m # n THEN NoPeer
                     ELSE [generation |-> gen, heartbeat |-> 0,
                           status |-> "alive", fresh |-> TRUE]]

\* The founders have just started.
Init ==
    /\ running = [n \in Nodes |-> IF n \in Founders THEN "up" ELSE "down"]
    /\ generation = [n \in Nodes |-> IF n \in Founders THEN 1 ELSE 0]
    /\ peers = [n \in Nodes |-> IF n \in Founders THEN Alone(n, 1)
                                ELSE [m \in Nodes |-> NoPeer]]
    /\ datagram = NoDatagram
    /\ transport = [n \in Nodes |-> {}] /\ dealers = [n \in Nodes |-> {}]
    /\ told = [n \in Nodes |-> {}]
    /\ faults = 0 /\ left = {}

----------------------------------------------------------------------------
(* Events, and what their listeners do with the transport *)

(* The state of one node that its events change.                           *)
View(n) == [table |-> peers[n], transport |-> transport[n], dealers |-> dealers[n],
            told |-> told[n]]

\* updatePeers: peers that are not listed lose their address, and the connection
\* on which requests to them are sent and answered.
updatePeers(view, listed) ==
    [view EXCEPT !.transport = listed, !.dealers = @ \ (view.transport \ listed)]

\* syncPeers of RegistrySync: an empty list is not passed to updatePeers.
syncPeers(n, view) ==
    LET live == LivePeers(n, view.table)
    IN  IF live = {} THEN view ELSE updatePeers(view, live)

\* createSystem's listener passes the one peer to updatePeers, which drops
\* all others; then that of RegistrySync restores the addresses of the live ones.
memberJoin(n, view, table, m) ==
    syncPeers(n, updatePeers([view EXCEPT !.table = table, !.told = @ \union {m}], {m}))

\* Mutant of memberLeave: the list is cleared before it is synchronised, as a
\* join replaces it.
memberLeaveClears(n, view, table, ms) ==
    syncPeers(n, updatePeers([view EXCEPT !.table = table, !.told = @ \ ms], {}))

\* Peers have left, or are gone from the table.
memberLeave(n, view, table, ms) ==
    syncPeers(n, [view EXCEPT !.table = table, !.told = @ \ ms])

\* The node's view becomes the one given.
Views(n, view) ==
    /\ peers' = [peers EXCEPT ![n] = view.table]
    /\ transport' = [transport EXCEPT ![n] = view.transport]
    /\ dealers' = [dealers EXCEPT ![n] = view.dealers]
    /\ told' = [told EXCEPT ![n] = view.told]

\* getOrCreateConnection, for a request to m that n sends.
request(n, m) ==
    /\ n \in Callers /\ running[n] # "down"
    /\ m \in transport[n] \ dealers[n]
    /\ dealers' = [dealers EXCEPT ![n] = @ \union {m}]
    /\ UNCHANGED <<running, generation, peers, datagram, transport, told, faults, left>>

----------------------------------------------------------------------------
(* handleGossipMessage *)

\* Mutant of Newer: any news of the same generation wins.
NewerOrNot(incoming, existing) == incoming.generation >= existing.generation

Newer(incoming, existing) ==
    \/ incoming.generation > existing.generation
    \/ /\ incoming.generation = existing.generation
       /\ incoming.heartbeat > existing.heartbeat

\* The entries that change the receiver's table: a leaving peer is not added.
News(n, table) ==
    {m \in Nodes : /\ table[m] # NoPeer
                   /\ IF peers[n][m] = NoPeer THEN table[m].status # "leaving"
                      ELSE Newer(table[m], peers[n][m])}

\* One of them.  Only a peer that was not in the table joins; one that comes
\* back with a new generation is a member_update to the listeners.
Merge(n, view, m, incoming) ==
    LET existing == view.table[m]
        table    == [view.table EXCEPT ![m] = [incoming EXCEPT !.fresh = TRUE]]
    IN  IF existing = NoPeer THEN memberJoin(n, view, table, m)
        ELSE IF /\ incoming.generation = existing.generation
                /\ existing.status # "leaving" /\ incoming.status = "leaving"
        THEN memberLeave(n, view, table, {m})
        ELSE [view EXCEPT !.table = table]

Orders(S) == IF S = {} THEN {<<>>} ELSE SetToSeqs(S)

\* The entries are merged one by one, in the order of the sender's table; a
\* node that is down receives nothing.
Received(n, table) ==
    IF running[n] = "down" THEN {View(n)}
    ELSE UNION {LET views[i \in 0..Len(order)] ==
                        IF i = 0 THEN {View(n)}
                        ELSE {Merge(n, view, order[i], table[order[i]]) :
                                  view \in views[i - 1]}
                IN  views[Len(order)] : order \in Orders(News(n, table))}

\* A datagram that was delayed, or overtaken by others, arrives.
handleGossipMessage ==
    /\ datagram # NoDatagram
    /\ datagram' = NoDatagram
    /\ \E view \in Received(datagram.to, datagram.peers) : Views(datagram.to, view)
    /\ UNCHANGED <<running, generation, faults, left>>

----------------------------------------------------------------------------
(* The timers *)

\* The table as it is sent, after the node's own heartbeat.  The heartbeats of
\* a leaving node are not counted.
Beaten(n) ==
    [peers[n] EXCEPT ![n].heartbeat = IF @ < MaxHeartbeat THEN @ + 1 ELSE @]

\* Mutant of Targets: the seeds are tried only by a node that just started.
TargetsSeedOnce(n) ==
    IF Table(n) \ {n} # {} \/ peers[n][n].heartbeat > 0 THEN Table(n) \ {n} ELSE Seeds[n]

\* Known peers, whatever their status, or seeds when there are none.  A node
\* that leaves sends to all of them (_broadcastToAllPeers).
Targets(n) == IF Table(n) \ {n} # {} THEN Table(n) \ {n} ELSE Seeds[n]

\* A datagram of gossipLoop or _broadcastToAllPeers that arrives at once.
gossipLoop(n, target) ==
    /\ running[n] # "down"
    /\ target \in Targets(n)
    /\ \E table \in {Beaten(n)} : \E view \in Received(target, table) :
          /\ peers' = [peers EXCEPT ![n] = table, ![target] = view.table]
          /\ transport' = [transport EXCEPT ![target] = view.transport]
          /\ dealers' = [dealers EXCEPT ![target] = view.dealers]
          /\ told' = [told EXCEPT ![target] = view.told]
    /\ UNCHANGED <<running, generation, datagram, faults, left>>

\* One that is delayed, and lost if another one is delayed before it arrives.
Delay(n, target) ==
    /\ running[n] # "down" /\ faults < MaxFaults
    /\ target \in Targets(n)
    /\ faults' = faults + 1
    /\ peers' = [peers EXCEPT ![n] = Beaten(n)]
    /\ datagram' = [to |-> target, peers |-> Beaten(n)]
    /\ UNCHANGED <<running, generation, transport, dealers, told, left>>

\* failureTimeoutMs have passed since n heard something new of m.
TimesOut(n, m) ==
    /\ n # m /\ running[n] # "down"
    /\ peers[n][m] # NoPeer /\ peers[n][m].fresh
    /\ IF running[m] = "down" \/ peers[n][m].generation < generation[m]
       THEN UNCHANGED faults
       ELSE faults < MaxFaults /\ faults' = faults + 1
    /\ peers' = [peers EXCEPT ![n][m].fresh = FALSE]
    /\ UNCHANGED <<running, generation, datagram, transport, dealers, told, left>>

Without(table, ms) == [m \in Nodes |-> IF m \in ms THEN NoPeer ELSE table[m]]

\* Mutant of removeDead: the listeners are not told.
removeQuietly(n, view, dead) == [view EXCEPT !.table = Without(@, dead)]

\* They are deleted and announced one by one.  None of them is live by then,
\* so the list of live peers is the same for each.
removeDead(n, view, dead) == memberLeave(n, view, Without(view.table, dead), dead)

\* Every peer that has timed out is removed and announced.
failureDetectionLoop(n) ==
    LET dead == {m \in Table(n) : ~peers[n][m].fresh}
    IN  /\ running[n] # "down" /\ dead # {}
        /\ Views(n, removeDead(n, View(n), dead))
        /\ UNCHANGED <<running, generation, datagram, faults, left>>

----------------------------------------------------------------------------
(* Starting and ending a node *)

\* A new process: createSystem, and the constructor's own table.
start(n) ==
    /\ running[n] = "down"
    /\ IF generation[n] = 0 THEN UNCHANGED faults
       ELSE faults < MaxFaults /\ faults' = faults + 1
    /\ running' = [running EXCEPT ![n] = "up"]
    /\ generation' = [generation EXCEPT ![n] = @ + 1]
    /\ peers' = [peers EXCEPT ![n] = Alone(n, generation[n] + 1)]
    /\ UNCHANGED <<datagram, transport, dealers, told, left>>

\* leave: the last heartbeat carries the status; it is broadcast for a while.
leave(n) ==
    /\ running[n] = "up" /\ n \notin Founders
    /\ running' = [running EXCEPT ![n] = "leaving"]
    /\ left' = left \union {n}
    /\ peers' = [peers EXCEPT ![n][n].status = "leaving", ![n][n].heartbeat = @ + 1]
    /\ UNCHANGED <<generation, datagram, transport, dealers, told, faults>>

\* The end of leave(), stop(), or a crash of the process.
Ends(n) ==
    /\ running[n] # "down" /\ n \notin Founders
    /\ running' = [running EXCEPT ![n] = "down"]
    /\ peers' = [peers EXCEPT ![n] = [m \in Nodes |-> NoPeer]]
    /\ transport' = [transport EXCEPT ![n] = {}] /\ dealers' = [dealers EXCEPT ![n] = {}]
    /\ told' = [told EXCEPT ![n] = {}]
    /\ UNCHANGED <<generation, datagram, faults, left>>

----------------------------------------------------------------------------
Timers(n) == failureDetectionLoop(n) \/ \E m \in Nodes : TimesOut(n, m)

Next ==
    \/ handleGossipMessage
    \/ \E n \in Nodes :
          \/ Timers(n) \/ start(n) \/ leave(n) \/ Ends(n)
          \/ \E m \in Nodes : gossipLoop(n, m) \/ Delay(n, m) \/ request(n, m)

(* The timers of a node keep running; every peer that a node keeps knowing *)
(* is chosen again and again (Math.random), and so is every seed; of the   *)
(* datagrams that one node keeps sending another, some arrive in time.     *)
(* The entry of a peer that is down is not kept fresh for ever.            *)
Fairness ==
    /\ \A n \in Nodes : WF_vars(failureDetectionLoop(n))
    /\ \A n, m \in Nodes : n # m =>
          /\ WF_vars(TimesOut(n, m) /\ running[m] = "down")
          /\ WF_vars(gossipLoop(n, m))

Spec == Init /\ [][Next]_vars /\ Fairness

----------------------------------------------------------------------------
(* Properties *)

\* What listeners (RegistrySync, process groups, remote watches) were told is
\* what the table says: a live peer has joined and not left, a peer that is
\* not in the table has left.  The one exception is a peer that came back
\* after a graceful leave.
EventsTrack ==
    \A n \in Nodes :
        /\ LivePeers(n, peers[n]) \subseteq told[n] \union left
        /\ told[n] \subseteq Table(n)

\* A peer that announced its leave is not taken for alive again before it
\* restarts or is forgotten, however late older gossip about it arrives.
LeaversStayOut ==
    [][\A n, m \in Nodes :
          (/\ peers[n][m] # NoPeer /\ peers'[n][m] # NoPeer
           /\ peers[n][m].status = "leaving"
           /\ peers[n][m].generation = peers'[n][m].generation)
              => peers'[n][m].status = "leaving"]_vars

\* Peers that are live before and after a step of n.
StayLive(n) == LivePeers(n, peers[n]) \intersect LivePeers(n, peers'[n])

AddressesSurvive(n) ==
    told'[n] # told[n] =>
        StayLive(n) \union (LivePeers(n, peers'[n]) \intersect (told'[n] \ told[n]))
            \subseteq transport'[n]

ConnectionsSurvive(n) == dealers[n] \intersect StayLive(n) \subseteq dealers'[n]

\* After each event the transport has the address of every peer that was live
\* before and still is, and of every live peer that just joined.  And where no
\* peer joins, no connection to a peer that stays live is closed, with the
\* answers that are on their way over it: not by peers that leave or time out,
\* in whatever order their entries are merged or removed.  Only a join closes
\* the others' (JoinsCloseNoOther).
PeersSurviveEvents ==
    [][\A n \in Nodes : /\ AddressesSurvive(n)
                        /\ told'[n] \subseteq told[n] => ConnectionsSurvive(n)]_vars

\* "with automatic peer discovery" (README.md:11): once nodes stop starting,
\* leaving, failing and being cut off, each one that is up comes to have all
\* others that are up as live peers, whatever they had forgotten before.
Converges ==
    <>[](\A n, m \in Nodes : n # m /\ running[n] = "up" /\ running[m] = "up"
            => m \in LivePeers(n, peers[n]))

\* "Time in ms after which a peer is considered dead if no updates are
\* received" (gossip_protocol.ts:18): a node that is down for good is
\* forgotten for good.
DeadAreForgotten ==
    \A m \in Nodes : <>[](running[m] = "down") =>
        <>[](\A n \in Nodes : m \notin LivePeers(n, peers[n]))

\* "DEALER pool (outgoing RPC)" (README.md:2560): the connection to a peer that
\* stays live is not closed, with the requests under way on it, because others
\* come or go.
JoinsCloseNoOther ==
    [][\A n \in Nodes : running'[n] # "down" => ConnectionsSurvive(n)]_vars

\* "gossip handles re-joining automatically" (README.md:2533): the transport
\* has every live peer.
LiveAreReachable ==
    \A n \in Nodes : LivePeers(n, peers[n]) \subseteq transport[n]

=============================================================================
