--------------------------- MODULE ProcessGroups ----------------------------
(***************************************************************************)
(* ProcessGroupManager (src/src/process_group.ts) over the membership of   *)
(* Membership: which actors each node lists as the members of one group.   *)
(* Updates are published (ZeroMQ PUB/SUB, external): in order for each     *)
(* publisher, to the nodes whose SUB socket is connected to it by then.    *)
(* Updates carry no version.                                               *)
(***************************************************************************)
EXTENDS Membership

CONSTANTS
    Actors,   \* actors, each of one process
    Home,     \* Home[a]: the node of that process
    Born,     \* Born[a]: which start of the node it is
    MaxOps    \* bound of the model: calls of joinGroup and leaveGroup

ASSUME ProcessGroupsAssumption ==
    /\ IsFiniteSet(Actors)
    /\ Home \in [Actors -> Nodes] /\ Born \in [Actors -> Nat]
    /\ MaxOps \in Nat

VARIABLES
    groups,   \* groups[n]: the members of the group that n lists
    subs,     \* subs[n]: publishers that n's SUB socket is connected to
    updates,  \* updates[p][s]: publications of p on their way to s
    ops,      \* calls of joinGroup and leaveGroup
    joined,   \* history: actors that their own node has put in the group
    foreign   \* history: a node joined or removed another node's actor

groupVars == <<groups, subs, updates, ops, joined, foreign>>

\* The process of an actor is running.
Runs(a) == running[Home[a]] # "down" /\ generation[Home[a]] = Born[a]

Own(n) == {a \in groups[n] : Home[a] = n}

GroupInit ==
    /\ Init
    /\ groups = [n \in Nodes |-> {}]
    /\ subs = [n \in Nodes |-> {}]
    /\ updates = [p \in Nodes |-> [s \in Nodes |-> <<>>]]
    /\ ops = 0 /\ joined = {} /\ foreign = FALSE

\* transport.publish of several updates by n.
Published(n, news) ==
    [s \in Nodes |-> IF n \in subs[s] THEN updates[n][s] \o news ELSE updates[n][s]]

Update(type, a) == [type |-> type, actor |-> a]

----------------------------------------------------------------------------
(* ActorSystem.joinGroup and leaveGroup; stopping an actor is leaveAll *)

\* Any node may pass any actor's reference.
joinGroup(n, a) ==
    /\ running[n] # "down" /\ Runs(a) /\ ops < MaxOps
    /\ ops' = ops + 1
    /\ groups' = [groups EXCEPT ![n] = @ \union {a}]
    /\ updates' = [updates EXCEPT ![n] = Published(n, <<Update("join", a)>>)]
    /\ joined' = IF Home[a] = n THEN joined \union {a} ELSE joined
    /\ foreign' = (foreign \/ Home[a] # n)
    /\ UNCHANGED <<vars, subs>>

\* Mutant of leaveGroup: the others are not told.
leaveGroupSilently(n, a) ==
    /\ running[n] # "down" /\ a \in groups[n] /\ ops < MaxOps
    /\ ops' = ops + 1
    /\ groups' = [groups EXCEPT ![n] = @ \ {a}]
    /\ joined' = IF Home[a] = n THEN joined \ {a} ELSE joined
    /\ foreign' = (foreign \/ Home[a] # n)
    /\ UNCHANGED <<vars, subs, updates>>

leaveGroup(n, a) ==
    /\ running[n] # "down" /\ a \in groups[n] /\ ops < MaxOps
    /\ ops' = ops + 1
    /\ groups' = [groups EXCEPT ![n] = @ \ {a}]
    /\ updates' = [updates EXCEPT ![n] = Published(n, <<Update("leave", a)>>)]
    /\ joined' = IF Home[a] = n THEN joined \ {a} ELSE joined
    /\ foreign' = (foreign \/ Home[a] # n)
    /\ UNCHANGED <<vars, subs>>

----------------------------------------------------------------------------
(* Other nodes *)

\* Mutant of Listed: what others say of the node's own actors counts.
ListedAny(s, update) ==
    IF update.type = "join" THEN groups[s] \union {update.actor}
                            ELSE groups[s] \ {update.actor}

\* What s lists after an update; one about its own actors is ignored.
Listed(s, update) ==
    IF Home[update.actor] = s THEN groups[s]
    ELSE IF update.type = "join" THEN groups[s] \union {update.actor}
                                 ELSE groups[s] \ {update.actor}

handleUpdate(p, s) ==
    /\ updates[p][s] # <<>> /\ running[s] # "down"
    /\ groups' = [groups EXCEPT ![s] = Listed(s, Head(updates[p][s]))]
    /\ updates' = [updates EXCEPT ![p][s] = Tail(@)]
    /\ UNCHANGED <<vars, subs, ops, joined, foreign>>

\* subSocket.connect takes effect, some time after updatePeers; updatePeers
\* never disconnects it again.
Connects(s, p) ==
    /\ p \in transport[s] /\ p \notin subs[s]
    /\ subs' = [subs EXCEPT ![s] = @ \union {p}]
    /\ UNCHANGED <<vars, groups, updates, ops, joined, foreign>>

\* The member_leave events of a step at n: a peer that announced its leave, or
\* one that is removed from the table, told before or not.
LeaveEvents(n) ==
    (told[n] \ told'[n]) \union {m \in Table(n) : peers'[n][m] = NoPeer}

JoinEvents(n) == told'[n] \ told[n]

\* A step of the membership: handlePeerLeave drops the actors of a node,
\* handlePeerJoin publishes the node's own; a process that ends loses it all.
MembershipStep ==
    /\ Next
    /\ groups' = [n \in Nodes |-> IF running'[n] = "down" THEN {}
                                  ELSE {a \in groups[n] : Home[a] \notin LeaveEvents(n)}]
    /\ subs' = [n \in Nodes |-> IF running'[n] = "down" THEN {} ELSE subs[n]]
    /\ updates' = [p \in Nodes |-> [s \in Nodes |->
           IF running'[s] = "down" THEN <<>>
           ELSE IF p \in subs[s] /\ JoinEvents(p) # {} /\ running'[p] # "down"
           THEN updates[p][s] \o SetToSeq({Update("join", a) : a \in Own(p)})
           ELSE updates[p][s]]]
    /\ joined' = {a \in joined : running'[Home[a]] # "down"}
    /\ UNCHANGED <<ops, foreign>>

GroupNext ==
    \/ MembershipStep
    \/ \E n \in Nodes, a \in Actors : joinGroup(n, a) \/ leaveGroup(n, a)
    \/ \E p, s \in Nodes : handleUpdate(p, s) \/ Connects(s, p)

GroupSpec == GroupInit /\ [][GroupNext]_<<vars, groupVars>>

----------------------------------------------------------------------------
(* Properties *)

\* A node lists its own actors as it put them in and took them out itself,
\* whatever other nodes publish about them, and whichever peers come and go.
OwnMembersKept ==
    \A a \in Actors : Runs(a) => (a \in groups[Home[a]] <=> a \in joined)

\* Nothing on its way.
Settled == \A p, s \in Nodes : updates[p][s] = <<>>

\* An actor that any node lists, and whose process is running, is a member on
\* its own node too, once everything published has arrived: a leave is never
\* overtaken or undone, by late joins, by joins published anew for a peer, or
\* by peers that are taken for dead in between.
NoGhosts ==
    Settled /\ ~foreign =>
        \A n \in Nodes : \A a \in groups[n] : Runs(a) => a \in groups[Home[a]]

\* "Group membership changes are propagated across nodes via the transport
\* pub/sub layer." (README.md:1749): connected nodes list the same members.
MembersFound ==
    Settled /\ ~foreign /\ faults = 0 =>
        \A n, m \in Nodes :
            n # m /\ running[n] = "up" /\ running[m] = "up"
              /\ m \in subs[n] /\ m \in told[n] /\ n \in told[m]
                => Own(m) \subseteq groups[n]

=============================================================================
