----------------------------- MODULE Heartbeat -----------------------------
(***************************************************************************)
(* HeartbeatManager (src/src/heartbeat.ts) of one node: which peers it     *)
(* pings, what it counts, and when it emits node_failed.                   *)
(*                                                                         *)
(* peerStates maps a peer to an object, and every member_join makes a new  *)
(* one; a stagger timer keeps the object it was made for.  The object of   *)
(* the k-th join of peer p is obj[p][k].                                   *)
(***************************************************************************)
EXTENDS Integers, FiniteSets

CONSTANTS
    Peers,
    MaxMissed,      \* maxMissedHeartbeats
    StaggerPings,   \* staggerPings
    MaxPings,       \* bound of the model: pings of a peer that await an answer
    MaxJoins        \* bound of the model: times a peer is added

ASSUME HeartbeatAssumption ==
    /\ MaxMissed \in Nat \ {0}
    /\ StaggerPings \in BOOLEAN
    /\ MaxPings \in Nat \ {0}
    /\ MaxJoins \in Nat \ {0}

Joins == 1..MaxJoins

PeerState == [missedCount : Nat, pendingPing : BOOLEAN, isLeaving : BOOLEAN]

VARIABLES
    running,     \* _isRunning
    member,      \* the peers the cluster counts as members
    tracked,     \* the object peerStates holds for each peer, or 0
    joins,       \* the objects made for each peer so far
    obj,         \* the peer states
    timers,      \* stagger timers that have not fired: <<peer, object>>
    up,          \* the peers that answer
    asked,       \* pings of each peer that await a pong or their timeout
    answered,    \* how many of them the peer has answered
    unanswered,  \* history: pings since the last pong, in this membership, up
                 \* to MaxMissed
    failed       \* history: node_failed events of each peer

pinging == <<asked, answered>>

vars == <<running, member, tracked, joins, obj, timers, up, pinging, unanswered, failed>>

\* addPeer's object.
Fresh == [missedCount |-> 0, pendingPing |-> FALSE, isLeaving |-> FALSE]

\* What pingPeer, a pong and a graceful leave make of an object.
Counted(o) ==
    [missedCount |-> IF o.pendingPing THEN o.missedCount + 1 ELSE o.missedCount,
     pendingPing |-> TRUE, isLeaving |-> o.isLeaving]

Ponged(o) == [missedCount |-> 0, pendingPing |-> FALSE, isLeaving |-> o.isLeaving]

Left(o) == [missedCount |-> o.missedCount, pendingPing |-> o.pendingPing,
            isLeaving |-> TRUE]

\* Mutant of Fails: one heartbeat too early.
FailsEarly(o) == ~o.isLeaving /\ o.pendingPing /\ o.missedCount + 2 >= MaxMissed

\* pingPeer of the object emits node_failed.
Fails(o) == ~o.isLeaving /\ o.pendingPing /\ o.missedCount + 1 >= MaxMissed

Staggers(ps) == StaggerPings /\ Cardinality(ps) > 1

(* start(): the members are added and the first heartbeatLoop runs. *)
Init ==
    /\ running = TRUE
    /\ up = Peers
    /\ member \in SUBSET Peers
    /\ joins = [p \in Peers |-> IF p \in member THEN 1 ELSE 0]
    /\ tracked = joins
    /\ LET now == IF Staggers(member) THEN {} ELSE member
       IN  /\ obj = [p \in Peers |-> [k \in Joins |->
                        IF p \in now /\ k = 1 THEN Counted(Fresh) ELSE Fresh]]
           /\ asked = [p \in Peers |-> IF p \in now THEN 1 ELSE 0]
           /\ unanswered = asked
    /\ timers = IF Staggers(member) THEN {<<p, 1>> : p \in member} ELSE {}
    /\ answered = [p \in Peers |-> 0]
    /\ failed = [p \in Peers |-> 0]

----------------------------------------------------------------------------
(* pingPeer, up to the await, for a set of objects of different peers *)

Lost(objs) ==
    {p \in Peers : \E k \in Joins : <<p, k>> \in objs /\ Fails(obj[p][k])}

Asked(objs) ==
    {p \in Peers : \E k \in Joins :
        <<p, k>> \in objs /\ ~obj[p][k].isLeaving /\ ~Fails(obj[p][k])}

pingPeer(objs) ==
    LET lost == Lost(objs)
        asks == Asked(objs)
    IN  /\ \A p \in asks : asked[p] < MaxPings
        /\ obj' = [p \in Peers |-> [k \in Joins |->
                      IF <<p, k>> \in objs /\ ~obj[p][k].isLeaving
                      THEN Counted(obj[p][k]) ELSE obj[p][k]]]
        /\ tracked' = [p \in Peers |-> IF p \in lost THEN 0 ELSE tracked[p]]
        /\ failed' = [p \in Peers |-> IF p \in lost THEN failed[p] + 1 ELSE failed[p]]
        /\ asked' = [p \in Peers |-> IF p \in asks THEN asked[p] + 1 ELSE asked[p]]
        /\ unanswered' = [p \in Peers |->
                             IF p \in asks /\ unanswered[p] < MaxMissed
                             THEN unanswered[p] + 1 ELSE unanswered[p]]

\* The interval's callback.  All stagger timers of the last one have fired:
\* they were due within the interval.
heartbeatLoop ==
    LET ps   == {p \in Peers : tracked[p] # 0 /\ ~obj[p][tracked[p]].isLeaving}
        objs == {<<p, tracked[p]>> : p \in ps}
    IN  /\ running /\ timers = {} /\ ps # {}
        /\ IF Staggers(ps)
           THEN timers' = objs /\ UNCHANGED <<obj, tracked, failed, asked, unanswered>>
           ELSE pingPeer(objs) /\ UNCHANGED timers
        /\ UNCHANGED <<running, member, joins, up, answered>>

StaggerTimerFires(t) ==
    /\ t \in timers
    /\ timers' = timers \ {t}
    /\ pingPeer({t})
    /\ UNCHANGED <<running, member, joins, up, answered>>

\* The peer answers a ping: its handlePing.
handlePing(p) ==
    /\ p \in up
    /\ answered[p] < asked[p]
    /\ answered' = [answered EXCEPT ![p] = @ + 1]
    /\ UNCHANGED <<running, member, tracked, joins, obj, timers, up, asked,
                   unanswered, failed>>

\* The rest of pingPeer: whatever object the peer has by now is reset.
PongArrives(p) ==
    /\ answered[p] > 0
    /\ asked' = [asked EXCEPT ![p] = @ - 1]
    /\ answered' = [answered EXCEPT ![p] = @ - 1]
    /\ unanswered' = [unanswered EXCEPT ![p] = 0]
    /\ obj' = IF tracked[p] = 0 THEN obj
              ELSE [obj EXCEPT ![p][tracked[p]] = Ponged(@)]
    /\ UNCHANGED <<running, member, tracked, joins, timers, up, failed>>

\* Mutant of PingTimesOut: a ping that failed no longer counts as pending.
PingTimesOutForgiven(p) ==
    /\ asked[p] > 0
    /\ asked' = [asked EXCEPT ![p] = @ - 1]
    /\ answered' = [answered EXCEPT ![p] = IF @ < asked[p] THEN @ ELSE @ - 1]
    /\ obj' = IF tracked[p] = 0 THEN obj
              ELSE [obj EXCEPT ![p][tracked[p]].pendingPing = FALSE]
    /\ UNCHANGED <<running, member, tracked, joins, timers, up, unanswered, failed>>

\* The request times out or fails: nothing changes but that it is over.
PingTimesOut(p) ==
    /\ asked[p] > 0
    /\ asked' = [asked EXCEPT ![p] = @ - 1]
    /\ \/ answered[p] < asked[p] /\ UNCHANGED answered
       \/ answered[p] > 0 /\ answered' = [answered EXCEPT ![p] = @ - 1]
    /\ UNCHANGED <<running, member, tracked, joins, obj, timers, up,
                   unanswered, failed>>

----------------------------------------------------------------------------
(* The cluster's events *)

handleMemberJoin(p) ==
    /\ running
    /\ p \notin member
    /\ member' = member \union {p}
    /\ IF tracked[p] # 0
       THEN UNCHANGED <<joins, tracked, unanswered>>
       ELSE /\ joins[p] < MaxJoins
            /\ joins' = [joins EXCEPT ![p] = @ + 1]
            /\ tracked' = [tracked EXCEPT ![p] = joins[p] + 1]
            /\ unanswered' = [unanswered EXCEPT ![p] = 0]
    /\ UNCHANGED <<running, obj, timers, up, pinging, failed>>

handleMemberLeave(p, status) ==
    /\ running
    /\ p \in member
    /\ member' = member \ {p}
    /\ obj' = IF tracked[p] # 0 /\ status = "leaving"
              THEN [obj EXCEPT ![p][tracked[p]] = Left(@)]
              ELSE obj
    /\ tracked' = [tracked EXCEPT ![p] = 0]
    /\ UNCHANGED <<running, joins, timers, up, pinging, unanswered, failed>>

stop ==
    /\ running
    /\ running' = FALSE
    /\ timers' = {}
    /\ tracked' = [p \in Peers |-> 0]
    /\ UNCHANGED <<member, joins, obj, up, pinging, unanswered, failed>>

\* A peer crashes or becomes unreachable, or comes back.
Crash(p) ==
    /\ p \in up
    /\ up' = up \ {p}
    /\ UNCHANGED <<running, member, tracked, joins, obj, timers, pinging,
                   unanswered, failed>>

Recover(p) ==
    /\ p \notin up
    /\ up' = up \union {p}
    /\ UNCHANGED <<running, member, tracked, joins, obj, timers, pinging,
                   unanswered, failed>>

----------------------------------------------------------------------------
Next ==
    \/ heartbeatLoop
    \/ \E t \in timers : StaggerTimerFires(t)
    \/ \E p \in Peers :
          \/ handlePing(p) \/ PongArrives(p) \/ PingTimesOut(p)
          \/ handleMemberJoin(p)
          \/ \E status \in {"leaving", "failed"} : handleMemberLeave(p, status)
          \/ Crash(p) \/ Recover(p)
    \/ stop

Spec == Init /\ [][Next]_vars

(* The interval and its timers fire, and every request is answered or      *)
(* times out.                                                              *)
Fairness ==
    /\ WF_vars(heartbeatLoop)
    /\ \A t \in Peers \X Joins : WF_vars(StaggerTimerFires(t))
    /\ \A p \in Peers : WF_vars(PingTimesOut(p))

FairSpec == Spec /\ Fairness

----------------------------------------------------------------------------
\* Types and ranges of all variables; an object is made before it is used.
TypeOK ==
    /\ running \in BOOLEAN
    /\ member \subseteq Peers /\ up \subseteq Peers
    /\ joins \in [Peers -> 0..MaxJoins]
    /\ tracked \in [Peers -> 0..MaxJoins]
    /\ obj \in [Peers -> [Joins -> PeerState]]
    /\ timers \subseteq Peers \X Joins
    /\ asked \in [Peers -> Nat] /\ answered \in [Peers -> Nat]
    /\ \A p \in Peers : answered[p] <= asked[p] /\ tracked[p] <= joins[p]
    /\ unanswered \in [Peers -> 0..MaxMissed]
    /\ failed \in [Peers -> Nat]

\* No pending stagger timer holds an object peerStates no longer holds.
TimersCurrent(p) == \A t \in timers : t[1] = p => t[2] = tracked[p]

\* node_failed is emitted for a peer only when, since it was last added and
\* last answered, maxMissedHeartbeats pings to it went without an answer,
\* whatever late pongs and timeouts of older pings do to pingPeer's count,
\* unless a stagger timer is left over from an earlier membership.
DeclaredDeadInTime ==
    [][\A p \in Peers :
          failed'[p] # failed[p] /\ TimersCurrent(p) => unanswered[p] >= MaxMissed]_vars

\* "Number of missed heartbeats before declaring node dead." (heartbeat.ts:21):
\* the same without exception.
NeverDeclaredEarly ==
    [][\A p \in Peers : failed'[p] # failed[p] => unanswered[p] >= MaxMissed]_vars

\* A peer that stays silent does not stay in peerStates: heartbeatLoop and
\* its timers find out, whatever late pongs and membership events do.
SilentAreDropped ==
    \A p \in Peers : <>[](p \notin up) => <>[](tracked[p] = 0)
=============================================================================
