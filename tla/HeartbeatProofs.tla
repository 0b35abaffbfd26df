-------------------------- MODULE HeartbeatProofs --------------------------
(***************************************************************************)
(* For any peers and any limit of missed heartbeats, staggered or not: the *)
(* failure detector keeps its types, and declares a peer dead only after   *)
(* that many unanswered pings, unless a stagger timer is left over from an *)
(* earlier membership.                                                     *)
(***************************************************************************)
EXTENDS Heartbeat, TLAPS

(* The object of a tracked peer counts no more than was really missed: it  *)
(* is one behind the unanswered pings while a ping is pending, and at zero *)
(* otherwise.                                                              *)
CountsRight ==
    \A p \in Peers : tracked[p] # 0 =>
        LET o == obj[p][tracked[p]]
        IN  /\ o.pendingPing => o.missedCount < unanswered[p]
            /\ ~o.pendingPing => o.missedCount = 0
            /\ o.missedCount < MaxMissed

\* The objects of joins to come are as addPeer makes them.
UnusedAreFresh ==
    \A p \in Peers, k \in Joins : k > joins[p] => obj[p][k] = Fresh

\* A stagger timer holds an object that was made.
TimersUsed == \A t \in timers : t[2] <= joins[t[1]]

DetectorInv == TypeOK /\ TimersUsed /\ CountsRight /\ UnusedAreFresh

----------------------------------------------------------------------------
\* The operators on peer states make peer states.
LEMMA PeerStates ==
    /\ Fresh \in PeerState
    /\ \A o \in PeerState :
          Counted(o) \in PeerState /\ Ponged(o) \in PeerState /\ Left(o) \in PeerState
  BY DEF Fresh, Counted, Ponged, Left, PeerState

\* The part of an update of one object that the others do not see.
LEMMA ObjectUpdated ==
    ASSUME obj \in [Peers -> [Joins -> PeerState]],
           NEW p \in Peers, NEW k \in Joins, NEW o \in PeerState
    PROVE  [obj EXCEPT ![p][k] = o] \in [Peers -> [Joins -> PeerState]]
  OBVIOUS

\* The types hold at the start.
LEMMA InitTyped == Init => TypeOK
<1> SUFFICES ASSUME Init PROVE TypeOK
  OBVIOUS
<1>1. 1 \in Joins /\ 1 \in 0..MaxJoins /\ 0 \in 0..MaxJoins
  BY HeartbeatAssumption DEF Joins
<1>2. obj \in [Peers -> [Joins -> PeerState]]
  BY PeerStates DEF Init
<1>3. timers \subseteq Peers \X Joins
  BY <1>1 DEF Init
<1>4. unanswered \in [Peers -> 0..MaxMissed]
  BY HeartbeatAssumption DEF Init
<1>5. joins \in [Peers -> 0..MaxJoins] /\ tracked = joins
  BY <1>1 DEF Init
<1>6. asked \in [Peers -> Nat] /\ answered \in [Peers -> Nat]
      /\ \A p \in Peers : answered[p] <= asked[p]
  BY DEF Init
<1> QED
  BY <1>2, <1>3, <1>4, <1>5, <1>6 DEF Init, TypeOK

\* pingPeer keeps the types it touches.
LEMMA PingTyped ==
    ASSUME TypeOK, NEW objs, pingPeer(objs)
    PROVE  /\ obj' \in [Peers -> [Joins -> PeerState]]
           /\ tracked' \in [Peers -> 0..MaxJoins]
           /\ \A p \in Peers : tracked'[p] <= tracked[p]
           /\ asked' \in [Peers -> Nat]
           /\ \A p \in Peers : asked[p] <= asked'[p]
           /\ unanswered' \in [Peers -> 0..MaxMissed]
           /\ failed' \in [Peers -> Nat]
<1>1. obj' \in [Peers -> [Joins -> PeerState]]
  <2> SUFFICES ASSUME NEW p \in Peers, NEW k \in Joins
               PROVE  (IF <<p, k>> \in objs /\ ~obj[p][k].isLeaving
                       THEN Counted(obj[p][k]) ELSE obj[p][k]) \in PeerState
    BY DEF pingPeer
  <2>1. obj[p][k] \in PeerState
    BY DEF TypeOK
  <2> QED
    BY <2>1, PeerStates
<1> DEFINE lost == Lost(objs)
           asks == Asked(objs)
<1>2. /\ tracked' = [p \in Peers |-> IF p \in lost THEN 0 ELSE tracked[p]]
      /\ failed' = [p \in Peers |-> IF p \in lost THEN failed[p] + 1 ELSE failed[p]]
      /\ asked' = [p \in Peers |-> IF p \in asks THEN asked[p] + 1 ELSE asked[p]]
      /\ unanswered' = [p \in Peers |-> IF p \in asks /\ unanswered[p] < MaxMissed
                                        THEN unanswered[p] + 1 ELSE unanswered[p]]
  BY DEF pingPeer
<1> HIDE DEF lost, asks
<1>3. tracked' \in [Peers -> 0..MaxJoins] /\ \A p \in Peers : tracked'[p] <= tracked[p]
  BY <1>2, HeartbeatAssumption DEF TypeOK
<1>4. asked' \in [Peers -> Nat] /\ \A p \in Peers : asked[p] <= asked'[p]
  BY <1>2 DEF TypeOK
<1>5. unanswered' \in [Peers -> 0..MaxMissed]
  BY <1>2, HeartbeatAssumption DEF TypeOK
<1>6. failed' \in [Peers -> Nat]
  BY <1>2 DEF TypeOK
<1> QED
  BY <1>1, <1>3, <1>4, <1>5, <1>6

\* Every step keeps the types.
LEMMA StepTyped == TypeOK /\ [Next]_vars => TypeOK'
<1> SUFFICES ASSUME TypeOK, [Next]_vars PROVE TypeOK'
  OBVIOUS
<1>1. CASE heartbeatLoop
  <2> DEFINE ps == {p \in Peers : tracked[p] # 0 /\ ~obj[p][tracked[p]].isLeaving}
             objs == {<<p, tracked[p]>> : p \in ps}
  <2>1. objs \subseteq Peers \X Joins
    <3> SUFFICES ASSUME NEW p \in Peers, tracked[p] # 0
                 PROVE  tracked[p] \in Joins
      OBVIOUS
    <3> QED
      BY HeartbeatAssumption DEF TypeOK, Joins
  <2>2. CASE timers' = objs /\ UNCHANGED <<obj, tracked, failed, asked, unanswered>>
    BY <1>1, <2>1, <2>2 DEF heartbeatLoop, TypeOK
  <2>3. CASE pingPeer(objs) /\ UNCHANGED timers
    <3> HIDE DEF objs
    <3> QED
      BY <1>1, <2>3, PingTyped DEF heartbeatLoop, TypeOK
  <2> QED
    BY <1>1, <2>2, <2>3 DEF heartbeatLoop
<1>2. CASE \E t \in timers : StaggerTimerFires(t)
  BY <1>2, PingTyped DEF StaggerTimerFires, TypeOK
<1>3. ASSUME NEW p \in Peers, handlePing(p) PROVE TypeOK'
  BY <1>3 DEF handlePing, TypeOK
<1>4. ASSUME NEW p \in Peers, PongArrives(p) PROVE TypeOK'
  <2>1. obj' \in [Peers -> [Joins -> PeerState]]
    <3>1. CASE tracked[p] = 0
      BY <1>4, <3>1 DEF PongArrives, TypeOK
    <3>2. CASE tracked[p] # 0
      <4>1. tracked[p] \in Joins
        BY <3>2, HeartbeatAssumption DEF TypeOK, Joins
      <4>2. Ponged(obj[p][tracked[p]]) \in PeerState
        BY <4>1, PeerStates DEF TypeOK
      <4> QED
        BY <1>4, <3>2, <4>1, <4>2, ObjectUpdated DEF PongArrives, TypeOK
    <3> QED
      BY <3>1, <3>2
  <2>2. asked' \in [Peers -> Nat] /\ answered' \in [Peers -> Nat]
        /\ \A q \in Peers : answered'[q] <= asked'[q]
    BY <1>4 DEF PongArrives, TypeOK
  <2>3. unanswered' \in [Peers -> 0..MaxMissed]
    BY <1>4, HeartbeatAssumption DEF PongArrives, TypeOK
  <2> QED
    BY <1>4, <2>1, <2>2, <2>3 DEF PongArrives, TypeOK
<1>5. ASSUME NEW p \in Peers, PingTimesOut(p) PROVE TypeOK'
  BY <1>5 DEF PingTimesOut, TypeOK
<1>6. ASSUME NEW p \in Peers, handleMemberJoin(p) PROVE TypeOK'
  <2>1. CASE UNCHANGED <<joins, tracked, unanswered>>
    BY <1>6, <2>1 DEF handleMemberJoin, TypeOK, pinging
  <2>2. CASE /\ joins[p] < MaxJoins
             /\ joins' = [joins EXCEPT ![p] = @ + 1]
             /\ tracked' = [tracked EXCEPT ![p] = joins[p] + 1]
             /\ unanswered' = [unanswered EXCEPT ![p] = 0]
    <3>1. joins[p] + 1 \in 0..MaxJoins /\ 0 \in 0..MaxMissed
      BY <2>2, HeartbeatAssumption DEF TypeOK
    <3>2. joins' \in [Peers -> 0..MaxJoins] /\ tracked' \in [Peers -> 0..MaxJoins]
          /\ unanswered' \in [Peers -> 0..MaxMissed]
      BY <2>2, <3>1 DEF TypeOK
    <3>3. \A q \in Peers : tracked'[q] <= joins'[q]
      BY <2>2, <3>1 DEF TypeOK
    <3> QED
      BY <1>6, <3>2, <3>3 DEF handleMemberJoin, TypeOK, pinging
  <2> QED
    BY <1>6, <2>1, <2>2 DEF handleMemberJoin
<1>7. ASSUME NEW p \in Peers, NEW status, handleMemberLeave(p, status) PROVE TypeOK'
  <2>1. obj' \in [Peers -> [Joins -> PeerState]]
    <3>1. CASE obj' = obj
      BY <3>1 DEF TypeOK
    <3>2. CASE tracked[p] # 0 /\ obj' = [obj EXCEPT ![p][tracked[p]] = Left(@)]
      <4>1. tracked[p] \in Joins
        BY <3>2, HeartbeatAssumption DEF TypeOK, Joins
      <4>2. Left(obj[p][tracked[p]]) \in PeerState
        BY <4>1, PeerStates DEF TypeOK
      <4> QED
        BY <3>2, <4>1, <4>2, ObjectUpdated DEF TypeOK
    <3> QED
      BY <1>7, <3>1, <3>2 DEF handleMemberLeave
  <2> QED
    BY <1>7, <2>1, HeartbeatAssumption DEF handleMemberLeave, TypeOK, pinging
<1>8. CASE stop
  <2>1. tracked' \in [Peers -> 0..MaxJoins] /\ \A p \in Peers : tracked'[p] <= joins[p]
    BY <1>8, HeartbeatAssumption DEF stop, TypeOK
  <2> QED
    BY <1>8, <2>1 DEF stop, TypeOK, pinging
<1>9. ASSUME NEW p \in Peers, Crash(p) \/ Recover(p) PROVE TypeOK'
  BY <1>9 DEF Crash, Recover, TypeOK, pinging
<1>10. CASE UNCHANGED vars
  BY <1>10 DEF vars, TypeOK, pinging
<1> QED
  BY <1>1, <1>2, <1>3, <1>4, <1>5, <1>6, <1>7, <1>8, <1>9, <1>10 DEF Next

(* The failure detector's variables keep their types, and no ping is       *)
(* answered that was not sent, staggered or not.                           *)
THEOREM DetectorTyped == Spec => []TypeOK
  BY InitTyped, StepTyped, PTL DEF Spec

----------------------------------------------------------------------------
(* The objects pinged in one step: at most one for each peer, and only     *)
(* objects that were made.                                                 *)
OnePerPeer(objs) ==
    \A p \in Peers, j, k \in Joins : <<p, j>> \in objs /\ <<p, k>> \in objs => j = k

OnlyUsed(objs) == \A p \in Peers, k \in Joins : <<p, k>> \in objs => k <= joins[p]

\* The number of the object peerStates holds for a tracked peer.
LEMMA TrackedIsJoin ==
    ASSUME TypeOK, NEW p \in Peers, tracked[p] # 0
    PROVE  tracked[p] \in Joins /\ tracked[p] <= joins[p] /\ joins[p] \in Int
  BY HeartbeatAssumption DEF TypeOK, Joins

\* heartbeatLoop hands pingPeer the objects peerStates holds, or makes timers
\* for them.
LEMMA LoopPings ==
    ASSUME TypeOK, heartbeatLoop
    PROVE  \E objs :
              /\ \A p \in Peers, k \in Joins : <<p, k>> \in objs => k = tracked[p]
              /\ OnePerPeer(objs) /\ OnlyUsed(objs)
              /\ \/ pingPeer(objs) /\ UNCHANGED <<timers, joins>>
                 \/ /\ timers' \subseteq objs \intersect (Peers \X Joins)
                    /\ UNCHANGED <<joins, obj, tracked, failed, unanswered>>
<1> DEFINE ps == {p \in Peers : tracked[p] # 0 /\ ~obj[p][tracked[p]].isLeaving}
           objs == {<<p, tracked[p]>> : p \in ps}
<1>1. \/ pingPeer(objs) /\ UNCHANGED <<timers, joins>>
      \/ timers' = objs /\ UNCHANGED <<joins, obj, tracked, failed, unanswered>>
  BY DEF heartbeatLoop
<1>2. \A p \in Peers, k \in Joins : <<p, k>> \in objs => k = tracked[p]
  OBVIOUS
<1>3. objs \subseteq Peers \X Joins
  BY TrackedIsJoin
<1> HIDE DEF objs
<1>4. OnePerPeer(objs)
  BY <1>2 DEF OnePerPeer
<1>5. OnlyUsed(objs)
  BY <1>2 DEF OnlyUsed, TypeOK
<1> QED
  BY <1>1, <1>2, <1>3, <1>4, <1>5

(* What pingPeer makes of a peer that stays tracked, and when it emits     *)
(* node_failed for an object that peerStates holds.                        *)
LEMMA HeartbeatCounts ==
    ASSUME DetectorInv, NEW objs, pingPeer(objs), OnePerPeer(objs),
           NEW p \in Peers, tracked[p] # 0
    PROVE  /\ p \in Lost(objs) /\ <<p, tracked[p]>> \in objs
                 => unanswered[p] >= MaxMissed
           /\ tracked'[p] # 0 =>
                 LET o == obj'[p][tracked'[p]]
                 IN  /\ o.pendingPing => o.missedCount < unanswered'[p]
                     /\ ~o.pendingPing => o.missedCount = 0
                     /\ o.missedCount < MaxMissed
<1> DEFINE k == tracked[p]
           o == obj[p][k]
<1>1. k \in Joins
  BY TrackedIsJoin DEF DetectorInv
<1>2. o \in PeerState /\ unanswered[p] \in 0..MaxMissed
  BY <1>1 DEF DetectorInv, TypeOK
<1>3. /\ o.pendingPing => o.missedCount < unanswered[p]
      /\ ~o.pendingPing => o.missedCount = 0
      /\ o.missedCount < MaxMissed
  BY DEF DetectorInv, CountsRight
<1>4. /\ obj'[p][k] = IF <<p, k>> \in objs /\ ~o.isLeaving THEN Counted(o) ELSE o
      /\ tracked'[p] = IF p \in Lost(objs) THEN 0 ELSE k
      /\ unanswered'[p] = IF p \in Asked(objs) /\ unanswered[p] < MaxMissed
                          THEN unanswered[p] + 1 ELSE unanswered[p]
  BY <1>1 DEF pingPeer
<1>5. CASE <<p, k>> \notin objs \/ o.isLeaving
  <2>1. obj'[p][k] = o /\ unanswered'[p] >= unanswered[p]
        /\ (tracked'[p] # 0 => tracked'[p] = k)
    BY <1>2, <1>4, <1>5, HeartbeatAssumption
  <2>2. <<p, k>> \in objs => p \notin Lost(objs)
    BY <1>1, <1>5 DEF Lost, Fails, OnePerPeer
  <2>3. unanswered'[p] \in Int /\ o.missedCount \in Int
    BY <1>2, <1>4, HeartbeatAssumption DEF PeerState
  <2> HIDE DEF k, o
  <2>4. o.pendingPing => o.missedCount < unanswered'[p]
    BY <1>2, <1>3, <2>1, <2>3
  <2> QED
    BY <1>3, <2>1, <2>2, <2>4 DEF k, o
<1>6. CASE <<p, k>> \in objs /\ ~o.isLeaving
  <2>1. p \in Lost(objs) <=> Fails(o)
    BY <1>1, <1>6 DEF Lost, OnePerPeer
  <2>2. p \in Asked(objs) <=> ~Fails(o)
    BY <1>1, <1>6 DEF Asked, OnePerPeer
  <2> HIDE DEF k, o
  <2>3. CASE Fails(o)
    <3>1. unanswered[p] >= MaxMissed
      BY <1>2, <1>3, <2>3, HeartbeatAssumption DEF Fails, PeerState
    <3> QED
      BY <1>4, <2>1, <2>3, <3>1
  <2>4. CASE ~Fails(o)
    <3>1. /\ tracked'[p] = k
          /\ unanswered'[p] = IF unanswered[p] < MaxMissed
                              THEN unanswered[p] + 1 ELSE unanswered[p]
          /\ obj'[p][k] = Counted(o)
      BY <1>4, <1>6, <2>1, <2>2, <2>4
    <3>2. /\ Counted(o).pendingPing
          /\ Counted(o).missedCount < unanswered'[p]
          /\ Counted(o).missedCount < MaxMissed
      BY <1>2, <1>3, <1>6, <2>4, <3>1, HeartbeatAssumption DEF Counted, Fails, PeerState
    <3> QED
      BY <2>1, <2>4, <3>1, <3>2
  <2> QED
    BY <2>3, <2>4
<1> QED
  BY <1>5, <1>6

\* pingPeer keeps the counts right, and leaves the objects of joins to come.
LEMMA HeartbeatKeeps ==
    ASSUME DetectorInv, NEW objs, pingPeer(objs), OnePerPeer(objs), OnlyUsed(objs),
           joins' = joins
    PROVE  CountsRight' /\ UnusedAreFresh'
<1>1. CountsRight'
  <2> SUFFICES ASSUME NEW p \in Peers, tracked'[p] # 0
               PROVE  LET o == obj'[p][tracked'[p]]
                      IN  /\ o.pendingPing => o.missedCount < unanswered'[p]
                          /\ ~o.pendingPing => o.missedCount = 0
                          /\ o.missedCount < MaxMissed
    BY DEF CountsRight
  <2>1. tracked[p] # 0
    BY DEF pingPeer
  <2> QED
    BY <2>1, HeartbeatCounts
<1>2. UnusedAreFresh'
  <2> SUFFICES ASSUME NEW p \in Peers, NEW k \in Joins, k > joins[p]
               PROVE  obj'[p][k] = Fresh
    BY DEF UnusedAreFresh
  <2>1. <<p, k>> \notin objs
    BY DEF DetectorInv, TypeOK, Joins, OnlyUsed
  <2>2. obj[p][k] = Fresh
    BY DEF DetectorInv, UnusedAreFresh
  <2> QED
    BY <2>1, <2>2 DEF pingPeer
<1> QED
  BY <1>1, <1>2

\* The invariant holds at the start.
LEMMA InitCounts == Init => DetectorInv
<1> SUFFICES ASSUME Init PROVE DetectorInv
  OBVIOUS
<1>1. TypeOK
  BY InitTyped
<1>2. TimersUsed
  BY DEF Init, TimersUsed
<1>3. CountsRight
  <2> SUFFICES ASSUME NEW p \in Peers, tracked[p] # 0
               PROVE  /\ tracked[p] = 1
                      /\ \/ obj[p][1] = Counted(Fresh) /\ unanswered[p] = 1
                         \/ obj[p][1] = Fresh
    BY HeartbeatAssumption DEF CountsRight, Counted, Fresh
  <2>1. 1 \in Joins
    BY HeartbeatAssumption DEF Joins
  <2> QED
    BY <2>1 DEF Init
<1>4. UnusedAreFresh
  <2> SUFFICES ASSUME NEW p \in Peers, NEW k \in Joins, k > joins[p]
               PROVE  obj[p][k] = Fresh
    BY DEF UnusedAreFresh
  <2> QED
    BY DEF Init, Staggers
<1> QED
  BY <1>1, <1>2, <1>3, <1>4 DEF DetectorInv

\* Every step keeps the invariant.
LEMMA StepCounts == DetectorInv /\ [Next]_vars => DetectorInv'
<1> SUFFICES ASSUME DetectorInv, [Next]_vars PROVE DetectorInv'
  OBVIOUS
<1>0. TypeOK /\ TypeOK'
  BY StepTyped DEF DetectorInv
<1>1. CASE heartbeatLoop
  <2> PICK objs :
        /\ OnePerPeer(objs) /\ OnlyUsed(objs)
        /\ \/ pingPeer(objs) /\ UNCHANGED <<timers, joins>>
           \/ /\ timers' \subseteq objs \intersect (Peers \X Joins)
              /\ UNCHANGED <<joins, obj, tracked, failed, unanswered>>
    BY <1>0, <1>1, LoopPings
  <2>1. CASE pingPeer(objs) /\ UNCHANGED <<timers, joins>>
    BY <1>0, <2>1, HeartbeatKeeps DEF DetectorInv, TimersUsed
  <2>2. CASE /\ timers' \subseteq objs \intersect (Peers \X Joins)
             /\ UNCHANGED <<joins, obj, tracked, failed, unanswered>>
    <3>1. TimersUsed'
      BY <2>2 DEF TimersUsed, OnlyUsed
    <3> QED
      BY <1>0, <2>2, <3>1 DEF DetectorInv, CountsRight, UnusedAreFresh, TimersUsed
  <2> QED
    BY <2>1, <2>2
<1>2. ASSUME NEW t \in timers, StaggerTimerFires(t) PROVE DetectorInv'
  <2>1. pingPeer({t}) /\ joins' = joins /\ timers' \subseteq timers
    BY <1>2 DEF StaggerTimerFires
  <2>2. OnePerPeer({t})
    BY DEF OnePerPeer
  <2>3. OnlyUsed({t})
    BY DEF OnlyUsed, DetectorInv, TimersUsed
  <2> QED
    BY <1>0, <2>1, <2>2, <2>3, HeartbeatKeeps DEF DetectorInv, TimersUsed
<1>3. ASSUME NEW p \in Peers, handlePing(p) PROVE DetectorInv'
  BY <1>0, <1>3 DEF handlePing, DetectorInv, CountsRight, UnusedAreFresh, TimersUsed
<1>4. ASSUME NEW p \in Peers, PongArrives(p) PROVE DetectorInv'
  <2>1. CASE tracked[p] = 0
    <3>1. /\ UNCHANGED <<obj, tracked, joins, timers>>
          /\ \A q \in Peers \ {p} : unanswered'[q] = unanswered[q]
      BY <1>0, <1>4, <2>1 DEF PongArrives, TypeOK
    <3> QED
      BY <1>0, <2>1, <3>1 DEF DetectorInv, CountsRight, UnusedAreFresh, TimersUsed
  <2>2. CASE tracked[p] # 0
    <3> DEFINE k == tracked[p]
    <3>1. k \in Joins /\ k <= joins[p]
      BY <1>0, <2>2, HeartbeatAssumption DEF TypeOK, Joins
    <3>2. /\ UNCHANGED <<tracked, joins, timers>>
          /\ obj'[p][k] = Ponged(obj[p][k])
          /\ \A j \in Joins \ {k} : obj'[p][j] = obj[p][j]
          /\ \A q \in Peers \ {p} : unanswered'[q] = unanswered[q] /\ obj'[q] = obj[q]
      BY <1>0, <1>4, <2>2, <3>1 DEF PongArrives, TypeOK
    <3> HIDE DEF k
    <3>3. CountsRight'
      <4>1. ASSUME NEW q \in Peers \ {p}, tracked[q] # 0
            PROVE  /\ obj'[q][tracked'[q]] = obj[q][tracked[q]]
                   /\ unanswered'[q] = unanswered[q]
        BY <3>2
      <4>2. ~Ponged(obj[p][k]).pendingPing /\ Ponged(obj[p][k]).missedCount = 0
        BY DEF Ponged
      <4> QED
        BY <3>2, <4>1, <4>2, HeartbeatAssumption DEF DetectorInv, CountsRight, k
    <3>4. UnusedAreFresh'
      <4> SUFFICES ASSUME NEW q \in Peers, NEW j \in Joins, j > joins[q]
                   PROVE  obj'[q][j] = Fresh
        BY <3>2 DEF UnusedAreFresh
      <4>1. q # p \/ j # k
        BY <3>1, <1>0 DEF TypeOK, Joins
      <4> QED
        BY <3>2, <4>1 DEF DetectorInv, UnusedAreFresh
    <3> QED
      BY <1>0, <3>2, <3>3, <3>4 DEF DetectorInv, TimersUsed
  <2> QED
    BY <2>1, <2>2
<1>5. ASSUME NEW p \in Peers, PingTimesOut(p) PROVE DetectorInv'
  BY <1>0, <1>5 DEF PingTimesOut, DetectorInv, CountsRight, UnusedAreFresh, TimersUsed
<1>6. ASSUME NEW p \in Peers, handleMemberJoin(p) PROVE DetectorInv'
  <2>1. CASE UNCHANGED <<joins, tracked, unanswered>>
    BY <1>0, <1>6, <2>1 DEF handleMemberJoin, DetectorInv, CountsRight, UnusedAreFresh, TimersUsed
  <2>2. CASE /\ joins[p] < MaxJoins
             /\ joins' = [joins EXCEPT ![p] = @ + 1]
             /\ tracked' = [tracked EXCEPT ![p] = joins[p] + 1]
             /\ unanswered' = [unanswered EXCEPT ![p] = 0]
    <3>1. UNCHANGED <<obj, timers>>
      BY <1>6 DEF handleMemberJoin
    <3>2. /\ joins[p] + 1 \in Joins /\ joins[p] + 1 > joins[p]
          /\ tracked'[p] = joins[p] + 1 /\ joins'[p] = joins[p] + 1
          /\ \A q \in Peers \ {p} : /\ tracked'[q] = tracked[q]
                                    /\ joins'[q] = joins[q]
                                    /\ unanswered'[q] = unanswered[q]
      BY <1>0, <2>2 DEF TypeOK, Joins
    <3>3. obj[p][joins[p] + 1] = Fresh
      BY <3>2 DEF DetectorInv, UnusedAreFresh
    <3>4. CountsRight'
      BY <3>1, <3>2, <3>3, HeartbeatAssumption DEF DetectorInv, CountsRight, Fresh
    <3>5. UnusedAreFresh'
      <4> SUFFICES ASSUME NEW q \in Peers, NEW j \in Joins, j > joins'[q]
                   PROVE  j > joins[q]
        BY <3>1 DEF DetectorInv, UnusedAreFresh
      <4>1. joins[q] \in Int /\ j \in Int
        BY <1>0 DEF TypeOK, Joins
      <4>2. joins'[q] = joins[q] \/ joins'[q] = joins[q] + 1
        BY <3>2
      <4> QED
        BY <4>1, <4>2
    <3>6. TimersUsed'
      <4> SUFFICES ASSUME NEW t \in timers PROVE t[2] <= joins'[t[1]]
        BY <3>1 DEF TimersUsed
      <4>1. t[1] \in Peers /\ t[2] \in Int /\ t[2] <= joins[t[1]]
        BY <1>0 DEF DetectorInv, TimersUsed, TypeOK, Joins
      <4>2. joins[t[1]] \in Int /\ (\/ joins'[t[1]] = joins[t[1]]
                                    \/ joins'[t[1]] = joins[t[1]] + 1)
        BY <1>0, <3>2, <4>1 DEF TypeOK
      <4> QED
        BY <4>1, <4>2
    <3> QED
      BY <1>0, <3>1, <3>4, <3>5, <3>6 DEF DetectorInv
  <2> QED
    BY <1>6, <2>1, <2>2 DEF handleMemberJoin
<1>7. ASSUME NEW p \in Peers, NEW status, handleMemberLeave(p, status)
      PROVE  DetectorInv'
  <2>1. /\ UNCHANGED <<joins, timers, unanswered>>
        /\ tracked'[p] = 0
        /\ \A q \in Peers \ {p} : tracked'[q] = tracked[q] /\ obj'[q] = obj[q]
        /\ \A j \in Joins : j # tracked[p] \/ tracked[p] = 0 => obj'[p][j] = obj[p][j]
    BY <1>0, <1>7 DEF handleMemberLeave, TypeOK
  <2>2. CountsRight'
    BY <2>1 DEF DetectorInv, CountsRight
  <2>3. UnusedAreFresh'
    <3> SUFFICES ASSUME NEW q \in Peers, NEW j \in Joins, j > joins[q]
                 PROVE  obj'[q][j] = Fresh
      BY <2>1 DEF UnusedAreFresh
    <3>1. q # p \/ j # tracked[p]
      BY <1>0 DEF TypeOK, Joins
    <3> QED
      BY <2>1, <3>1 DEF DetectorInv, UnusedAreFresh
  <2> QED
    BY <1>0, <2>1, <2>2, <2>3 DEF DetectorInv, TimersUsed
<1>8. CASE stop
  BY <1>0, <1>8 DEF stop, DetectorInv, CountsRight, UnusedAreFresh, TimersUsed
<1>9. ASSUME NEW p \in Peers, Crash(p) \/ Recover(p) PROVE DetectorInv'
  BY <1>0, <1>9 DEF Crash, Recover, DetectorInv, CountsRight, UnusedAreFresh, TimersUsed
<1>10. CASE UNCHANGED vars
  BY <1>0, <1>10 DEF vars, DetectorInv, CountsRight, UnusedAreFresh, TimersUsed
<1> QED
  BY <1>1, <1>2, <1>3, <1>4, <1>5, <1>6, <1>7, <1>8, <1>9, <1>10 DEF Next

(* node_failed is emitted for a peer only when maxMissedHeartbeats pings   *)
(* in a row went unanswered since it was added, unless a stagger timer     *)
(* holds an object peerStates no longer holds: pingPeer's count never runs *)
(* ahead of the pings really missed, whatever late pongs, timeouts and     *)
(* memberships do in between.                                              *)
THEOREM OnlySilentPeersFail == Spec => DeclaredDeadInTime
<1> DEFINE InTime == \A p \in Peers : failed'[p] # failed[p] /\ TimersCurrent(p)
                                         => unanswered[p] >= MaxMissed
<1>1. DetectorInv /\ [Next]_vars => [InTime]_vars
  <2> SUFFICES ASSUME DetectorInv, Next, NEW p \in Peers,
                      failed'[p] # failed[p], TimersCurrent(p)
               PROVE  unanswered[p] >= MaxMissed
    OBVIOUS
  <2>1. ASSUME NEW objs, pingPeer(objs), OnePerPeer(objs),
               \A k \in Joins : <<p, k>> \in objs => k = tracked[p]
        PROVE  unanswered[p] >= MaxMissed
    <3>1. p \in Lost(objs)
      BY <2>1 DEF pingPeer, DetectorInv, TypeOK
    <3>2. PICK k \in Joins : <<p, k>> \in objs
      BY <3>1 DEF Lost
    <3>3. k = tracked[p] /\ k # 0
      BY <2>1, <3>2, HeartbeatAssumption DEF Joins
    <3> QED
      BY <2>1, <3>1, <3>2, <3>3, HeartbeatCounts
  <2>2. CASE heartbeatLoop
    <3> PICK objs :
          /\ \A q \in Peers, k \in Joins : <<q, k>> \in objs => k = tracked[q]
          /\ OnePerPeer(objs) /\ OnlyUsed(objs)
          /\ \/ pingPeer(objs) /\ UNCHANGED <<timers, joins>>
             \/ /\ timers' \subseteq objs \intersect (Peers \X Joins)
                /\ UNCHANGED <<joins, obj, tracked, failed, unanswered>>
      BY <2>2, LoopPings DEF DetectorInv
    <3> QED
      BY <2>1
  <2>3. ASSUME NEW t \in timers, StaggerTimerFires(t)
        PROVE  unanswered[p] >= MaxMissed
    <3>1. pingPeer({t})
      BY <2>3 DEF StaggerTimerFires
    <3>2. OnePerPeer({t})
      BY DEF OnePerPeer
    <3>3. \A k \in Joins : <<p, k>> \in {t} => k = tracked[p]
      BY DEF TimersCurrent
    <3> QED
      BY <2>1, <3>1, <3>2, <3>3
  <2>4. CASE UNCHANGED failed
    BY <2>4
  <2> QED
    BY <2>2, <2>3, <2>4 DEF Next, handlePing, PongArrives, PingTimesOut,
       handleMemberJoin, handleMemberLeave, stop, Crash, Recover
<1> QED
  BY <1>1, InitCounts, StepCounts, PTL DEF Spec, DeclaredDeadInTime
=============================================================================
