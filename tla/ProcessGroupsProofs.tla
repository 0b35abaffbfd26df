------------------------ MODULE ProcessGroupsProofs ------------------------
(***************************************************************************)
(* Proofs about the membership and the process groups over it              *)
(* (Membership.tla, ProcessGroups.tla), for any number of nodes, actors,   *)
(* heartbeats, restarts and late datagrams: listeners are told what the    *)
(* table says, a leave is not undone by older gossip, no event costs a     *)
(* peer's address and no leave another peer's connection, and no node lists*)
(* a member that left.                                                     *)
(***************************************************************************)
EXTENDS ProcessGroups, WellFoundedInduction, FiniteSetTheorems, TLAPS

Tables == [Nodes -> PeerState \cup {NoPeer}]

\* What a node knows and its listeners were told, as View gives it.
NodeViews == [table : Tables, transport : SUBSET Nodes, dealers : SUBSET Nodes,
              told : SUBSET Nodes]

MembershipTyped ==
    /\ running \in [Nodes -> {"down", "up", "leaving"}]
    /\ generation \in [Nodes -> Nat]
    /\ peers \in [Nodes -> Tables]
    /\ datagram = NoDatagram \/ datagram \in [to : Nodes, peers : Tables]
    /\ transport \in [Nodes -> SUBSET Nodes]
    /\ dealers \in [Nodes -> SUBSET Nodes]
    /\ told \in [Nodes -> SUBSET Nodes]
    /\ left \subseteq Nodes

(* A running node knows itself, one that is down knows nobody; listeners   *)
(* heard everybody in the table join, but for peers that left.             *)
KnowsItself(n) ==
    /\ peers[n][n] # NoPeer /\ peers[n][n].fresh
    /\ peers[n][n].generation = generation[n]
    /\ peers[n][n].status = "leaving" <=> running[n] = "leaving"

Tells(n) ==
    /\ running[n] = "down" => Table(n) = {} /\ told[n] = {}
    /\ running[n] # "down" => KnowsItself(n)
    /\ told[n] \subseteq Table(n) \ {n}
    /\ Table(n) \subseteq told[n] \cup left \cup {n}

TableInv == \A n \in Nodes : Tells(n)

(* What is said of m, in the tables and by the late datagram.              *)
Heard(m, e) ==
    /\ e \in PeerState
    /\ \/ \E n \in Nodes : peers[n][m] = e
       \/ datagram # NoDatagram /\ datagram.peers[m] = e

(* Nobody is ahead of m in what m says of itself; a leave comes last in its*)
(* generation.                                                             *)
Gossip(m) ==
    \A e \in PeerState : Heard(m, e) =>
        /\ e.generation <= generation[m]
        /\ running[m] # "down" /\ e.generation = generation[m] =>
              /\ e.heartbeat <= peers[m][m].heartbeat
              /\ e.status = "leaving" => running[m] = "leaving"
        /\ e.status = "leaving" => m \in left
        /\ \A f \in PeerState :
              /\ Heard(m, f) /\ f.generation = e.generation
              /\ e.status = "leaving" /\ f.status # "leaving"
              => f.heartbeat < e.heartbeat

GossipInv == \A m \in Nodes : Gossip(m)

MembershipInv == MembershipTyped /\ TableInv /\ GossipInv

----------------------------------------------------------------------------
(* Merging a datagram.                                                     *)

\* Induction over the natural numbers, for a set of them.
LEMMA SetInduction ==
    ASSUME NEW S, 0 \in S, \A k \in Nat : k \in S => k + 1 \in S
    PROVE  Nat \subseteq S
<1> DEFINE T == Nat \ S
<1>1. SUFFICES ASSUME T # {} PROVE FALSE
  OBVIOUS
<1>2. IsWellFoundedOn(OpToRel(<, Nat), Nat)
  BY NatLessThanWellFounded
<1>3. \E x \in T : \A y \in T : <<y, x>> \notin OpToRel(<, Nat)
  <2> HIDE DEF T
  <2>1. T \subseteq Nat
    BY DEF T
  <2> QED BY <1>1, <1>2, <2>1, WFMin, Zenon
<1>4. PICK x \in T : \A y \in T : <<y, x>> \notin OpToRel(<, Nat)
  BY <1>3
<1>5. \A y \in T : ~ (y < x)
  BY <1>4 DEF OpToRel
<1>6. x # 0
  OBVIOUS
<1>7. x - 1 \in Nat /\ x - 1 < x /\ x - 1 \notin T
  BY <1>5, <1>6
<1> QED BY <1>7

\* An entry that becomes fresh, or not.
LEMMA Freshened ==
    ASSUME NEW e \in PeerState
    PROVE  LET f == [e EXCEPT !.fresh = TRUE] IN
           /\ f \in PeerState /\ f # NoPeer /\ f.fresh
           /\ f.generation = e.generation /\ f.heartbeat = e.heartbeat /\ f.status = e.status
BY NoPeerAssumption DEF PeerState

\* updatePeers leaves the table and what was told alone.
LEMMA UpdatePeersIs ==
    ASSUME NEW view \in NodeViews, NEW listed \in SUBSET Nodes
    PROVE  LET v == updatePeers(view, listed) IN
           /\ v \in NodeViews /\ v.table = view.table /\ v.told = view.told
           /\ v.transport = listed /\ v.dealers = view.dealers \ (view.transport \ listed)
BY DEF updatePeers, NodeViews

\* After syncPeers every live peer has an address, and the connection it had.
LEMMA SyncPeersIs ==
    ASSUME NEW n \in Nodes, NEW view \in NodeViews
    PROVE  LET v == syncPeers(n, view)
               live == LivePeers(n, view.table) IN
           /\ v \in NodeViews /\ v.table = view.table /\ v.told = view.told
           /\ live \subseteq v.transport /\ view.dealers \intersect live \subseteq v.dealers
<1> DEFINE live == LivePeers(n, view.table)
           v == syncPeers(n, view)
<1>1. live \in SUBSET Nodes
  BY DEF LivePeers
<1>2. v = IF live = {} THEN view ELSE updatePeers(view, live)
  BY DEF syncPeers
<1> HIDE DEF live, v
<1>3. CASE live = {}
  BY <1>2, <1>3 DEF live, v
<1>4. CASE live # {}
  <2>1. v = updatePeers(view, live)
    BY <1>2, <1>4
  <2>2. /\ v \in NodeViews /\ v.table = view.table /\ v.told = view.told
        /\ v.transport = live /\ v.dealers = view.dealers \ (view.transport \ live)
    BY <1>1, <2>1, UpdatePeersIs
  <2> QED BY <2>2 DEF live, v
<1> QED BY <1>3, <1>4

\* What merging one entry does to the view of a node.
MergedAs(n, view, m, incoming, v) ==
    /\ v \in NodeViews
    /\ v.table = [view.table EXCEPT ![m] = [incoming EXCEPT !.fresh = TRUE]]
    /\ \/ /\ view.table[m] = NoPeer /\ v.told = view.told \cup {m}
          /\ LivePeers(n, v.table) \subseteq v.transport
       \/ /\ view.table[m] # NoPeer /\ incoming.status = "leaving" /\ v.told = view.told \ {m}
          /\ LivePeers(n, v.table) \subseteq v.transport
          /\ view.dealers \intersect LivePeers(n, v.table) \subseteq v.dealers
       \/ /\ view.table[m] # NoPeer /\ v.told = view.told
          /\ v.transport = view.transport /\ v.dealers = view.dealers

LEMMA MergeEffect ==
    ASSUME NEW n \in Nodes, NEW view \in NodeViews, NEW m \in Nodes, NEW incoming \in PeerState
    PROVE  MergedAs(n, view, m, incoming, Merge(n, view, m, incoming))
<1> DEFINE f == [incoming EXCEPT !.fresh = TRUE]
           table == [view.table EXCEPT ![m] = f]
           v == Merge(n, view, m, incoming)
<1>1. f \in PeerState
  BY Freshened
<1>2. view.table \in Tables /\ view.told \in SUBSET Nodes
  BY DEF NodeViews
<1>3. table \in Tables
  <2> HIDE DEF f
  <2> QED BY <1>1, <1>2 DEF Tables
<1>4. /\ view.table[m] = NoPeer => v = memberJoin(n, view, table, m)
      /\ view.table[m] # NoPeer =>
            \/ incoming.status = "leaving" /\ v = memberLeave(n, view, table, {m})
            \/ v = [view EXCEPT !.table = table]
  BY DEF Merge
<1> HIDE DEF table, v
<1>5. ASSUME NEW now \in SUBSET Nodes
      PROVE  LET w == [view EXCEPT !.table = table, !.told = now] IN
             /\ w \in NodeViews /\ w.table = table /\ w.told = now
             /\ w.transport = view.transport /\ w.dealers = view.dealers
  BY <1>3, <1>5 DEF NodeViews
<1>6. CASE view.table[m] = NoPeer
  <2> DEFINE now == view.told \cup {m}
             w == [view EXCEPT !.table = table, !.told = now]
             u == updatePeers(w, {m})
  <2>1. v = syncPeers(n, u)
    BY <1>4, <1>6 DEF memberJoin
  <2>2. now \in SUBSET Nodes
    BY <1>2
  <2> HIDE DEF now
  <2>3. w \in NodeViews /\ w.table = table /\ w.told = now
    BY <1>5, <2>2
  <2> HIDE DEF w
  <2>4. u \in NodeViews /\ u.table = table /\ u.told = now
    BY <2>3, UpdatePeersIs
  <2> HIDE DEF u
  <2>5. /\ v \in NodeViews /\ v.table = table /\ v.told = now
        /\ LivePeers(n, table) \subseteq v.transport
    BY <2>1, <2>4, SyncPeersIs
  <2>6. MergedAs(n, view, m, incoming, v)
    BY <1>6, <2>5 DEF MergedAs, table, now
  <2> QED BY <2>6 DEF v
<1>7. CASE view.table[m] # NoPeer /\ incoming.status = "leaving"
           /\ v = memberLeave(n, view, table, {m})
  <2> DEFINE now == view.told \ {m}
             w == [view EXCEPT !.table = table, !.told = now]
  <2>1. v = syncPeers(n, w)
    BY <1>7 DEF memberLeave
  <2>2. now \in SUBSET Nodes
    BY <1>2
  <2> HIDE DEF now
  <2>3. w \in NodeViews /\ w.table = table /\ w.told = now /\ w.dealers = view.dealers
    BY <1>5, <2>2
  <2> HIDE DEF w
  <2>4. /\ v \in NodeViews /\ v.table = table /\ v.told = now
        /\ LivePeers(n, table) \subseteq v.transport
        /\ view.dealers \intersect LivePeers(n, table) \subseteq v.dealers
    BY <2>1, <2>3, SyncPeersIs
  <2>5. MergedAs(n, view, m, incoming, v)
    BY <1>7, <2>4 DEF MergedAs, table, now
  <2> QED BY <2>5 DEF v
<1>8. CASE view.table[m] # NoPeer /\ v = [view EXCEPT !.table = table]
  <2>1. /\ v \in NodeViews /\ v.table = table /\ v.told = view.told
        /\ v.transport = view.transport /\ v.dealers = view.dealers
    BY <1>3, <1>8 DEF NodeViews
  <2>2. MergedAs(n, view, m, incoming, v)
    BY <1>8, <2>1 DEF MergedAs, table
  <2> QED BY <2>2 DEF v
<1> QED BY <1>4, <1>6, <1>7, <1>8

\* The view v of node n when the entries of done, out of a datagram's table, are merged.
Updated(n, table, v, done) ==
    /\ v \in NodeViews /\ done \subseteq News(n, table)
    /\ \A m \in Nodes \ done : v.table[m] = peers[n][m] /\ (m \in v.told <=> m \in told[n])
    /\ \A m \in done :
          /\ v.table[m] = [table[m] EXCEPT !.fresh = TRUE]
          /\ \/ peers[n][m] = NoPeer /\ m \in v.told
             \/ peers[n][m] # NoPeer /\ (m \in v.told <=> m \in told[n])
             \/ peers[n][m] # NoPeer /\ m \notin v.told /\ table[m].status = "leaving"
    /\ v.told # told[n] =>
          LivePeers(n, v.table) \intersect (LivePeers(n, peers[n]) \cup (v.told \ told[n]))
              \subseteq v.transport
    /\ v.told \subseteq told[n] =>
          dealers[n] \intersect LivePeers(n, peers[n]) \intersect LivePeers(n, v.table)
              \subseteq v.dealers

\* An entry of the news.
LEMMA NewsIs ==
    ASSUME MembershipTyped, NEW n \in Nodes, NEW table \in Tables, NEW m \in News(n, table)
    PROVE  m \in Nodes /\ table[m] \in PeerState /\ peers[n] \in Tables
BY DEF News, Tables, MembershipTyped

\* Each entry is merged on its own.
LEMMA MergeUpdates ==
    ASSUME MembershipTyped, NEW n \in Nodes, told[n] \subseteq Table(n),
           NEW table \in Tables, NEW view, NEW done, Updated(n, table, view, done), NEW m \in News(n, table) \ done
    PROVE  Updated(n, table, Merge(n, view, m, table[m]), done \cup {m})
<1> DEFINE v == Merge(n, view, m, table[m])
           f == [table[m] EXCEPT !.fresh = TRUE]
<1>1. m \in Nodes /\ table[m] \in PeerState /\ peers[n] \in Tables
  BY NewsIs
<1>2. view \in NodeViews /\ view.table \in Tables /\ view.told \subseteq Nodes /\ done \subseteq Nodes
  BY DEF Updated, NodeViews, News
<1>3. /\ v \in NodeViews
      /\ v.table = [view.table EXCEPT ![m] = f]
      /\ \/ /\ view.table[m] = NoPeer /\ v.told = view.told \cup {m}
            /\ LivePeers(n, v.table) \subseteq v.transport
         \/ /\ view.table[m] # NoPeer /\ table[m].status = "leaving" /\ v.told = view.told \ {m}
            /\ LivePeers(n, v.table) \subseteq v.transport
            /\ view.dealers \intersect LivePeers(n, v.table) \subseteq v.dealers
         \/ /\ view.table[m] # NoPeer /\ v.told = view.told
            /\ v.transport = view.transport /\ v.dealers = view.dealers
  <2>1. MergedAs(n, view, m, table[m], v)
    BY <1>1, <1>2, MergeEffect
  <2> HIDE DEF v
  <2> QED BY <2>1 DEF MergedAs
<1> HIDE DEF v, f
<1>4. view.table[m] = peers[n][m] /\ (m \in view.told <=> m \in told[n])
  BY <1>1 DEF Updated
<1>5. v.table[m] = f /\ \A k \in Nodes \ {m} : v.table[k] = view.table[k]
  BY <1>1, <1>2, <1>3 DEF Tables
<1>6. \A k \in Nodes \ {m} : k \in v.told <=> k \in view.told
  BY <1>3
<1>7. \A k \in Nodes \ (done \cup {m}) : v.table[k] = peers[n][k] /\ (k \in v.told <=> k \in told[n])
  BY <1>5, <1>6 DEF Updated
<1>8. \/ peers[n][m] = NoPeer /\ m \in v.told
      \/ peers[n][m] # NoPeer /\ (m \in v.told <=> m \in told[n])
      \/ peers[n][m] # NoPeer /\ m \notin v.told /\ table[m].status = "leaving"
  BY <1>3, <1>4
<1>9. ASSUME NEW k \in done \cup {m}
      PROVE  /\ v.table[k] = [table[k] EXCEPT !.fresh = TRUE]
             /\ \/ peers[n][k] = NoPeer /\ k \in v.told
                \/ peers[n][k] # NoPeer /\ (k \in v.told <=> k \in told[n])
                \/ peers[n][k] # NoPeer /\ k \notin v.told /\ table[k].status = "leaving"
  <2>1. CASE k = m
    BY <1>5, <1>8, <2>1 DEF f
  <2>2. CASE k # m
    <3>1. k \in done /\ k \in Nodes \ {m}
      BY <1>2, <2>2
    <3> QED BY <1>5, <1>6, <3>1 DEF Updated
  <2> QED BY <2>1, <2>2
<1>10. v.told # told[n] =>
          LivePeers(n, v.table) \intersect (LivePeers(n, peers[n]) \cup (v.told \ told[n]))
              \subseteq v.transport
  <2>1. CASE v.told = view.told /\ v.transport = view.transport
    <3> SUFFICES ASSUME v.told # told[n], NEW k \in LivePeers(n, v.table),
                        k \in LivePeers(n, peers[n]) \/ k \in v.told \ told[n]
                 PROVE  k \in v.transport
      OBVIOUS
    <3>1. LivePeers(n, view.table) \intersect (LivePeers(n, peers[n]) \cup (view.told \ told[n]))
              \subseteq view.transport
      BY <2>1 DEF Updated
    <3>2. CASE k # m
      <4>1. k \in LivePeers(n, view.table)
        BY <1>5, <3>2 DEF LivePeers
      <4> QED BY <2>1, <3>1, <4>1
    <3>3. CASE k = m
      <4>1. k \in LivePeers(n, peers[n])
        BY <1>4, <2>1, <3>3
      <4>2. k \in LivePeers(n, view.table)
        BY <1>4, <3>3, <4>1 DEF LivePeers
      <4> QED BY <2>1, <3>1, <4>1, <4>2
    <3> QED BY <3>2, <3>3
  <2>2. CASE LivePeers(n, v.table) \subseteq v.transport
    BY <2>2
  <2> QED BY <1>3, <2>1, <2>2
<1>11. done \cup {m} \subseteq News(n, table)
  BY DEF Updated
<1>12. ASSUME v.told \subseteq told[n],
              NEW k \in dealers[n] \intersect LivePeers(n, peers[n]), k \in LivePeers(n, v.table)
       PROVE  k \in v.dealers
  <2>1. view.table[m] # NoPeer
    <3>1. view.table[m] = NoPeer => m \in told[n] /\ m \notin Table(n)
      BY <1>3, <1>4, <1>12 DEF Table
    <3> QED BY <3>1
  <2>2. view.told \subseteq told[n]
    BY <1>3, <1>4, <1>12, <2>1
  <2>3. k \in LivePeers(n, view.table)
    <3>1. CASE k = m
      BY <1>4, <1>12, <3>1 DEF LivePeers
    <3>2. CASE k # m
      BY <1>5, <1>12, <3>2 DEF LivePeers
    <3> QED BY <3>1, <3>2
  <2>4. k \in view.dealers
    BY <1>12, <2>2, <2>3 DEF Updated
  <2> QED BY <1>3, <1>12, <2>1, <2>4
<1>13. v.told \subseteq told[n] =>
          dealers[n] \intersect LivePeers(n, peers[n]) \intersect LivePeers(n, v.table)
              \subseteq v.dealers
  BY <1>12
<1> QED BY <1>3, <1>7, <1>9, <1>10, <1>11, <1>13 DEF Updated, v

\* An order of the news names each entry once.
LEMMA OrdersAre ==
    ASSUME NEW S, IsFiniteSet(S), NEW order \in Orders(S)
    PROVE  /\ Len(order) \in Nat /\ order \in [1..Len(order) -> S]
           /\ \A i, j \in 1..Len(order) : i # j => order[i] # order[j]
<1>1. CASE S = {}
  BY <1>1 DEF Orders
<1>2. CASE S # {}
  <2> DEFINE k == Cardinality(S)
  <2>1. k \in Nat
    BY FS_CardinalityType
  <2>2. order \in [1..k -> S] /\ \A i, j \in 1..k : i # j => order[i] # order[j]
    BY <1>2 DEF Orders, SetToSeqs
  <2> HIDE DEF k
  <2>3. Len(order) = k
    BY <2>1, <2>2
  <2> QED BY <2>1, <2>2, <2>3
<1> QED BY <1>1, <1>2

\* What a node makes of a datagram: some of its entries are merged.
LEMMA ReceivedUpdates ==
    ASSUME MembershipTyped, NEW n \in Nodes, told[n] \subseteq Table(n),
           NEW table \in Tables, NEW v \in Received(n, table)
    PROVE  \E done : Updated(n, table, v, done) /\ (running[n] = "down" => done = {})
<1>0. Updated(n, table, View(n), {})
  <2> DEFINE w == View(n)
  <2>1. /\ w.table = peers[n] /\ w.transport = transport[n] /\ w.dealers = dealers[n]
        /\ w.told = told[n] /\ w \in NodeViews
    BY DEF View, NodeViews, MembershipTyped
  <2> HIDE DEF w
  <2>2. Updated(n, table, w, {})
    BY <2>1 DEF Updated
  <2> QED BY <2>2 DEF w
<1>1. CASE running[n] = "down"
  BY <1>0, <1>1 DEF Received
<1>2. CASE running[n] # "down"
  <2> DEFINE F(order) ==
          CHOOSE f : f = [i \in 0..Len(order) |->
              IF i = 0 THEN {View(n)}
              ELSE {Merge(n, view, order[i], table[order[i]]) : view \in f[i - 1]}]
  <2>1. PICK order \in Orders(News(n, table)) : v \in F(order)[Len(order)]
    BY <1>2 DEF Received
  <2> DEFINE N == Len(order)
             Merges(i, V) == {Merge(n, view, order[i], table[order[i]]) : view \in V}
             Good(f, k) == f = [i \in 0..k |-> IF i = 0 THEN {View(n)} ELSE Merges(i, f[i - 1])]
             views == F(order)
  <2>2. News(n, table) \subseteq Nodes /\ IsFiniteSet(News(n, table))
    <3>1. News(n, table) \subseteq Nodes /\ IsFiniteSet(Nodes)
      BY MembershipAssumption DEF News
    <3> QED BY <3>1, FS_Subset
  <2>3. /\ N \in Nat /\ order \in [1..N -> News(n, table)]
        /\ \A i, j \in 1..N : i # j => order[i] # order[j]
    BY <2>2, OrdersAre
  <2>4. \E f : Good(f, N)
    <3> DEFINE S == {k \in Nat : \E f : Good(f, k)}
    <3>1. 0 \in S
      <4>1. Good([i \in 0..0 |-> {View(n)}], 0)
        OBVIOUS
      <4> QED BY <4>1
    <3>2. ASSUME NEW k \in Nat, k \in S PROVE k + 1 \in S
      <4>1. PICK f : Good(f, k)
        BY <3>2
      <4> DEFINE g == [i \in 0..k + 1 |-> IF i = k + 1 THEN Merges(k + 1, f[k]) ELSE f[i]]
      <4> HIDE DEF Merges
      <4>2. g[k + 1] = Merges(k + 1, f[k]) /\ \A i \in 0..k : g[i] = f[i]
        OBVIOUS
      <4>3. ASSUME NEW i \in 0..k + 1 PROVE g[i] = IF i = 0 THEN {View(n)} ELSE Merges(i, g[i - 1])
        <5>1. CASE i = k + 1
          <6>1. i # 0 /\ i - 1 = k /\ k \in 0..k
            BY <5>1
          <6>2. g[i - 1] = f[k]
            BY <4>2, <6>1
          <6> HIDE DEF g
          <6> QED BY <4>2, <5>1, <6>1, <6>2
        <5>2. CASE i # k + 1
          <6>1. i \in 0..k /\ g[i] = f[i] /\ (i # 0 => i - 1 \in 0..k)
            BY <4>2, <5>2
          <6>2. f[i] = IF i = 0 THEN {View(n)} ELSE Merges(i, f[i - 1])
            BY <4>1, <6>1
          <6>3. i # 0 => g[i - 1] = f[i - 1]
            BY <4>2, <6>1
          <6> HIDE DEF g
          <6> QED BY <6>1, <6>2, <6>3
        <5> QED BY <5>1, <5>2
      <4>4. g = [i \in 0..k + 1 |-> IF i = 0 THEN {View(n)} ELSE Merges(i, g[i - 1])]
        BY <4>3
      <4> HIDE DEF g
      <4>5. \E h : Good(h, k + 1)
        BY <4>4
      <4> QED BY <4>5
    <3> HIDE DEF S
    <3>3. Nat \subseteq S
      BY <3>1, <3>2, SetInduction
    <3> QED BY <2>3, <3>3 DEF S
  <2>5. Good(views, N)
    BY <2>4
  <2> HIDE DEF F
  <2> DEFINE Some(i) == {order[j] : j \in 1..i}
             T == {k \in Nat : k <= N => \A w \in views[k] : Updated(n, table, w, Some(k))}
  <2>6. 0 \in T
    <3>1. views[0] = {View(n)} /\ Some(0) = {}
      BY <2>3, <2>5
    <3> QED BY <1>0, <3>1
  <2>7. ASSUME NEW k \in Nat, k \in T PROVE k + 1 \in T
    <3> SUFFICES ASSUME k + 1 <= N, NEW w \in views[k + 1] PROVE Updated(n, table, w, Some(k + 1))
      OBVIOUS
    <3>1. k <= N /\ k + 1 \in 0..N /\ k + 1 \in 1..N /\ (k + 1) - 1 = k
      BY <2>3
    <3>2. views[k + 1] = {Merge(n, view, order[k + 1], table[order[k + 1]]) : view \in views[k]}
      BY <2>5, <3>1
    <3> HIDE DEF views
    <3>3. PICK view \in views[k] : w = Merge(n, view, order[k + 1], table[order[k + 1]])
      BY <3>2
    <3>4. Updated(n, table, view, Some(k))
      BY <2>7, <3>1
    <3>5. order[k + 1] \in News(n, table) \ Some(k) /\ Some(k + 1) = Some(k) \cup {order[k + 1]}
      BY <2>3, <3>1
    <3> HIDE DEF Some
    <3>6. PICK m \in News(n, table) \ Some(k) : m = order[k + 1]
      BY <3>5
    <3>7. Updated(n, table, Merge(n, view, m, table[m]), Some(k) \cup {m})
      BY <3>4, MergeUpdates
    <3> QED BY <3>3, <3>5, <3>6, <3>7
  <2> HIDE DEF T
  <2>8. N \in T
    BY <2>3, <2>6, <2>7, SetInduction
  <2>9. \A w \in views[N] : Updated(n, table, w, Some(N))
    BY <2>3, <2>8 DEF T
  <2> HIDE DEF Some
  <2> QED BY <1>2, <2>1, <2>9
<1> QED BY <1>1, <1>2

----------------------------------------------------------------------------
(* What is said of a node.                                                 *)

Same(d, e) == d.generation = e.generation /\ d.heartbeat = e.heartbeat /\ d.status = e.status

\* A step after which a node says of itself what it said before, and no less.
KeepsSelf(m) ==
    running[m] # "down" =>
        /\ peers'[m][m] \in PeerState /\ peers'[m][m].fresh
        /\ peers'[m][m].generation = peers[m][m].generation
        /\ peers'[m][m].status = peers[m][m].status
        /\ peers'[m][m].heartbeat >= peers[m][m].heartbeat

\* Nothing is said of m that was not said before, or that it says itself.
Repeats(m) ==
    \A e \in PeerState : Heard(m, e)' =>
        \/ \E d \in PeerState : Heard(m, d) /\ Same(d, e)
        \/ running[m] # "down" /\ Same(peers'[m][m], e)

\* A node's own entry is one of those heard.
LEMMA OwnIsHeard ==
    ASSUME MembershipTyped, TableInv, NEW m \in Nodes, running[m] # "down"
    PROVE  /\ peers[m][m] \in PeerState /\ Heard(m, peers[m][m]) /\ KnowsItself(m)
           /\ peers[m][m].generation \in Nat /\ peers[m][m].heartbeat \in Nat
BY DEF MembershipTyped, Tables, TableInv, Tells, KnowsItself, Heard, PeerState

\* Such a step keeps what is said of m in order.
LEMMA GossipKept ==
    ASSUME MembershipInv, NEW m \in Nodes, KeepsSelf(m), Repeats(m),
           running'[m] = running[m], generation'[m] = generation[m], left \subseteq left'
    PROVE  Gossip(m)'
<1> DEFINE own == peers[m][m]
           now == peers'[m][m]
<1>0. MembershipTyped /\ TableInv /\ Gossip(m) /\ generation[m] \in Nat
  BY DEF MembershipInv, GossipInv, MembershipTyped
<1>1. ASSUME running[m] # "down"
      PROVE  /\ own \in PeerState /\ Heard(m, own) /\ own.generation = generation[m]
             /\ own.status = "leaving" <=> running[m] = "leaving"
             /\ now \in PeerState /\ now.generation = own.generation /\ now.status = own.status
             /\ now.heartbeat >= own.heartbeat
  BY <1>0, <1>1, OwnIsHeard DEF KeepsSelf, KnowsItself
<1>2. \A e \in PeerState : e.generation \in Nat /\ e.heartbeat \in Nat
  BY DEF PeerState
<1> HIDE DEF own, now
<1>3. ASSUME NEW e \in PeerState, Heard(m, e)'
      PROVE  /\ e.generation <= generation[m]
             /\ running[m] # "down" /\ e.generation = generation[m] =>
                   e.heartbeat <= now.heartbeat /\ (e.status = "leaving" => running[m] = "leaving")
             /\ e.status = "leaving" => m \in left
  <2>1. CASE running[m] # "down" /\ Same(now, e)
    BY <1>0, <1>1, <1>2, <2>1 DEF Same, Gossip
  <2>2. ASSUME NEW d \in PeerState, Heard(m, d), Same(d, e)
        PROVE  /\ e.generation <= generation[m]
               /\ running[m] # "down" /\ e.generation = generation[m] =>
                     e.heartbeat <= now.heartbeat /\ (e.status = "leaving" => running[m] = "leaving")
               /\ e.status = "leaving" => m \in left
    <3>1. /\ d.generation <= generation[m]
          /\ running[m] # "down" /\ d.generation = generation[m] =>
                d.heartbeat <= own.heartbeat /\ (d.status = "leaving" => running[m] = "leaving")
          /\ d.status = "leaving" => m \in left
      BY <1>0, <2>2 DEF Gossip, own
    <3> QED BY <1>1, <1>2, <2>2, <3>1 DEF Same
  <2> QED BY <1>3, <2>1, <2>2 DEF Repeats, now
<1>4. ASSUME NEW e \in PeerState, NEW f \in PeerState, Heard(m, e)', Heard(m, f)',
             f.generation = e.generation, e.status = "leaving", f.status # "leaving"
      PROVE  f.heartbeat < e.heartbeat
  <2>1. CASE running[m] # "down" /\ Same(now, e)
    <3>1. ~Same(now, f)
      BY <1>4, <2>1 DEF Same
    <3>2. PICK d \in PeerState : Heard(m, d) /\ Same(d, f)
      BY <1>4, <3>1 DEF Repeats, now
    <3>3. d.heartbeat < own.heartbeat
      BY <1>0, <1>1, <1>4, <2>1, <3>2 DEF Gossip, Same
    <3> QED BY <1>1, <1>2, <2>1, <3>2, <3>3 DEF Same
  <2>2. ASSUME NEW d \in PeerState, Heard(m, d), Same(d, e) PROVE f.heartbeat < e.heartbeat
    <3>1. CASE running[m] # "down" /\ Same(now, f)
      <4>1. d.generation = generation[m] /\ d.status = "leaving" /\ own.status # "leaving"
        BY <1>1, <1>4, <2>2, <3>1 DEF Same
      <4>2. running[m] = "leaving"
        BY <1>0, <2>2, <3>1, <4>1 DEF Gossip
      <4> QED BY <1>1, <3>1, <4>1, <4>2
    <3>2. ASSUME NEW c \in PeerState, Heard(m, c), Same(c, f) PROVE f.heartbeat < e.heartbeat
      BY <1>0, <1>4, <2>2, <3>2 DEF Gossip, Same
    <3> QED BY <1>4, <3>1, <3>2 DEF Repeats, now
  <2> QED BY <1>4, <2>1, <2>2 DEF Repeats, now
<1> QED BY <1>3, <1>4 DEF Gossip, now

\* The table that a node sends: its own entry may be one heartbeat ahead.
LEMMA BeatenIs ==
    ASSUME MembershipTyped, TableInv, NEW n \in Nodes, running[n] # "down"
    PROVE  LET own == peers[n][n]
               beaten == Beaten(n)[n] IN
           /\ Beaten(n) \in Tables /\ beaten \in PeerState
           /\ beaten.generation = own.generation /\ beaten.status = own.status
           /\ beaten.fresh /\ beaten.heartbeat >= own.heartbeat
           /\ \A k \in Nodes \ {n} : Beaten(n)[k] = peers[n][k]
<1> DEFINE own == peers[n][n]
           beats == IF own.heartbeat < MaxHeartbeat THEN own.heartbeat + 1 ELSE own.heartbeat
           beaten == [own EXCEPT !.heartbeat = beats]
<1>1. own \in PeerState /\ own.heartbeat \in Nat /\ own.fresh
  BY OwnIsHeard DEF KnowsItself
<1>2. MaxHeartbeat \in Nat
  BY MembershipAssumption
<1>3. beats \in Nat /\ beats >= own.heartbeat
  BY <1>1, <1>2
<1>4. Beaten(n) = [peers[n] EXCEPT ![n] = beaten]
  BY DEF Beaten
<1>5. peers[n] \in Tables
  BY DEF MembershipTyped
<1> HIDE DEF own, beats
<1>6. /\ beaten \in PeerState /\ beaten.heartbeat = beats /\ beaten.generation = own.generation
      /\ beaten.status = own.status /\ beaten.fresh = own.fresh
  BY <1>1, <1>3 DEF PeerState
<1> HIDE DEF beaten
<1>7. /\ Beaten(n) \in Tables /\ Beaten(n)[n] = beaten
      /\ \A k \in Nodes \ {n} : Beaten(n)[k] = peers[n][k]
  BY <1>4, <1>5, <1>6 DEF Tables
<1> QED BY <1>1, <1>3, <1>6, <1>7 DEF own

\* A table that only says what is heard, but for what its sender s, if it is
\* running, says of itself.
Claims(table, s) ==
    /\ table \in Tables
    /\ \A k \in Nodes : table[k] # NoPeer =>
          \/ Heard(k, table[k])
          \/ /\ k = s /\ running[s] # "down" /\ table[s].generation = peers[s][s].generation
             /\ table[s].status = peers[s][s].status

\* What a node makes of it: of the node itself there is no news but its own.
LEMMA ReceivedClaims ==
    ASSUME MembershipInv, NEW n \in Nodes, NEW s, NEW table, Claims(table, s),
           NEW v, NEW done, Updated(n, table, v, done), running[n] = "down" => done = {}
    PROVE  /\ \A k \in Nodes :
                 \/ v.table[k] = peers[n][k] /\ (k \in v.told <=> k \in told[n])
                 \/ /\ k \in done /\ table[k] \in PeerState /\ v.table[k] \in PeerState
                    /\ Same(table[k], v.table[k]) /\ v.table[k].fresh
                    /\ \/ peers[n][k] = NoPeer /\ k \in v.told
                       \/ peers[n][k] # NoPeer /\ (k \in v.told <=> k \in told[n])
                       \/ peers[n][k] # NoPeer /\ k \notin v.told /\ k \in left
           /\ running[n] # "down" =>
                 /\ v.table[n] \in PeerState /\ v.table[n].fresh
                 /\ v.table[n].generation = peers[n][n].generation
                 /\ v.table[n].status = peers[n][n].status
                 /\ v.table[n].heartbeat >= peers[n][n].heartbeat
                 /\ v.table[n] # peers[n][n] => n = s
           /\ v \in NodeViews
<1>0. MembershipTyped /\ TableInv /\ GossipInv /\ table \in Tables /\ v \in NodeViews
  BY DEF MembershipInv, Claims, Updated
<1>1. ASSUME NEW k \in done
      PROVE  k \in Nodes /\ table[k] \in PeerState /\ v.table[k] \in PeerState /\ Same(table[k], v.table[k])
             /\ v.table[k].fresh
  <2>1. k \in News(n, table)
    BY DEF Updated
  <2>2. k \in Nodes /\ table[k] \in PeerState
    BY <1>0, <2>1, NewsIs
  <2>3. v.table[k] = [table[k] EXCEPT !.fresh = TRUE]
    BY DEF Updated
  <2> QED BY <2>2, <2>3, Freshened DEF Same
<1>2. ASSUME NEW k \in done, table[k].status = "leaving" PROVE k \in left
  <2>1. table[k] # NoPeer
    BY <1>1, NoPeerAssumption
  <2>2. CASE Heard(k, table[k])
    BY <1>0, <1>1, <1>2, <2>2 DEF GossipInv, Gossip
  <2>3. CASE k = s /\ running[s] # "down" /\ table[s].status = peers[s][s].status
    BY <1>0, <1>1, <1>2, <2>3, OwnIsHeard DEF GossipInv, Gossip
  <2> QED BY <1>1, <2>1, <2>2, <2>3 DEF Claims
<1>3. ASSUME NEW k \in Nodes
      PROVE  \/ v.table[k] = peers[n][k] /\ (k \in v.told <=> k \in told[n])
             \/ /\ k \in done /\ table[k] \in PeerState /\ v.table[k] \in PeerState
                /\ Same(table[k], v.table[k]) /\ v.table[k].fresh
                /\ \/ peers[n][k] = NoPeer /\ k \in v.told
                   \/ peers[n][k] # NoPeer /\ (k \in v.told <=> k \in told[n])
                   \/ peers[n][k] # NoPeer /\ k \notin v.told /\ k \in left
  <2>1. CASE k \in done
    BY <1>1, <1>2, <2>1 DEF Updated
  <2>2. CASE k \notin done
    BY <2>2 DEF Updated
  <2> QED BY <2>1, <2>2
<1>4. ASSUME running[n] # "down"
      PROVE  /\ v.table[n] \in PeerState /\ v.table[n].fresh
             /\ v.table[n].generation = peers[n][n].generation
             /\ v.table[n].status = peers[n][n].status
             /\ v.table[n].heartbeat >= peers[n][n].heartbeat
             /\ v.table[n] # peers[n][n] => n = s
  <2>1. /\ peers[n][n] \in PeerState /\ peers[n][n].heartbeat \in Nat /\ peers[n][n].fresh
        /\ peers[n][n].generation = generation[n] /\ generation[n] \in Nat
    BY <1>0, <1>4, OwnIsHeard DEF KnowsItself, MembershipTyped
  <2>2. CASE n \notin done
    BY <2>1, <2>2 DEF Updated
  <2>3. CASE n \in done
    <3>1. n \in News(n, table) /\ table[n] \in PeerState /\ table[n] # NoPeer
      BY <1>1, <2>3, NoPeerAssumption DEF Updated
    <3>2. Newer(table[n], peers[n][n])
      BY <2>1, <3>1, NoPeerAssumption DEF News
    <3>3. table[n].generation \in Nat /\ table[n].heartbeat \in Nat
      BY <3>1 DEF PeerState
    <3>4. ~Heard(n, table[n])
      <4>1. ASSUME Heard(n, table[n])
            PROVE  /\ table[n].generation <= generation[n]
                   /\ table[n].generation = generation[n] => table[n].heartbeat <= peers[n][n].heartbeat
        BY <1>0, <1>4, <3>1, <4>1 DEF GossipInv, Gossip
      <4> QED BY <2>1, <3>2, <3>3, <4>1 DEF Newer
    <3>5. n = s /\ table[n].generation = peers[n][n].generation /\ table[n].status = peers[n][n].status
      BY <3>1, <3>4 DEF Claims
    <3>6. Same(table[n], v.table[n]) /\ v.table[n] \in PeerState /\ v.table[n].fresh
      BY <1>1, <2>3
    <3> QED BY <2>1, <3>2, <3>3, <3>5, <3>6 DEF Newer, Same
  <2> QED BY <2>2, <2>3
<1> QED BY <1>0, <1>3, <1>4

\* A node whose table has the same nodes as before, and nobody is told.
LEMMA TellsKept ==
    ASSUME MembershipInv, NEW n \in Nodes, running'[n] = running[n], generation'[n] = generation[n],
           left \subseteq left', KeepsSelf(n), told'[n] = told[n],
           \A k \in Nodes : peers'[n][k] = NoPeer <=> peers[n][k] = NoPeer
    PROVE  Tells(n)'
<1>1. Tells(n) /\ Table(n)' = Table(n)
  BY DEF MembershipInv, TableInv, Table
<1>2. running[n] # "down" => KnowsItself(n)'
  BY <1>1, NoPeerAssumption DEF Tells, KnowsItself, KeepsSelf
<1> QED BY <1>1, <1>2 DEF Tells

\* The node that receives a datagram.
LEMMA Receives ==
    ASSUME MembershipInv, NEW n \in Nodes, NEW s, NEW table, Claims(table, s),
           NEW v \in Received(n, table), peers'[n] = v.table, told'[n] = v.told,
           running' = running, generation' = generation, left' = left
    PROVE  /\ KeepsSelf(n) /\ Tells(n)' /\ v \in NodeViews
           /\ \A k \in Nodes : peers'[n][k] # peers[n][k] =>
                 /\ table[k] \in PeerState /\ peers'[n][k] \in PeerState
                 /\ Same(table[k], peers'[n][k])
           /\ peers'[n][n] # peers[n][n] /\ running[n] # "down" => n = s
<1>0. MembershipTyped /\ Tells(n) /\ table \in Tables
  BY DEF MembershipInv, TableInv, Claims
<1>1. PICK done : Updated(n, table, v, done) /\ (running[n] = "down" => done = {})
  <2>1. told[n] \subseteq Table(n)
    BY <1>0 DEF Tells
  <2> QED BY <1>0, <2>1, ReceivedUpdates
<1>2. /\ \A k \in Nodes :
            \/ v.table[k] = peers[n][k] /\ (k \in v.told <=> k \in told[n])
            \/ /\ k \in done /\ table[k] \in PeerState /\ v.table[k] \in PeerState
               /\ Same(table[k], v.table[k]) /\ v.table[k].fresh
               /\ \/ peers[n][k] = NoPeer /\ k \in v.told
                  \/ peers[n][k] # NoPeer /\ (k \in v.told <=> k \in told[n])
                  \/ peers[n][k] # NoPeer /\ k \notin v.told /\ k \in left
      /\ running[n] # "down" =>
            /\ v.table[n] \in PeerState /\ v.table[n].fresh
            /\ v.table[n].generation = peers[n][n].generation
            /\ v.table[n].status = peers[n][n].status
            /\ v.table[n].heartbeat >= peers[n][n].heartbeat
            /\ v.table[n] # peers[n][n] => n = s
      /\ v \in NodeViews
  BY <1>1, ReceivedClaims
<1>3. KeepsSelf(n)
  BY <1>2 DEF KeepsSelf
<1>4. told'[n] \subseteq Nodes /\ told[n] \subseteq Nodes
  BY <1>0, <1>2 DEF NodeViews, MembershipTyped
<1>5. running[n] # "down" => KnowsItself(n)'
  BY <1>0, <1>3, NoPeerAssumption DEF Tells, KnowsItself, KeepsSelf
<1>6. \A k \in Nodes : k \in told'[n] => peers'[n][k] # NoPeer /\ k # n
  <2> SUFFICES ASSUME NEW k \in Nodes, k \in told'[n] PROVE peers'[n][k] # NoPeer /\ k # n
    OBVIOUS
  <2>1. k \in told[n] => peers[n][k] # NoPeer /\ k # n
    BY <1>0 DEF Tells, Table
  <2>2. peers[n][n] = NoPeer => running[n] = "down"
    BY <1>0 DEF Tells, KnowsItself
  <2>3. running[n] = "down" => v.table[k] = peers[n][k] /\ (k \in v.told <=> k \in told[n])
    BY <1>1, <1>2
  <2> QED BY <1>2, <2>1, <2>2, <2>3, NoPeerAssumption
<1>7. \A k \in Nodes : peers'[n][k] # NoPeer => k \in told'[n] \cup left \cup {n}
  <2> SUFFICES ASSUME NEW k \in Nodes, peers'[n][k] # NoPeer PROVE k \in told'[n] \cup left \cup {n}
    OBVIOUS
  <2>1. peers[n][k] # NoPeer => k \in told[n] \cup left \cup {n}
    BY <1>0 DEF Tells, Table
  <2> QED BY <1>2, <2>1
<1>8. ASSUME running[n] = "down" PROVE Table(n)' = {} /\ told'[n] = {}
  <2>1. Table(n) = {} /\ told[n] = {} /\ done = {}
    BY <1>0, <1>1, <1>8 DEF Tells
  <2>2. \A k \in Nodes : peers'[n][k] = NoPeer /\ k \notin told'[n]
    BY <1>2, <2>1 DEF Table
  <2> QED BY <1>4, <2>2 DEF Table
<1>9. Tells(n)'
  BY <1>4, <1>5, <1>6, <1>7, <1>8 DEF Tells, Table
<1> QED BY <1>2, <1>3, <1>9

\* A datagram that was late arrives.
LEMMA InvOfHandle ==
    ASSUME MembershipInv, handleGossipMessage
    PROVE  MembershipInv'
<1>0. MembershipTyped /\ datagram # NoDatagram /\ datagram \in [to : Nodes, peers : Tables]
  BY DEF MembershipInv, handleGossipMessage, MembershipTyped
<1>1. PICK n \in Nodes, table \in Tables : n = datagram.to /\ table = datagram.peers
  BY <1>0
<1>2. PICK v \in Received(n, table) : Views(n, v)
  BY <1>1 DEF handleGossipMessage
<1>3. running' = running /\ generation' = generation /\ left' = left /\ datagram' = NoDatagram
  BY DEF handleGossipMessage
<1>4. \A k \in Nodes : table[k] # NoPeer => Heard(k, table[k])
  BY <1>0, <1>1 DEF Heard, Tables
<1>5. Claims(table, n)
  BY <1>1, <1>4 DEF Claims
<1>6. /\ peers'[n] = v.table /\ transport'[n] = v.transport /\ told'[n] = v.told
      /\ \A k \in Nodes \ {n} : peers'[k] = peers[k] /\ told'[k] = told[k]
  BY <1>0, <1>1, <1>2 DEF Views, MembershipTyped
<1>7. /\ KeepsSelf(n) /\ Tells(n)' /\ v \in NodeViews
      /\ \A k \in Nodes : peers'[n][k] # peers[n][k] =>
            /\ table[k] \in PeerState /\ peers'[n][k] \in PeerState
            /\ Same(table[k], peers'[n][k])
  BY <1>1, <1>2, <1>3, <1>5, <1>6, Receives
<1>8. /\ v.table \in Tables /\ v.transport \in SUBSET Nodes /\ v.dealers \in SUBSET Nodes
      /\ v.told \in SUBSET Nodes
  BY <1>7 DEF NodeViews
<1>9. MembershipTyped'
  BY <1>0, <1>1, <1>2, <1>3, <1>8 DEF Views, MembershipTyped
<1>10. ASSUME NEW m \in Nodes PROVE KeepsSelf(m) /\ Tells(m)' /\ Gossip(m)'
  <2>1. KeepsSelf(m)
    <3>1. CASE m # n
      <4>1. running[m] # "down" => /\ peers[m][m] \in PeerState /\ peers[m][m].fresh
                                   /\ peers[m][m].heartbeat \in Nat
        BY OwnIsHeard DEF MembershipInv, KnowsItself
      <4> QED BY <1>6, <3>1, <4>1 DEF KeepsSelf
    <3> QED BY <1>7, <3>1
  <2>2. Tells(m)'
    <3>1. CASE m = n
      BY <1>7, <3>1
    <3>2. CASE m # n
      <4>1. peers'[m] = peers[m] /\ told'[m] = told[m] /\ left \subseteq left'
        BY <1>3, <1>6, <3>2
      <4> QED BY <1>3, <2>1, <4>1, TellsKept
    <3> QED BY <3>1, <3>2
  <2>3. Repeats(m)
    <3> SUFFICES ASSUME NEW e \in PeerState, Heard(m, e)'
                 PROVE  \E d \in PeerState : Heard(m, d) /\ Same(d, e)
      BY DEF Repeats
    <3>1. PICK k \in Nodes : peers'[k][m] = e
      BY <1>3 DEF Heard
    <3>2. CASE peers[k][m] = e
      BY <3>2 DEF Heard, Same
    <3>3. CASE peers[k][m] # e
      <4>1. k = n /\ table[m] \in PeerState /\ Same(table[m], e)
        BY <1>6, <1>7, <3>1, <3>3
      <4> QED BY <1>4, <4>1, NoPeerAssumption
    <3> QED BY <3>2, <3>3
  <2> QED BY <1>3, <2>1, <2>2, <2>3, GossipKept
<1> QED BY <1>9, <1>10 DEF MembershipInv, TableInv, GossipInv

\* A node that is left alone keeps what it says of itself.
LEMMA SelfKept ==
    ASSUME MembershipInv, NEW m \in Nodes, peers'[m][m] = peers[m][m]
    PROVE  KeepsSelf(m)
<1>1. running[m] # "down" => /\ peers[m][m] \in PeerState /\ peers[m][m].fresh
                             /\ peers[m][m].heartbeat \in Nat
  BY OwnIsHeard DEF MembershipInv, KnowsItself
<1> QED BY <1>1 DEF KeepsSelf

\* A node sends its table, and the target receives it at once.
LEMMA InvOfGossip ==
    ASSUME MembershipInv, NEW n \in Nodes, NEW target \in Nodes, gossipLoop(n, target)
    PROVE  MembershipInv'
<1>0. MembershipTyped /\ TableInv /\ running[n] # "down"
  BY DEF MembershipInv, gossipLoop
<1>1. PICK table : /\ table = Beaten(n)
                   /\ \E v \in Received(target, table) :
                         /\ peers' = [peers EXCEPT ![n] = table, ![target] = v.table]
                         /\ transport' = [transport EXCEPT ![target] = v.transport]
                         /\ dealers' = [dealers EXCEPT ![target] = v.dealers]
                         /\ told' = [told EXCEPT ![target] = v.told]
  BY DEF gossipLoop
<1>2. PICK v \in Received(target, table) :
            /\ peers' = [peers EXCEPT ![n] = table, ![target] = v.table]
            /\ transport' = [transport EXCEPT ![target] = v.transport]
            /\ dealers' = [dealers EXCEPT ![target] = v.dealers]
            /\ told' = [told EXCEPT ![target] = v.told]
  BY <1>1
<1>3. running' = running /\ generation' = generation /\ left' = left /\ datagram' = datagram
  BY DEF gossipLoop
<1>4. /\ table \in Tables /\ table[n] \in PeerState
      /\ table[n].generation = peers[n][n].generation /\ table[n].status = peers[n][n].status
      /\ table[n].fresh /\ table[n].heartbeat >= peers[n][n].heartbeat
      /\ \A k \in Nodes \ {n} : table[k] = peers[n][k]
  BY <1>0, <1>1, BeatenIs
<1>5. \A k \in Nodes \ {n} : table[k] # NoPeer => Heard(k, table[k])
  BY <1>4 DEF Heard, Tables
<1>6. Claims(table, n)
  BY <1>0, <1>4, <1>5 DEF Claims
<1>7. /\ peers'[target] = v.table /\ transport'[target] = v.transport /\ told'[target] = v.told
      /\ \A k \in Nodes \ {target} : told'[k] = told[k]
      /\ \A k \in Nodes \ {n, target} : peers'[k] = peers[k]
      /\ n # target => peers'[n] = table
  BY <1>0, <1>2 DEF MembershipTyped
<1>8. /\ KeepsSelf(target) /\ Tells(target)' /\ v \in NodeViews
      /\ \A k \in Nodes : peers'[target][k] # peers[target][k] =>
            /\ table[k] \in PeerState /\ peers'[target][k] \in PeerState
            /\ Same(table[k], peers'[target][k])
  BY <1>2, <1>3, <1>6, <1>7, Receives
<1>9. /\ v.table \in Tables /\ v.transport \in SUBSET Nodes /\ v.dealers \in SUBSET Nodes
      /\ v.told \in SUBSET Nodes
  BY <1>8 DEF NodeViews
<1>10. MembershipTyped'
  BY <1>0, <1>2, <1>3, <1>4, <1>9 DEF MembershipTyped
<1>11. ASSUME NEW m \in Nodes PROVE KeepsSelf(m) /\ Tells(m)' /\ Gossip(m)'
  <2>1. KeepsSelf(m)
    <3>1. CASE m = target
      BY <1>8, <3>1
    <3>2. CASE m = n /\ n # target
      BY <1>4, <1>7, <3>2 DEF KeepsSelf
    <3>3. CASE m # n /\ m # target
      BY <1>7, <3>3, SelfKept
    <3> QED BY <3>1, <3>2, <3>3
  <2>2. Tells(m)'
    <3>1. CASE m = target
      BY <1>8, <3>1
    <3>2. CASE m # target
      <4>1. \A k \in Nodes : peers'[m][k] = NoPeer <=> peers[m][k] = NoPeer
        <5>1. CASE m # n
          BY <1>7, <3>2, <5>1
        <5>2. CASE m = n
          <6>1. peers[n][n] # NoPeer /\ table[n] # NoPeer
            BY <1>0, <1>4, NoPeerAssumption DEF TableInv, Tells, KnowsItself
          <6> QED BY <1>4, <1>7, <3>2, <5>2, <6>1
        <5> QED BY <5>1, <5>2
      <4>2. told'[m] = told[m] /\ left \subseteq left'
        BY <1>3, <1>7, <3>2
      <4> QED BY <1>3, <2>1, <4>1, <4>2, TellsKept
    <3> QED BY <3>1, <3>2
  <2>3. Repeats(m)
    <3> SUFFICES ASSUME NEW e \in PeerState, Heard(m, e)'
                 PROVE  \/ \E d \in PeerState : Heard(m, d) /\ Same(d, e)
                        \/ running[m] # "down" /\ Same(peers'[m][m], e)
      BY DEF Repeats
    <3>1. CASE Heard(m, e)
      BY <3>1 DEF Same
    <3>2. CASE ~Heard(m, e)
      <4>1. PICK k \in Nodes : peers'[k][m] = e
        BY <1>3, <3>2 DEF Heard
      <4>2. peers[k][m] # e
        BY <3>2 DEF Heard
      <4>3. CASE k = m
        <5>1. running[m] # "down"
          <6>1. ~(running[m] = "down" /\ m = n)
            BY <1>0
          <6>2. running'[m] = "down" => Table(m)' = {}
            BY <2>2 DEF Tells
          <6>3. m \in Table(m)'
            BY <4>1, <4>3, NoPeerAssumption DEF Table
          <6> QED BY <1>3, <6>2, <6>3
        <5> QED BY <4>1, <4>3, <5>1 DEF Same
      <4>4. CASE k # m
        <5>1. table[m] \in PeerState /\ Same(table[m], e)
          <6>1. CASE k = target
            BY <1>8, <4>1, <4>2, <6>1
          <6>2. CASE k = n /\ k # target
            BY <1>7, <4>1, <6>2 DEF Same
          <6> QED BY <1>7, <4>1, <4>2, <6>1, <6>2
        <5>2. CASE m # n
          BY <1>5, <5>1, <5>2, NoPeerAssumption
        <5>3. CASE m = n
          <6>1. CASE n = target
            <7>1. Same(table[n], peers'[n][n]) \/ peers'[n][n] = peers[n][n]
              BY <1>8, <6>1
            <7> QED BY <1>7, <4>1, <4>2, <4>4, <5>3, <6>1
          <6>2. CASE n # target
            BY <1>0, <1>7, <5>1, <5>3, <6>2
          <6> QED BY <6>1, <6>2
        <5> QED BY <5>2, <5>3
      <4> QED BY <4>3, <4>4
    <3> QED BY <3>1, <3>2
  <2> QED BY <1>3, <2>1, <2>2, <2>3, GossipKept
<1> QED BY <1>10, <1>11 DEF MembershipInv, TableInv, GossipInv

\* A node sends its table, and it is late.
LEMMA InvOfDelay ==
    ASSUME MembershipInv, NEW n \in Nodes, NEW target \in Nodes, Delay(n, target)
    PROVE  MembershipInv'
<1>0. MembershipTyped /\ TableInv /\ running[n] # "down"
  BY DEF MembershipInv, Delay
<1>1. PICK table : table = Beaten(n)
  OBVIOUS
<1>2. /\ peers' = [peers EXCEPT ![n] = table] /\ datagram' = [to |-> target, peers |-> table]
      /\ transport' = transport /\ dealers' = dealers /\ told' = told
      /\ running' = running /\ generation' = generation /\ left' = left
  BY <1>1 DEF Delay
<1>3. /\ table \in Tables /\ table[n] \in PeerState
      /\ table[n].generation = peers[n][n].generation /\ table[n].status = peers[n][n].status
      /\ table[n].fresh /\ table[n].heartbeat >= peers[n][n].heartbeat
      /\ \A k \in Nodes \ {n} : table[k] = peers[n][k]
  BY <1>0, <1>1, BeatenIs
<1>4. peers'[n] = table /\ \A k \in Nodes \ {n} : peers'[k] = peers[k]
  BY <1>0, <1>2 DEF MembershipTyped
<1>5. MembershipTyped'
  BY <1>0, <1>2, <1>3 DEF MembershipTyped
<1>6. ASSUME NEW m \in Nodes PROVE KeepsSelf(m) /\ Tells(m)' /\ Gossip(m)'
  <2>1. KeepsSelf(m)
    <3>1. CASE m = n
      BY <1>3, <1>4, <3>1 DEF KeepsSelf
    <3>2. CASE m # n
      BY <1>4, <3>2, SelfKept
    <3> QED BY <3>1, <3>2
  <2>2. Tells(m)'
    <3>1. \A k \in Nodes : peers'[m][k] = NoPeer <=> peers[m][k] = NoPeer
      <4>1. peers[n][n] # NoPeer /\ table[n] # NoPeer
        BY <1>0, <1>3, NoPeerAssumption DEF TableInv, Tells, KnowsItself
      <4> QED BY <1>3, <1>4, <4>1
    <3>2. told'[m] = told[m] /\ left \subseteq left'
      BY <1>2
    <3> QED BY <1>2, <2>1, <3>1, <3>2, TellsKept
  <2>3. Repeats(m)
    <3> SUFFICES ASSUME NEW e \in PeerState, Heard(m, e)'
                 PROVE  \/ \E d \in PeerState : Heard(m, d) /\ Same(d, e)
                        \/ running[m] # "down" /\ Same(peers'[m][m], e)
      BY DEF Repeats
    <3>1. table[m] = e \/ \E k \in Nodes : peers[k][m] = e
      BY <1>2, <1>4 DEF Heard
    <3>2. CASE m = n
      BY <1>0, <1>4, <3>1, <3>2 DEF Heard, Same
    <3>3. CASE m # n
      BY <1>3, <3>1, <3>3 DEF Heard, Same
    <3> QED BY <3>2, <3>3
  <2> QED BY <1>2, <2>1, <2>2, <2>3, GossipKept
<1> QED BY <1>5, <1>6 DEF MembershipInv, TableInv, GossipInv

\* A node of which nothing is said anew, and which says nothing new of itself.
LEMMA QuietGossip ==
    ASSUME MembershipInv, NEW m \in Nodes, peers'[m][m] = peers[m][m],
           running'[m] = running[m], generation'[m] = generation[m],
           left \subseteq left', datagram' = datagram,
           \A k \in Nodes : \/ peers'[k][m] = NoPeer
                            \/ peers[k][m] \in PeerState /\ Same(peers[k][m], peers'[k][m])
    PROVE  KeepsSelf(m) /\ Gossip(m)'
<1>1. KeepsSelf(m)
  BY SelfKept
<1>2. Repeats(m)
  <2> SUFFICES ASSUME NEW e \in PeerState, Heard(m, e)'
               PROVE  \E d \in PeerState : Heard(m, d) /\ Same(d, e)
    BY DEF Repeats
  <2>1. CASE datagram # NoDatagram /\ datagram.peers[m] = e
    BY <2>1 DEF Heard, Same
  <2>2. CASE \E k \in Nodes : peers'[k][m] = e
    <3>1. PICK k \in Nodes : peers'[k][m] = e
      BY <2>2
    <3>2. peers[k][m] \in PeerState /\ Same(peers[k][m], e)
      BY <3>1, NoPeerAssumption
    <3> QED BY <3>2 DEF Heard
  <2> QED BY <2>1, <2>2 DEF Heard
<1> QED BY <1>1, <1>2, GossipKept

\* The entry of a silent peer is no longer fresh.
LEMMA InvOfTimeout ==
    ASSUME MembershipInv, NEW n \in Nodes, NEW k \in Nodes, TimesOut(n, k)
    PROVE  MembershipInv'
<1>0. MembershipTyped /\ TableInv /\ running[n] # "down" /\ n # k /\ peers[n][k] # NoPeer
  BY DEF MembershipInv, TimesOut
<1> DEFINE e == [peers[n][k] EXCEPT !.fresh = FALSE]
<1>1. /\ peers' = [peers EXCEPT ![n] = [peers[n] EXCEPT ![k] = e]]
      /\ running' = running /\ generation' = generation /\ left' = left
      /\ datagram' = datagram /\ transport' = transport /\ dealers' = dealers /\ told' = told
  BY DEF TimesOut
<1>2. peers[n][k] \in PeerState
  BY <1>0 DEF MembershipTyped, Tables
<1>3. e \in PeerState /\ Same(peers[n][k], e) /\ e # NoPeer
  BY <1>2, NoPeerAssumption DEF PeerState, Same
<1> HIDE DEF e
<1>4. /\ peers'[n] = [peers[n] EXCEPT ![k] = e] /\ \A j \in Nodes \ {n} : peers'[j] = peers[j]
      /\ peers[n] \in Tables
  BY <1>0, <1>1 DEF MembershipTyped
<1>5. /\ peers'[n][k] = e /\ peers'[n] \in Tables
      /\ \A j, i \in Nodes : j # n \/ i # k => peers'[j][i] = peers[j][i]
  BY <1>3, <1>4 DEF Tables
<1>6. MembershipTyped'
  BY <1>0, <1>1, <1>4, <1>5 DEF MembershipTyped
<1>7. ASSUME NEW m \in Nodes PROVE Tells(m)' /\ Gossip(m)'
  <2>1. peers'[m][m] = peers[m][m]
    BY <1>0, <1>5
  <2>2. \A j \in Nodes : \/ peers'[j][m] = NoPeer
                         \/ peers[j][m] \in PeerState /\ Same(peers[j][m], peers'[j][m])
    BY <1>0, <1>2, <1>3, <1>5 DEF MembershipTyped, Tables, Same
  <2>3. KeepsSelf(m) /\ Gossip(m)'
    BY <1>1, <2>1, <2>2, QuietGossip
  <2>4. \A j \in Nodes : peers'[m][j] = NoPeer <=> peers[m][j] = NoPeer
    BY <1>0, <1>3, <1>5
  <2> QED BY <1>1, <2>3, <2>4, TellsKept
<1> QED BY <1>6, <1>7 DEF MembershipInv, TableInv, GossipInv

\* What a node is left with when peers that have timed out are removed.
LEMMA DeadRemoved ==
    ASSUME MembershipTyped, NEW n \in Nodes, failureDetectionLoop(n)
    PROVE  LET dead == {m \in Table(n) : ~peers[n][m].fresh} IN
           /\ running[n] # "down"
           /\ peers'[n] = Without(peers[n], dead) /\ peers'[n] \in Tables
           /\ told'[n] = told[n] \ dead /\ transport'[n] \in SUBSET Nodes
           /\ dealers'[n] \in SUBSET Nodes
           /\ LivePeers(n, peers'[n]) \subseteq transport'[n]
           /\ dealers[n] \intersect LivePeers(n, peers'[n]) \subseteq dealers'[n]
           /\ peers' = [peers EXCEPT ![n] = peers'[n]]
           /\ transport' = [transport EXCEPT ![n] = transport'[n]]
           /\ dealers' = [dealers EXCEPT ![n] = dealers'[n]]
           /\ told' = [told EXCEPT ![n] = told'[n]]
<1> DEFINE dead == {m \in Table(n) : ~peers[n][m].fresh}
           table == Without(peers[n], dead)
           now == told[n] \ dead
           w == [View(n) EXCEPT !.table = table, !.told = now]
           v == syncPeers(n, w)
<1>1. table \in Tables /\ now \in SUBSET Nodes
  BY DEF Without, Tables, MembershipTyped
<1>2. removeDead(n, View(n), dead) = v
  BY DEF removeDead, memberLeave, View
<1>3. running[n] # "down" /\ Views(n, v)
  BY <1>2 DEF failureDetectionLoop
<1> HIDE DEF table, now
<1>4. w \in NodeViews /\ w.table = table /\ w.told = now /\ w.dealers = dealers[n]
  BY <1>1 DEF View, NodeViews, MembershipTyped
<1> HIDE DEF w
<1>5. /\ v \in NodeViews /\ v.table = table /\ v.told = now
      /\ LivePeers(n, table) \subseteq v.transport
      /\ dealers[n] \intersect LivePeers(n, table) \subseteq v.dealers
  BY <1>4, SyncPeersIs
<1> HIDE DEF v
<1>6. v.transport \in SUBSET Nodes /\ v.dealers \in SUBSET Nodes
  BY <1>5 DEF NodeViews
<1>7. /\ peers' = [peers EXCEPT ![n] = v.table] /\ transport' = [transport EXCEPT ![n] = v.transport]
      /\ dealers' = [dealers EXCEPT ![n] = v.dealers] /\ told' = [told EXCEPT ![n] = v.told]
  BY <1>3 DEF Views
<1>8. /\ peers'[n] = table /\ transport'[n] = v.transport /\ dealers'[n] = v.dealers
      /\ told'[n] = now
  BY <1>5, <1>7 DEF MembershipTyped
<1> QED BY <1>1, <1>3, <1>5, <1>6, <1>7, <1>8 DEF table, now

\* Peers that have timed out are removed.
LEMMA InvOfDetection ==
    ASSUME MembershipInv, NEW n \in Nodes, failureDetectionLoop(n)
    PROVE  MembershipInv'
<1>0. MembershipTyped /\ TableInv
  BY DEF MembershipInv
<1> DEFINE dead == {m \in Table(n) : ~peers[n][m].fresh}
<1>1. /\ running[n] # "down"
      /\ peers'[n] = Without(peers[n], dead) /\ peers'[n] \in Tables
      /\ told'[n] = told[n] \ dead /\ transport'[n] \in SUBSET Nodes
      /\ dealers'[n] \in SUBSET Nodes
      /\ peers' = [peers EXCEPT ![n] = peers'[n]]
      /\ transport' = [transport EXCEPT ![n] = transport'[n]]
      /\ dealers' = [dealers EXCEPT ![n] = dealers'[n]]
      /\ told' = [told EXCEPT ![n] = told'[n]]
  BY <1>0, DeadRemoved
<1>2. running' = running /\ generation' = generation /\ left' = left /\ datagram' = datagram
  BY DEF failureDetectionLoop
<1>3. Tells(n) /\ n \notin dead /\ dead \subseteq Nodes
  BY <1>0, <1>1 DEF TableInv, Tells, KnowsItself, Table
<1> HIDE DEF dead
<1>4. /\ \A m \in dead : peers'[n][m] = NoPeer
      /\ \A m \in Nodes \ dead : peers'[n][m] = peers[n][m]
      /\ \A j \in Nodes \ {n} : peers'[j] = peers[j] /\ told'[j] = told[j]
  BY <1>0, <1>1, <1>3 DEF Without, MembershipTyped
<1>5. MembershipTyped'
  <2>1. told'[n] \in SUBSET Nodes
    BY <1>0, <1>1 DEF MembershipTyped
  <2> QED BY <1>0, <1>1, <1>2, <2>1 DEF MembershipTyped
<1>6. ASSUME NEW m \in Nodes PROVE Tells(m)' /\ Gossip(m)'
  <2>1. peers'[m][m] = peers[m][m]
    BY <1>3, <1>4
  <2>2. \A j \in Nodes : \/ peers'[j][m] = NoPeer
                         \/ peers[j][m] \in PeerState /\ Same(peers[j][m], peers'[j][m])
    BY <1>0, <1>3, <1>4 DEF MembershipTyped, Tables, Same
  <2>3. KeepsSelf(m) /\ Gossip(m)'
    BY <1>2, <2>1, <2>2, QuietGossip
  <2>4. Tells(m)'
    <3>1. CASE m # n
      BY <1>2, <1>4, <2>3, <3>1, TellsKept
    <3>2. CASE m = n
      <4>1. KnowsItself(n)'
        BY <1>1, <1>2, <1>3, <2>1, <3>2 DEF Tells, KnowsItself
      <4>2. Table(n)' = Table(n) \ dead
        BY <1>3, <1>4 DEF Table
      <4>3. told'[n] \subseteq Table(n)' \ {n} /\ Table(n)' \subseteq told'[n] \cup left' \cup {n}
        BY <1>1, <1>2, <1>3, <4>2 DEF Tells
      <4> QED BY <1>1, <1>2, <3>2, <4>1, <4>3 DEF Tells
    <3> QED BY <3>1, <3>2
  <2> QED BY <2>3, <2>4
<1> QED BY <1>5, <1>6 DEF MembershipInv, TableInv, GossipInv

\* A step of a node after which the others know nothing new of one another.
LEMMA OthersKept ==
    ASSUME MembershipInv, NEW n \in Nodes, NEW m \in Nodes \ {n},
           \A k \in Nodes \ {n} : peers'[k] = peers[k] /\ told'[k] = told[k],
           peers'[n][m] \in {NoPeer, peers[n][m]},
           running'[m] = running[m], generation'[m] = generation[m],
           left \subseteq left', datagram' = datagram
    PROVE  Tells(m)' /\ Gossip(m)'
<1>1. \A j \in Nodes : \/ peers'[j][m] = NoPeer
                       \/ peers[j][m] \in PeerState /\ Same(peers[j][m], peers'[j][m])
  BY DEF MembershipInv, MembershipTyped, Tables, Same
<1>2. KeepsSelf(m) /\ Gossip(m)'
  BY <1>1, QuietGossip
<1> QED BY <1>2, TellsKept

\* A new process starts.
LEMMA InvOfStart ==
    ASSUME MembershipInv, NEW n \in Nodes, start(n)
    PROVE  MembershipInv'
<1>0. MembershipTyped /\ Tells(n) /\ Gossip(n) /\ running[n] = "down" /\ generation[n] \in Nat
  BY DEF MembershipInv, TableInv, GossipInv, start, MembershipTyped
<1> DEFINE g == generation[n] + 1
           own == [generation |-> g, heartbeat |-> 0, status |-> "alive", fresh |-> TRUE]
           table == Alone(n, g)
<1>1. g \in Nat /\ own \in PeerState /\ own # NoPeer
      /\ own.generation = g /\ own.status = "alive" /\ own.fresh
  <2>1. g \in Nat
    BY <1>0
  <2> HIDE DEF g
  <2>2. own \in PeerState
    BY <2>1 DEF PeerState
  <2> QED BY <2>1, <2>2, NoPeerAssumption
<1>2. /\ running' = [running EXCEPT ![n] = "up"] /\ generation' = [generation EXCEPT ![n] = g]
      /\ peers' = [peers EXCEPT ![n] = table]
      /\ datagram' = datagram /\ transport' = transport /\ dealers' = dealers
      /\ told' = told /\ left' = left
  BY DEF start
<1> HIDE DEF own
<1>3. table \in Tables /\ table[n] = own /\ \A m \in Nodes \ {n} : table[m] = NoPeer
  BY <1>1 DEF Alone, Tables, own
<1> HIDE DEF table
<1>4. MembershipTyped'
  BY <1>0, <1>1, <1>2, <1>3 DEF MembershipTyped
<1>5. /\ peers'[n] = table /\ running'[n] = "up" /\ generation'[n] = g
      /\ \A m \in Nodes \ {n} : /\ peers'[m] = peers[m] /\ running'[m] = running[m]
                                /\ generation'[m] = generation[m]
  BY <1>0, <1>2 DEF MembershipTyped
<1>6. \A m \in Nodes \ {n} : Tells(m)' /\ Gossip(m)'
  BY <1>2, <1>3, <1>5, OthersKept
<1>7. Tells(n)'
  <2>1. told'[n] = {} /\ Table(n)' = {n}
    BY <1>0, <1>1, <1>2, <1>3, <1>5 DEF Tells, Table
  <2>2. KnowsItself(n)'
    BY <1>1, <1>3, <1>5 DEF KnowsItself
  <2> QED BY <1>5, <2>1, <2>2 DEF Tells
<1>8. Gossip(n)'
  <2>1. \A e \in PeerState : Heard(n, e)' => e = own \/ Heard(n, e)
    BY <1>2, <1>3, <1>5 DEF Heard
  <2>2. \A e \in PeerState : Heard(n, e) => /\ e.generation \in Nat /\ e.generation <= generation[n]
                                            /\ e.status = "leaving" => n \in left
    BY <1>0 DEF Gossip, PeerState
  <2>3. ASSUME NEW e \in PeerState, Heard(n, e)'
        PROVE  /\ e.generation <= g /\ (e.status = "leaving" => n \in left)
               /\ e.generation = g => e = own
    BY <1>0, <1>1, <2>1, <2>2, <2>3
  <2>4. ASSUME NEW e \in PeerState, NEW f \in PeerState, Heard(n, e)', Heard(n, f)',
               f.generation = e.generation, e.status = "leaving", f.status # "leaving"
        PROVE  f.heartbeat < e.heartbeat
    <3>1. e # own /\ Heard(n, e)
      BY <1>1, <2>1, <2>4
    <3>2. Heard(n, f)
      <4>1. e.generation # g
        BY <2>3, <2>4, <3>1
      <4> QED BY <1>1, <2>1, <2>4, <4>1
    <3> QED BY <1>0, <2>4, <3>1, <3>2 DEF Gossip
  <2>5. own.heartbeat \in Nat
    BY <1>1 DEF PeerState
  <2> QED BY <1>1, <1>2, <1>3, <1>5, <2>3, <2>4, <2>5 DEF Gossip
<1> QED BY <1>4, <1>6, <1>7, <1>8 DEF MembershipInv, TableInv, GossipInv

\* A node announces that it leaves.
LEMMA InvOfLeave ==
    ASSUME MembershipInv, NEW n \in Nodes, leave(n)
    PROVE  MembershipInv'
<1>0. /\ MembershipTyped /\ TableInv /\ Tells(n) /\ Gossip(n) /\ running[n] = "up"
      /\ generation[n] \in Nat
  BY DEF MembershipInv, TableInv, GossipInv, leave, MembershipTyped
<1> DEFINE old == peers[n][n]
           marked == [old EXCEPT !.status = "leaving"]
           own == [marked EXCEPT !.heartbeat = old.heartbeat + 1]
<1>1. /\ old \in PeerState /\ old.heartbeat \in Nat /\ old.generation = generation[n] /\ old.fresh
      /\ old.status # "leaving"
  BY <1>0, OwnIsHeard DEF KnowsItself
<1>2. peers' = [peers EXCEPT ![n] = [peers[n] EXCEPT ![n] = own]]
  <2>1. peers' = [[peers EXCEPT ![n][n].status = "leaving"] EXCEPT ![n][n].heartbeat = @ + 1]
    BY DEF leave
  <2>2. peers[n] \in Tables /\ peers \in [Nodes -> Tables]
    BY <1>0 DEF MembershipTyped
  <2> DEFINE p == [peers EXCEPT ![n] = [peers[n] EXCEPT ![n] = marked]]
  <2>3. [peers EXCEPT ![n][n].status = "leaving"] = p
    OBVIOUS
  <2>4. p[n] = [peers[n] EXCEPT ![n] = marked] /\ p[n][n] = marked /\ DOMAIN p = Nodes
    BY <2>2 DEF Tables
  <2>5. marked.heartbeat = old.heartbeat
    BY <1>1 DEF PeerState
  <2>6. peers' = [p EXCEPT ![n] = [p[n] EXCEPT ![n] = own]]
    BY <2>1, <2>3, <2>4, <2>5
  <2> HIDE DEF own, marked
  <2>7. [p[n] EXCEPT ![n] = own] = [peers[n] EXCEPT ![n] = own]
    BY <2>2, <2>4 DEF Tables
  <2> QED BY <2>2, <2>6, <2>7
<1>3. /\ own \in PeerState /\ own.heartbeat = old.heartbeat + 1 /\ own.fresh
      /\ own.generation = old.generation /\ own.status = "leaving" /\ own # NoPeer
  <2>1. old.heartbeat + 1 \in Nat
    BY <1>1
  <2> HIDE DEF old
  <2>2. marked \in PeerState /\ marked.status = "leaving" /\ marked.fresh = old.fresh
        /\ marked.generation = old.generation
    BY <1>1 DEF PeerState
  <2> HIDE DEF marked
  <2>3. /\ own \in PeerState /\ own.heartbeat = old.heartbeat + 1 /\ own.fresh = marked.fresh
        /\ own.generation = marked.generation /\ own.status = marked.status
    BY <2>1, <2>2 DEF PeerState
  <2> HIDE DEF own
  <2> QED BY <1>1, <2>2, <2>3, NoPeerAssumption
<1> HIDE DEF own, old
<1>4. /\ running' = [running EXCEPT ![n] = "leaving"] /\ left' = left \cup {n}
      /\ generation' = generation /\ datagram' = datagram /\ transport' = transport
      /\ dealers' = dealers /\ told' = told
  BY DEF leave
<1>5. /\ peers'[n] = [peers[n] EXCEPT ![n] = own] /\ running'[n] = "leaving"
      /\ \A m \in Nodes \ {n} : peers'[m] = peers[m] /\ running'[m] = running[m]
      /\ peers[n] \in Tables
  BY <1>0, <1>2, <1>4 DEF MembershipTyped
<1>6. /\ peers'[n] \in Tables /\ peers'[n][n] = own
      /\ \A m \in Nodes \ {n} : peers'[n][m] = peers[n][m]
  BY <1>3, <1>5 DEF Tables
<1>7. MembershipTyped'
  BY <1>0, <1>2, <1>4, <1>5, <1>6 DEF MembershipTyped
<1>8. \A m \in Nodes \ {n} : Tells(m)' /\ Gossip(m)'
  BY <1>4, <1>5, <1>6, OthersKept
<1>9. Tells(n)'
  <2>1. Table(n)' = Table(n)
    BY <1>1, <1>3, <1>6, NoPeerAssumption DEF Table, old
  <2>2. KnowsItself(n)'
    BY <1>1, <1>3, <1>4, <1>5, <1>6 DEF KnowsItself
  <2> QED BY <1>0, <1>4, <1>5, <2>1, <2>2 DEF Tells
<1>10. Gossip(n)'
  <2>1. \A e \in PeerState : Heard(n, e)' => e = own \/ Heard(n, e)
    BY <1>4, <1>5, <1>6 DEF Heard
  <2>2. \A e \in PeerState : Heard(n, e) =>
            /\ e.generation <= generation[n]
            /\ e.generation = generation[n] => e.heartbeat <= old.heartbeat /\ e.status # "leaving"
    BY <1>0 DEF Gossip, old
  <2>3. \A e \in PeerState : e.heartbeat \in Nat
    BY DEF PeerState
  <2>4. ASSUME NEW e \in PeerState, Heard(n, e)'
        PROVE  /\ e.generation <= generation[n]
               /\ e.generation = generation[n] => e.heartbeat <= own.heartbeat
    BY <1>0, <1>1, <1>3, <2>1, <2>2, <2>3, <2>4
  <2>5. ASSUME NEW e \in PeerState, NEW f \in PeerState, Heard(n, e)', Heard(n, f)',
               f.generation = e.generation, e.status = "leaving", f.status # "leaving"
        PROVE  f.heartbeat < e.heartbeat
    <3>1. f # own /\ Heard(n, f)
      BY <1>3, <2>1, <2>5
    <3>2. CASE e = own
      BY <1>1, <1>3, <2>2, <2>3, <2>5, <3>1, <3>2
    <3>3. CASE Heard(n, e)
      BY <1>0, <2>5, <3>1, <3>3 DEF Gossip
    <3> QED BY <2>1, <2>5, <3>2, <3>3
  <2> QED BY <1>4, <1>5, <1>6, <2>4, <2>5 DEF Gossip
<1> QED BY <1>7, <1>8, <1>9, <1>10 DEF MembershipInv, TableInv, GossipInv

\* A process ends.
LEMMA InvOfEnd ==
    ASSUME MembershipInv, NEW n \in Nodes, Ends(n)
    PROVE  MembershipInv'
<1>0. MembershipTyped /\ Gossip(n)
  BY DEF MembershipInv, GossipInv
<1> DEFINE table == [m \in Nodes |-> NoPeer]
<1>1. /\ running' = [running EXCEPT ![n] = "down"] /\ peers' = [peers EXCEPT ![n] = table]
      /\ transport' = [transport EXCEPT ![n] = {}] /\ dealers' = [dealers EXCEPT ![n] = {}]
      /\ told' = [told EXCEPT ![n] = {}]
      /\ generation' = generation /\ datagram' = datagram /\ left' = left
  BY DEF Ends
<1>2. table \in Tables /\ \A m \in Nodes : table[m] = NoPeer
  BY DEF Tables
<1> HIDE DEF table
<1>3. MembershipTyped'
  BY <1>0, <1>1, <1>2 DEF MembershipTyped
<1>4. /\ peers'[n] = table /\ running'[n] = "down" /\ told'[n] = {}
      /\ \A m \in Nodes \ {n} : /\ peers'[m] = peers[m] /\ running'[m] = running[m]
                                /\ told'[m] = told[m]
  BY <1>0, <1>1 DEF MembershipTyped
<1>5. \A m \in Nodes \ {n} : Tells(m)' /\ Gossip(m)'
  BY <1>1, <1>2, <1>4, OthersKept
<1>6. Tells(n)'
  BY <1>2, <1>4 DEF Tells, Table
<1>7. Gossip(n)'
  <2>1. \A e \in PeerState : Heard(n, e)' => Heard(n, e)
    BY <1>1, <1>2, <1>4, NoPeerAssumption DEF Heard
  <2> QED BY <1>0, <1>1, <1>4, <2>1 DEF Gossip
<1> QED BY <1>3, <1>5, <1>6, <1>7 DEF MembershipInv, TableInv, GossipInv

\* A connection is made: nobody knows or says anything new.
LEMMA InvOfRequest ==
    ASSUME MembershipInv, NEW n \in Nodes, NEW k \in Nodes, request(n, k)
    PROVE  MembershipInv'
<1>0. MembershipTyped /\ TableInv /\ GossipInv
  BY DEF MembershipInv
<1>1. /\ dealers' = [dealers EXCEPT ![n] = dealers[n] \cup {k}]
      /\ running' = running /\ generation' = generation /\ peers' = peers
      /\ datagram' = datagram /\ transport' = transport /\ told' = told /\ left' = left
  BY DEF request
<1>2. MembershipTyped'
  BY <1>0, <1>1 DEF MembershipTyped
<1>3. TableInv'
  BY <1>0, <1>1 DEF TableInv, Tells, KnowsItself, Table
<1>4. GossipInv'
  BY <1>0, <1>1 DEF GossipInv, Gossip, Heard
<1> QED BY <1>2, <1>3, <1>4 DEF MembershipInv

\* Initially, founders know of themselves.
LEMMA InitMembership == Init => MembershipInv
<1> SUFFICES ASSUME Init PROVE MembershipInv
  OBVIOUS
<1> DEFINE own == [generation |-> 1, heartbeat |-> 0, status |-> "alive", fresh |-> TRUE]
<1>1. own \in PeerState /\ own # NoPeer /\ own.generation = 1 /\ own.status = "alive" /\ own.fresh
  <2>1. own \in PeerState
    BY DEF PeerState
  <2> QED BY <2>1, NoPeerAssumption
<1>2. \A n, m \in Nodes : peers[n][m] = IF n \in Founders /\ m = n THEN own ELSE NoPeer
  BY DEF Init, Alone
<1>3. peers \in [Nodes -> Tables]
  <2> HIDE DEF own
  <2>1. DOMAIN peers = Nodes /\ peers = [n \in Nodes |-> peers[n]]
    BY DEF Init
  <2>2. ASSUME NEW n \in Nodes PROVE peers[n] \in Tables
    <3>1. peers[n] = [m \in Nodes |-> peers[n][m]]
      BY DEF Init, Alone
    <3> QED BY <1>1, <1>2, <3>1 DEF Tables
  <2> QED BY <2>1, <2>2
<1> HIDE DEF own
<1>4. MembershipTyped
  BY <1>3 DEF Init, MembershipTyped
<1>5. TableInv
  BY <1>1, <1>2 DEF Init, TableInv, Tells, Table, KnowsItself
<1>6. GossipInv
  <2> SUFFICES ASSUME NEW m \in Nodes PROVE Gossip(m)
    BY DEF GossipInv
  <2>1. \A e \in PeerState : Heard(m, e) => e = own /\ m \in Founders
    BY <1>2, NoPeerAssumption DEF Heard, Init
  <2>2. m \in Founders => generation[m] = 1 /\ peers[m][m] = own
    BY <1>2 DEF Init
  <2>3. own.heartbeat \in Nat
    BY <1>1 DEF PeerState
  <2> QED BY <1>1, <2>1, <2>2, <2>3 DEF Gossip
<1> QED BY <1>4, <1>5, <1>6 DEF MembershipInv

\* Every step keeps the invariant.
LEMMA StepMembership == MembershipInv /\ [Next]_vars => MembershipInv'
<1> SUFFICES ASSUME MembershipInv, [Next]_vars PROVE MembershipInv'
  OBVIOUS
<1>1. CASE handleGossipMessage
  BY <1>1, InvOfHandle
<1>2. ASSUME NEW n \in Nodes, Timers(n) PROVE MembershipInv'
  BY <1>2, InvOfDetection, InvOfTimeout DEF Timers
<1>3. ASSUME NEW n \in Nodes, start(n) \/ leave(n) \/ Ends(n) PROVE MembershipInv'
  BY <1>3, InvOfStart, InvOfLeave, InvOfEnd
<1>4. ASSUME NEW n \in Nodes, NEW m \in Nodes, gossipLoop(n, m) \/ Delay(n, m) \/ request(n, m)
      PROVE  MembershipInv'
  BY <1>4, InvOfGossip, InvOfDelay, InvOfRequest
<1>5. CASE UNCHANGED vars
  BY <1>5 DEF vars, MembershipInv, MembershipTyped, TableInv, Tells, KnowsItself, Table,
              GossipInv, Gossip, Heard
<1> QED BY <1>1, <1>2, <1>3, <1>4, <1>5 DEF Next

----------------------------------------------------------------------------
(* The properties of Membership.                                           *)

\* The invariant holds throughout.
LEMMA MembershipSafe == Init /\ [][Next]_vars => []MembershipInv
BY InitMembership, StepMembership, PTL

\* What listeners were told is what the table says (the member events of
\* handleGossipMessage and _detectFailures): nobody who is live has not been
\* announced, but after a graceful leave, and nobody who is gone stays announced.
THEOREM ListenersKnow == Spec => []EventsTrack
<1>1. MembershipInv => EventsTrack
  BY DEF MembershipInv, TableInv, Tells, EventsTrack, LivePeers, Table
<1> QED BY <1>1, MembershipSafe, PTL DEF Spec

\* A datagram is received, on its way or at once: by t, from s.
LEMMA Receipt ==
    ASSUME MembershipInv, handleGossipMessage \/ \E n, m \in Nodes : gossipLoop(n, m)
    PROVE  \E t, s \in Nodes, table \in Tables : \E v \in Received(t, table) :
              /\ Claims(table, s)
              /\ peers'[t] = v.table /\ told'[t] = v.told
              /\ transport'[t] = v.transport /\ dealers'[t] = v.dealers
              /\ \A k \in Nodes \ {t} :
                    /\ told'[k] = told[k] /\ dealers'[k] = dealers[k]
                    /\ \A m \in Nodes : \/ peers'[k][m] = peers[k][m]
                                        \/ k = m /\ peers'[k][k].status = peers[k][k].status
<1> DEFINE Got(t, s, table, v) ==
        /\ Claims(table, s)
        /\ peers'[t] = v.table /\ told'[t] = v.told
        /\ transport'[t] = v.transport /\ dealers'[t] = v.dealers
        /\ \A k \in Nodes \ {t} :
              /\ told'[k] = told[k] /\ dealers'[k] = dealers[k]
              /\ \A m \in Nodes : \/ peers'[k][m] = peers[k][m]
                                  \/ k = m /\ peers'[k][k].status = peers[k][k].status
<1>0. MembershipTyped /\ TableInv
  BY DEF MembershipInv
<1>1. ASSUME handleGossipMessage
      PROVE  \E n \in Nodes, table \in Tables : \E v \in Received(n, table) : Got(n, n, table, v)
  <2>0. datagram # NoDatagram /\ datagram \in [to : Nodes, peers : Tables]
    BY <1>0, <1>1 DEF handleGossipMessage, MembershipTyped
  <2>1. PICK n \in Nodes, table \in Tables : n = datagram.to /\ table = datagram.peers
    BY <2>0
  <2>2. PICK v \in Received(n, table) : Views(n, v)
    BY <1>1, <2>1 DEF handleGossipMessage
  <2>3. \A k \in Nodes : table[k] # NoPeer => Heard(k, table[k])
    BY <2>0, <2>1 DEF Heard, Tables
  <2>4. Claims(table, n)
    BY <2>1, <2>3 DEF Claims
  <2>5. /\ peers'[n] = v.table /\ transport'[n] = v.transport /\ told'[n] = v.told
        /\ dealers'[n] = v.dealers
        /\ \A k \in Nodes \ {n} : /\ peers'[k] = peers[k] /\ told'[k] = told[k]
                                  /\ dealers'[k] = dealers[k]
    BY <1>0, <2>1, <2>2 DEF Views, MembershipTyped
  <2> QED BY <2>1, <2>2, <2>4, <2>5
<1>2. ASSUME NEW n \in Nodes, NEW t \in Nodes, gossipLoop(n, t)
      PROVE  \E table \in Tables : \E v \in Received(t, table) : Got(t, n, table, v)
  <2>1. PICK table : /\ table = Beaten(n)
                     /\ \E v \in Received(t, table) :
                           /\ peers' = [peers EXCEPT ![n] = table, ![t] = v.table]
                           /\ transport' = [transport EXCEPT ![t] = v.transport]
                           /\ dealers' = [dealers EXCEPT ![t] = v.dealers]
                           /\ told' = [told EXCEPT ![t] = v.told]
    BY <1>2 DEF gossipLoop
  <2>2. PICK v \in Received(t, table) :
              /\ peers' = [peers EXCEPT ![n] = table, ![t] = v.table]
              /\ transport' = [transport EXCEPT ![t] = v.transport]
              /\ dealers' = [dealers EXCEPT ![t] = v.dealers]
              /\ told' = [told EXCEPT ![t] = v.told]
    BY <2>1
  <2>3. running[n] # "down"
    BY <1>2 DEF gossipLoop
  <2>4. /\ table \in Tables
        /\ table[n].generation = peers[n][n].generation /\ table[n].status = peers[n][n].status
        /\ \A k \in Nodes \ {n} : table[k] = peers[n][k]
    BY <1>0, <2>1, <2>3, BeatenIs
  <2>5. \A k \in Nodes \ {n} : table[k] # NoPeer => Heard(k, table[k])
    BY <2>4 DEF Heard, Tables
  <2>6. Claims(table, n)
    BY <2>3, <2>4, <2>5 DEF Claims
  <2>7. /\ peers'[t] = v.table /\ transport'[t] = v.transport /\ told'[t] = v.told
        /\ dealers'[t] = v.dealers
        /\ \A k \in Nodes \ {t} : told'[k] = told[k] /\ dealers'[k] = dealers[k]
        /\ \A k \in Nodes \ {n, t} : peers'[k] = peers[k]
        /\ n # t => peers'[n] = table
    BY <1>0, <2>2 DEF MembershipTyped
  <2>8. \A k \in Nodes \ {t}, m \in Nodes : \/ peers'[k][m] = peers[k][m]
                                            \/ k = m /\ peers'[k][k].status = peers[k][k].status
    BY <2>4, <2>7
  <2> QED BY <2>2, <2>4, <2>6, <2>7, <2>8
<1> HIDE DEF Got
<1>3. \E t, s \in Nodes, table \in Tables : \E v \in Received(t, table) : Got(t, s, table, v)
  BY <1>1, <1>2
<1> QED BY <1>3 DEF Got

\* Older gossip about a peer that is leaving does not take the leave back.
LEMMA ReceivedLeavers ==
    ASSUME MembershipInv, NEW n \in Nodes, NEW s \in Nodes, NEW table \in Tables, Claims(table, s),
           NEW v \in Received(n, table), NEW m \in Nodes,
           peers[n][m] # NoPeer, peers[n][m].status = "leaving",
           v.table[m].generation = peers[n][m].generation
    PROVE  v.table[m].status = "leaving"
<1>0. MembershipTyped /\ TableInv /\ Gossip(m)
  BY DEF MembershipInv, GossipInv
<1>1. PICK done : Updated(n, table, v, done)
  <2>1. told[n] \subseteq Table(n)
    BY <1>0 DEF TableInv, Tells
  <2> QED BY <1>0, <2>1, ReceivedUpdates
<1>2. CASE m \notin done
  BY <1>1, <1>2 DEF Updated
<1>3. CASE m \in done
  <2> DEFINE old == peers[n][m]
             new == table[m]
  <2>1. m \in News(n, table)
    BY <1>1, <1>3 DEF Updated
  <2>2. new \in PeerState /\ old \in PeerState /\ new # NoPeer
    BY <1>0, <2>1, NewsIs, NoPeerAssumption DEF Tables
  <2>3. v.table[m] = [new EXCEPT !.fresh = TRUE]
    BY <1>1, <1>3 DEF Updated
  <2>4. new.generation = old.generation /\ v.table[m].status = new.status
    BY <2>2, <2>3, Freshened
  <2>5. new.heartbeat > old.heartbeat /\ Heard(m, old)
    BY <2>1, <2>2, <2>4 DEF News, Newer, Heard, PeerState
  <2>6. CASE Heard(m, new)
    <3>1. new.status # "leaving" => new.heartbeat < old.heartbeat
      BY <1>0, <2>2, <2>4, <2>5, <2>6 DEF Gossip
    <3>2. new.heartbeat \in Nat /\ old.heartbeat \in Nat
      BY <2>2 DEF PeerState
    <3> QED BY <2>4, <2>5, <3>1, <3>2
  <2>7. CASE m = s /\ running[s] # "down" /\ new.generation = peers[s][s].generation
             /\ new.status = peers[s][s].status
    <3>1. KnowsItself(m)
      BY <1>0, <2>7, OwnIsHeard
    <3>2. running[m] = "leaving"
      BY <1>0, <2>2, <2>4, <2>5, <2>7, <3>1 DEF Gossip, KnowsItself
    <3> QED BY <2>4, <2>7, <3>1, <3>2 DEF KnowsItself
  <2> QED BY <2>2, <2>6, <2>7 DEF Claims
<1> QED BY <1>2, <1>3

\* A peer that announced its leave is not taken for alive again before it
\* restarts or is forgotten: the generation and heartbeat that
\* handleGossipMessage compares are enough, however gossip is delayed.
THEOREM LeavesLast == Spec => LeaversStayOut
<1> DEFINE Kept(n, m) ==
        (/\ peers[n][m] # NoPeer /\ peers'[n][m] # NoPeer
         /\ peers[n][m].status = "leaving"
         /\ peers[n][m].generation = peers'[n][m].generation)
            => peers'[n][m].status = "leaving"
<1>1. MembershipInv /\ [Next]_vars => [\A n, m \in Nodes : Kept(n, m)]_vars
  <2> SUFFICES ASSUME MembershipInv, Next, NEW n \in Nodes, NEW m \in Nodes PROVE Kept(n, m)
    OBVIOUS
  <2>0. MembershipTyped /\ TableInv
    BY DEF MembershipInv
  <2>1. CASE handleGossipMessage \/ \E j, k \in Nodes : gossipLoop(j, k)
    <3>1. PICK t \in Nodes, s \in Nodes, table \in Tables : \E v \in Received(t, table) :
              /\ Claims(table, s)
              /\ peers'[t] = v.table
              /\ \A k \in Nodes \ {t} :
                    \A i \in Nodes : \/ peers'[k][i] = peers[k][i]
                                     \/ k = i /\ peers'[k][k].status = peers[k][k].status
      BY <2>1, Receipt
    <3>2. CASE n = t
      <4>1. PICK v \in Received(t, table) : Claims(table, s) /\ peers'[t] = v.table
        BY <3>1
      <4> QED BY <3>2, <4>1, ReceivedLeavers
    <3>3. CASE n # t
      BY <3>1, <3>3
    <3> QED BY <3>2, <3>3
  <2>2. ASSUME NEW k \in Nodes, NEW i \in Nodes, TimesOut(k, i) PROVE Kept(n, m)
    <3>1. /\ peers' = [peers EXCEPT ![k] = [peers[k] EXCEPT ![i] = [peers[k][i] EXCEPT !.fresh = FALSE]]]
          /\ peers[k][i] # NoPeer
      BY <2>2 DEF TimesOut
    <3>2. peers[k][i] \in PeerState
      BY <2>0, <3>1 DEF MembershipTyped, Tables
    <3>3. [peers[k][i] EXCEPT !.fresh = FALSE].status = peers[k][i].status
      BY <3>2 DEF PeerState
    <3>4. peers'[n][m] = peers[n][m] \/ peers'[n][m].status = peers[n][m].status
      BY <2>0, <3>1, <3>3 DEF MembershipTyped, Tables
    <3> QED BY <3>4
  <2>3. ASSUME NEW k \in Nodes, failureDetectionLoop(k) PROVE Kept(n, m)
    <3>1. PICK dead : peers'[k] = Without(peers[k], dead) /\ peers' = [peers EXCEPT ![k] = peers'[k]]
      BY <2>0, <2>3, DeadRemoved
    <3>2. peers'[n][m] \in {NoPeer, peers[n][m]}
      BY <2>0, <3>1 DEF Without, MembershipTyped
    <3> QED BY <3>2
  <2>4. ASSUME NEW k \in Nodes, Delay(k, m) \/ \E i \in Nodes : Delay(k, i) PROVE Kept(n, m)
    <3>1. peers' = [peers EXCEPT ![k] = Beaten(k)] /\ running[k] # "down"
      BY <2>4 DEF Delay
    <3>2. Beaten(k)[k].status = peers[k][k].status /\ \A i \in Nodes \ {k} : Beaten(k)[i] = peers[k][i]
      BY <2>0, <3>1, BeatenIs
    <3>3. peers'[n][m] = peers[n][m] \/ peers'[n][m].status = peers[n][m].status
      BY <2>0, <3>1, <3>2 DEF MembershipTyped
    <3> QED BY <3>3
  <2>5. ASSUME NEW k \in Nodes, start(k) PROVE Kept(n, m)
    <3>1. running[k] = "down" /\ peers' = [peers EXCEPT ![k] = Alone(k, generation[k] + 1)]
      BY <2>5 DEF start
    <3>2. \A i \in Nodes : peers[k][i] = NoPeer
      BY <2>0, <3>1 DEF TableInv, Tells, Table
    <3>3. peers[n][m] = NoPeer \/ peers'[n][m] = peers[n][m]
      BY <2>0, <3>1, <3>2 DEF MembershipTyped
    <3> QED BY <3>3
  <2>6. ASSUME NEW k \in Nodes, leave(k) PROVE Kept(n, m)
    <3>1. MembershipInv'
      BY <2>6, InvOfLeave
    <3>2. running'[k] = "leaving"
      BY <2>0, <2>6 DEF leave, MembershipTyped
    <3>3. peers'[k][k].status = "leaving"
      BY <3>1, <3>2 DEF MembershipInv, TableInv, Tells, KnowsItself
    <3>4. (k = n /\ k = m) \/ peers'[n][m] = peers[n][m]
      BY <2>0, <2>6 DEF leave, MembershipTyped, Tables
    <3> QED BY <3>3, <3>4
  <2>7. ASSUME NEW k \in Nodes, Ends(k) PROVE Kept(n, m)
    BY <2>0, <2>7 DEF Ends, MembershipTyped
  <2>8. ASSUME NEW k \in Nodes, NEW i \in Nodes, request(k, i) PROVE Kept(n, m)
    BY <2>8 DEF request
  <2> QED BY <2>1, <2>2, <2>3, <2>4, <2>5, <2>6, <2>7, <2>8 DEF Next, Timers
<1> QED BY <1>1, MembershipSafe, PTL DEF Spec, LeaversStayOut

\* Telling the listeners of one peer never costs the address of another,
\* although createSystem's listener hands updatePeers a single peer: the list
\* is complete again when syncPeers has run.
LEMMA EventsKeepAddresses ==
    MembershipInv /\ Next => \A n \in Nodes : AddressesSurvive(n)
<1> DEFINE Survive(n) ==
        LivePeers(n, peers'[n]) \intersect
            (LivePeers(n, peers[n]) \union (told'[n] \ told[n]))
            \subseteq transport'[n]
<1> SUFFICES ASSUME MembershipInv, Next, NEW n \in Nodes, told'[n] # told[n] PROVE Survive(n)
  BY DEF AddressesSurvive, StayLive
<1>0. MembershipTyped
  BY DEF MembershipInv
<1>1. CASE handleGossipMessage \/ \E j, k \in Nodes : gossipLoop(j, k)
  <2>1. PICK t \in Nodes, table \in Tables : \E v \in Received(t, table) :
            /\ peers'[t] = v.table /\ told'[t] = v.told /\ transport'[t] = v.transport
            /\ \A k \in Nodes \ {t} : told'[k] = told[k]
    BY <1>1, Receipt
  <2>2. PICK v \in Received(t, table) :
            /\ peers'[t] = v.table /\ told'[t] = v.told /\ transport'[t] = v.transport
            /\ \A k \in Nodes \ {t} : told'[k] = told[k]
    BY <2>1
  <2>3. PICK done : Updated(t, table, v, done)
    <3>1. told[t] \subseteq Table(t)
      BY DEF MembershipInv, TableInv, Tells
    <3> QED BY <1>0, <3>1, ReceivedUpdates
  <2> QED BY <2>2, <2>3 DEF Updated
<1>2. ASSUME NEW k \in Nodes, failureDetectionLoop(k) PROVE Survive(n)
  <2>1. /\ LivePeers(k, peers'[k]) \subseteq transport'[k]
        /\ told' = [told EXCEPT ![k] = told'[k]]
    BY <1>0, <1>2, DeadRemoved
  <2>2. n = k
    BY <1>0, <2>1 DEF MembershipTyped
  <2> QED BY <2>1, <2>2
<1>3. ASSUME NEW k \in Nodes, Ends(k) PROVE Survive(n)
  <2>1. n = k /\ \A i \in Nodes : peers'[k][i] = NoPeer
    BY <1>0, <1>3 DEF Ends, MembershipTyped
  <2> QED BY <2>1 DEF LivePeers
<1>4. \A k \in Nodes, i \in Nodes : /\ ~TimesOut(k, i) /\ ~Delay(k, i) /\ ~request(k, i)
                                    /\ ~start(k) /\ ~leave(k)
  BY DEF TimesOut, Delay, request, start, leave
<1> QED BY <1>1, <1>2, <1>3, <1>4 DEF Next, Timers

\* As long as nobody joins, no connection to a peer that stays live is closed
\* (updatePeers closes those of the peers that are not listed): not when
\* several entries of a datagram leave, nor when dead peers are removed.  What
\* createSystem's listener does on a join is excepted, because there it fails.
LEMMA LeavesKeepConnections ==
    MembershipInv /\ Next => \A n \in Nodes : told'[n] \subseteq told[n] => ConnectionsSurvive(n)
<1> DEFINE Stay(n) == LivePeers(n, peers[n]) \intersect LivePeers(n, peers'[n])
<1> SUFFICES ASSUME MembershipInv, Next, NEW n \in Nodes, told'[n] \subseteq told[n]
             PROVE  dealers[n] \intersect Stay(n) \subseteq dealers'[n]
  BY DEF ConnectionsSurvive, StayLive
<1>0. MembershipTyped
  BY DEF MembershipInv
<1>1. CASE handleGossipMessage \/ \E j, k \in Nodes : gossipLoop(j, k)
  <2>1. PICK t \in Nodes, table \in Tables : \E v \in Received(t, table) :
            /\ peers'[t] = v.table /\ told'[t] = v.told /\ dealers'[t] = v.dealers
            /\ \A k \in Nodes \ {t} : dealers'[k] = dealers[k]
    BY <1>1, Receipt
  <2>2. PICK v \in Received(t, table) :
            /\ peers'[t] = v.table /\ told'[t] = v.told /\ dealers'[t] = v.dealers
            /\ \A k \in Nodes \ {t} : dealers'[k] = dealers[k]
    BY <2>1
  <2>3. PICK done : Updated(t, table, v, done)
    <3>1. told[t] \subseteq Table(t)
      BY DEF MembershipInv, TableInv, Tells
    <3> QED BY <1>0, <3>1, ReceivedUpdates
  <2>4. CASE n = t
    <3>1. dealers[n] \intersect LivePeers(n, peers[n]) \intersect LivePeers(n, v.table) \subseteq v.dealers
      BY <2>2, <2>3, <2>4 DEF Updated
    <3> QED BY <2>2, <2>4, <3>1
  <2> QED BY <2>2, <2>4
<1>2. ASSUME NEW k \in Nodes, failureDetectionLoop(k)
      PROVE  dealers[n] \intersect Stay(n) \subseteq dealers'[n]
  <2>1. /\ dealers[k] \intersect LivePeers(k, peers'[k]) \subseteq dealers'[k]
        /\ dealers' = [dealers EXCEPT ![k] = dealers'[k]]
    BY <1>0, <1>2, DeadRemoved
  <2>2. n # k => dealers'[n] = dealers[n]
    BY <1>0, <2>1 DEF MembershipTyped
  <2> QED BY <2>1, <2>2
<1>3. ASSUME NEW k \in Nodes, Ends(k)
      PROVE  dealers[n] \intersect Stay(n) \subseteq dealers'[n]
  <2>1. CASE n = k
    <3>1. \A i \in Nodes : peers'[n][i] = NoPeer
      BY <1>0, <1>3, <2>1 DEF Ends, MembershipTyped
    <3> QED BY <3>1 DEF LivePeers
  <2>2. CASE n # k
    BY <1>0, <1>3, <2>2 DEF Ends, MembershipTyped
  <2> QED BY <2>1, <2>2
<1>4. ASSUME NEW k \in Nodes, NEW i \in Nodes, request(k, i)
      PROVE  dealers[n] \intersect Stay(n) \subseteq dealers'[n]
  BY <1>0, <1>4 DEF request, MembershipTyped
<1>5. ASSUME NEW k \in Nodes, NEW i \in Nodes,
             TimesOut(k, i) \/ Delay(k, i) \/ start(k) \/ leave(k)
      PROVE  dealers' = dealers
  BY <1>5 DEF TimesOut, Delay, start, leave
<1> QED BY <1>1, <1>2, <1>3, <1>4, <1>5 DEF Next, Timers

\* A membership event leaves the transport with the address of every live peer
\* it is to have, and unless a peer joins it closes no connection to one.
THEOREM EventsKeepPeers == Spec => PeersSurviveEvents
<1>1. MembershipInv /\ [Next]_vars =>
          [\A n \in Nodes : /\ AddressesSurvive(n)
                            /\ told'[n] \subseteq told[n] => ConnectionsSurvive(n)]_vars
  BY EventsKeepAddresses, LeavesKeepConnections
<1> QED BY <1>1, MembershipSafe, PTL DEF Spec, PeersSurviveEvents

----------------------------------------------------------------------------
(* The process groups over the membership.                                 *)

Publications == [type : {"join", "leave"}, actor : Actors]

\* A publication of u is about a.
Names(u, a) == \E i \in 1..Len(u) : u[i].actor = a

\* A leave of a is in u, behind every join, if a is in the list of who is to read u.
Undone(u, list, a) ==
    /\ a \in list => \E i \in 1..Len(u) : u[i] = Update("leave", a)
    /\ \A i \in 1..Len(u) : u[i] = Update("join", a) =>
          \E j \in 1..Len(u) : j > i /\ u[j] = Update("leave", a)

\* All of u is about actors of p.
OwnOnly(u, p) == \A i \in 1..Len(u) : Home[u[i].actor] = p

GroupTyped ==
    /\ groups \in [Nodes -> SUBSET Actors]
    /\ subs \in [Nodes -> SUBSET Nodes]
    /\ updates \in [Nodes -> [Nodes -> Seq(Publications)]]
    /\ joined \subseteq Actors
    /\ foreign \in BOOLEAN

OwnInv == \A a \in Actors : a \in groups[Home[a]] <=> a \in joined

\* What a's own node has published and n has not handled yet.
Sent(n, a) == updates[Home[a]][n]

Mentioned(n, a) == a \in groups[n] \/ Names(Sent(n, a), a)

(* As long as nodes pass only their own actors: what n lists of others, or *)
(* is about to, it hears from their nodes, and will hear retracted once it *)
(* is no longer true.                                                      *)
SpreadInv ==
    ~foreign =>
        /\ \A p, s \in Nodes : OwnOnly(updates[p][s], p)
        /\ \A n \in Nodes, a \in Actors : Mentioned(n, a) =>
              /\ Born[a] <= generation[Home[a]]
              /\ n = Home[a] \/ Home[a] \in subs[n]
        /\ \A n \in Nodes, a \in Actors :
              n # Home[a] /\ Runs(a) /\ a \notin groups[Home[a]] =>
                  Undone(Sent(n, a), groups[n], a)

GroupInv == GroupTyped /\ OwnInv /\ SpreadInv

\* A publication of one type about one actor.
LEMMA UpdateIs ==
    ASSUME NEW a \in Actors, NEW b \in Actors
    PROVE  /\ Update("join", a) \in Publications /\ Update("leave", a) \in Publications
           /\ Update("join", a).actor = a /\ Update("leave", a).actor = a
           /\ Update("join", a) # Update("leave", b)
           /\ Update("join", a) = Update("join", b) => a = b
           /\ \A e \in Publications : e = Update("join", e.actor) \/ e = Update("leave", e.actor)
BY DEF Update, Publications

\* More is published.
LEMMA Extended ==
    ASSUME NEW u \in Seq(Publications), NEW v \in Seq(Publications)
    PROVE  /\ u \o v \in Seq(Publications)
           /\ Len(u \o v) = Len(u) + Len(v) /\ Len(u) \in Nat /\ Len(v) \in Nat
           /\ \A i \in 1..Len(u) : (u \o v)[i] = u[i]
           /\ \A i \in 1..Len(v) : (u \o v)[Len(u) + i] = v[i]
           /\ \A i \in 1..Len(u \o v) : i \notin 1..Len(u) =>
                 \E j \in 1..Len(v) : i = Len(u) + j /\ (u \o v)[i] = v[j]
<1>1. /\ u \o v \in Seq(Publications)
      /\ Len(u \o v) = Len(u) + Len(v) /\ Len(u) \in Nat /\ Len(v) \in Nat
  OBVIOUS
<1>2. \A i \in 1..Len(u) : (u \o v)[i] = u[i]
  OBVIOUS
<1>3. \A i \in 1..Len(v) : (u \o v)[Len(u) + i] = v[i]
  OBVIOUS
<1>4. ASSUME NEW i \in 1..Len(u \o v), i \notin 1..Len(u)
      PROVE  \E j \in 1..Len(v) : i = Len(u) + j /\ (u \o v)[i] = v[j]
  <2>1. i - Len(u) \in 1..Len(v) /\ i = Len(u) + (i - Len(u))
    BY <1>1, <1>4
  <2> QED BY <1>3, <2>1
<1> QED BY <1>1, <1>2, <1>3, <1>4

\* What it names.
LEMMA ExtendedNames ==
    ASSUME NEW u \in Seq(Publications), NEW v \in Seq(Publications)
    PROVE  /\ \A a : Names(u \o v, a) => Names(u, a) \/ Names(v, a)
           /\ \A p : OwnOnly(u, p) /\ OwnOnly(v, p) => OwnOnly(u \o v, p)
<1> DEFINE w == u \o v
<1>1. \A i \in 1..Len(w) : \/ i \in 1..Len(u) /\ w[i] = u[i]
                           \/ \E j \in 1..Len(v) : w[i] = v[j]
  <2>1. \A i \in 1..Len(u) : w[i] = u[i]
    BY Extended
  <2>2. ASSUME NEW i \in 1..Len(w), i \notin 1..Len(u)
        PROVE  \E j \in 1..Len(v) : w[i] = v[j]
    <3>1. \E j \in 1..Len(v) : i = Len(u) + j /\ (u \o v)[i] = v[j]
      BY <2>2, Extended
    <3> QED BY <3>1
  <2> HIDE DEF w
  <2> QED BY <2>1, <2>2
<1> HIDE DEF w
<1>2. \A a : Names(w, a) => Names(u, a) \/ Names(v, a)
  BY <1>1 DEF Names
<1>3. \A p : OwnOnly(u, p) /\ OwnOnly(v, p) => OwnOnly(w, p)
  BY <1>1 DEF OwnOnly
<1> QED BY <1>2, <1>3 DEF w

\* What was undone stays so unless it is joined again.
LEMMA ExtendedUndone ==
    ASSUME NEW u \in Seq(Publications), NEW v \in Seq(Publications), NEW list,
           NEW a \in Actors, Undone(u, list, a),
           \A i \in 1..Len(v) : v[i] # Update("join", a)
    PROVE  Undone(u \o v, list, a)
<1> DEFINE w == u \o v
<1>1. /\ Len(w) = Len(u) + Len(v) /\ Len(u) \in Nat /\ Len(v) \in Nat
      /\ \A i \in 1..Len(u) : w[i] = u[i]
      /\ \A i \in 1..Len(w) : i \notin 1..Len(u) => \E j \in 1..Len(v) : w[i] = v[j]
  BY Extended
<1> HIDE DEF w
<1>2. 1..Len(u) \subseteq 1..Len(w)
  BY <1>1
<1>3. \A i \in 1..Len(w) : w[i] = Update("join", a) => i \in 1..Len(u) /\ u[i] = Update("join", a)
  BY <1>1
<1> QED BY <1>1, <1>2, <1>3 DEF Undone, w

\* A leave undoes all that came before.
LEMMA LeaveUndoes ==
    ASSUME NEW u \in Seq(Publications), NEW list, NEW a \in Actors
    PROVE  Undone(u \o <<Update("leave", a)>>, list, a)
<1> DEFINE e == Update("leave", a)
           v == <<e>>
           w == u \o v
<1>1. e \in Publications /\ e # Update("join", a)
  BY UpdateIs
<1> HIDE DEF e
<1>2. v \in Seq(Publications) /\ Len(v) = 1 /\ v[1] = e
  BY <1>1
<1> HIDE DEF v
<1>3. Len(w) = Len(u) + 1 /\ Len(u) \in Nat /\ w[Len(u) + 1] = e
  <2>1. 1 \in 1..Len(v)
    BY <1>2
  <2>2. Len(w) = Len(u) + Len(v) /\ Len(u) \in Nat /\ \A i \in 1..Len(v) : w[Len(u) + i] = v[i]
    BY <1>2, Extended
  <2> HIDE DEF w
  <2> QED BY <1>2, <2>1, <2>2
<1> HIDE DEF w
<1>4. \A i \in 1..Len(w) : w[i] = Update("join", a) => i < Len(w)
  BY <1>1, <1>3
<1>5. Undone(w, list, a)
  BY <1>3, <1>4 DEF Undone, e
<1> QED BY <1>5 DEF w, v, e

\* Nothing to undo.
LEMMA UnnamedUndone ==
    ASSUME NEW u \in Seq(Publications), NEW a \in Actors, ~Names(u, a)
    PROVE  Undone(u, {}, a)
BY UpdateIs DEF Names, Undone

\* Only whether a itself is listed matters.
LEMMA UndoneLess ==
    ASSUME NEW u, NEW a, NEW list, NEW less, Undone(u, list, a), a \in less => a \in list
    PROVE  Undone(u, less, a)
BY DEF Undone

\* The first publication is handled.
LEMMA Handled ==
    ASSUME NEW u \in Seq(Publications), u # <<>>
    PROVE  /\ Head(u) \in Publications /\ Tail(u) \in Seq(Publications)
           /\ \A a : Names(Tail(u), a) => Names(u, a)
           /\ Names(u, Head(u).actor)
           /\ \A p : OwnOnly(u, p) => OwnOnly(Tail(u), p) /\ Home[Head(u).actor] = p
           /\ \A a \in Actors : \A list : Undone(u, list, a) =>
                 /\ Head(u) = Update("leave", a) => Undone(Tail(u), {}, a)
                 /\ Head(u) = Update("join", a) => Undone(Tail(u), {a}, a)
                 /\ Head(u).actor # a => Undone(Tail(u), list, a)
<1> DEFINE e == Head(u)
           w == Tail(u)
<1>1. /\ Len(u) \in Nat /\ Len(u) > 0 /\ Len(w) = Len(u) - 1 /\ w \in Seq(Publications)
      /\ e = u[1] /\ e \in Publications
      /\ \A i \in 1..Len(w) : w[i] = u[i + 1] /\ i + 1 \in 1..Len(u)
  OBVIOUS
<1> HIDE DEF e, w
<1>2. \A a : Names(w, a) => Names(u, a)
  BY <1>1 DEF Names
<1>3. Names(u, e.actor)
  BY <1>1 DEF Names
<1>4. \A p : OwnOnly(u, p) => OwnOnly(w, p) /\ Home[e.actor] = p
  BY <1>1 DEF OwnOnly
<1>5. ASSUME NEW a \in Actors, NEW list, Undone(u, list, a)
      PROVE  /\ e = Update("leave", a) => Undone(w, {}, a)
             /\ e = Update("join", a) => Undone(w, {a}, a)
             /\ e.actor # a => Undone(w, list, a)
  <2>1. \A j \in 1..Len(u) : j > 1 => j - 1 \in 1..Len(w) /\ w[j - 1] = u[j]
    BY <1>1
  <2>2. ASSUME NEW i \in 1..Len(w), w[i] = Update("join", a)
        PROVE  \E j \in 1..Len(w) : j > i /\ w[j] = Update("leave", a)
    <3>1. PICK j \in 1..Len(u) : j > i + 1 /\ u[j] = Update("leave", a)
      BY <1>1, <1>5, <2>2 DEF Undone
    <3>2. j - 1 > i /\ j - 1 \in 1..Len(w) /\ w[j - 1] = Update("leave", a)
      BY <2>1, <3>1
    <3> QED BY <3>2
  <2>3. ASSUME \/ e = Update("join", a)
               \/ a \in list /\ e # Update("leave", a)
        PROVE  \E j \in 1..Len(w) : w[j] = Update("leave", a)
    <3>1. \E j \in 1..Len(u) : j > 1 /\ u[j] = Update("leave", a)
      <4>1. CASE e = Update("join", a)
        <5>1. 1 \in 1..Len(u) /\ u[1] = Update("join", a)
          BY <1>1, <4>1
        <5> QED BY <1>5, <5>1 DEF Undone
      <4>2. CASE a \in list /\ e # Update("leave", a)
        BY <1>1, <1>5, <4>2 DEF Undone
      <4> QED BY <2>3, <4>1, <4>2
    <3>2. PICK j \in 1..Len(u) : j > 1 /\ u[j] = Update("leave", a)
      BY <3>1
    <3> QED BY <2>1, <3>2
  <2>4. e.actor # a => e # Update("leave", a)
    BY UpdateIs
  <2> QED BY <2>2, <2>3, <2>4 DEF Undone
<1> QED BY <1>1, <1>2, <1>3, <1>4, <1>5 DEF e, w

\* The joins that a node publishes anew are those of its own actors.
LEMMA JoinsAre ==
    ASSUME GroupTyped, NEW n \in Nodes
    PROVE  LET joins == SetToSeq({Update("join", a) : a \in Own(n)}) IN
           /\ joins \in Seq(Publications)
           /\ \A i \in 1..Len(joins) : \E a \in Actors : /\ a \in groups[n] /\ Home[a] = n
                                                         /\ joins[i] = Update("join", a)
<1> DEFINE S == {Update("join", a) : a \in Own(n)}
           k == Cardinality(S)
           joins == SetToSeq(S)
<1>1. Own(n) \subseteq Actors /\ \A a \in Own(n) : a \in groups[n] /\ Home[a] = n
  BY DEF Own, GroupTyped
<1>2. IsFiniteSet(S)
  <2>1. IsFiniteSet(Own(n))
    BY <1>1, FS_Subset, ProcessGroupsAssumption
  <2> DEFINE f == [a \in Own(n) |-> Update("join", a)]
  <2>2. f \in Surjection(Own(n), S)
    BY DEF Surjection
  <2> HIDE DEF f, S
  <2> QED BY <2>1, <2>2, FS_Surjection
<1>3. S \subseteq Publications
  BY <1>1, UpdateIs
<1>4. \A e \in S : \E a \in Actors : a \in groups[n] /\ Home[a] = n /\ e = Update("join", a)
  BY <1>1
<1> HIDE DEF S
<1>5. k \in Nat /\ ExistsBijection(1..k, S)
  BY <1>2, FS_CardinalityType
<1>6. \E f \in [1..k -> S] : IsInjective(f)
  BY <1>5 DEF ExistsBijection, Bijection, Injection, IsInjective
<1>7. joins \in [1..k -> S]
  BY <1>6 DEF SetToSeq
<1> HIDE DEF k, joins
<1>8. joins \in Seq(S) /\ Len(joins) = k
  BY <1>5, <1>7
<1>9. \A i \in 1..Len(joins) : joins[i] \in S
  BY <1>7, <1>8
<1>10. joins \in Seq(Publications)
  BY <1>3, <1>8
<1> QED BY <1>4, <1>9, <1>10 DEF S, joins

\* The parts of the invariant about others, of a pair that matters.
LEMMA SpreadIs ==
    ASSUME GroupInv, ~foreign
    PROVE  /\ \A p, s \in Nodes : OwnOnly(updates[p][s], p) /\ updates[p][s] \in Seq(Publications)
           /\ \A n \in Nodes, a \in Actors :
                 /\ Home[a] \in Nodes
                 /\ Sent(n, a) \in Seq(Publications)
                 /\ Mentioned(n, a) => /\ Born[a] <= generation[Home[a]]
                                       /\ n = Home[a] \/ Home[a] \in subs[n]
                 /\ n # Home[a] /\ Runs(a) /\ a \notin groups[Home[a]] =>
                       Undone(Sent(n, a), groups[n], a)
BY ProcessGroupsAssumption DEF GroupInv, GroupTyped, SpreadInv, Sent

\* What n publishes reaches those that are connected to it.
LEMMA PublishedIs ==
    ASSUME GroupTyped, NEW n \in Nodes, NEW e \in Publications,
           updates' = [updates EXCEPT ![n] = Published(n, <<e>>)]
    PROVE  /\ updates' \in [Nodes -> [Nodes -> Seq(Publications)]]
           /\ \A s \in Nodes : /\ n \in subs[s] => updates'[n][s] = updates[n][s] \o <<e>>
                               /\ n \notin subs[s] => updates'[n][s] = updates[n][s]
           /\ \A p \in Nodes \ {n}, s \in Nodes : updates'[p][s] = updates[p][s]
<1> DEFINE now == Published(n, <<e>>)
<1>1. <<e>> \in Seq(Publications) /\ \A s \in Nodes : updates[n][s] \in Seq(Publications)
  BY DEF GroupTyped
<1>2. \A s \in Nodes : updates[n][s] \o <<e>> \in Seq(Publications)
  BY <1>1, Extended
<1>3. /\ now \in [Nodes -> Seq(Publications)]
      /\ \A s \in Nodes : now[s] = IF n \in subs[s] THEN updates[n][s] \o <<e>> ELSE updates[n][s]
  BY <1>1, <1>2 DEF Published
<1> HIDE DEF now
<1>4. updates'[n] = now /\ \A p \in Nodes \ {n} : updates'[p] = updates[p]
  BY DEF GroupTyped, now
<1>5. updates' \in [Nodes -> [Nodes -> Seq(Publications)]]
  BY <1>3 DEF GroupTyped, now
<1> QED BY <1>3, <1>4, <1>5

\* A node's own actor joins, or another node's: then nothing is claimed.
LEMMA GroupsOfJoin ==
    ASSUME GroupInv, NEW n \in Nodes, NEW b \in Actors, joinGroup(n, b)
    PROVE  GroupInv'
<1> DEFINE e == Update("join", b)
<1>0. GroupTyped /\ e \in Publications /\ e.actor = b
  BY UpdateIs DEF GroupInv
<1>1. /\ groups' = [groups EXCEPT ![n] = groups[n] \cup {b}]
      /\ updates' = [updates EXCEPT ![n] = Published(n, <<e>>)]
      /\ joined' = (IF Home[b] = n THEN joined \cup {b} ELSE joined)
      /\ foreign' = (foreign \/ Home[b] # n)
      /\ subs' = subs /\ generation' = generation /\ running' = running /\ Runs(b)
  BY DEF joinGroup, vars
<1> HIDE DEF e
<1>2. /\ updates' \in [Nodes -> [Nodes -> Seq(Publications)]]
      /\ \A s \in Nodes : /\ n \in subs[s] => updates'[n][s] = updates[n][s] \o <<e>>
                          /\ n \notin subs[s] => updates'[n][s] = updates[n][s]
      /\ \A p \in Nodes \ {n}, s \in Nodes : updates'[p][s] = updates[p][s]
  BY <1>0, <1>1, PublishedIs
<1>3. GroupTyped'
  BY <1>0, <1>1, <1>2 DEF GroupTyped
<1>4. \A s \in Nodes, a \in Actors : a \in groups'[s] <=> a \in groups[s] \/ (s = n /\ a = b)
  BY <1>0, <1>1 DEF GroupTyped
<1>5. OwnInv'
  BY <1>0, <1>1, <1>4, ProcessGroupsAssumption DEF GroupInv, OwnInv
<1>6. ASSUME ~foreign'
      PROVE  /\ \A p, s \in Nodes : OwnOnly(updates'[p][s], p)
             /\ \A s \in Nodes, a \in Actors :
                   /\ Mentioned(s, a)' => /\ Born[a] <= generation'[Home[a]]
                                          /\ s = Home[a] \/ Home[a] \in subs'[s]
                   /\ s # Home[a] /\ Runs(a)' /\ a \notin groups'[Home[a]] =>
                         Undone(Sent(s, a)', groups'[s], a)
  <2>1. ~foreign /\ Home[b] = n
    BY <1>0, <1>1, <1>6 DEF GroupTyped
  <2> DEFINE v == <<e>>
  <2>2. /\ v \in Seq(Publications) /\ Len(v) = 1 /\ v[1] = e
    BY <1>0
  <2> HIDE DEF v
  <2>3. OwnOnly(v, n) /\ (\A a : Names(v, a) => a = b)
    BY <1>0, <2>1, <2>2 DEF OwnOnly, Names
  <2>4. ASSUME NEW p \in Nodes, NEW s \in Nodes PROVE OwnOnly(updates'[p][s], p)
    <3>1. OwnOnly(updates[p][s], p) /\ updates[p][s] \in Seq(Publications)
      BY <2>1, SpreadIs
    <3>2. p = n => OwnOnly(updates[p][s] \o v, p)
      BY <2>2, <2>3, <3>1, ExtendedNames
    <3>3. \/ updates'[p][s] = updates[p][s]
          \/ p = n /\ updates'[p][s] = updates[p][s] \o v
      BY <1>2 DEF v
    <3> QED BY <3>1, <3>2, <3>3
  <2>5. ASSUME NEW s \in Nodes, NEW a \in Actors
        PROVE  /\ Mentioned(s, a)' => /\ Born[a] <= generation'[Home[a]]
                                      /\ s = Home[a] \/ Home[a] \in subs'[s]
               /\ s # Home[a] /\ Runs(a)' /\ a \notin groups'[Home[a]] =>
                     Undone(Sent(s, a)', groups'[s], a)
    <3>1. /\ Home[a] \in Nodes
          /\ Sent(s, a) \in Seq(Publications)
          /\ Mentioned(s, a) => /\ Born[a] <= generation[Home[a]]
                                /\ s = Home[a] \/ Home[a] \in subs[s]
          /\ s # Home[a] /\ Runs(a) /\ a \notin groups[Home[a]] =>
                Undone(Sent(s, a), groups[s], a)
      BY <2>1, SpreadIs
    <3>2. \/ Sent(s, a)' = Sent(s, a)
          \/ Home[a] = n /\ n \in subs[s] /\ Sent(s, a)' = Sent(s, a) \o v
      BY <1>2, <3>1 DEF Sent, v
    <3>3. ASSUME Mentioned(s, a)'
          PROVE  Born[a] <= generation'[Home[a]] /\ (s = Home[a] \/ Home[a] \in subs'[s])
      <4>1. CASE Mentioned(s, a)
        BY <1>1, <3>1, <4>1
      <4>2. CASE ~Mentioned(s, a)
        <5>1. a = b /\ (s = n \/ n \in subs[s])
          BY <1>4, <2>2, <2>3, <3>1, <3>2, <3>3, <4>2, ExtendedNames DEF Mentioned
        <5>2. generation[n] = Born[b] /\ Born[b] \in Nat
          BY <1>1, <2>1, ProcessGroupsAssumption DEF Runs
        <5> QED BY <1>1, <2>1, <5>1, <5>2
      <4> QED BY <4>1, <4>2
    <3>4. ASSUME s # Home[a], Runs(a)', a \notin groups'[Home[a]]
          PROVE  Undone(Sent(s, a)', groups'[s], a)
      <4>1. a # b /\ a \notin groups[Home[a]] /\ Runs(a)
        BY <1>1, <1>4, <2>1, <3>1, <3>4 DEF Runs
      <4>2. Undone(Sent(s, a), groups[s], a) /\ (a \in groups'[s] <=> a \in groups[s])
        BY <1>4, <3>1, <3>4, <4>1
      <4>3. \A i \in 1..Len(v) : v[i] # Update("join", a)
        BY <2>2, <4>1, UpdateIs DEF e
      <4>4. Undone(Sent(s, a) \o v, groups[s], a)
        BY <2>2, <3>1, <4>2, <4>3, ExtendedUndone
      <4>5. Undone(Sent(s, a)', groups[s], a)
        BY <3>2, <4>2, <4>4
      <4> QED BY <4>2, <4>5, UndoneLess
    <3> QED BY <3>3, <3>4
  <2> QED BY <2>4, <2>5
<1>7. SpreadInv'
  BY <1>6 DEF SpreadInv
<1> QED BY <1>3, <1>5, <1>7 DEF GroupInv

\* A node takes an actor out of the group.
LEMMA GroupsOfLeave ==
    ASSUME GroupInv, NEW n \in Nodes, NEW b \in Actors, leaveGroup(n, b)
    PROVE  GroupInv'
<1> DEFINE e == Update("leave", b)
<1>0. GroupTyped /\ e \in Publications /\ e.actor = b
  BY UpdateIs DEF GroupInv
<1>1. /\ groups' = [groups EXCEPT ![n] = groups[n] \ {b}]
      /\ updates' = [updates EXCEPT ![n] = Published(n, <<e>>)]
      /\ joined' = (IF Home[b] = n THEN joined \ {b} ELSE joined)
      /\ foreign' = (foreign \/ Home[b] # n)
      /\ subs' = subs /\ generation' = generation /\ running' = running /\ b \in groups[n]
  BY DEF leaveGroup, vars
<1> HIDE DEF e
<1>2. /\ updates' \in [Nodes -> [Nodes -> Seq(Publications)]]
      /\ \A s \in Nodes : /\ n \in subs[s] => updates'[n][s] = updates[n][s] \o <<e>>
                          /\ n \notin subs[s] => updates'[n][s] = updates[n][s]
      /\ \A p \in Nodes \ {n}, s \in Nodes : updates'[p][s] = updates[p][s]
  BY <1>0, <1>1, PublishedIs
<1>3. GroupTyped'
  BY <1>0, <1>1, <1>2 DEF GroupTyped
<1>4. \A s \in Nodes, a \in Actors : a \in groups'[s] <=> a \in groups[s] /\ ~(s = n /\ a = b)
  BY <1>0, <1>1 DEF GroupTyped
<1>5. OwnInv'
  BY <1>0, <1>1, <1>4, ProcessGroupsAssumption DEF GroupInv, OwnInv
<1>6. ASSUME ~foreign'
      PROVE  /\ \A p, s \in Nodes : OwnOnly(updates'[p][s], p)
             /\ \A s \in Nodes, a \in Actors :
                   /\ Mentioned(s, a)' => /\ Born[a] <= generation'[Home[a]]
                                          /\ s = Home[a] \/ Home[a] \in subs'[s]
                   /\ s # Home[a] /\ Runs(a)' /\ a \notin groups'[Home[a]] =>
                         Undone(Sent(s, a)', groups'[s], a)
  <2>1. ~foreign /\ Home[b] = n
    BY <1>0, <1>1, <1>6 DEF GroupTyped
  <2> DEFINE v == <<e>>
  <2>2. /\ v \in Seq(Publications) /\ Len(v) = 1 /\ v[1] = e
    BY <1>0
  <2> HIDE DEF v
  <2>3. OwnOnly(v, n) /\ (\A a : Names(v, a) => a = b)
    BY <1>0, <2>1, <2>2 DEF OwnOnly, Names
  <2>4. ASSUME NEW p \in Nodes, NEW s \in Nodes PROVE OwnOnly(updates'[p][s], p)
    <3>1. OwnOnly(updates[p][s], p) /\ updates[p][s] \in Seq(Publications)
      BY <2>1, SpreadIs
    <3>2. p = n => OwnOnly(updates[p][s] \o v, p)
      BY <2>2, <2>3, <3>1, ExtendedNames
    <3>3. \/ updates'[p][s] = updates[p][s]
          \/ p = n /\ updates'[p][s] = updates[p][s] \o v
      BY <1>2 DEF v
    <3> QED BY <3>1, <3>2, <3>3
  <2>5. ASSUME NEW s \in Nodes, NEW a \in Actors
        PROVE  /\ Mentioned(s, a)' => /\ Born[a] <= generation'[Home[a]]
                                      /\ s = Home[a] \/ Home[a] \in subs'[s]
               /\ s # Home[a] /\ Runs(a)' /\ a \notin groups'[Home[a]] =>
                     Undone(Sent(s, a)', groups'[s], a)
    <3>1. /\ Home[a] \in Nodes
          /\ Sent(s, a) \in Seq(Publications)
          /\ Mentioned(s, a) => /\ Born[a] <= generation[Home[a]]
                                /\ s = Home[a] \/ Home[a] \in subs[s]
          /\ s # Home[a] /\ Runs(a) /\ a \notin groups[Home[a]] =>
                Undone(Sent(s, a), groups[s], a)
      BY <2>1, SpreadIs
    <3>2. \/ Sent(s, a)' = Sent(s, a) /\ (Home[a] = n => n \notin subs[s])
          \/ Sent(s, a)' = Sent(s, a) /\ Home[a] # n
          \/ Home[a] = n /\ n \in subs[s] /\ Sent(s, a)' = Sent(s, a) \o v
      BY <1>2, <3>1 DEF Sent, v
    <3>3. ASSUME Mentioned(s, a)'
          PROVE  Born[a] <= generation'[Home[a]] /\ (s = Home[a] \/ Home[a] \in subs'[s])
      <4>1. CASE Mentioned(s, a)
        BY <1>1, <3>1, <4>1
      <4>2. CASE ~Mentioned(s, a)
        <5>1. a = b /\ n \in subs[s]
          BY <1>4, <2>2, <2>3, <3>1, <3>2, <3>3, <4>2, ExtendedNames DEF Mentioned
        <5>2. Born[b] <= generation[Home[b]]
          <6>1. Mentioned(n, b)
            BY <1>1 DEF Mentioned
          <6> QED BY <2>1, <6>1, SpreadIs
        <5> QED BY <1>1, <2>1, <5>1, <5>2
      <4> QED BY <4>1, <4>2
    <3>4. ASSUME s # Home[a], Runs(a)', a \notin groups'[Home[a]]
          PROVE  Undone(Sent(s, a)', groups'[s], a)
      <4>1. CASE a = b
        <5>1. CASE n \in subs[s]
          <6>1. Undone(Sent(s, a) \o <<Update("leave", a)>>, groups'[s], a)
            BY <3>1, LeaveUndoes
          <6> QED BY <2>1, <3>2, <4>1, <5>1, <6>1 DEF v, e
        <5>2. CASE n \notin subs[s]
          <6>1. ~Mentioned(s, a) /\ Sent(s, a)' = Sent(s, a)
            BY <2>1, <3>1, <3>2, <3>4, <4>1, <5>2
          <6>2. a \notin groups'[s] /\ ~Names(Sent(s, a), a)
            BY <1>4, <6>1 DEF Mentioned
          <6>3. Undone(Sent(s, a), {}, a)
            BY <3>1, <6>2, UnnamedUndone
          <6> QED BY <6>1, <6>2, <6>3, UndoneLess
        <5> QED BY <5>1, <5>2
      <4>2. CASE a # b
        <5>1. a \notin groups[Home[a]] /\ Runs(a)
          BY <1>1, <1>4, <3>1, <3>4, <4>2 DEF Runs
        <5>2. Undone(Sent(s, a), groups[s], a) /\ (a \in groups'[s] <=> a \in groups[s])
          BY <1>4, <3>1, <3>4, <4>2, <5>1
        <5>3. \A i \in 1..Len(v) : v[i] # Update("join", a)
          BY <2>2, UpdateIs DEF e
        <5>4. Undone(Sent(s, a) \o v, groups[s], a)
          BY <2>2, <3>1, <5>2, <5>3, ExtendedUndone
        <5>5. Undone(Sent(s, a)', groups[s], a)
          BY <3>2, <5>2, <5>4
        <5> QED BY <5>2, <5>5, UndoneLess
      <4> QED BY <4>1, <4>2
    <3> QED BY <3>3, <3>4
  <2> QED BY <2>4, <2>5
<1>7. SpreadInv'
  BY <1>6 DEF SpreadInv
<1> QED BY <1>3, <1>5, <1>7 DEF GroupInv

\* A node handles an update.
LEMMA GroupsOfUpdate ==
    ASSUME GroupInv, NEW p \in Nodes, NEW s \in Nodes, handleUpdate(p, s)
    PROVE  GroupInv'
<1> DEFINE u == updates[p][s]
           e == Head(u)
<1>0. GroupTyped /\ u \in Seq(Publications) /\ u # <<>>
  BY DEF GroupInv, GroupTyped, handleUpdate
<1>1. /\ groups' = [groups EXCEPT ![s] = Listed(s, e)]
      /\ updates' = [updates EXCEPT ![p] = [updates[p] EXCEPT ![s] = Tail(u)]]
      /\ joined' = joined /\ foreign' = foreign
      /\ subs' = subs /\ generation' = generation /\ running' = running
  BY DEF handleUpdate, vars
<1>2. /\ e \in Publications /\ Tail(u) \in Seq(Publications) /\ e.actor \in Actors
      /\ \A a : Names(Tail(u), a) => Names(u, a)
      /\ Names(u, e.actor)
      /\ OwnOnly(u, p) => OwnOnly(Tail(u), p) /\ Home[e.actor] = p
      /\ \A a \in Actors : \A list : Undone(u, list, a) =>
            /\ e = Update("leave", a) => Undone(Tail(u), {}, a)
            /\ e = Update("join", a) => Undone(Tail(u), {a}, a)
            /\ e.actor # a => Undone(Tail(u), list, a)
  <2>1. e \in Publications
    BY <1>0, Handled
  <2>2. e.actor \in Actors
    BY <2>1 DEF Publications
  <2> QED BY <1>0, <2>1, <2>2, Handled
<1> HIDE DEF e
<1>3. /\ updates'[p][s] = Tail(u)
      /\ \A q, t \in Nodes : q # p \/ t # s => updates'[q][t] = updates[q][t]
      /\ updates' \in [Nodes -> [Nodes -> Seq(Publications)]]
  BY <1>0, <1>1, <1>2 DEF GroupTyped
<1> HIDE DEF u
<1>4. /\ Listed(s, e) \subseteq Actors
      /\ \A a \in Actors : a # e.actor \/ Home[a] = s => (a \in Listed(s, e) <=> a \in groups[s])
      /\ Home[e.actor] # s /\ e = Update("join", e.actor) => e.actor \in Listed(s, e)
      /\ Home[e.actor] # s /\ e = Update("leave", e.actor) => e.actor \notin Listed(s, e)
  BY <1>0, <1>2 DEF Listed, GroupTyped, Update
<1>5. groups'[s] = Listed(s, e) /\ \A n \in Nodes \ {s} : groups'[n] = groups[n]
  BY <1>0, <1>1 DEF GroupTyped
<1>6. GroupTyped'
  BY <1>0, <1>1, <1>3, <1>4 DEF GroupTyped
<1>7. \A a \in Actors : Home[a] \in Nodes /\ (a \in groups'[Home[a]] <=> a \in groups[Home[a]])
  BY <1>4, <1>5, ProcessGroupsAssumption
<1>8. OwnInv'
  BY <1>1, <1>7 DEF GroupInv, OwnInv
<1>9. ASSUME ~foreign'
      PROVE  /\ \A q, t \in Nodes : OwnOnly(updates'[q][t], q)
             /\ \A n \in Nodes, a \in Actors :
                   /\ Mentioned(n, a)' => /\ Born[a] <= generation'[Home[a]]
                                          /\ n = Home[a] \/ Home[a] \in subs'[n]
                   /\ n # Home[a] /\ Runs(a)' /\ a \notin groups'[Home[a]] =>
                         Undone(Sent(n, a)', groups'[n], a)
  <2>1. ~foreign
    BY <1>1, <1>9
  <2>2. OwnOnly(u, p) /\ OwnOnly(Tail(u), p) /\ Home[e.actor] = p
    BY <1>2, <2>1, SpreadIs DEF u
  <2>3. \A q, t \in Nodes : OwnOnly(updates'[q][t], q)
    BY <1>3, <2>1, <2>2, SpreadIs
  <2>4. ASSUME NEW n \in Nodes, NEW a \in Actors
        PROVE  /\ Mentioned(n, a)' => /\ Born[a] <= generation'[Home[a]]
                                      /\ n = Home[a] \/ Home[a] \in subs'[n]
               /\ n # Home[a] /\ Runs(a)' /\ a \notin groups'[Home[a]] =>
                     Undone(Sent(n, a)', groups'[n], a)
    <3>1. /\ Home[a] \in Nodes
          /\ Mentioned(n, a) => /\ Born[a] <= generation[Home[a]]
                                /\ n = Home[a] \/ Home[a] \in subs[n]
          /\ n # Home[a] /\ Runs(a) /\ a \notin groups[Home[a]] =>
                Undone(Sent(n, a), groups[n], a)
      BY <2>1, SpreadIs
    <3>2. CASE n # s \/ Home[a] # p
      <4>1. Sent(n, a)' = Sent(n, a) /\ (a \in groups'[n] <=> a \in groups[n])
        BY <1>1, <1>3, <1>4, <1>5, <2>2, <3>1, <3>2 DEF Sent
      <4>2. Mentioned(n, a)' => Mentioned(n, a)
        BY <4>1 DEF Mentioned
      <4>3. Runs(a)' => Runs(a)
        BY <1>1 DEF Runs
      <4>4. ASSUME n # Home[a], Runs(a)', a \notin groups'[Home[a]]
            PROVE  Undone(Sent(n, a)', groups'[n], a)
        <5>1. Undone(Sent(n, a), groups[n], a)
          BY <1>7, <3>1, <4>3, <4>4
        <5>2. Undone(Sent(n, a), groups'[n], a)
          BY <4>1, <5>1, UndoneLess
        <5> QED BY <4>1, <5>2
      <4> QED BY <1>1, <3>1, <4>2, <4>4
    <3>3. CASE n = s /\ Home[a] = p
      <4>1. Sent(n, a) = u /\ Sent(n, a)' = Tail(u)
        BY <1>3, <3>3 DEF Sent, u
      <4>2. Mentioned(n, a)' => Mentioned(n, a)
        <5>1. CASE a = e.actor
          BY <1>2, <4>1, <5>1 DEF Mentioned
        <5>2. CASE a # e.actor
          BY <1>2, <1>4, <1>5, <3>3, <4>1, <5>2 DEF Mentioned
        <5> QED BY <5>1, <5>2
      <4>3. ASSUME n # Home[a], Runs(a)', a \notin groups'[Home[a]]
            PROVE  Undone(Tail(u), groups'[n], a)
        <5>1. Undone(u, groups[n], a)
          BY <1>1, <1>7, <3>1, <4>1, <4>3 DEF Runs
        <5>2. CASE a # e.actor
          <6>1. Undone(Tail(u), groups[n], a)
            BY <1>2, <5>1, <5>2
          <6>2. a \in groups'[n] <=> a \in groups[n]
            BY <1>4, <1>5, <3>3, <5>2
          <6> QED BY <6>1, <6>2, UndoneLess
        <5>3. CASE a = e.actor /\ e = Update("join", a)
          <6>1. Undone(Tail(u), {a}, a)
            BY <1>2, <5>1, <5>3
          <6> QED BY <6>1, UndoneLess
        <5>4. CASE a = e.actor /\ e = Update("leave", a)
          <6>1. Undone(Tail(u), {}, a)
            BY <1>2, <5>1, <5>4
          <6>2. a \notin groups'[n]
            BY <1>4, <1>5, <3>3, <4>3, <5>4
          <6> QED BY <6>1, <6>2, UndoneLess
        <5>5. e = Update("join", e.actor) \/ e = Update("leave", e.actor)
          BY <1>2, UpdateIs
        <5> QED BY <5>2, <5>3, <5>4, <5>5
      <4> QED BY <1>1, <3>1, <4>1, <4>2, <4>3
    <3> QED BY <3>2, <3>3
  <2> QED BY <2>3, <2>4
<1>10. SpreadInv'
  BY <1>9 DEF SpreadInv
<1> QED BY <1>6, <1>8, <1>10 DEF GroupInv

\* The socket of a node is connected to a publisher.
LEMMA GroupsOfConnect ==
    ASSUME GroupInv, MembershipTyped, NEW s \in Nodes, NEW p \in Nodes, Connects(s, p)
    PROVE  GroupInv'
<1>1. /\ subs' = [subs EXCEPT ![s] = subs[s] \cup {p}]
      /\ groups' = groups /\ updates' = updates /\ joined' = joined /\ foreign' = foreign
      /\ generation' = generation /\ running' = running
  BY DEF Connects, vars
<1>2. GroupTyped' /\ \A n \in Nodes : subs[n] \subseteq subs'[n]
  BY <1>1 DEF GroupInv, GroupTyped
<1>3. OwnInv'
  BY <1>1 DEF GroupInv, OwnInv
<1>4. ASSUME ~foreign'
      PROVE  /\ \A q, t \in Nodes : OwnOnly(updates'[q][t], q)
             /\ \A n \in Nodes, a \in Actors :
                   /\ Mentioned(n, a)' => /\ Born[a] <= generation'[Home[a]]
                                          /\ n = Home[a] \/ Home[a] \in subs'[n]
                   /\ n # Home[a] /\ Runs(a)' /\ a \notin groups'[Home[a]] =>
                         Undone(Sent(n, a)', groups'[n], a)
  <2>1. \A n \in Nodes, a \in Actors : /\ Mentioned(n, a)' <=> Mentioned(n, a)
                                       /\ Sent(n, a)' = Sent(n, a)
                                       /\ Runs(a)' <=> Runs(a)
    BY <1>1 DEF Mentioned, Sent, Runs
  <2> QED BY <1>1, <1>2, <1>4, <2>1, SpreadIs
<1>5. SpreadInv'
  BY <1>4 DEF SpreadInv
<1> QED BY <1>2, <1>3, <1>5 DEF GroupInv

\* A process that is running after a step of the membership was running before
\* it, or has just started.
LEMMA Lives ==
    ASSUME MembershipInv, Next, NEW p \in Nodes
    PROVE  /\ generation[p] \in Nat /\ generation'[p] \in Nat /\ generation[p] <= generation'[p]
           /\ running'[p] # "down" =>
                 \/ running[p] # "down" /\ generation'[p] = generation[p]
                 \/ generation'[p] = generation[p] + 1
<1>0. MembershipTyped
  BY DEF MembershipInv
<1>1. CASE UNCHANGED <<running, generation>>
  BY <1>0, <1>1 DEF MembershipTyped
<1>2. ASSUME NEW n \in Nodes, start(n)
      PROVE  /\ running' = [running EXCEPT ![n] = "up"]
             /\ generation' = [generation EXCEPT ![n] = generation[n] + 1]
  BY <1>2 DEF start
<1>3. ASSUME NEW n \in Nodes, start(n)
      PROVE  \/ generation'[p] = generation[p] + 1
             \/ generation'[p] = generation[p] /\ running'[p] = running[p]
  BY <1>0, <1>2, <1>3 DEF MembershipTyped
<1>4. ASSUME NEW n \in Nodes, leave(n) \/ Ends(n)
      PROVE  generation'[p] = generation[p] /\ (running'[p] # "down" => running[p] # "down")
  BY <1>0, <1>4 DEF leave, Ends, MembershipTyped
<1>5. generation[p] \in Nat
  BY <1>0 DEF MembershipTyped
<1>6. \/ UNCHANGED <<running, generation>>
      \/ \E n \in Nodes : start(n) \/ leave(n) \/ Ends(n)
  BY DEF Next, Timers, handleGossipMessage, failureDetectionLoop, TimesOut, gossipLoop, Delay,
         request
<1> QED BY <1>1, <1>3, <1>4, <1>5, <1>6

\* No node is told that it has left itself.
LEMMA NeverLeavesItself ==
    ASSUME MembershipInv, MembershipInv', NEW n \in Nodes, running'[n] # "down"
    PROVE  n \notin LeaveEvents(n)
BY DEF MembershipInv, TableInv, Tells, KnowsItself, LeaveEvents

\* A step of the membership, and what handlePeerLeave and handlePeerJoin make of it.
LEMMA GroupsOfMembership ==
    ASSUME GroupInv, MembershipInv, MembershipInv', MembershipStep
    PROVE  GroupInv'
<1> DEFINE joins(p) == SetToSeq({Update("join", a) : a \in Own(p)})
           members == [n \in Nodes |-> IF running'[n] = "down" THEN {}
                                       ELSE {a \in groups[n] : Home[a] \notin LeaveEvents(n)}]
           sockets == [n \in Nodes |-> IF running'[n] = "down" THEN {} ELSE subs[n]]
           again(p, s) == p \in subs[s] /\ JoinEvents(p) # {} /\ running'[p] # "down"
           news(p, s) == IF running'[s] = "down" THEN <<>>
                         ELSE IF again(p, s) THEN updates[p][s] \o joins(p)
                         ELSE updates[p][s]
<1>0. GroupTyped /\ OwnInv /\ \A a \in Actors : Home[a] \in Nodes /\ Born[a] \in Nat
  BY ProcessGroupsAssumption DEF GroupInv
<1>1. Next /\ foreign' = foreign
  BY DEF MembershipStep
<1>2. groups' = members /\ subs' = sockets /\ updates' = [p \in Nodes |-> [s \in Nodes |-> news(p, s)]]
  BY DEF MembershipStep
<1>3. \A n \in Nodes, a \in Actors :
          a \in groups'[n] <=> running'[n] # "down" /\ a \in groups[n] /\ Home[a] \notin LeaveEvents(n)
  BY <1>2
<1>4. \A n \in Nodes : subs'[n] = IF running'[n] = "down" THEN {} ELSE subs[n]
  BY <1>2
<1>5. \A p \in Nodes :
          /\ joins(p) \in Seq(Publications)
          /\ \A i \in 1..Len(joins(p)) :
                \E a \in Actors : a \in groups[p] /\ Home[a] = p /\ joins(p)[i] = Update("join", a)
  BY <1>0, JoinsAre
<1> HIDE DEF joins
<1>6. \A p, s \in Nodes :
          \/ running'[s] = "down" /\ updates'[p][s] = <<>>
          \/ running'[s] # "down" /\ updates'[p][s] = updates[p][s]
          \/ running'[s] # "down" /\ p \in subs[s] /\ updates'[p][s] = updates[p][s] \o joins(p)
  BY <1>2
<1>7. \A p, s \in Nodes : updates[p][s] \o joins(p) \in Seq(Publications) /\ updates[p][s] \in Seq(Publications)
  BY <1>0, <1>5, Extended DEF GroupTyped
<1>8. GroupTyped'
  <2>1. groups' \in [Nodes -> SUBSET Actors]
    BY <1>0, <1>2 DEF GroupTyped
  <2>2. subs' \in [Nodes -> SUBSET Nodes]
    BY <1>0, <1>2 DEF GroupTyped
  <2>3. <<>> \in Seq(Publications)
    OBVIOUS
  <2>4. \A p, s \in Nodes : news(p, s) \in Seq(Publications)
    <3> HIDE DEF again
    <3> QED BY <1>7, <2>3
  <2> HIDE DEF news
  <2>5. updates' \in [Nodes -> [Nodes -> Seq(Publications)]]
    BY <1>2, <2>4
  <2>6. joined' \subseteq Actors
    BY <1>0 DEF MembershipStep, GroupTyped
  <2> QED BY <1>0, <1>1, <2>1, <2>2, <2>5, <2>6 DEF GroupTyped
<1>9. \A a \in Actors : a \in groups'[Home[a]] <=> running'[Home[a]] # "down" /\ a \in groups[Home[a]]
  BY <1>0, <1>3, NeverLeavesItself
<1>10. OwnInv'
  <2>1. joined' = {a \in joined : running'[Home[a]] # "down"}
    BY DEF MembershipStep
  <2> QED BY <1>0, <1>9, <2>1 DEF OwnInv
<1> HIDE DEF members, sockets, news, again
<1>11. ASSUME ~foreign'
       PROVE  /\ \A p, s \in Nodes : OwnOnly(updates'[p][s], p)
              /\ \A n \in Nodes, a \in Actors :
                    /\ Mentioned(n, a)' => /\ Born[a] <= generation'[Home[a]]
                                           /\ n = Home[a] \/ Home[a] \in subs'[n]
                    /\ n # Home[a] /\ Runs(a)' /\ a \notin groups'[Home[a]] =>
                          Undone(Sent(n, a)', groups'[n], a)
  <2>1. ~foreign
    BY <1>1, <1>11
  <2>2. \A p \in Nodes : OwnOnly(joins(p), p) /\ \A a \in Actors : Names(joins(p), a) => a \in groups[p] /\ Home[a] = p
    BY <1>5, UpdateIs DEF OwnOnly, Names
  <2>3. \A a : ~Names(<<>>, a) /\ \A p : OwnOnly(<<>>, p)
    BY DEF Names, OwnOnly
  <2>4. ASSUME NEW p \in Nodes, NEW s \in Nodes PROVE OwnOnly(updates'[p][s], p)
    <3>1. OwnOnly(updates[p][s], p)
      BY <2>1, SpreadIs
    <3>2. OwnOnly(updates[p][s] \o joins(p), p)
      BY <1>5, <1>7, <2>2, <3>1, ExtendedNames
    <3> QED BY <1>6, <2>3, <3>1, <3>2
  <2>5. ASSUME NEW n \in Nodes, NEW a \in Actors
        PROVE  /\ Mentioned(n, a)' => /\ Born[a] <= generation'[Home[a]]
                                      /\ n = Home[a] \/ Home[a] \in subs'[n]
               /\ n # Home[a] /\ Runs(a)' /\ a \notin groups'[Home[a]] =>
                     Undone(Sent(n, a)', groups'[n], a)
    <3> DEFINE p == Home[a]
    <3>0. p \in Nodes /\ Born[a] \in Nat
      BY <1>0
    <3>1. /\ Sent(n, a) \in Seq(Publications)
          /\ Mentioned(n, a) => Born[a] <= generation[p] /\ (n = p \/ p \in subs[n])
          /\ n # p /\ Runs(a) /\ a \notin groups[p] => Undone(Sent(n, a), groups[n], a)
      BY <2>1, SpreadIs
    <3>2. /\ generation[p] \in Nat /\ generation'[p] \in Nat /\ generation[p] <= generation'[p]
          /\ running'[p] # "down" => \/ running[p] # "down" /\ generation'[p] = generation[p]
                                     \/ generation'[p] = generation[p] + 1
      BY <1>1, <3>0, Lives
    <3>3. CASE running'[n] = "down"
      <4>1. Sent(n, a)' = <<>> /\ a \notin groups'[n]
        BY <1>3, <1>6, <3>0, <3>3 DEF Sent
      <4>2. ~Mentioned(n, a)'
        BY <2>3, <4>1 DEF Mentioned
      <4>3. Undone(<<>>, {}, a)
        <5>1. <<>> \in Seq(Publications)
          OBVIOUS
        <5> QED BY <2>3, <5>1, UnnamedUndone
      <4> QED BY <4>1, <4>2, <4>3, UndoneLess
    <3>4. CASE running'[n] # "down"
      <4>1. /\ subs'[n] = subs[n]
            /\ a \in groups'[n] => a \in groups[n]
            /\ \/ Sent(n, a)' = Sent(n, a)
               \/ p \in subs[n] /\ Sent(n, a)' = Sent(n, a) \o joins(p)
        BY <1>3, <1>4, <1>6, <3>0, <3>4 DEF Sent
      <4>2. ASSUME Mentioned(n, a)'
            PROVE  Born[a] <= generation'[p] /\ (n = p \/ p \in subs'[n])
        <5>1. CASE Mentioned(n, a)
          BY <3>0, <3>1, <3>2, <4>1, <5>1
        <5>2. CASE ~Mentioned(n, a)
          <6>1. p \in subs[n] /\ Names(joins(p), a)
            BY <1>5, <3>0, <3>1, <4>1, <4>2, <5>2, ExtendedNames DEF Mentioned
          <6>2. Mentioned(p, a)
            BY <2>2, <3>0, <6>1 DEF Mentioned
          <6>3. Born[a] <= generation[p]
            BY <2>1, <3>0, <6>2, SpreadIs
          <6> QED BY <3>0, <3>2, <4>1, <6>1, <6>3
        <5> QED BY <5>1, <5>2
      <4>3. ASSUME n # p, Runs(a)', a \notin groups'[p]
            PROVE  Undone(Sent(n, a)', groups'[n], a)
        <5>1. running'[p] # "down" /\ generation'[p] = Born[a]
          BY <4>3 DEF Runs
        <5>2. a \notin groups[p]
          BY <1>9, <4>3, <5>1
        <5>3. Undone(Sent(n, a), groups[n], a)
          <6>1. CASE running[p] # "down" /\ generation'[p] = generation[p]
            BY <3>1, <4>3, <5>1, <5>2, <6>1 DEF Runs
          <6>2. CASE generation'[p] = generation[p] + 1
            <7>1. ~Mentioned(n, a)
              BY <3>0, <3>1, <3>2, <5>1, <6>2
            <7>2. a \notin groups[n] /\ Undone(Sent(n, a), {}, a)
              BY <3>1, <7>1, UnnamedUndone DEF Mentioned
            <7> QED BY <7>2, UndoneLess
          <6> QED BY <3>2, <5>1, <6>1, <6>2
        <5>4. \A i \in 1..Len(joins(p)) : joins(p)[i] # Update("join", a)
          BY <1>5, <3>0, <5>2, UpdateIs
        <5>5. Undone(Sent(n, a) \o joins(p), groups[n], a)
          BY <1>5, <3>0, <3>1, <5>3, <5>4, ExtendedUndone
        <5>6. Undone(Sent(n, a)', groups[n], a)
          BY <4>1, <5>3, <5>5
        <5> QED BY <4>1, <5>6, UndoneLess
      <4> QED BY <4>2, <4>3
    <3> QED BY <3>3, <3>4
  <2> QED BY <2>4, <2>5
<1>12. SpreadInv'
  BY <1>11 DEF SpreadInv
<1> QED BY <1>8, <1>10, <1>12 DEF GroupInv

\* Initially, no node lists anybody.
LEMMA InitGroups == GroupInit => GroupInv
<1> SUFFICES ASSUME GroupInit PROVE GroupInv
  OBVIOUS
<1>1. /\ \A n \in Nodes : groups[n] = {}
      /\ \A p, s \in Nodes : updates[p][s] = <<>>
      /\ \A a \in Actors : Home[a] \in Nodes
      /\ joined = {}
  BY ProcessGroupsAssumption DEF GroupInit
<1>2. GroupTyped
  <2>1. <<>> \in Seq(Publications)
    OBVIOUS
  <2> QED BY <2>1 DEF GroupInit, GroupTyped
<1>3. OwnInv
  BY <1>1 DEF OwnInv
<1>4. SpreadInv
  BY <1>1 DEF SpreadInv, OwnOnly, Mentioned, Names, Sent, Undone
<1> QED BY <1>2, <1>3, <1>4 DEF GroupInv

\* The membership goes its own way under the process groups.
LEMMA GroupsAreMembership == GroupSpec => Init /\ [][Next]_vars
<1>1. [GroupNext]_<<vars, groupVars>> => [Next]_vars
  BY DEF GroupNext, MembershipStep, joinGroup, leaveGroup, handleUpdate, Connects
<1> QED BY <1>1, PTL DEF GroupSpec, GroupInit

\* Every step keeps the invariant of the groups.
LEMMA StepGroups ==
    MembershipInv /\ MembershipInv' /\ GroupInv /\ [GroupNext]_<<vars, groupVars>> => GroupInv'
<1> SUFFICES ASSUME MembershipInv, MembershipInv', GroupInv, [GroupNext]_<<vars, groupVars>>
             PROVE  GroupInv'
  OBVIOUS
<1>1. CASE MembershipStep
  BY <1>1, GroupsOfMembership
<1>2. ASSUME NEW n \in Nodes, NEW a \in Actors, joinGroup(n, a) \/ leaveGroup(n, a) PROVE GroupInv'
  BY <1>2, GroupsOfJoin, GroupsOfLeave
<1>3. ASSUME NEW p \in Nodes, NEW s \in Nodes, handleUpdate(p, s) \/ Connects(s, p) PROVE GroupInv'
  BY <1>3, GroupsOfUpdate, GroupsOfConnect DEF MembershipInv
<1>4. CASE UNCHANGED <<vars, groupVars>>
  BY <1>4 DEF vars, groupVars, GroupInv, GroupTyped, OwnInv, SpreadInv, Mentioned, Sent, Runs
<1> QED BY <1>1, <1>2, <1>3, <1>4 DEF GroupNext

\* Both invariants hold throughout.
LEMMA GroupsSafe == GroupSpec => []GroupInv
<1>1. GroupInit => GroupInv
  BY InitGroups
<1> QED BY <1>1, GroupsAreMembership, MembershipSafe, StepGroups, PTL DEF GroupSpec

\* A node lists its own actors as it put them in and took them out itself:
\* what others publish about them is ignored, and no peer event drops them.
THEOREM OwnMembers == GroupSpec => []OwnMembersKept
<1>1. GroupInv => OwnMembersKept
  BY DEF GroupInv, OwnInv, OwnMembersKept
<1> QED BY <1>1, GroupsSafe, PTL

\* Nobody lists a running actor that is no longer a member on its own node,
\* once all that was published has arrived, although updates carry no version
\* and joins are published anew for every peer.
THEOREM GhostsAreGone == GroupSpec => []NoGhosts
<1>1. GroupInv => NoGhosts
  <2> SUFFICES ASSUME GroupInv, Settled, ~foreign, NEW n \in Nodes, NEW a \in groups[n], Runs(a),
                      a \notin groups[Home[a]]
               PROVE  FALSE
    BY DEF NoGhosts
  <2>1. a \in Actors /\ n # Home[a]
    BY DEF GroupInv, GroupTyped
  <2>2. Undone(Sent(n, a), groups[n], a) /\ Home[a] \in Nodes
    BY <2>1, SpreadIs
  <2>3. Sent(n, a) = <<>>
    BY <2>2 DEF Settled, Sent
  <2> QED BY <2>2, <2>3 DEF Undone
<1> QED BY <1>1, GroupsSafe, PTL

=============================================================================
