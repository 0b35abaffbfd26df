-------------------------- MODULE MigrationProofs --------------------------
(***************************************************************************)
(* Proofs about the replicated registry (RegistrySync.tla) and about the   *)
(* migration of an actor, which moves its name (Migration.tla), for any    *)
(* number of nodes, names, copies, migrations and messages.  The registry: *)
(* the laws of the vector clocks, and that clocks never run ahead of their *)
(* owners and always cover what their node holds.  Migration: a message is *)
(* handled by two copies only in the one case the protocol leaves open,    *)
(* the state of the old copy is carried over, and no mailbox stays paused. *)
(***************************************************************************)
EXTENDS Migration, SequenceTheorems, FiniteSetTheorems, TLAPS
----------------------------------------------------------------------------
(* Vector clocks *)

\* compare() is antisymmetric: "after" seen from the other side is "before".
THEOREM CompareAntisymmetric ==
    ASSUME NEW c \in Clock, NEW d \in Clock
    PROVE  compare(c, d) = "after" <=> compare(d, c) = "before"
BY DEF compare, Clock

\* compare() orders clocks: "after" is transitive.
THEOREM AfterIsTransitive ==
    ASSUME NEW c \in Clock, NEW d \in Clock, NEW e \in Clock,
           compare(c, d) = "after", compare(d, e) = "after"
    PROVE  compare(c, e) = "after"
<1>1. (~\E n \in Nodes : c[n] < d[n]) /\ (\E n \in Nodes : c[n] > d[n])
  BY DEF compare
<1>3. \A n \in Nodes : c[n] \in Nat /\ d[n] \in Nat /\ e[n] \in Nat
  BY DEF Clock
<1>2. ~\E n \in Nodes : d[n] < e[n]
  BY DEF compare
<1>4. \A n \in Nodes : c[n] >= d[n] /\ d[n] >= e[n]
  <2> SUFFICES ASSUME NEW n \in Nodes PROVE c[n] >= d[n] /\ d[n] >= e[n]
    OBVIOUS
  <2>1. ~(c[n] < d[n]) /\ ~(d[n] < e[n])
    BY <1>1, <1>2
  <2> QED BY <1>3, <2>1
<1>5. (~\E n \in Nodes : c[n] < e[n]) /\ (\E n \in Nodes : c[n] > e[n])
  BY <1>1, <1>3, <1>4
<1> QED BY <1>5 DEF compare

\* merge() is the least clock that covers both of its arguments.
THEOREM MergeIsLeastUpperBound ==
    ASSUME NEW c \in Clock, NEW d \in Clock
    PROVE  /\ merge(c, d) \in Clock
           /\ Covers(merge(c, d), c) /\ Covers(merge(c, d), d)
           /\ \A e \in Clock : Covers(e, c) /\ Covers(e, d) => Covers(e, merge(c, d))
BY DEF merge, Larger, Covers, Clock

\* increment() yields a clock that covers the old one.
LEMMA IncrementCovers ==
    ASSUME NEW c \in Clock, NEW n \in Nodes
    PROVE  /\ increment(c, n) \in Clock
           /\ increment(c, n)[n] = c[n] + 1
           /\ \A m \in Nodes : m # n => increment(c, n)[m] = c[m]
           /\ Covers(increment(c, n), c)
BY DEF increment, Covers, Clock

\* Covering is transitive.
LEMMA CoversTransitive ==
    ASSUME NEW c \in Clock, NEW d \in Clock, NEW e \in Clock,
           Covers(c, d), Covers(d, e)
    PROVE  Covers(c, e)
<1> SUFFICES ASSUME NEW n \in Nodes PROVE e[n] <= c[n]
  BY DEF Covers
<1>1. c[n] \in Nat /\ d[n] \in Nat /\ e[n] \in Nat
  BY DEF Clock
<1>2. d[n] <= c[n] /\ e[n] <= d[n]
  BY DEF Covers
<1> QED BY <1>1, <1>2

\* What a node registers or withdraws is stamped "after" everything its clock
\* covered: no peer that holds what the node held ignores its update.
THEOREM OwnUpdateIsAfter ==
    ASSUME NEW c \in Clock, NEW d \in Clock, NEW n \in Nodes, Covers(c, d)
    PROVE  compare(increment(c, n), d) = "after"
<1>1. \A m \in Nodes : increment(c, n)[m] >= d[m]
  BY DEF increment, Covers, Clock
<1>2. increment(c, n)[n] > d[n]
  BY DEF increment, Covers, Clock
<1>3. \A m \in Nodes : increment(c, n)[m] \in Nat /\ d[m] \in Nat
  BY IncrementCovers DEF Clock
<1> QED BY <1>1, <1>2, <1>3 DEF compare

----------------------------------------------------------------------------
(* Types *)

Typed ==
    /\ localClock \in [Nodes -> Clock]
    /\ registrations \in [Nodes -> [Names -> Registration \union {None}]]
    /\ wire \in [Nodes -> [Nodes -> Seq(Update)]]

\* Publishing updates keeps the wire a sequence of updates.
LEMMA PublishedType ==
    ASSUME Typed, NEW n \in Nodes, NEW us \in Seq(Update)
    PROVE  Published(n, us) \in [Nodes -> [Nodes -> Seq(Update)]]
<1>1. \A s \in Nodes : wire[n][s] \in Seq(Update) /\ wire[n][s] \o us \in Seq(Update)
  BY DEF Typed
<1> DEFINE row == [s \in Nodes |-> IF s = n THEN wire[n][s] ELSE wire[n][s] \o us]
<1>2. row \in [Nodes -> Seq(Update)]
  BY <1>1
<1>3. Published(n, us) = [wire EXCEPT ![n] = row]
  BY DEF Published, Typed
<1> HIDE DEF row
<1> QED BY <1>2, <1>3 DEF Typed

\* The sequence republishAll publishes consists of updates.
LEMMA RepublishedType ==
    ASSUME Typed, NEW n \in Nodes,
           NEW order \in Bijection(1..Cardinality(Held(n)), Held(n))
    PROVE  [i \in DOMAIN order |->
               [type |-> "register", name |-> order[i],
                registration |-> registrations[n][order[i]]]] \in Seq(Update)
<1>1. Held(n) \subseteq Names
  BY DEF Held
<1>2. Cardinality(Held(n)) \in Nat
  BY <1>1, RegistryAssumption, FS_Subset, FS_CardinalityType
<1>3. order \in [1..Cardinality(Held(n)) -> Held(n)]
  BY DEF Bijection, Injection
<1>4. \A a \in Held(n) : [type |-> "register", name |-> a,
                          registration |-> registrations[n][a]] \in Update
  BY <1>1 DEF Held, Typed, Update
<1> QED BY <1>2, <1>3, <1>4

----------------------------------------------------------------------------
(* The clocks.  NoFutureTicks and HeldAreCovered need each other: a node   *)
(* that applies an update merges its clock (so it covers what it holds),   *)
(* and the merged clock is in the past because the update was.             *)

ClockInv == Typed /\ NoFutureTicks /\ HeldAreCovered

\* ClockInv holds initially.
LEMMA InitClock == Init => ClockInv
<1> SUFFICES ASSUME Init PROVE ClockInv
  OBVIOUS
<1>1. NoTicks \in Clock
  BY DEF NoTicks, Clock
<1>2. Typed
  BY <1>1 DEF Init, Typed
<1>3. \A n \in Nodes : Held(n) = {}
  BY DEF Init, Held
<1>4. \A p, s \in Nodes : wire[p][s] = <<>> /\ Len(wire[p][s]) = 0
  BY DEF Init
<1>5. \A m \in Nodes : Past(localClock[m], localClock)
  <2> SUFFICES ASSUME NEW m \in Nodes, NEW n \in Nodes
               PROVE  localClock[m][n] <= localClock[n][n]
    BY DEF Past
  <2> QED BY DEF Init, NoTicks
<1> QED BY <1>2, <1>3, <1>4, <1>5 DEF ClockInv, NoFutureTicks, HeldAreCovered

\* A clock of the past stays one while the owners' clocks only grow.
LEMMA PastStays ==
    ASSUME NEW c \in Clock, NEW f \in [Nodes -> Clock], NEW g \in [Nodes -> Clock],
           Past(c, f), \A n \in Nodes : Covers(g[n], f[n])
    PROVE  Past(c, g)
<1> SUFFICES ASSUME NEW n \in Nodes PROVE c[n] <= g[n][n]
  BY DEF Past
<1>1. c[n] \in Nat /\ f[n][n] \in Nat /\ g[n][n] \in Nat
  BY DEF Clock
<1>2. c[n] <= f[n][n] /\ f[n][n] <= g[n][n]
  BY DEF Past, Covers
<1> QED BY <1>1, <1>2

\* What a clock of the past covers is in the past.
LEMMA CoveredIsPast ==
    ASSUME NEW c \in Clock, NEW d \in Clock, NEW f \in [Nodes -> Clock],
           Past(c, f), Covers(c, d)
    PROVE  Past(d, f)
<1> SUFFICES ASSUME NEW n \in Nodes PROVE d[n] <= f[n][n]
  BY DEF Past
<1>1. c[n] \in Nat /\ f[n][n] \in Nat /\ d[n] \in Nat
  BY DEF Clock
<1>2. c[n] <= f[n][n] /\ d[n] <= c[n]
  BY DEF Past, Covers
<1> QED BY <1>1, <1>2

\* A registration or an update carries a clock.
LEMMA CarriesClock ==
    ASSUME Typed
    PROVE  /\ \A n \in Nodes : \A a \in Held(n) :
                 registrations[n][a] \in Registration
                 /\ registrations[n][a].vectorClock \in Clock
           /\ \A p, s \in Nodes : \A i \in 1..Len(wire[p][s]) :
                 wire[p][s][i] \in Update
                 /\ wire[p][s][i].registration.vectorClock \in Clock
<1>1. \A n \in Nodes : \A a \in Held(n) : registrations[n][a] \in Registration
  BY DEF Typed, Held
<1>2. \A p, s \in Nodes : wire[p][s] \in Seq(Update)
  BY DEF Typed
<1>3. \A p, s \in Nodes : \A i \in 1..Len(wire[p][s]) : wire[p][s][i] \in Update
  BY <1>2
<1>4. \A r \in Registration : r.vectorClock \in Clock
  BY DEF Registration
<1>5. \A u \in Update : u.registration \in Registration
  BY DEF Update
<1> QED BY <1>1, <1>3, <1>4, <1>5

\* An update on the wire after a step was there before, or is new; new ones
\* and clocks being in the past is all a step has to show.
LEMMA ClocksOfStep ==
    ASSUME ClockInv, Typed',
           \A n \in Nodes : Covers(localClock'[n], localClock[n]),
           \A n \in Nodes : Past(localClock'[n], localClock'),
           \A n \in Nodes : \A a \in Held(n)' :
               Covers(localClock'[n], registrations'[n][a].vectorClock),
           \A p, s \in Nodes : \A i \in 1..Len(wire'[p][s]) :
               \/ \E j \in 1..Len(wire[p][s]) : wire'[p][s][i] = wire[p][s][j]
               \/ Past(wire'[p][s][i].registration.vectorClock, localClock')
    PROVE  ClockInv'
<1>1. /\ localClock \in [Nodes -> Clock] /\ localClock' \in [Nodes -> Clock]
      /\ \A n \in Nodes : localClock'[n] \in Clock
  BY DEF ClockInv, Typed
<1>2. HeldAreCovered'
  BY DEF HeldAreCovered
<1>3. \A m \in Nodes : \A a \in Held(m)' :
         Past(registrations'[m][a].vectorClock, localClock')
  <2> SUFFICES ASSUME NEW m \in Nodes, NEW a \in Held(m)'
               PROVE  Past(registrations'[m][a].vectorClock, localClock')
    OBVIOUS
  <2>1. registrations'[m][a].vectorClock \in Clock
    BY DEF Typed, Held, Registration
  <2> QED BY <1>1, <2>1, CoveredIsPast
<1>4. \A p, s \in Nodes : \A i \in 1..Len(wire'[p][s]) :
         Past(wire'[p][s][i].registration.vectorClock, localClock')
  <2> SUFFICES ASSUME NEW p \in Nodes, NEW s \in Nodes, NEW i \in 1..Len(wire'[p][s]),
                      NEW j \in 1..Len(wire[p][s]), wire'[p][s][i] = wire[p][s][j]
               PROVE  Past(wire[p][s][j].registration.vectorClock, localClock')
    OBVIOUS
  <2>1. wire[p][s][j].registration.vectorClock \in Clock
    BY CarriesClock DEF ClockInv
  <2>2. Past(wire[p][s][j].registration.vectorClock, localClock)
    BY DEF ClockInv, NoFutureTicks
  <2> QED BY <1>1, <2>1, <2>2, PastStays
<1> QED BY <1>2, <1>3, <1>4 DEF ClockInv, NoFutureTicks

\* One tick of a node's own clock keeps every clock in the past.
LEMMA TickIsPast ==
    ASSUME NEW f \in [Nodes -> Clock], NEW n \in Nodes,
           \A m \in Nodes : Past(f[m], f),
           NEW g, g = [f EXCEPT ![n] = increment(f[n], n)]
    PROVE  /\ g \in [Nodes -> Clock]
           /\ \A m \in Nodes : Covers(g[m], f[m]) /\ Past(g[m], g)
<1>1. f[n] \in Clock /\ increment(f[n], n) \in Clock
  BY IncrementCovers
<1>2. g \in [Nodes -> Clock] /\ g[n] = increment(f[n], n)
      /\ \A m \in Nodes \ {n} : g[m] = f[m]
  BY <1>1
<1>3. \A m, k \in Nodes : f[m][k] \in Nat /\ f[m][k] <= f[k][k]
  BY DEF Clock, Past
<1>4. g[n][n] = f[n][n] + 1 /\ \A k \in Nodes \ {n} : g[n][k] = f[n][k]
  BY <1>1, <1>2, IncrementCovers
<1>5. ASSUME NEW m \in Nodes, NEW k \in Nodes
      PROVE  f[m][k] <= g[m][k] /\ g[m][k] <= g[k][k]
  <2>1. CASE m = n /\ k = n
    BY <2>1, <1>3, <1>4
  <2>2. CASE m = n /\ k # n
    BY <2>2, <1>2, <1>3, <1>4
  <2>3. CASE m # n /\ k = n
    BY <2>3, <1>2, <1>3, <1>4
  <2>4. CASE m # n /\ k # n
    BY <2>4, <1>2, <1>3
  <2> QED BY <2>1, <2>2, <2>3, <2>4
<1>6. \A m \in Nodes : Covers(g[m], f[m]) /\ Past(g[m], g)
  BY <1>5 DEF Covers, Past
<1> QED BY <1>2, <1>6

\* Merging a clock of the past keeps every clock in the past.
LEMMA MergeIsPast ==
    ASSUME NEW f \in [Nodes -> Clock], NEW n \in Nodes, NEW c \in Clock,
           \A m \in Nodes : Past(f[m], f), Past(c, f),
           NEW g, g = [f EXCEPT ![n] = merge(f[n], c)]
    PROVE  /\ g \in [Nodes -> Clock]
           /\ g[n] = merge(f[n], c)
           /\ \A m \in Nodes : Covers(g[m], f[m]) /\ Past(g[m], g)
<1>1. f[n] \in Clock /\ merge(f[n], c) \in Clock
  BY MergeIsLeastUpperBound
<1>2. g \in [Nodes -> Clock] /\ g[n] = merge(f[n], c)
      /\ \A m \in Nodes \ {n} : g[m] = f[m]
  BY <1>1
<1>3. \A m, k \in Nodes : f[m][k] \in Nat /\ f[m][k] <= f[k][k]
                         /\ c[k] \in Nat /\ c[k] <= f[k][k]
  BY DEF Clock, Past
<1>4. \A k \in Nodes : \/ g[n][k] = f[n][k] /\ c[k] <= f[n][k]
                       \/ g[n][k] = c[k] /\ f[n][k] <= c[k]
  BY <1>2, <1>3 DEF merge, Larger
<1>5. \A k \in Nodes : g[k][k] = f[k][k]
  <2> SUFFICES ASSUME NEW k \in Nodes PROVE g[k][k] = f[k][k]
    OBVIOUS
  <2>1. CASE k = n
    <3>1. f[n][n] \in Nat /\ c[n] \in Nat /\ c[n] <= f[n][n]
      BY <1>3
    <3> QED BY <1>4, <2>1, <3>1
  <2>2. CASE k # n
    BY <1>2, <2>2
  <2> QED BY <2>1, <2>2
<1>6. ASSUME NEW m \in Nodes, NEW k \in Nodes
      PROVE  f[m][k] <= g[m][k] /\ g[m][k] <= g[k][k]
  <2>1. CASE m = n
    BY <2>1, <1>3, <1>4, <1>5
  <2>2. CASE m # n
    BY <2>2, <1>2, <1>3, <1>5
  <2> QED BY <2>1, <2>2
<1>7. \A m \in Nodes : Covers(g[m], f[m]) /\ Past(g[m], g)
  BY <1>6 DEF Covers, Past
<1> QED BY <1>2, <1>7

\* After a publication, an update on the wire was there before or is one of
\* the published.
LEMMA WireAfterPublish ==
    ASSUME Typed, NEW n \in Nodes, NEW us \in Seq(Update),
           NEW p \in Nodes, NEW s \in Nodes,
           NEW i \in 1..Len(Published(n, us)[p][s])
    PROVE  \/ \E j \in 1..Len(wire[p][s]) : Published(n, us)[p][s][i] = wire[p][s][j]
           \/ \E j \in 1..Len(us) : Published(n, us)[p][s][i] = us[j]
<1>1. wire[p][s] \in Seq(Update)
  BY DEF Typed
<1>2. CASE Published(n, us)[p][s] = wire[p][s]
  BY <1>2
<1>3. CASE Published(n, us)[p][s] = wire[p][s] \o us
  <2>1. i \in 1..(Len(wire[p][s]) + Len(us))
    BY <1>1, <1>3
  <2>2. CASE i <= Len(wire[p][s])
    <3>1. i \in 1..Len(wire[p][s]) /\ (wire[p][s] \o us)[i] = wire[p][s][i]
      BY <1>1, <2>1, <2>2
    <3> QED BY <1>3, <3>1
  <2>3. CASE i > Len(wire[p][s])
    <3>1. /\ i - Len(wire[p][s]) \in 1..Len(us)
          /\ (wire[p][s] \o us)[i] = us[i - Len(wire[p][s])]
      BY <1>1, <2>1, <2>3
    <3> QED BY <1>3, <3>1
  <2> QED BY <1>1, <2>1, <2>2, <2>3
<1>4. \/ Published(n, us)[p][s] = wire[p][s]
      \/ Published(n, us)[p][s] = wire[p][s] \o us
  BY DEF Published, Typed
<1> QED BY <1>2, <1>3, <1>4

\* register preserves ClockInv.
LEMMA StepRegister ==
    ASSUME ClockInv, NEW n \in Nodes, NEW a \in Names, NEW generation \in Generations,
           register(n, a, generation)
    PROVE  ClockInv'
<1> DEFINE clock == increment(localClock[n], n)
           reg   == [node |-> n, generation |-> generation, vectorClock |-> clock]
           us    == <<[type |-> "register", name |-> a, registration |-> reg]>>
<1>1. /\ localClock' = [localClock EXCEPT ![n] = clock]
      /\ registrations' = [registrations EXCEPT ![n][a] = reg]
      /\ wire' = Published(n, us)
  BY DEF register
<1>2. Typed /\ localClock \in [Nodes -> Clock] /\ localClock[n] \in Clock /\ clock \in Clock
  BY IncrementCovers DEF ClockInv, Typed
<1>3. reg \in Registration /\ us \in Seq(Update) /\ Len(us) = 1
      /\ us[1].registration.vectorClock = clock /\ reg.vectorClock = clock
  BY <1>2 DEF Registration, Update
<1> HIDE DEF reg, us
<1>4. /\ localClock' \in [Nodes -> Clock]
      /\ \A m \in Nodes : Covers(localClock'[m], localClock[m]) /\ Past(localClock'[m], localClock')
  BY <1>1, <1>2, TickIsPast DEF ClockInv, NoFutureTicks
<1>5. Typed'
  BY <1>1, <1>2, <1>3, <1>4, PublishedType DEF Typed
<1>6. localClock'[n] = clock /\ Past(clock, localClock')
  <2>1. localClock'[n] = clock
    BY <1>1, <1>2
  <2> QED BY <1>4, <2>1
<1>7. ASSUME NEW m \in Nodes, NEW b \in Held(m)'
      PROVE  Covers(localClock'[m], registrations'[m][b].vectorClock)
  <2>1. CASE m = n /\ b = a
    <3>1. registrations'[m][b] = reg
      BY <1>1, <1>2, <2>1 DEF Typed
    <3>2. Covers(clock, clock)
      BY <1>2 DEF Covers, Clock
    <3> QED BY <1>3, <1>6, <2>1, <3>1, <3>2
  <2>2. CASE ~(m = n /\ b = a)
    <3>1. b \in Names /\ registrations'[m][b] = registrations[m][b] /\ b \in Held(m)
      BY <1>1, <1>2, <2>2 DEF Typed, Held
    <3>2. Covers(localClock[m], registrations[m][b].vectorClock)
      BY <3>1 DEF ClockInv, HeldAreCovered
    <3>3. localClock[m] \in Clock /\ localClock'[m] \in Clock
          /\ registrations[m][b].vectorClock \in Clock
      BY <1>2, <1>4, <3>1, CarriesClock
    <3> QED BY <1>4, <3>1, <3>2, <3>3, CoversTransitive
  <2> QED BY <2>1, <2>2
<1>8. ASSUME NEW p \in Nodes, NEW s \in Nodes, NEW i \in 1..Len(wire'[p][s])
      PROVE  \/ \E j \in 1..Len(wire[p][s]) : wire'[p][s][i] = wire[p][s][j]
             \/ Past(wire'[p][s][i].registration.vectorClock, localClock')
  <2>1. \/ \E j \in 1..Len(wire[p][s]) : wire'[p][s][i] = wire[p][s][j]
        \/ \E j \in 1..Len(us) : wire'[p][s][i] = us[j]
    BY <1>1, <1>2, <1>3, WireAfterPublish, SMTT(60)
  <2> QED BY <1>3, <1>6, <2>1
<1> QED BY <1>4, <1>5, <1>7, <1>8, ClocksOfStep

\* unregister preserves ClockInv.
LEMMA StepUnregister ==
    ASSUME ClockInv, NEW n \in Nodes, NEW a \in Names, unregister(n, a)
    PROVE  ClockInv'
<1> DEFINE existing == registrations[n][a]
           clock    == increment(localClock[n], n)
           reg      == [existing EXCEPT !.vectorClock = clock]
           us       == <<[type |-> "unregister", name |-> a, registration |-> reg]>>
<1>1. CASE UNCHANGED <<localClock, registrations, wire>>
  BY <1>1 DEF ClockInv, Typed, NoFutureTicks, HeldAreCovered, Held, Past
<1>2. CASE ~UNCHANGED <<localClock, registrations, wire>>
  <2>1. /\ existing # None
        /\ localClock' = [localClock EXCEPT ![n] = clock]
        /\ registrations' = [registrations EXCEPT ![n][a] = None]
        /\ wire' = Published(n, us)
    BY <1>2 DEF unregister
  <2>2. Typed /\ localClock \in [Nodes -> Clock] /\ localClock[n] \in Clock /\ clock \in Clock
    BY IncrementCovers DEF ClockInv, Typed
  <2>3. existing \in Registration
    BY <2>1, <2>2 DEF Typed
  <2>4. reg \in Registration /\ reg.vectorClock = clock
    BY <2>2, <2>3 DEF Registration
  <2> HIDE DEF reg
  <2>5. us \in Seq(Update) /\ Len(us) = 1 /\ us[1].registration.vectorClock = clock
    BY <2>4 DEF Update
  <2> HIDE DEF us
  <2>6. /\ localClock' \in [Nodes -> Clock]
        /\ \A m \in Nodes : Covers(localClock'[m], localClock[m])
                           /\ Past(localClock'[m], localClock')
    BY <2>1, <2>2, TickIsPast DEF ClockInv, NoFutureTicks
  <2>7. Typed'
    BY <2>1, <2>2, <2>5, <2>6, PublishedType DEF Typed
  <2>8. Past(clock, localClock')
    <3>1. localClock'[n] = clock
      BY <2>1, <2>2
    <3> QED BY <2>6, <3>1
  <2>9. ASSUME NEW m \in Nodes, NEW b \in Held(m)'
        PROVE  Covers(localClock'[m], registrations'[m][b].vectorClock)
    <3>1. b \in Names /\ registrations'[m][b] = registrations[m][b] /\ b \in Held(m)
      BY <2>1, <2>2 DEF Typed, Held
    <3>2. Covers(localClock[m], registrations[m][b].vectorClock)
      BY <3>1 DEF ClockInv, HeldAreCovered
    <3>3. localClock[m] \in Clock /\ localClock'[m] \in Clock
          /\ registrations[m][b].vectorClock \in Clock
      BY <2>2, <2>6, <3>1, CarriesClock
    <3> QED BY <2>6, <3>1, <3>2, <3>3, CoversTransitive
  <2>10. ASSUME NEW p \in Nodes, NEW s \in Nodes, NEW i \in 1..Len(wire'[p][s])
         PROVE  \/ \E j \in 1..Len(wire[p][s]) : wire'[p][s][i] = wire[p][s][j]
                \/ Past(wire'[p][s][i].registration.vectorClock, localClock')
    <3>1. \/ \E j \in 1..Len(wire[p][s]) : wire'[p][s][i] = wire[p][s][j]
          \/ \E j \in 1..Len(us) : wire'[p][s][i] = us[j]
      BY <2>1, <2>2, <2>5, WireAfterPublish, SMTT(60)
    <3> QED BY <2>5, <2>8, <3>1
  <2> QED BY <2>6, <2>7, <2>9, <2>10, ClocksOfStep
<1> QED BY <1>1, <1>2

\* A delivery takes the first update off one wire.
LEMMA DeliveryFacts ==
    ASSUME Typed, NEW p \in Nodes, NEW s \in Nodes, Delivery(p, s)
    PROVE  /\ Head(wire[p][s]) \in Update /\ Head(wire[p][s]) = wire[p][s][1]
           /\ 1 \in 1..Len(wire[p][s])
           /\ wire' \in [Nodes -> [Nodes -> Seq(Update)]]
           /\ \A q, r \in Nodes : \A i \in 1..Len(wire'[q][r]) :
                 \E j \in 1..Len(wire[q][r]) : wire'[q][r][i] = wire[q][r][j]
<1>1. wire[p][s] \in Seq(Update) /\ wire[p][s] # <<>>
  BY DEF Typed, Delivery
<1>2. /\ Head(wire[p][s]) \in Update /\ Head(wire[p][s]) = wire[p][s][1]
      /\ 1 \in 1..Len(wire[p][s])
      /\ Tail(wire[p][s]) \in Seq(Update)
      /\ Len(Tail(wire[p][s])) = Len(wire[p][s]) - 1
      /\ \A i \in 1..Len(Tail(wire[p][s])) : Tail(wire[p][s])[i] = wire[p][s][i + 1]
  BY <1>1
<1>3. wire' = [wire EXCEPT ![p][s] = Tail(wire[p][s])]
  BY DEF Delivery, Typed
<1>4. wire' \in [Nodes -> [Nodes -> Seq(Update)]]
  BY <1>2, <1>3 DEF Typed
<1>5. ASSUME NEW q \in Nodes, NEW r \in Nodes, NEW i \in 1..Len(wire'[q][r])
      PROVE  \E j \in 1..Len(wire[q][r]) : wire'[q][r][i] = wire[q][r][j]
  <2>1. CASE q = p /\ r = s
    <3>1. wire'[q][r] = Tail(wire[p][s])
      BY <1>3, <2>1 DEF Typed
    <3>2. Len(wire[p][s]) \in Nat
      BY <1>1
    <3>3. i + 1 \in 1..Len(wire[p][s]) /\ wire'[q][r][i] = wire[p][s][i + 1]
      BY <1>2, <3>1, <3>2
    <3> QED BY <2>1, <3>3
  <2>2. CASE ~(q = p /\ r = s)
    <3>1. wire'[q][r] = wire[q][r]
      BY <1>3, <2>2 DEF Typed
    <3> QED BY <3>1
  <2> QED BY <2>1, <2>2
<1> QED BY <1>2, <1>4, <1>5

\* handleRegistryUpdate preserves ClockInv.
LEMMA StepUpdate ==
    ASSUME ClockInv, NEW p \in Nodes, NEW s \in Nodes, handleRegistryUpdate(p, s)
    PROVE  ClockInv'
<1> DEFINE update == Head(wire[p][s])
           a      == update.name
           c      == update.registration.vectorClock
<1>1. Typed /\ Delivery(p, s) /\ localClock \in [Nodes -> Clock]
      /\ \A m \in Nodes : Past(localClock[m], localClock)
  BY DEF ClockInv, Typed, NoFutureTicks, handleRegistryUpdate
<1>2. update \in Update /\ Past(c, localClock)
  BY <1>1, DeliveryFacts DEF ClockInv, NoFutureTicks
<1>3. a \in Names /\ update.registration \in Registration /\ c \in Clock
  BY <1>2 DEF Update, Registration
<1>4. CASE UNCHANGED <<registrations, localClock>>
  <2>1. Typed'
    BY <1>1, <1>4, DeliveryFacts DEF Typed
  <2>2. \A m \in Nodes : Covers(localClock'[m], localClock[m])
    BY <1>1, <1>4 DEF Covers, Clock
  <2>3. \A m \in Nodes : Past(localClock'[m], localClock')
    BY <1>1, <1>4
  <2>4. \A m \in Nodes : \A b \in Held(m)' :
           Covers(localClock'[m], registrations'[m][b].vectorClock)
    BY <1>4 DEF ClockInv, HeldAreCovered, Held
  <2>5. \A q, r \in Nodes : \A i \in 1..Len(wire'[q][r]) :
           \E j \in 1..Len(wire[q][r]) : wire'[q][r][i] = wire[q][r][j]
    BY <1>1, DeliveryFacts
  <2>6. \A q, r \in Nodes : \A i \in 1..Len(wire'[q][r]) :
           \/ \E j \in 1..Len(wire[q][r]) : wire'[q][r][i] = wire[q][r][j]
           \/ Past(wire'[q][r][i].registration.vectorClock, localClock')
    BY <2>5
  <2> QED BY <2>1, <2>2, <2>3, <2>4, <2>6, ClocksOfStep, Zenon
<1>5. CASE ~UNCHANGED <<registrations, localClock>>
  <2> DEFINE new == IF update.type = "register" THEN update.registration ELSE None
  <2>1. /\ registrations' = [registrations EXCEPT ![s][a] = new]
        /\ localClock' = [localClock EXCEPT ![s] = merge(localClock[s], c)]
    BY <1>1, <1>5 DEF handleRegistryUpdate, Typed
  <2>2. new \in Registration \union {None}
        /\ (new # None => new.vectorClock = c)
    BY <1>3
  <2> HIDE DEF new, a, c, update
  <2>3. /\ localClock' \in [Nodes -> Clock]
        /\ localClock'[s] = merge(localClock[s], c)
        /\ \A m \in Nodes : Covers(localClock'[m], localClock[m])
                           /\ Past(localClock'[m], localClock')
    BY <1>1, <1>2, <1>3, <2>1, MergeIsPast
  <2>4. Typed'
    BY <1>1, <1>3, <2>1, <2>2, <2>3, DeliveryFacts DEF Typed
  <2>5. ASSUME NEW m \in Nodes, NEW b \in Held(m)'
        PROVE  Covers(localClock'[m], registrations'[m][b].vectorClock)
    <3>1. CASE m = s /\ b = a
      <4>1. registrations'[m][b] = new /\ new # None
        BY <1>1, <1>3, <2>1, <3>1 DEF Typed, Held
      <4>2. Covers(merge(localClock[s], c), c)
        BY <1>1, <1>3, MergeIsLeastUpperBound
      <4> QED BY <2>2, <2>3, <3>1, <4>1, <4>2
    <3>2. CASE ~(m = s /\ b = a)
      <4>1. b \in Names /\ registrations'[m][b] = registrations[m][b] /\ b \in Held(m)
        BY <1>1, <1>3, <2>1, <3>2 DEF Typed, Held
      <4>2. Covers(localClock[m], registrations[m][b].vectorClock)
        BY <4>1 DEF ClockInv, HeldAreCovered
      <4>3. localClock[m] \in Clock /\ localClock'[m] \in Clock
            /\ registrations[m][b].vectorClock \in Clock
        BY <1>1, <2>3, <4>1, CarriesClock
      <4> QED BY <2>3, <4>1, <4>2, <4>3, CoversTransitive
    <3> QED BY <3>1, <3>2
  <2>6. \A q, r \in Nodes : \A i \in 1..Len(wire'[q][r]) :
           \E j \in 1..Len(wire[q][r]) : wire'[q][r][i] = wire[q][r][j]
    BY <1>1, DeliveryFacts
  <2> QED BY <2>3, <2>4, <2>5, <2>6, ClocksOfStep
<1> QED BY <1>4, <1>5

\* Publishing again what is in the past preserves ClockInv.
LEMMA StepRepublish ==
    ASSUME ClockInv, NEW n \in Nodes, NEW us \in Seq(Update),
           \A i \in 1..Len(us) : Past(us[i].registration.vectorClock, localClock),
           wire' = Published(n, us), UNCHANGED <<localClock, registrations>>
    PROVE  ClockInv'
<1>1. Typed /\ localClock \in [Nodes -> Clock]
      /\ \A m \in Nodes : Past(localClock[m], localClock)
  BY DEF ClockInv, Typed, NoFutureTicks
<1>2. Typed'
  BY <1>1, PublishedType DEF Typed
<1>3. \A m \in Nodes : Covers(localClock'[m], localClock[m]) /\ Past(localClock'[m], localClock')
  BY <1>1 DEF Covers, Clock
<1>4. \A m \in Nodes : \A b \in Held(m)' :
         Covers(localClock'[m], registrations'[m][b].vectorClock)
  BY DEF ClockInv, HeldAreCovered, Held
<1>5. ASSUME NEW p \in Nodes, NEW s \in Nodes, NEW i \in 1..Len(wire'[p][s])
      PROVE  \/ \E j \in 1..Len(wire[p][s]) : wire'[p][s][i] = wire[p][s][j]
             \/ Past(wire'[p][s][i].registration.vectorClock, localClock')
  <2>1. \/ \E j \in 1..Len(wire[p][s]) : wire'[p][s][i] = wire[p][s][j]
        \/ \E j \in 1..Len(us) : wire'[p][s][i] = us[j]
    <3>1. i \in 1..Len(Published(n, us)[p][s])
      OBVIOUS
    <3>2. \/ \E j \in 1..Len(wire[p][s]) : Published(n, us)[p][s][i] = wire[p][s][j]
          \/ \E j \in 1..Len(us) : Published(n, us)[p][s][i] = us[j]
      BY <1>1, <3>1, WireAfterPublish, ZenonT(60)
    <3> QED BY <3>2
  <2> QED BY <2>1
<1> QED BY <1>2, <1>3, <1>4, <1>5, ClocksOfStep

\* Lose, republishAll and handlePeerLeave preserve ClockInv: no clock changes.
LEMMA StepOther ==
    ASSUME ClockInv,
           \/ \E p, s \in Nodes : Lose(p, s)
           \/ \E n \in Nodes : republishAll(n)
           \/ \E n, p \in Nodes : handlePeerLeave(n, p)
    PROVE  ClockInv'
<1>1. Typed /\ localClock \in [Nodes -> Clock]
      /\ \A m \in Nodes : Past(localClock[m], localClock)
  BY DEF ClockInv, Typed, NoFutureTicks
<1>2. localClock' = localClock
  BY DEF Lose, republishAll, handlePeerLeave
<1>3. \A m \in Nodes : Covers(localClock'[m], localClock[m])
  BY <1>1, <1>2 DEF Covers, Clock
<1>4. \A m \in Nodes : Past(localClock'[m], localClock')
  BY <1>1, <1>2
<1>5. ASSUME NEW p \in Nodes, NEW s \in Nodes, Lose(p, s) PROVE ClockInv'
  <2>1. Delivery(p, s) /\ registrations' = registrations
    BY <1>5 DEF Lose
  <2>2. Typed'
    BY <1>1, <1>2, <2>1, DeliveryFacts DEF Typed
  <2>3. \A m \in Nodes : \A b \in Held(m)' :
           Covers(localClock'[m], registrations'[m][b].vectorClock)
    BY <1>2, <2>1 DEF ClockInv, HeldAreCovered, Held
  <2>4. \A q, r \in Nodes : \A i \in 1..Len(wire'[q][r]) :
           \E j \in 1..Len(wire[q][r]) : wire'[q][r][i] = wire[q][r][j]
    BY <1>1, <2>1, DeliveryFacts
  <2>5. \A q, r \in Nodes : \A i \in 1..Len(wire'[q][r]) :
           \/ \E j \in 1..Len(wire[q][r]) : wire'[q][r][i] = wire[q][r][j]
           \/ Past(wire'[q][r][i].registration.vectorClock, localClock')
    BY <2>4
  <2> QED BY <1>3, <1>4, <2>2, <2>3, <2>5, ClocksOfStep, Zenon
<1>6. ASSUME NEW n \in Nodes, republishAll(n) PROVE ClockInv'
  <2>1. PICK order \in Bijection(1..Cardinality(Held(n)), Held(n)) :
           wire' = Published(n, [i \in DOMAIN order |->
                      [type |-> "register", name |-> order[i],
                       registration |-> registrations[n][order[i]]]])
    BY <1>6 DEF republishAll
  <2> DEFINE us == [i \in DOMAIN order |->
                      [type |-> "register", name |-> order[i],
                       registration |-> registrations[n][order[i]]]]
  <2>2. us \in Seq(Update)
    BY <1>1, RepublishedType
  <2>3. ASSUME NEW i \in 1..Len(us) PROVE Past(us[i].registration.vectorClock, localClock)
    <3>1. DOMAIN us = 1..Len(us)
      BY <2>2
    <3>2. order[i] \in Held(n)
      BY <3>1 DEF Bijection, Injection
    <3> QED BY <3>1, <3>2 DEF ClockInv, NoFutureTicks
  <2>4. wire' = Published(n, us) /\ registrations' = registrations
    BY <1>6, <2>1 DEF republishAll
  <2> HIDE DEF us
  <2> QED BY <1>2, <2>2, <2>3, <2>4, StepRepublish
<1>7. ASSUME NEW n \in Nodes, NEW p \in Nodes, handlePeerLeave(n, p) PROVE ClockInv'
  <2>1. /\ wire' = wire
        /\ registrations' = [registrations EXCEPT ![n] = [a \in Names |->
               IF a \in Held(n) /\ registrations[n][a].node = p
               THEN None ELSE registrations[n][a]]]
    BY <1>1, <1>7 DEF handlePeerLeave, Typed
  <2>2. Typed'
    BY <1>1, <1>2, <2>1 DEF Typed
  <2>3. ASSUME NEW m \in Nodes, NEW b \in Held(m)'
        PROVE  Covers(localClock'[m], registrations'[m][b].vectorClock)
    <3>1. b \in Held(m) /\ registrations'[m][b] = registrations[m][b]
      BY <1>1, <2>1 DEF Typed, Held
    <3> QED BY <1>2, <3>1 DEF ClockInv, HeldAreCovered
  <2>4. \A q, r \in Nodes : \A i \in 1..Len(wire'[q][r]) :
           \E j \in 1..Len(wire[q][r]) : wire'[q][r][i] = wire[q][r][j]
    BY <2>1
  <2>5. \A q, r \in Nodes : \A i \in 1..Len(wire'[q][r]) :
           \/ \E j \in 1..Len(wire[q][r]) : wire'[q][r][i] = wire[q][r][j]
           \/ Past(wire'[q][r][i].registration.vectorClock, localClock')
    BY <2>4
  <2> QED BY <1>3, <1>4, <2>2, <2>3, <2>5, ClocksOfStep, Zenon
<1> QED BY <1>5, <1>6, <1>7

\* Every step preserves ClockInv.
LEMMA StepClock == ClockInv /\ [Next]_vars => ClockInv'
<1> SUFFICES ASSUME ClockInv, [Next]_vars PROVE ClockInv'
  OBVIOUS
<1>1. CASE UNCHANGED vars
  BY <1>1 DEF vars, ClockInv, Typed, NoFutureTicks, HeldAreCovered, Held
<1>2. CASE Next
  BY <1>2, StepRegister, StepUnregister, StepUpdate, StepOther DEF Next
<1> QED BY <1>1, <1>2

\* No clock in the cluster, known, held or under way, is ahead of the node it
\* counts, however updates are lost, republished, delayed or contested.
THEOREM ClocksStayInThePast == Spec => []NoFutureTicks
<1>1. ClockInv => NoFutureTicks
  BY DEF ClockInv
<1> QED BY InitClock, StepClock, <1>1, PTL DEF Spec

\* A node's clock always covers the registrations it holds; with
\* OwnUpdateIsAfter, its own registrations and withdrawals win over them.
THEOREM ClockCoversHeld == Spec => []HeldAreCovered
<1>1. ClockInv => HeldAreCovered
  BY DEF ClockInv
<1> QED BY InitClock, StepClock, <1>1, PTL DEF Spec

----------------------------------------------------------------------------
(* Names that one node hosts.  What it publishes of them arrives in order, *)
(* each update with a clock after that of the one before, so that all of   *)
(* them apply; the last one says what the node itself holds.               *)

Later(c, d, n) == Covers(c, d) /\ d[n] < c[n]

Clk(u) == u.registration.vectorClock

\* What is held once an update has been applied.
Result(u) == IF u.type = "register" THEN u.registration ELSE None

\* What u brings to a node that holds old of a ends with now.
Follows(u, old, now, a, n) ==
    /\ \A i \in 1..Len(u) : u[i].name = a =>
          /\ old # None => Later(Clk(u[i]), old.vectorClock, n)
          /\ \A j \in 1..Len(u) : j < i /\ u[j].name = a => Later(Clk(u[i]), Clk(u[j]), n)
          /\ (\A j \in 1..Len(u) : i < j => u[j].name # a) => now = Result(u[i])
    /\ (\A i \in 1..Len(u) : u[i].name # a) => now = old

\* Whoever knows a name that only n hosts has it from n, directly or not, and
\* only n withdraws it, from others.
FromHome(n, a) ==
    /\ \A m \in Nodes : a \in hosted[m] => m = n /\ a \in Held(n)
    /\ \A m \in Nodes : a \in Held(m) => registrations[m][a].node = n
    /\ \A p, s \in Nodes : \A i \in 1..Len(wire[p][s]) : wire[p][s][i].name = a =>
          /\ wire[p][s][i].registration.node = n
          /\ wire[p][s][i].type = "unregister" => p = n /\ s # n

InStep(n, a) ==
    /\ a \in Held(n) => a \in hosted[n]
    /\ \A p, s \in Nodes : \A i \in 1..Len(wire[p][s]) : wire[p][s][i].name = a =>
          p = n /\ s # n /\ Covers(localClock[n], Clk(wire[p][s][i]))
    /\ \A s \in Nodes : a \in Held(s) => Covers(localClock[n], registrations[s][a].vectorClock)
    /\ \A s \in Nodes \ {n} : Follows(wire[n][s], registrations[s][a], registrations[n][a], a, n)

HostedTyped ==
    /\ hosted \in [Nodes -> SUBSET Names]
    /\ {republished, lost, leaves} \subseteq Nat

OwnNamesInv ==
    \A n \in Nodes, a \in Names : Homes[a] = {n} =>
        FromHome(n, a) /\ (Undisturbed => InStep(n, a))

\* A later clock compares as "after".
LEMMA LaterIsAfter ==
    ASSUME NEW c \in Clock, NEW d \in Clock, NEW n \in Nodes, Later(c, d, n)
    PROVE  compare(c, d) = "after"
<1>1. \A m \in Nodes : c[m] \in Nat /\ d[m] \in Nat /\ d[m] <= c[m]
  BY DEF Later, Covers, Clock
<1>2. d[n] < c[n]
  BY DEF Later
<1>3. ~\E m \in Nodes : c[m] < d[m]
  BY <1>1
<1>4. c[n] > d[n]
  BY <1>1, <1>2
<1> QED BY <1>3, <1>4 DEF compare

\* The next tick of a node is later than all its clock covers.
LEMMA NextTickIsLater ==
    ASSUME NEW c \in Clock, NEW d \in Clock, NEW n \in Nodes, Covers(c, d)
    PROVE  Later(increment(c, n), d, n)
<1>1. increment(c, n) \in Clock /\ Covers(increment(c, n), c)
      /\ increment(c, n)[n] = c[n] + 1
  BY IncrementCovers
<1>2. Covers(increment(c, n), d)
  BY <1>1, CoversTransitive
<1>3. c[n] \in Nat /\ d[n] \in Nat /\ d[n] <= c[n]
  BY DEF Covers, Clock
<1> QED BY <1>1, <1>2, <1>3 DEF Later

\* One more update about the name, later than all before, settles it.
LEMMA FollowsAppend ==
    ASSUME NEW u \in Seq(Update), NEW e \in Update, NEW a \in Names, NEW n \in Nodes,
           NEW old, NEW now, Follows(u, old, now, a, n), e.name = a,
           old # None => Later(Clk(e), old.vectorClock, n),
           \A i \in 1..Len(u) : u[i].name = a => Later(Clk(e), Clk(u[i]), n)
    PROVE  Follows(u \o <<e>>, old, Result(e), a, n)
<1> DEFINE v == u \o <<e>>
<1>1. /\ Len(u) \in Nat /\ Len(v) = Len(u) + 1
      /\ \A i \in 1..Len(u) : v[i] = u[i]
      /\ v[Len(u) + 1] = e
  OBVIOUS
<1> HIDE DEF v
<1>2. \A i \in 1..Len(v) : i \in 1..Len(u) \/ i = Len(u) + 1
  BY <1>1
<1>3. Len(u) + 1 \in 1..Len(v)
  BY <1>1
<1>4. ASSUME NEW i \in 1..Len(v), v[i].name = a
      PROVE  /\ old # None => Later(Clk(v[i]), old.vectorClock, n)
             /\ \A j \in 1..Len(v) : j < i /\ v[j].name = a => Later(Clk(v[i]), Clk(v[j]), n)
             /\ (\A j \in 1..Len(v) : i < j => v[j].name # a) => Result(e) = Result(v[i])
  <2>1. CASE i \in 1..Len(u)
    <3>1. v[i] = u[i] /\ u[i].name = a /\ i < Len(u) + 1
      BY <1>1, <1>4, <2>1
    <3>2. old # None => Later(Clk(v[i]), old.vectorClock, n)
      BY <2>1, <3>1 DEF Follows
    <3>3. ASSUME NEW j \in 1..Len(v), j < i, v[j].name = a PROVE Later(Clk(v[i]), Clk(v[j]), n)
      <4>1. j \in 1..Len(u) /\ v[j] = u[j]
        BY <1>1, <2>1, <3>3
      <4> QED BY <2>1, <3>1, <3>3, <4>1 DEF Follows
    <3>4. ~\A j \in 1..Len(v) : i < j => v[j].name # a
      BY <1>1, <1>3, <3>1
    <3> QED BY <3>2, <3>3, <3>4
  <2>2. CASE i = Len(u) + 1
    <3>1. v[i] = e
      BY <1>1, <2>2
    <3>2. ASSUME NEW j \in 1..Len(v), j < i, v[j].name = a PROVE Later(Clk(v[i]), Clk(v[j]), n)
      <4>1. j \in 1..Len(u) /\ v[j] = u[j]
        BY <1>1, <2>2, <3>2
      <4> QED BY <3>1, <3>2, <4>1
    <3> QED BY <3>1, <3>2
  <2> QED BY <1>2, <2>1, <2>2
<1>5. ~\A i \in 1..Len(v) : v[i].name # a
  BY <1>1, <1>3
<1>6. Follows(v, old, Result(e), a, n)
  BY <1>4, <1>5 DEF Follows
<1> QED BY <1>6 DEF v

\* An update about another name changes nothing.
LEMMA FollowsOther ==
    ASSUME NEW u \in Seq(Update), NEW e \in Update, NEW a \in Names, NEW n \in Nodes,
           NEW old, NEW now, Follows(u, old, now, a, n), e.name # a
    PROVE  Follows(u \o <<e>>, old, now, a, n)
<1> DEFINE v == u \o <<e>>
<1>1. /\ Len(u) \in Nat /\ Len(v) = Len(u) + 1
      /\ \A i \in 1..Len(u) : v[i] = u[i]
      /\ v[Len(u) + 1] = e
  OBVIOUS
<1> HIDE DEF v
<1>2. \A i \in 1..Len(v) : v[i].name = a => i \in 1..Len(u) /\ v[i] = u[i]
  <2> SUFFICES ASSUME NEW i \in 1..Len(v), v[i].name = a
               PROVE  i \in 1..Len(u) /\ v[i] = u[i]
    OBVIOUS
  <2>1. i # Len(u) + 1
    BY <1>1
  <2> QED BY <1>1, <2>1
<1>3. \A i \in 1..Len(u) : i \in 1..Len(v)
  BY <1>1
<1>4. ASSUME NEW i \in 1..Len(v), v[i].name = a
      PROVE  /\ old # None => Later(Clk(v[i]), old.vectorClock, n)
             /\ \A j \in 1..Len(v) : j < i /\ v[j].name = a => Later(Clk(v[i]), Clk(v[j]), n)
             /\ (\A j \in 1..Len(v) : i < j => v[j].name # a) => now = Result(v[i])
  <2>1. i \in 1..Len(u) /\ v[i] = u[i] /\ u[i].name = a
    BY <1>2, <1>4
  <2>2. (\A j \in 1..Len(v) : i < j => v[j].name # a)
        => \A j \in 1..Len(u) : i < j => u[j].name # a
    BY <1>1, <1>3
  <2> QED BY <1>2, <2>1, <2>2 DEF Follows
<1>5. (\A i \in 1..Len(v) : v[i].name # a) => now = old
  <2>1. (\A i \in 1..Len(v) : v[i].name # a) => \A i \in 1..Len(u) : u[i].name # a
    BY <1>1, <1>3
  <2> QED BY <2>1 DEF Follows
<1>6. Follows(v, old, now, a, n)
  BY <1>4, <1>5 DEF Follows
<1> QED BY <1>6 DEF v

\* The first update delivered, the rest follows what it leaves behind.
LEMMA FollowsTail ==
    ASSUME NEW u \in Seq(Update), u # <<>>, NEW a \in Names, NEW n \in Nodes,
           NEW old, NEW now, Follows(u, old, now, a, n)
    PROVE  Follows(Tail(u), IF Head(u).name = a THEN Result(Head(u)) ELSE old, now, a, n)
<1> DEFINE v == Tail(u)
           e == Head(u)
           new == IF Head(u).name = a THEN Result(Head(u)) ELSE old
<1>1. /\ Len(u) \in Nat /\ Len(v) = Len(u) - 1 /\ e = u[1] /\ 1 \in 1..Len(u)
      /\ \A i \in 1..Len(v) : v[i] = u[i + 1] /\ i + 1 \in 1..Len(u)
  OBVIOUS
<1>2. (e.name = a => new = Result(e)) /\ (e.name # a => new = old)
  OBVIOUS
<1>3. Result(e) # None => Result(e).vectorClock = Clk(e)
  BY DEF Result, Clk
<1> HIDE DEF v, e, new
<1>4. \A j \in 1..Len(u) : j = 1 \/ (j - 1 \in 1..Len(v) /\ u[j] = v[j - 1])
  BY <1>1
<1>5. ASSUME NEW i \in 1..Len(v), v[i].name = a
      PROVE  /\ new # None => Later(Clk(v[i]), new.vectorClock, n)
             /\ \A j \in 1..Len(v) : j < i /\ v[j].name = a => Later(Clk(v[i]), Clk(v[j]), n)
             /\ (\A j \in 1..Len(v) : i < j => v[j].name # a) => now = Result(v[i])
  <2>1. i + 1 \in 1..Len(u) /\ v[i] = u[i + 1] /\ u[i + 1].name = a /\ 1 < i + 1
    BY <1>1, <1>5
  <2>2. new # None => Later(Clk(v[i]), new.vectorClock, n)
    <3>1. CASE e.name = a
      <4>1. Later(Clk(u[i + 1]), Clk(u[1]), n)
        BY <1>1, <2>1, <3>1 DEF Follows
      <4> QED BY <1>1, <1>2, <1>3, <2>1, <3>1, <4>1
    <3>2. CASE e.name # a
      BY <1>2, <2>1, <3>2 DEF Follows
    <3> QED BY <3>1, <3>2
  <2>3. ASSUME NEW j \in 1..Len(v), j < i, v[j].name = a PROVE Later(Clk(v[i]), Clk(v[j]), n)
    <3>1. j + 1 \in 1..Len(u) /\ v[j] = u[j + 1] /\ j + 1 < i + 1
      BY <1>1, <2>3
    <3> QED BY <2>1, <2>3, <3>1 DEF Follows
  <2>4. ASSUME \A j \in 1..Len(v) : i < j => v[j].name # a PROVE now = Result(v[i])
    <3>1. ASSUME NEW j \in 1..Len(u), i + 1 < j PROVE u[j].name # a
      <4>1. j - 1 \in 1..Len(v) /\ u[j] = v[j - 1] /\ i < j - 1
        BY <1>4, <3>1
      <4> QED BY <2>4, <4>1
    <3> QED BY <2>1, <3>1 DEF Follows
  <2> QED BY <2>2, <2>3, <2>4
<1>6. ASSUME \A i \in 1..Len(v) : v[i].name # a PROVE now = new
  <2>1. \A j \in 1..Len(u) : 1 < j => u[j].name # a
    BY <1>4, <1>6
  <2>2. CASE e.name = a
    BY <1>1, <1>2, <2>1, <2>2 DEF Follows
  <2>3. CASE e.name # a
    <3>1. \A j \in 1..Len(u) : u[j].name # a
      BY <1>1, <1>4, <1>6, <2>3
    <3> QED BY <1>2, <2>3, <3>1 DEF Follows
  <2> QED BY <2>2, <2>3
<1>7. Follows(v, new, now, a, n)
  BY <1>5, <1>6 DEF Follows
<1> QED BY <1>7 DEF v, new

\* A publication is appended to the wires of its publisher to the others.
LEMMA PublishedAt ==
    ASSUME Typed, NEW n \in Nodes, NEW us, NEW p \in Nodes, NEW s \in Nodes
    PROVE  /\ p = n /\ s # n => Published(n, us)[p][s] = wire[p][s] \o us
           /\ ~(p = n /\ s # n) => Published(n, us)[p][s] = wire[p][s]
BY DEF Published, Typed

\* What a publication adds is on the wires of its publisher to the others.
LEMMA WirePlace ==
    ASSUME Typed, NEW n \in Nodes, NEW us \in Seq(Update), wire' = Published(n, us),
           NEW p \in Nodes, NEW s \in Nodes, NEW i \in 1..Len(wire'[p][s])
    PROVE  \/ \E j \in 1..Len(wire[p][s]) : wire'[p][s][i] = wire[p][s][j]
           \/ p = n /\ s # n /\ \E j \in 1..Len(us) : wire'[p][s][i] = us[j]
<1>1. CASE p = n /\ s # n
  <2>1. i \in 1..Len(Published(n, us)[p][s])
    OBVIOUS
  <2>2. \/ \E j \in 1..Len(wire[p][s]) : Published(n, us)[p][s][i] = wire[p][s][j]
        \/ \E j \in 1..Len(us) : Published(n, us)[p][s][i] = us[j]
    BY <2>1, WireAfterPublish, ZenonT(60)
  <2> QED BY <1>1, <2>2
<1>2. CASE ~(p = n /\ s # n)
  <2>1. wire'[p][s] = wire[p][s]
    BY <1>2, PublishedAt
  <2> QED BY <2>1
<1> QED BY <1>1, <1>2

\* The type of hosted and of the counters is kept by every step.
LEMMA StepHostedTyped == HostedTyped /\ [Next]_vars => HostedTyped'
<1> SUFFICES ASSUME HostedTyped, [Next]_vars PROVE HostedTyped'
  OBVIOUS
<1> USE DEF HostedTyped, counters
<1>1. CASE UNCHANGED vars
  BY <1>1 DEF vars
<1>2. ASSUME NEW n \in Nodes, NEW a \in Names, NEW generation \in Generations,
             register(n, a, generation)
      PROVE  HostedTyped'
  BY <1>2 DEF register
<1>3. ASSUME NEW n \in Nodes, NEW a \in Names, unregister(n, a) PROVE HostedTyped'
  BY <1>3 DEF unregister
<1>4. ASSUME NEW p \in Nodes, NEW s \in Nodes, handleRegistryUpdate(p, s) \/ Lose(p, s)
      PROVE  HostedTyped'
  BY <1>4 DEF handleRegistryUpdate, Lose
<1>5. ASSUME NEW n \in Nodes, republishAll(n) PROVE HostedTyped'
  BY <1>5 DEF republishAll
<1>6. ASSUME NEW n \in Nodes, NEW p \in Nodes, handlePeerLeave(n, p) PROVE HostedTyped'
  BY <1>6 DEF handlePeerLeave
<1> QED BY <1>1, <1>2, <1>3, <1>4, <1>5, <1>6 DEF Next

----------------------------------------------------------------------------
(* Who names come from *)

\* What a step has to show for FromHome: who hosts the name holds it, and what
\* is new in a registry or on a wire comes from the home of the name.
LEMMA HomeOfStep ==
    ASSUME NEW n \in Nodes, NEW a \in Names, FromHome(n, a),
           \A m \in Nodes : a \in hosted'[m] => m = n /\ a \in Held(n)',
           \A m \in Nodes : a \in Held(m)' =>
               \/ a \in Held(m) /\ registrations'[m][a] = registrations[m][a]
               \/ registrations'[m][a].node = n,
           \A p, s \in Nodes : \A i \in 1..Len(wire'[p][s]) :
               \/ \E j \in 1..Len(wire[p][s]) : wire'[p][s][i] = wire[p][s][j]
               \/ wire'[p][s][i].name = a =>
                     /\ wire'[p][s][i].registration.node = n
                     /\ wire'[p][s][i].type = "unregister" => p = n /\ s # n
    PROVE  FromHome(n, a)'
<1>1. \A m \in Nodes : a \in Held(m)' => registrations'[m][a].node = n
  BY DEF FromHome
<1>2. ASSUME NEW p \in Nodes, NEW s \in Nodes, NEW i \in 1..Len(wire'[p][s]),
             wire'[p][s][i].name = a
      PROVE  /\ wire'[p][s][i].registration.node = n
             /\ wire'[p][s][i].type = "unregister" => p = n /\ s # n
  <2>1. CASE \E j \in 1..Len(wire[p][s]) : wire'[p][s][i] = wire[p][s][j]
    BY <1>2, <2>1 DEF FromHome
  <2>2. CASE ~\E j \in 1..Len(wire[p][s]) : wire'[p][s][i] = wire[p][s][j]
    BY <1>2, <2>2
  <2> QED BY <2>1, <2>2
<1> QED BY <1>1, <1>2 DEF FromHome

\* register preserves FromHome: only the home registers the name.
LEMMA HomeRegister ==
    ASSUME ClockInv, HostedTyped, NEW n \in Nodes, NEW a \in Names, Homes[a] = {n},
           FromHome(n, a), NEW m \in Nodes, NEW b \in Names, NEW generation \in Generations,
           register(m, b, generation)
    PROVE  FromHome(n, a)'
<1> DEFINE clock == increment(localClock[m], m)
           reg   == [node |-> m, generation |-> generation, vectorClock |-> clock]
           e     == [type |-> "register", name |-> b, registration |-> reg]
           us    == <<e>>
<1>1. /\ registrations' = [registrations EXCEPT ![m][b] = reg]
      /\ wire' = Published(m, us)
      /\ hosted' = [hosted EXCEPT ![m] = @ \union {b}]
      /\ b = a => m = n
  BY DEF register
<1>2. Typed /\ localClock[m] \in Clock /\ clock \in Clock
  BY IncrementCovers DEF ClockInv, Typed
<1>3. reg \in Registration /\ reg # None /\ reg.node = m
  BY <1>2, NoneAssumption DEF Registration
<1>4. e \in Update /\ e.name = b /\ e.registration.node = m /\ e.type = "register"
  BY <1>3 DEF Update
<1>5. us \in Seq(Update) /\ Len(us) = 1 /\ us[1] = e
  BY <1>4
<1> HIDE DEF reg, e, us
<1>6. \A k \in Nodes : \/ registrations'[k][a] = registrations[k][a] /\ ~(k = n /\ b = a)
                       \/ k = n /\ b = a /\ registrations'[k][a] = reg
  BY <1>1, <1>2 DEF Typed
<1>7. \A k \in Nodes : a \in hosted'[k] => a \in hosted[k] \/ (k = n /\ b = a)
  BY <1>1 DEF HostedTyped
<1>8. \A k \in Nodes : a \in hosted'[k] => k = n /\ a \in Held(n)'
  BY <1>3, <1>6, <1>7 DEF FromHome, Held
<1>9. \A k \in Nodes : a \in Held(k)' =>
         \/ a \in Held(k) /\ registrations'[k][a] = registrations[k][a]
         \/ registrations'[k][a].node = n
  BY <1>1, <1>3, <1>6 DEF Held
<1>10. ASSUME NEW p \in Nodes, NEW s \in Nodes, NEW i \in 1..Len(wire'[p][s])
       PROVE  \/ \E j \in 1..Len(wire[p][s]) : wire'[p][s][i] = wire[p][s][j]
              \/ wire'[p][s][i].name = a =>
                    /\ wire'[p][s][i].registration.node = n
                    /\ wire'[p][s][i].type = "unregister" => p = n /\ s # n
  <2>1. \/ \E j \in 1..Len(wire[p][s]) : wire'[p][s][i] = wire[p][s][j]
        \/ \E j \in 1..Len(us) : wire'[p][s][i] = us[j]
    BY <1>1, <1>2, <1>5, WirePlace
  <2>2. CASE \E j \in 1..Len(us) : wire'[p][s][i] = us[j]
    <3>1. wire'[p][s][i] = e
      BY <1>5, <2>2
    <3> QED BY <1>1, <1>4, <3>1
  <2> QED BY <2>1, <2>2
<1> QED BY <1>8, <1>9, <1>10, HomeOfStep

\* unregister preserves FromHome: only the home withdraws the name.
LEMMA HomeUnregister ==
    ASSUME ClockInv, HostedTyped, NEW n \in Nodes, NEW a \in Names, Homes[a] = {n},
           FromHome(n, a), NEW m \in Nodes, NEW b \in Names, unregister(m, b)
    PROVE  FromHome(n, a)'
<1> DEFINE existing == registrations[m][b]
           clock    == increment(localClock[m], m)
           reg      == [existing EXCEPT !.vectorClock = clock]
           e        == [type |-> "unregister", name |-> b, registration |-> reg]
           us       == <<e>>
<1>1. hosted' = [hosted EXCEPT ![m] = @ \ {b}] /\ b \in hosted[m]
  BY DEF unregister
<1>2. Typed /\ localClock[m] \in Clock /\ clock \in Clock
  BY IncrementCovers DEF ClockInv, Typed
<1>3. \A k \in Nodes : a \in hosted'[k] => a \in hosted[k] /\ ~(k = m /\ b = a)
  BY <1>1 DEF HostedTyped
<1>4. b = a => m = n /\ a \in Held(n)
  BY <1>1 DEF FromHome
<1>5. CASE UNCHANGED <<localClock, registrations, wire>>
  <2>1. \A k \in Nodes : a \in hosted'[k] => k = n /\ a \in Held(n)'
    BY <1>3, <1>5 DEF FromHome, Held
  <2> QED BY <1>5, <2>1 DEF FromHome, Held
<1>6. CASE ~UNCHANGED <<localClock, registrations, wire>>
  <2>1. /\ existing # None
        /\ registrations' = [registrations EXCEPT ![m][b] = None]
        /\ wire' = Published(m, us)
    BY <1>6 DEF unregister
  <2>2. existing \in Registration
    BY <1>2, <2>1 DEF Typed
  <2>3. reg \in Registration /\ reg.node = existing.node
    BY <1>2, <2>2 DEF Registration
  <2>4. b = a => reg.node = n
    BY <1>4, <2>3 DEF FromHome
  <2> HIDE DEF reg
  <2>5. e \in Update /\ e.name = b /\ e.registration = reg
    BY <2>3 DEF Update
  <2>6. us \in Seq(Update) /\ Len(us) = 1 /\ us[1] = e
    BY <2>5
  <2> HIDE DEF e, us
  <2>7. \A k \in Nodes : \/ registrations'[k][a] = registrations[k][a] /\ ~(k = m /\ b = a)
                         \/ k = m /\ b = a /\ registrations'[k][a] = None
    BY <1>2, <2>1 DEF Typed
  <2>8. \A k \in Nodes : a \in hosted'[k] => k = n /\ a \in Held(n)'
    BY <1>3, <2>7 DEF FromHome, Held
  <2>9. \A k \in Nodes : a \in Held(k)' =>
           a \in Held(k) /\ registrations'[k][a] = registrations[k][a]
    BY <2>7 DEF Held
  <2>10. ASSUME NEW p \in Nodes, NEW s \in Nodes, NEW i \in 1..Len(wire'[p][s])
         PROVE  \/ \E j \in 1..Len(wire[p][s]) : wire'[p][s][i] = wire[p][s][j]
                \/ wire'[p][s][i].name = a =>
                      /\ wire'[p][s][i].registration.node = n
                      /\ wire'[p][s][i].type = "unregister" => p = n /\ s # n
    <3>1. \/ \E j \in 1..Len(wire[p][s]) : wire'[p][s][i] = wire[p][s][j]
          \/ p = m /\ s # m /\ \E j \in 1..Len(us) : wire'[p][s][i] = us[j]
      BY <1>2, <2>1, <2>6, WirePlace
    <3>2. CASE p = m /\ s # m /\ \E j \in 1..Len(us) : wire'[p][s][i] = us[j]
      <4>1. wire'[p][s][i] = e
        BY <2>6, <3>2
      <4> QED BY <1>4, <2>4, <2>5, <3>2, <4>1
    <3> QED BY <3>1, <3>2
  <2> QED BY <2>8, <2>9, <2>10, HomeOfStep, SMTT(60)
<1> QED BY <1>5, <1>6

\* handleRegistryUpdate preserves FromHome: nobody withdraws the name from its
\* home, and what is taken over comes from it.
LEMMA HomeUpdate ==
    ASSUME ClockInv, HostedTyped, NEW n \in Nodes, NEW a \in Names, FromHome(n, a),
           NEW p \in Nodes, NEW s \in Nodes, handleRegistryUpdate(p, s)
    PROVE  FromHome(n, a)'
<1> DEFINE e == Head(wire[p][s])
<1>1. Typed /\ Delivery(p, s) /\ hosted' = hosted
  BY DEF ClockInv, handleRegistryUpdate
<1>2. e \in Update /\ e = wire[p][s][1] /\ 1 \in 1..Len(wire[p][s])
  BY <1>1, DeliveryFacts
<1>3. \/ registrations' = registrations
      \/ registrations' = [registrations EXCEPT ![s][e.name] = Result(e)]
  BY DEF handleRegistryUpdate, Result
<1> HIDE DEF e
<1>4. e.name \in Names /\ e.type \in {"register", "unregister"}
      /\ e.registration \in Registration /\ e.registration # None
  BY <1>2, NoneAssumption DEF Update
<1>5. e.name = a => /\ e.registration.node = n
                    /\ e.type = "unregister" => p = n /\ s # n
  BY <1>2 DEF FromHome
<1>6. \A k \in Nodes : \/ registrations'[k][a] = registrations[k][a]
                       \/ k = s /\ e.name = a /\ registrations'[k][a] = Result(e)
  BY <1>1, <1>3, <1>4, SMTT(60) DEF Typed
<1>7. \A k \in Nodes : a \in hosted'[k] => k = n /\ a \in Held(n)'
  BY <1>1, <1>4, <1>5, <1>6 DEF FromHome, Held, Result
<1>8. \A k \in Nodes : a \in Held(k)' =>
         \/ a \in Held(k) /\ registrations'[k][a] = registrations[k][a]
         \/ registrations'[k][a].node = n
  BY <1>5, <1>6 DEF Held, Result
<1>9. \A q, r \in Nodes : \A i \in 1..Len(wire'[q][r]) :
         \E j \in 1..Len(wire[q][r]) : wire'[q][r][i] = wire[q][r][j]
  BY <1>1, DeliveryFacts
<1> QED BY <1>7, <1>8, <1>9, HomeOfStep, SMTT(60)

\* republishAll preserves FromHome: what a node holds it has from the home.
LEMMA HomeRepublish ==
    ASSUME ClockInv, HostedTyped, NEW n \in Nodes, NEW a \in Names, FromHome(n, a),
           NEW m \in Nodes, republishAll(m)
    PROVE  FromHome(n, a)'
<1>1. Typed /\ registrations' = registrations /\ hosted' = hosted
  BY DEF ClockInv, republishAll
<1>2. PICK us \in Seq(Update) :
         /\ wire' = Published(m, us)
         /\ \A i \in 1..Len(us) : /\ us[i].name \in Held(m) /\ us[i].type = "register"
                                  /\ us[i].registration = registrations[m][us[i].name]
  <2>1. PICK order \in Bijection(1..Cardinality(Held(m)), Held(m)) :
           wire' = Published(m, [i \in DOMAIN order |->
                      [type |-> "register", name |-> order[i],
                       registration |-> registrations[m][order[i]]]])
    BY DEF republishAll
  <2> DEFINE us == [i \in DOMAIN order |->
                      [type |-> "register", name |-> order[i],
                       registration |-> registrations[m][order[i]]]]
  <2>2. us \in Seq(Update) /\ wire' = Published(m, us)
    BY <1>1, <2>1, RepublishedType
  <2>3. DOMAIN us = 1..Len(us)
    BY <2>2
  <2>4. \A i \in 1..Len(us) : /\ us[i].name \in Held(m) /\ us[i].type = "register"
                              /\ us[i].registration = registrations[m][us[i].name]
    BY <2>3 DEF Bijection, Injection
  <2> HIDE DEF us
  <2> QED BY <2>2, <2>4
<1>6. ASSUME NEW p \in Nodes, NEW s \in Nodes, NEW i \in 1..Len(wire'[p][s])
      PROVE  \/ \E j \in 1..Len(wire[p][s]) : wire'[p][s][i] = wire[p][s][j]
             \/ wire'[p][s][i].name = a =>
                   /\ wire'[p][s][i].registration.node = n
                   /\ wire'[p][s][i].type = "unregister" => p = n /\ s # n
  <2>1. \/ \E j \in 1..Len(wire[p][s]) : wire'[p][s][i] = wire[p][s][j]
        \/ p = m /\ s # m /\ \E j \in 1..Len(us) : wire'[p][s][i] = us[j]
    <3>1. Typed /\ us \in Seq(Update) /\ wire' = Published(m, us)
      BY <1>1, <1>2
    <3> QED BY <3>1, WirePlace, SMTT(60)
  <2>2. CASE \E j \in 1..Len(us) : wire'[p][s][i] = us[j]
    BY <1>2, <2>2 DEF FromHome
  <2> QED BY <2>1, <2>2
<1>7. \A k \in Nodes : a \in hosted'[k] => k = n /\ a \in Held(n)'
  BY <1>1 DEF FromHome, Held
<1>8. \A k \in Nodes : a \in Held(k)' =>
         \/ a \in Held(k) /\ registrations'[k][a] = registrations[k][a]
         \/ registrations'[k][a].node = n
  BY <1>1 DEF Held
<1> QED BY <1>6, <1>7, <1>8, HomeOfStep

\* A lost publication and member_leave preserve FromHome: no node takes itself
\* for the one that left, so the home keeps what it hosts.
LEMMA HomeLoseOrLeave ==
    ASSUME ClockInv, HostedTyped, NEW n \in Nodes, NEW a \in Names, FromHome(n, a),
           NEW p \in Nodes, NEW s \in Nodes, Lose(p, s) \/ handlePeerLeave(s, p)
    PROVE  FromHome(n, a)'
<1>1. Typed /\ hosted' = hosted
  BY DEF ClockInv, Lose, handlePeerLeave
<1>2. CASE Lose(p, s)
  <2>1. Delivery(p, s) /\ registrations' = registrations
    BY <1>2 DEF Lose
  <2>2. \A q, r \in Nodes : \A i \in 1..Len(wire'[q][r]) :
           \E j \in 1..Len(wire[q][r]) : wire'[q][r][i] = wire[q][r][j]
    BY <1>1, <2>1, DeliveryFacts
  <2>3. \A k \in Nodes : a \in hosted'[k] => k = n /\ a \in Held(n)'
    BY <1>1, <2>1 DEF FromHome, Held
  <2>4. \A k \in Nodes : a \in Held(k)' =>
           \/ a \in Held(k) /\ registrations'[k][a] = registrations[k][a]
           \/ registrations'[k][a].node = n
    BY <2>1 DEF Held
  <2> QED BY <2>2, <2>3, <2>4, HomeOfStep
<1>3. CASE handlePeerLeave(s, p)
  <2>1. /\ s # p /\ wire' = wire
        /\ registrations' = [registrations EXCEPT ![s] = [b \in Names |->
               IF b \in Held(s) /\ registrations[s][b].node = p
               THEN None ELSE registrations[s][b]]]
    BY <1>1, <1>3 DEF handlePeerLeave, Typed
  <2>2. \A k \in Nodes : \/ registrations'[k][a] = registrations[k][a]
                         \/ /\ k = s /\ registrations'[k][a] = None
                            /\ a \in Held(s) /\ registrations[s][a].node = p
    BY <1>1, <2>1 DEF Typed
  <2>3. \A k \in Nodes : a \in hosted'[k] => k = n /\ a \in Held(n)'
    BY <1>1, <2>1, <2>2 DEF FromHome, Held
  <2>4. \A k \in Nodes : a \in Held(k)' =>
           \/ a \in Held(k) /\ registrations'[k][a] = registrations[k][a]
           \/ registrations'[k][a].node = n
    BY <2>2 DEF Held
  <2>5. \A q, r \in Nodes : \A i \in 1..Len(wire'[q][r]) :
           \/ \E j \in 1..Len(wire[q][r]) : wire'[q][r][i] = wire[q][r][j]
           \/ wire'[q][r][i].name = a =>
                 /\ wire'[q][r][i].registration.node = n
                 /\ wire'[q][r][i].type = "unregister" => q = n /\ r # n
    BY <2>1
  <2> QED BY <2>3, <2>4, <2>5, HomeOfStep, ZenonT(60)
<1> QED BY <1>2, <1>3

\* Every step preserves FromHome.
LEMMA StepHome ==
    ASSUME ClockInv, HostedTyped, NEW n \in Nodes, NEW a \in Names, Homes[a] = {n},
           FromHome(n, a), [Next]_vars
    PROVE  FromHome(n, a)'
<1>1. CASE UNCHANGED vars
  BY <1>1 DEF vars, FromHome, Held
<1>2. ASSUME NEW m \in Nodes, NEW b \in Names, NEW generation \in Generations,
             register(m, b, generation)
      PROVE  FromHome(n, a)'
  BY <1>2, HomeRegister
<1>3. ASSUME NEW m \in Nodes, NEW b \in Names, unregister(m, b) PROVE FromHome(n, a)'
  BY <1>3, HomeUnregister
<1>4. ASSUME NEW p \in Nodes, NEW s \in Nodes, handleRegistryUpdate(p, s)
      PROVE  FromHome(n, a)'
  BY <1>4, HomeUpdate
<1>5. ASSUME NEW m \in Nodes, republishAll(m) PROVE FromHome(n, a)'
  BY <1>5, HomeRepublish
<1>6. ASSUME NEW p \in Nodes, NEW s \in Nodes, Lose(p, s) \/ handlePeerLeave(s, p)
      PROVE  FromHome(n, a)'
  BY <1>6, HomeLoseOrLeave
<1> QED BY <1>1, <1>2, <1>3, <1>4, <1>5, <1>6 DEF Next

----------------------------------------------------------------------------
(* Names in step *)

\* What a step that leaves the registrations of the name alone has to show.
LEMMA InStepOther ==
    ASSUME ClockInv, ClockInv', NEW n \in Nodes, NEW a \in Names, InStep(n, a),
           \A k \in Nodes : registrations'[k][a] = registrations[k][a],
           a \in hosted[n] => a \in hosted'[n],
           Covers(localClock'[n], localClock[n]),
           \A p, s \in Nodes : \A i \in 1..Len(wire'[p][s]) : wire'[p][s][i].name = a =>
               \E j \in 1..Len(wire[p][s]) : wire'[p][s][i] = wire[p][s][j],
           \A s \in Nodes \ {n} :
               Follows(wire'[n][s], registrations[s][a], registrations[n][a], a, n)
    PROVE  InStep(n, a)'
<1>1. localClock[n] \in Clock /\ localClock'[n] \in Clock /\ Typed
  BY DEF ClockInv, Typed
<1>2. a \in Held(n)' => a \in hosted'[n]
  BY DEF InStep, Held
<1>3. ASSUME NEW p \in Nodes, NEW s \in Nodes, NEW i \in 1..Len(wire'[p][s]),
             wire'[p][s][i].name = a
      PROVE  p = n /\ s # n /\ Covers(localClock'[n], Clk(wire'[p][s][i]))
  <2>1. PICK j \in 1..Len(wire[p][s]) : wire'[p][s][i] = wire[p][s][j]
    BY <1>3
  <2>2. p = n /\ s # n /\ Covers(localClock[n], Clk(wire[p][s][j]))
    BY <1>3, <2>1 DEF InStep
  <2>3. Clk(wire[p][s][j]) \in Clock
    BY <1>1, CarriesClock DEF Clk
  <2> QED BY <1>1, <2>1, <2>2, <2>3, CoversTransitive
<1>4. ASSUME NEW s \in Nodes, a \in Held(s)'
      PROVE  Covers(localClock'[n], registrations'[s][a].vectorClock)
  <2>1. a \in Held(s) /\ registrations'[s][a] = registrations[s][a]
    BY <1>4 DEF Held
  <2>2. Covers(localClock[n], registrations[s][a].vectorClock)
        /\ registrations[s][a].vectorClock \in Clock
    BY <1>1, <2>1, CarriesClock DEF InStep
  <2> QED BY <1>1, <2>1, <2>2, CoversTransitive
<1>5. \A s \in Nodes \ {n} :
         Follows(wire'[n][s], registrations'[s][a], registrations'[n][a], a, n)
  OBVIOUS
<1> QED BY <1>2, <1>3, <1>4, <1>5 DEF InStep

\* The home registers or withdraws the name, at the next tick of its clock.
LEMMA InStepOwn ==
    ASSUME ClockInv, ClockInv', NEW n \in Nodes, NEW a \in Names, InStep(n, a),
           NEW e \in Update, e.name = a,
           Clk(e) = increment(localClock[n], n), localClock'[n] = increment(localClock[n], n),
           wire' = Published(n, <<e>>),
           \A k \in Nodes \ {n} : registrations'[k][a] = registrations[k][a],
           registrations'[n][a] = Result(e),
           Result(e) # None => a \in hosted'[n]
    PROVE  InStep(n, a)'
<1>1. localClock[n] \in Clock /\ localClock'[n] \in Clock /\ Typed
      /\ Covers(localClock'[n], localClock[n])
  BY IncrementCovers DEF ClockInv, Typed
<1> DEFINE us == <<e>>
<1>2. us \in Seq(Update) /\ Len(us) = 1 /\ us[1] = e /\ wire' = Published(n, us)
  OBVIOUS
<1> HIDE DEF us
<1>3. a \in Held(n)' => a \in hosted'[n]
  BY DEF Held
<1>4. Covers(localClock'[n], Clk(e))
  BY <1>1 DEF Covers, Clock
<1>5. ASSUME NEW p \in Nodes, NEW s \in Nodes, NEW i \in 1..Len(wire'[p][s]),
             wire'[p][s][i].name = a
      PROVE  p = n /\ s # n /\ Covers(localClock'[n], Clk(wire'[p][s][i]))
  <2>1. \/ \E j \in 1..Len(wire[p][s]) : wire'[p][s][i] = wire[p][s][j]
        \/ p = n /\ s # n /\ \E j \in 1..Len(us) : wire'[p][s][i] = us[j]
    BY <1>1, <1>2, WirePlace
  <2>2. ASSUME NEW j \in 1..Len(wire[p][s]), wire'[p][s][i] = wire[p][s][j]
        PROVE  p = n /\ s # n /\ Covers(localClock'[n], Clk(wire'[p][s][i]))
    <3>1. p = n /\ s # n /\ Covers(localClock[n], Clk(wire[p][s][j]))
      BY <1>5, <2>2 DEF InStep
    <3>2. Clk(wire[p][s][j]) \in Clock
      BY <1>1, CarriesClock DEF Clk
    <3> QED BY <1>1, <2>2, <3>1, <3>2, CoversTransitive
  <2>3. CASE p = n /\ s # n /\ \E j \in 1..Len(us) : wire'[p][s][i] = us[j]
    <3>1. wire'[p][s][i] = e
      BY <1>2, <2>3
    <3> QED BY <1>4, <2>3, <3>1
  <2> QED BY <2>1, <2>2, <2>3
<1>6. ASSUME NEW s \in Nodes, a \in Held(s)'
      PROVE  Covers(localClock'[n], registrations'[s][a].vectorClock)
  <2>1. CASE s = n
    <3>1. registrations'[n][a] = e.registration
      BY <1>6, <2>1 DEF Held, Result
    <3> QED BY <1>4, <2>1, <3>1 DEF Clk
  <2>2. CASE s # n
    <3>1. a \in Held(s) /\ registrations'[s][a] = registrations[s][a]
      BY <1>6, <2>2 DEF Held
    <3>2. Covers(localClock[n], registrations[s][a].vectorClock)
          /\ registrations[s][a].vectorClock \in Clock
      BY <1>1, <3>1, CarriesClock DEF InStep
    <3> QED BY <1>1, <3>1, <3>2, CoversTransitive
  <2> QED BY <2>1, <2>2
<1>7. ASSUME NEW s \in Nodes \ {n}
      PROVE  Follows(wire'[n][s], registrations'[s][a], registrations'[n][a], a, n)
  <2>1. wire[n][s] \in Seq(Update) /\ wire'[n][s] = wire[n][s] \o <<e>>
    <3>1. wire[n][s] \in Seq(Update)
      BY <1>1 DEF Typed
    <3>2. Published(n, us)[n][s] = wire[n][s] \o us
      BY <1>1, PublishedAt
    <3> QED BY <1>2, <3>1, <3>2 DEF us
  <2>2. Follows(wire[n][s], registrations[s][a], registrations[n][a], a, n)
    BY DEF InStep
  <2>3. registrations[s][a] # None => Later(Clk(e), registrations[s][a].vectorClock, n)
    <3> SUFFICES ASSUME registrations[s][a] # None
                 PROVE  Later(Clk(e), registrations[s][a].vectorClock, n)
      OBVIOUS
    <3>1. a \in Held(s)
      BY DEF Held
    <3>2. Covers(localClock[n], registrations[s][a].vectorClock)
          /\ registrations[s][a].vectorClock \in Clock
      BY <1>1, <3>1, CarriesClock DEF InStep
    <3> QED BY <1>1, <3>2, NextTickIsLater
  <2>4. ASSUME NEW i \in 1..Len(wire[n][s]), wire[n][s][i].name = a
        PROVE  Later(Clk(e), Clk(wire[n][s][i]), n)
    <3>1. Covers(localClock[n], Clk(wire[n][s][i])) /\ Clk(wire[n][s][i]) \in Clock
      BY <1>1, <2>4, CarriesClock DEF InStep, Clk
    <3> QED BY <1>1, <3>1, NextTickIsLater
  <2>5. Follows(wire[n][s] \o <<e>>, registrations[s][a], Result(e), a, n)
    BY <2>1, <2>2, <2>3, <2>4, FollowsAppend
  <2> QED BY <2>1, <2>5
<1> QED BY <1>3, <1>5, <1>6, <1>7 DEF InStep

\* A publication about another name leaves a name in step.
LEMMA InStepPublish ==
    ASSUME ClockInv, ClockInv', NEW n \in Nodes, NEW a \in Names, InStep(n, a),
           NEW m \in Nodes, NEW e \in Update, e.name # a,
           localClock' = [localClock EXCEPT ![m] = increment(localClock[m], m)],
           wire' = Published(m, <<e>>),
           \A k \in Nodes : registrations'[k][a] = registrations[k][a],
           a \in hosted[n] => a \in hosted'[n]
    PROVE  InStep(n, a)'
<1>0. Typed
  BY DEF ClockInv
<1>1. localClock \in [Nodes -> Clock]
  BY <1>0 DEF Typed
<1>2. Covers(localClock'[n], localClock[n])
  <2>1. Covers(localClock[n], localClock[n])
    BY <1>1 DEF Covers, Clock
  <2>2. Covers(increment(localClock[n], n), localClock[n])
    BY <1>1, IncrementCovers
  <2> QED BY <1>1, <2>1, <2>2
<1> DEFINE us == <<e>>
<1>3. us \in Seq(Update) /\ Len(us) = 1 /\ us[1] = e /\ wire' = Published(m, us)
  OBVIOUS
<1> HIDE DEF us
<1>4. ASSUME NEW p \in Nodes, NEW s \in Nodes, NEW i \in 1..Len(wire'[p][s]),
             wire'[p][s][i].name = a
      PROVE  \E j \in 1..Len(wire[p][s]) : wire'[p][s][i] = wire[p][s][j]
  <2>1. i \in 1..Len(Published(m, us)[p][s]) /\ us \in Seq(Update)
    BY <1>3
  <2>2. \/ \E j \in 1..Len(wire[p][s]) : Published(m, us)[p][s][i] = wire[p][s][j]
        \/ \E j \in 1..Len(us) : Published(m, us)[p][s][i] = us[j]
    BY <1>0, <2>1, WireAfterPublish, ZenonT(60)
  <2>3. ~\E j \in 1..Len(us) : Published(m, us)[p][s][i] = us[j]
    BY <1>3, <1>4
  <2> QED BY <1>3, <2>2, <2>3
<1>5. ASSUME NEW s \in Nodes \ {n}
      PROVE  Follows(wire'[n][s], registrations[s][a], registrations[n][a], a, n)
  <2>1. wire[n][s] \in Seq(Update)
        /\ (wire'[n][s] = wire[n][s] \o <<e>> \/ wire'[n][s] = wire[n][s])
    <3>1. wire[n][s] \in Seq(Update)
      BY <1>0 DEF Typed
    <3>2. Published(m, us)[n][s] = wire[n][s] \o us \/ Published(m, us)[n][s] = wire[n][s]
      BY <1>0, PublishedAt
    <3> QED BY <1>3, <3>1, <3>2 DEF us
  <2>2. Follows(wire[n][s], registrations[s][a], registrations[n][a], a, n)
    BY DEF InStep
  <2>3. Follows(wire[n][s] \o <<e>>, registrations[s][a], registrations[n][a], a, n)
    BY <2>1, <2>2, FollowsOther
  <2> QED BY <2>1, <2>2, <2>3
<1> QED BY <1>2, <1>4, <1>5, InStepOther

\* register keeps a name in step.
LEMMA InStepRegister ==
    ASSUME ClockInv, ClockInv', HostedTyped, NEW n \in Nodes, NEW a \in Names,
           Homes[a] = {n}, InStep(n, a),
           NEW m \in Nodes, NEW b \in Names, NEW generation \in Generations,
           register(m, b, generation)
    PROVE  InStep(n, a)'
<1> DEFINE clock == increment(localClock[m], m)
           reg   == [node |-> m, generation |-> generation, vectorClock |-> clock]
           e     == [type |-> "register", name |-> b, registration |-> reg]
<1>1. /\ localClock' = [localClock EXCEPT ![m] = clock]
      /\ registrations' = [registrations EXCEPT ![m][b] = reg]
      /\ wire' = Published(m, <<e>>)
      /\ hosted' = [hosted EXCEPT ![m] = @ \union {b}]
      /\ b = a => m = n
  BY DEF register
<1>2. Typed /\ localClock[m] \in Clock /\ clock \in Clock
  BY IncrementCovers DEF ClockInv, Typed
<1>3. reg \in Registration /\ reg.vectorClock = clock
  BY <1>2 DEF Registration
<1>4. e \in Update /\ e.name = b /\ Clk(e) = clock /\ Result(e) = reg
  BY <1>3 DEF Update, Clk, Result
<1> HIDE DEF reg, e
<1>5. \A k \in Nodes : \A c \in Names :
         registrations'[k][c] = IF k = m /\ c = b THEN reg ELSE registrations[k][c]
  BY <1>1, <1>2 DEF Typed
<1>6. a \in hosted[n] \/ (m = n /\ b = a) => a \in hosted'[n]
  BY <1>1 DEF HostedTyped
<1>7. localClock'[m] = clock
  BY <1>1, <1>2 DEF Typed
<1>8. CASE b = a
  <2>1. m = n /\ e.name = a /\ Clk(e) = increment(localClock[n], n)
        /\ localClock'[n] = increment(localClock[n], n) /\ wire' = Published(n, <<e>>)
    BY <1>1, <1>4, <1>7, <1>8
  <2>2. \A k \in Nodes \ {n} : registrations'[k][a] = registrations[k][a]
    BY <1>5, <2>1
  <2>3. registrations'[n][a] = Result(e) /\ a \in hosted'[n]
    BY <1>4, <1>5, <1>6, <1>8, <2>1
  <2> QED BY <1>4, <2>1, <2>2, <2>3, InStepOwn
<1>9. CASE b # a
  <2>1. \A k \in Nodes : registrations'[k][a] = registrations[k][a]
    BY <1>5, <1>9
  <2>2. e \in Update /\ e.name # a
    BY <1>4, <1>9
  <2> QED BY <1>1, <1>6, <2>1, <2>2, InStepPublish
<1> QED BY <1>8, <1>9

\* unregister keeps a name in step: who hosts the name holds it, so that the
\* home never withdraws it without saying so.
LEMMA InStepUnregister ==
    ASSUME ClockInv, ClockInv', HostedTyped, NEW n \in Nodes, NEW a \in Names,
           FromHome(n, a), InStep(n, a),
           NEW m \in Nodes, NEW b \in Names, unregister(m, b)
    PROVE  InStep(n, a)'
<1> DEFINE existing == registrations[m][b]
           clock    == increment(localClock[m], m)
           reg      == [existing EXCEPT !.vectorClock = clock]
           e        == [type |-> "unregister", name |-> b, registration |-> reg]
<1>1. hosted' = [hosted EXCEPT ![m] = @ \ {b}] /\ b \in hosted[m]
  BY DEF unregister
<1>2. Typed /\ localClock[m] \in Clock /\ clock \in Clock
  BY IncrementCovers DEF ClockInv, Typed
<1>3. b = a => m = n /\ existing # None
  BY <1>1 DEF FromHome, Held
<1>4. b # a => (a \in hosted[n] => a \in hosted'[n])
  BY <1>1 DEF HostedTyped
<1>5. CASE existing = None
  <2>1. UNCHANGED <<localClock, registrations, wire>> /\ b # a
    BY <1>3, <1>5 DEF unregister
  <2>2. a \in Held(n)' => a \in hosted'[n]
    BY <1>4, <2>1 DEF InStep, Held
  <2> QED BY <2>1, <2>2 DEF InStep, Held
<1>6. CASE existing # None
  <2>1. /\ localClock' = [localClock EXCEPT ![m] = clock]
        /\ registrations' = [registrations EXCEPT ![m][b] = None]
        /\ wire' = Published(m, <<e>>)
    BY <1>6 DEF unregister
  <2>2. existing \in Registration
    BY <1>2, <1>6 DEF Typed
  <2>3. reg \in Registration /\ reg.vectorClock = clock
    BY <1>2, <2>2 DEF Registration
  <2> HIDE DEF reg
  <2>4. e \in Update /\ e.name = b /\ Clk(e) = clock /\ Result(e) = None
    BY <2>3 DEF Update, Clk, Result
  <2> HIDE DEF e
  <2>5. \A k \in Nodes : \A c \in Names :
           registrations'[k][c] = IF k = m /\ c = b THEN None ELSE registrations[k][c]
    BY <1>2, <2>1 DEF Typed
  <2>6. localClock'[m] = clock
    BY <1>2, <2>1 DEF Typed
  <2>7. CASE b = a
    <3>1. m = n /\ e.name = a /\ Clk(e) = increment(localClock[n], n)
          /\ localClock'[n] = increment(localClock[n], n) /\ wire' = Published(n, <<e>>)
      BY <1>3, <2>1, <2>4, <2>6, <2>7
    <3>2. \A k \in Nodes \ {n} : registrations'[k][a] = registrations[k][a]
      BY <2>5, <3>1
    <3>3. registrations'[n][a] = Result(e) /\ Result(e) = None
      BY <2>4, <2>5, <2>7, <3>1
    <3> QED BY <2>4, <3>1, <3>2, <3>3, InStepOwn
  <2>8. CASE b # a
    <3>1. \A k \in Nodes : registrations'[k][a] = registrations[k][a]
      BY <2>5, <2>8
    <3>2. e \in Update /\ e.name # a
      BY <2>4, <2>8
    <3> QED BY <1>4, <2>1, <2>8, <3>1, <3>2, InStepPublish
  <2> QED BY <2>7, <2>8
<1> QED BY <1>5, <1>6

\* An update about the name that is later than what the subscriber holds
\* always applies.
LEMMA LaterApplies ==
    ASSUME NEW e \in Update, NEW old \in Registration \union {None},
           NEW n \in Nodes, old # None => Later(Clk(e), old.vectorClock, n)
    PROVE  Applies(e, old) \/ (old = None /\ Result(e) = None)
<1>1. CASE old = None
  BY <1>1 DEF Applies, Result, Update
<1>2. CASE old # None
  <2>1. Clk(e) \in Clock /\ old.vectorClock \in Clock
    BY <1>2 DEF Clk, Update, Registration
  <2>2. compare(Clk(e), old.vectorClock) = "after"
    BY <1>2, <2>1, LaterIsAfter
  <2> QED BY <1>2, <2>2 DEF Applies, Wins, Clk
<1> QED BY <1>1, <1>2

\* handleRegistryUpdate keeps a name in step: all its updates apply, in order.
LEMMA InStepUpdate ==
    ASSUME ClockInv, ClockInv', HostedTyped, NEW n \in Nodes, NEW a \in Names,
           InStep(n, a),
           NEW p \in Nodes, NEW s \in Nodes, handleRegistryUpdate(p, s)
    PROVE  InStep(n, a)'
<1> DEFINE e == Head(wire[p][s])
<1>1. Typed /\ Delivery(p, s) /\ hosted' = hosted
  BY DEF ClockInv, handleRegistryUpdate
<1>2. e \in Update /\ e = wire[p][s][1] /\ 1 \in 1..Len(wire[p][s])
  BY <1>1, DeliveryFacts
<1>3. IF Applies(e, registrations[s][e.name])
      THEN /\ registrations' = [registrations EXCEPT ![s][e.name] = Result(e)]
           /\ localClock' = [localClock EXCEPT ![s] = merge(localClock[s], Clk(e))]
      ELSE UNCHANGED <<registrations, localClock>>
  BY <1>1 DEF handleRegistryUpdate, Result, Clk, Typed
<1>4. /\ wire[p][s] \in Seq(Update) /\ wire[p][s] # <<>>
      /\ wire' = [wire EXCEPT ![p][s] = Tail(wire[p][s])]
      /\ \A q, r \in Nodes : wire'[q][r] = IF q = p /\ r = s THEN Tail(wire[p][s])
                                                           ELSE wire[q][r]
  BY <1>1 DEF Delivery, Typed
<1>5. \A q, r \in Nodes : \A i \in 1..Len(wire'[q][r]) :
         \E j \in 1..Len(wire[q][r]) : wire'[q][r][i] = wire[q][r][j]
  BY <1>1, DeliveryFacts
<1>6. \A k \in Nodes \ {n} : Follows(wire[n][k], registrations[k][a], registrations[n][a], a, n)
  BY DEF InStep
<1>7. s # n => Follows(Tail(wire[n][s]), IF Head(wire[n][s]).name = a
                                        THEN Result(Head(wire[n][s]))
                                        ELSE registrations[s][a],
                       registrations[n][a], a, n) \/ wire[n][s] = <<>>
  <2> SUFFICES ASSUME s # n, wire[n][s] # <<>>
               PROVE  Follows(Tail(wire[n][s]), IF Head(wire[n][s]).name = a
                                                THEN Result(Head(wire[n][s]))
                                                ELSE registrations[s][a],
                              registrations[n][a], a, n)
    OBVIOUS
  <2>1. wire[n][s] \in Seq(Update)
    BY <1>1 DEF Typed
  <2>2. Follows(wire[n][s], registrations[s][a], registrations[n][a], a, n)
    BY <1>6
  <2> QED BY <2>1, <2>2, FollowsTail
<1>8. Clk(e) \in Clock
  BY <1>2 DEF Clk, Update, Registration
<1>9. Covers(localClock'[n], localClock[n])
  <2>1. localClock \in [Nodes -> Clock] /\ Covers(localClock[n], localClock[n])
    <3>1. localClock \in [Nodes -> Clock]
      BY <1>1 DEF Typed
    <3> QED BY <3>1 DEF Covers, Clock
  <2>2. Covers(merge(localClock[s], Clk(e)), localClock[s])
    BY <1>8, <2>1, MergeIsLeastUpperBound
  <2> QED BY <1>3, <2>1, <2>2
<1> HIDE DEF e
<1>10. e.name \in Names
  BY <1>2 DEF Update
<1>11. CASE e.name # a
  <2>1. \A k \in Nodes : registrations'[k][a] = registrations[k][a]
    <3>1. CASE Applies(e, registrations[s][e.name])
      <4>1. registrations' = [registrations EXCEPT ![s][e.name] = Result(e)]
        BY <1>3, <3>1
      <4> QED BY <1>1, <1>10, <1>11, <4>1 DEF Typed
    <3>2. CASE ~Applies(e, registrations[s][e.name])
      BY <1>3, <3>2
    <3> QED BY <3>1, <3>2
  <2>2. ASSUME NEW k \in Nodes \ {n}
        PROVE  Follows(wire'[n][k], registrations[k][a], registrations[n][a], a, n)
    <3>1. CASE p = n /\ k = s
      BY <1>4, <1>7, <1>11, <3>1 DEF e
    <3>2. CASE ~(p = n /\ k = s)
      BY <1>4, <1>6, <3>2
    <3> QED BY <3>1, <3>2
  <2> QED BY <1>1, <1>5, <1>9, <2>1, <2>2, InStepOther, ZenonT(60)
<1>12. CASE e.name = a
  <2>1. p = n /\ s # n /\ Covers(localClock[n], Clk(e))
    BY <1>2, <1>12 DEF InStep
  <2>2. registrations[s][a] \in Registration \union {None}
    BY <1>1 DEF Typed
  <2>3. registrations[s][a] # None => Later(Clk(e), registrations[s][a].vectorClock, n)
    <3>1. Follows(wire[n][s], registrations[s][a], registrations[n][a], a, n)
      BY <1>6, <2>1
    <3> QED BY <1>2, <1>12, <2>1, <3>1 DEF Follows
  <2>4. Applies(e, registrations[s][a]) \/ (registrations[s][a] = None /\ Result(e) = None)
    BY <1>2, <2>2, <2>3, LaterApplies
  <2>5. registrations'[s][a] = Result(e)
        /\ \A k \in Nodes \ {s} : registrations'[k][a] = registrations[k][a]
    BY <1>1, <1>3, <1>12, <2>4 DEF Typed
  <2>6. localClock'[n] = localClock[n] /\ localClock[n] \in Clock
    BY <1>1, <1>3, <2>1 DEF Typed
  <2>7. a \in Held(n)' => a \in hosted'[n]
    BY <1>1, <2>1, <2>5 DEF InStep, Held
  <2>8. ASSUME NEW q \in Nodes, NEW r \in Nodes, NEW i \in 1..Len(wire'[q][r]),
               wire'[q][r][i].name = a
        PROVE  q = n /\ r # n /\ Covers(localClock'[n], Clk(wire'[q][r][i]))
    <3>1. PICK j \in 1..Len(wire[q][r]) : wire'[q][r][i] = wire[q][r][j]
      BY <1>5
    <3> QED BY <2>6, <2>8, <3>1 DEF InStep
  <2>9. ASSUME NEW k \in Nodes, a \in Held(k)'
        PROVE  Covers(localClock'[n], registrations'[k][a].vectorClock)
    <3>1. CASE k = s
      <4>1. registrations'[k][a] = e.registration
        BY <2>5, <2>9, <3>1 DEF Held, Result
      <4> QED BY <2>1, <2>6, <4>1 DEF Clk
    <3>2. CASE k # s
      BY <2>5, <2>6, <2>9, <3>2 DEF InStep, Held
    <3> QED BY <3>1, <3>2
  <2>10. ASSUME NEW k \in Nodes \ {n}
         PROVE  Follows(wire'[n][k], registrations'[k][a], registrations'[n][a], a, n)
    <3>1. registrations'[n][a] = registrations[n][a]
      BY <2>1, <2>5
    <3>2. CASE k = s
      BY <1>4, <1>7, <1>12, <2>1, <2>5, <3>1, <3>2 DEF e
    <3>3. CASE k # s
      BY <1>4, <1>6, <2>5, <3>1, <3>3
    <3> QED BY <3>2, <3>3
  <2> QED BY <2>7, <2>8, <2>9, <2>10 DEF InStep
<1> QED BY <1>11, <1>12

\* In a state nothing disturbed so far, the step before was one of register,
\* unregister and handleRegistryUpdate, from another such state.
LEMMA StepInStep ==
    ASSUME ClockInv, ClockInv', HostedTyped, NEW n \in Nodes, NEW a \in Names,
           Homes[a] = {n}, FromHome(n, a), Undisturbed => InStep(n, a),
           [Next]_vars, Undisturbed'
    PROVE  InStep(n, a)'
<1>1. CASE UNCHANGED vars
  BY <1>1 DEF vars, counters, Undisturbed, InStep, Held
<1>2. ASSUME NEW m \in Nodes, NEW b \in Names, NEW generation \in Generations,
             register(m, b, generation)
      PROVE  InStep(n, a)'
  <2>1. InStep(n, a)
    BY <1>2 DEF register, counters, Undisturbed
  <2> QED BY <1>2, <2>1, InStepRegister
<1>3. ASSUME NEW m \in Nodes, NEW b \in Names, unregister(m, b) PROVE InStep(n, a)'
  <2>1. InStep(n, a)
    BY <1>3 DEF unregister, counters, Undisturbed
  <2> QED BY <1>3, <2>1, InStepUnregister
<1>4. ASSUME NEW p \in Nodes, NEW s \in Nodes, handleRegistryUpdate(p, s)
      PROVE  InStep(n, a)'
  <2>1. InStep(n, a)
    BY <1>4 DEF handleRegistryUpdate, counters, Undisturbed
  <2> QED BY <1>4, <2>1, InStepUpdate
<1>5. ASSUME NEW p \in Nodes, NEW s \in Nodes, Lose(p, s) PROVE FALSE
  BY <1>5 DEF Lose, Undisturbed, HostedTyped
<1>6. ASSUME NEW m \in Nodes, republishAll(m) PROVE FALSE
  BY <1>6 DEF republishAll, Undisturbed, HostedTyped
<1>7. ASSUME NEW m \in Nodes, NEW p \in Nodes, handlePeerLeave(m, p) PROVE FALSE
  BY <1>7 DEF handlePeerLeave, Undisturbed, HostedTyped
<1> QED BY <1>1, <1>2, <1>3, <1>4, <1>5, <1>6, <1>7 DEF Next

\* Initially nobody knows any name.
LEMMA InitOwnNames == Init => ClockInv /\ HostedTyped /\ OwnNamesInv
<1> SUFFICES ASSUME Init PROVE HostedTyped /\ OwnNamesInv
  BY InitClock
<1>1. HostedTyped
  BY DEF Init, HostedTyped
<1>2. \A n \in Nodes : Held(n) = {} /\ hosted[n] = {}
  BY DEF Init, Held
<1>3. \A p, s \in Nodes : wire[p][s] = <<>> /\ Len(wire[p][s]) = 0
  BY DEF Init
<1>4. \A n \in Nodes, a \in Names : registrations[n][a] = None
  BY DEF Init
<1>5. \A n \in Nodes, a \in Names : FromHome(n, a)
  BY <1>2, <1>3 DEF FromHome
<1>6. \A n \in Nodes, a \in Names : InStep(n, a)
  <2> SUFFICES ASSUME NEW n \in Nodes, NEW a \in Names PROVE InStep(n, a)
    OBVIOUS
  <2>1. \A s \in Nodes \ {n} : Follows(wire[n][s], registrations[s][a], registrations[n][a], a, n)
    BY <1>3, <1>4 DEF Follows
  <2> QED BY <1>2, <1>3, <2>1 DEF InStep
<1> QED BY <1>1, <1>5, <1>6 DEF OwnNamesInv

\* Every step preserves the whole invariant.
LEMMA StepOwnNames ==
    ClockInv /\ HostedTyped /\ OwnNamesInv /\ [Next]_vars
        => ClockInv' /\ HostedTyped' /\ OwnNamesInv'
<1> SUFFICES ASSUME ClockInv, HostedTyped, OwnNamesInv, [Next]_vars
             PROVE  ClockInv' /\ HostedTyped' /\ OwnNamesInv'
  OBVIOUS
<1>1. ClockInv' /\ HostedTyped'
  BY StepClock, StepHostedTyped
<1>2. ASSUME NEW n \in Nodes, NEW a \in Names, Homes[a] = {n}
      PROVE  FromHome(n, a)' /\ (Undisturbed' => InStep(n, a)')
  <2>1. FromHome(n, a) /\ (Undisturbed => InStep(n, a))
    BY <1>2 DEF OwnNamesInv
  <2>2. FromHome(n, a)'
    BY <1>2, <2>1, StepHome
  <2>3. ASSUME Undisturbed' PROVE InStep(n, a)'
    BY <1>1, <1>2, <2>1, <2>3, StepInStep
  <2> QED BY <2>2, <2>3
<1>3. OwnNamesInv'
  BY <1>2 DEF OwnNamesInv
<1> QED BY <1>1, <1>3

\* A node resolves the names that only it hosts to itself as long as their
\* actors live; once everything published has been delivered, and nothing was
\* lost, every node holds of such a name what its home holds, which is a
\* registration exactly while the actor lives.
THEOREM OwnNamesAgree == Spec => []OwnNamesSettle
<1>1. ClockInv /\ HostedTyped /\ OwnNamesInv => OwnNamesSettle
  <2> SUFFICES ASSUME OwnNamesInv, NEW n \in Nodes, NEW a \in Names, Homes[a] = {n}
               PROVE  /\ a \in hosted[n] =>
                            registrations[n][a] # None /\ registrations[n][a].node = n
                      /\ Quiescent /\ Undisturbed =>
                            /\ \A m \in Nodes : registrations[m][a] = registrations[n][a]
                            /\ a \in Held(n) <=> a \in hosted[n]
    BY DEF OwnNamesSettle
  <2>1. FromHome(n, a) /\ (Undisturbed => InStep(n, a))
    BY DEF OwnNamesInv
  <2>2. a \in hosted[n] => a \in Held(n)
    BY <2>1 DEF FromHome
  <2>3. a \in hosted[n] => registrations[n][a] # None /\ registrations[n][a].node = n
    BY <2>1, <2>2 DEF FromHome, Held
  <2>4. ASSUME Quiescent, Undisturbed, NEW m \in Nodes
        PROVE  registrations[m][a] = registrations[n][a]
    <3>1. CASE m = n
      BY <3>1
    <3>2. CASE m # n
      <4>1. wire[n][m] = <<>> /\ Len(wire[n][m]) = 0
        BY <2>4 DEF Quiescent
      <4>2. Follows(wire[n][m], registrations[m][a], registrations[n][a], a, n)
        BY <2>1, <2>4, <3>2 DEF InStep
      <4> QED BY <4>1, <4>2 DEF Follows
    <3> QED BY <3>1, <3>2
  <2>5. Undisturbed => (a \in Held(n) <=> a \in hosted[n])
    BY <2>1, <2>2 DEF InStep
  <2> QED BY <2>3, <2>4, <2>5
<1> QED BY InitOwnNames, StepOwnNames, <1>1, PTL DEF Spec

----------------------------------------------------------------------------
(* Migration *)

Statuses == {"unused", "building", "live", "stopping", "broken", "gone"}
Phases == {"idle", "preparing", "draining", "serializing", "executing",
           "rollingBack", "unregistering", "moved", "failed"}

Copy == [node : Nodes, status : Statuses, paused : BOOLEAN, mailbox : Seq(Msgs),
         busy : Msgs \cup {NoMsg}, state : SUBSET Msgs]
Locals == [phase : Phases, from : Nodes, to : Nodes, src : Copies, new : 0..MaxCopies,
           pending : Seq(Msgs), state : SUBSET Msgs]

Queues == {<<>>, <<"prepare">>, <<"execute">>, <<"execute", "rollback">>, <<"rollback">>}

MigrationTyped ==
    /\ copies \in [Copies -> Copy]
    /\ migrations \in [Migrations -> Locals]
    /\ requests \in [Migrations -> Queues]
    /\ reply \in [Migrations -> {"none", "ready", "refused", "success", "failure"}]
    /\ reservation \in [Migrations -> {"none", "held", "confirmed"}]
    /\ named \in [Nodes -> 0..MaxCopies]
    /\ did \in [Copies -> SUBSET Msgs] /\ direct \in [Copies -> SUBSET Msgs]
    /\ overlapped \in BOOLEAN

(* A node that anybody knows to have registered the name has had a copy.   *)
Known(update, names) ==
    update.type = "register" /\ update.name = Name => names[update.registration.node] # 0

RegistryKnown ==
    /\ \A n \in Nodes : registrations[n][Name] # None => named[registrations[n][Name].node] # 0
    /\ \A p, s \in Nodes : \A i \in 1..Len(wire[p][s]) : Known(wire[p][s][i], named)

(* Copies are used once, a copy somebody migrates or names was live, and   *)
(* one that was not has handled nothing.                                   *)
Grown == {"live", "stopping", "gone"}
Fallow == {"unused", "building", "broken"}

CopiesInv ==
    /\ \A n \in Nodes : named[n] # 0 => copies[named[n]].status \in Grown
    /\ \A g \in Migrations : migrations[g].phase # "idle" => copies[migrations[g].src].status \in Grown
    /\ \A g \in Migrations : migrations[g].new # 0 => copies[migrations[g].new].status # "unused"
    /\ \A c \in Copies : did[c] \subseteq copies[c].state
    /\ \A c \in Copies : copies[c].status \in Fallow =>
          did[c] = {} /\ direct[c] = {} /\ copies[c].busy = NoMsg /\ copies[c].mailbox = <<>>

(* How far the two ends of migration g have got.                           *)
ToExecute(g) == requests[g] \in {<<"execute">>, <<"execute", "rollback">>}

Protocol(g) ==
    LET phase == migrations[g].phase
    IN  /\ phase \in {"idle", "draining", "serializing", "unregistering", "moved"} => requests[g] = <<>>
        /\ phase = "preparing" => requests[g] \in {<<"prepare">>, <<>>}
        /\ phase = "executing" => requests[g] \in {<<"execute">>, <<>>}
        /\ phase = "rollingBack" => requests[g] # <<"prepare">>
        /\ reply[g] = "ready" => phase = "preparing" /\ requests[g] = <<>>
        /\ reply[g] = "success" => phase = "executing" /\ reservation[g] = "confirmed"
        /\ reply[g] = "failure" => /\ phase = "executing" /\ migrations[g].new # 0
                                   /\ ~Building(g) /\ reservation[g] # "confirmed"
        /\ ToExecute(g) \/ requests[g] = <<"prepare">> => migrations[g].new = 0
        /\ Building(g) => reservation[g] # "confirmed"
        /\ reservation[g] = "confirmed" => migrations[g].new # 0
        /\ ToExecute(g) \/ Building(g) \/ reservation[g] = "confirmed" =>
              phase \in {"executing", "unregistering", "moved"} \/ g \in gaveUp
        /\ phase \in {"unregistering", "moved"} => reservation[g] = "confirmed"
        /\ g \in gaveUp => phase \in {"rollingBack", "failed"}
        /\ g \in undone => requests[g] = <<>> /\ reservation[g] = "none"
                           /\ phase \in {"rollingBack", "failed"}
        /\ phase \in {"idle", "preparing", "draining"} => migrations[g].pending = <<>>
        /\ phase \in {"idle", "preparing", "draining", "serializing"} => migrations[g].new = 0

ProtocolInv == \A g \in Migrations : Protocol(g)

(* Where message m is: in place i of the mailbox of copy x, in its handler,*)
(* in a handler run past the mailbox, among what it has handled, or in place i of what migration x drained    *)
(* and has neither handed over nor given back.                             *)
Limbo(g) == reservation[g] # "confirmed" /\ migrations[g].phase # "failed"

At(m, kind, x, i) ==
    \/ /\ kind = "mailbox" /\ x \in Copies
       /\ i \in DOMAIN copies[x].mailbox /\ copies[x].mailbox[i] = m
    \/ kind = "busy" /\ x \in Copies /\ i = 0 /\ copies[x].busy = m
    \/ kind = "direct" /\ x \in Copies /\ i = 0 /\ m \in direct[x] \ did[x]
    \/ kind = "did" /\ x \in Copies /\ i = 0 /\ m \in did[x]
    \/ /\ kind = "pending" /\ x \in Migrations /\ Limbo(x)
       /\ i \in DOMAIN migrations[x].pending /\ migrations[x].pending[i] = m

Kinds == {"mailbox", "busy", "direct", "did", "pending"}

AtOnePlace(m) ==
    \A k, l \in Kinds : \A x, y, i, j \in Nat :
        At(m, k, x, i) /\ At(m, l, y, j) => k = l /\ x = y /\ i = j

(* The case that the protocol leaves open.                                 *)
Excused(m) ==
    \E g \in gaveUp \ undone : /\ g \in Migrations /\ m \in Range(migrations[g].pending)
                               /\ reservation[g] = "confirmed"

PlacesInv == \A m \in Msgs : AtOnePlace(m) \/ Excused(m)

(* Without overlap a copy has one migration at a time; when its drain did  *)
(* not time out, no message of its mailbox is handled from then on, and the*)
(* state that goes over has all that were.                                 *)
Boxed(c) == did[c] \ direct[c]

AtRest(c) == /\ copies[c].busy = NoMsg
             /\ copies[c].paused \/ copies[c].status = "gone"

Carries(g) ==
    LET phase == migrations[g].phase
        src == migrations[g].src
    IN  /\ UnderWay(g) => \A h \in Migrations : UnderWay(h) /\ migrations[h].src = src => h = g
        /\ phase \in {"draining", "serializing", "executing", "unregistering"} =>
              copies[src].paused \/ copies[src].status = "gone"
        /\ phase = "moved" => copies[src].status = "gone"
        /\ g \in quiet /\ phase \in {"serializing", "executing", "unregistering", "moved"} => AtRest(src)
        /\ g \in quiet /\ phase \in {"executing", "unregistering", "moved"} =>
              Boxed(src) \subseteq migrations[g].state
        /\ g \in quiet => phase \notin {"idle", "preparing", "draining"}

CarryInv ==
    /\ quiet \subseteq Migrations
    /\ \A g \in Migrations : reservation[g] = "confirmed" =>
          migrations[g].state \subseteq copies[migrations[g].new].state
    /\ ~overlapped => \A g \in Migrations : Carries(g)

----------------------------------------------------------------------------
(* Types *)

\* Room means that there is an unused copy, and Fresh is one.
LEMMA FreshIsUnused == Room => Fresh \in Copies /\ copies[Fresh].status = "unused"
BY DEF Room, Fresh

\* The assumptions on the constants, as the proofs use them.
LEMMA Constants ==
    /\ Home \in Nodes /\ Name \in Names /\ NoMsg \notin Msgs
    /\ MaxCopies \in Nat \ {0} /\ MaxMigrations \in Nat
    /\ 1 \in Copies /\ 0 \notin Copies /\ Copies \subseteq 0..MaxCopies
BY MigrationAssumption DEF Copies

\* A copy with some of its fields changed is a copy.
LEMMA CopyFields ==
    \A r \in Copy :
        /\ \A v \in Statuses : [r EXCEPT !.status = v] \in Copy
        /\ \A v \in BOOLEAN : [r EXCEPT !.paused = v] \in Copy
        /\ \A q \in Seq(Msgs) : [r EXCEPT !.mailbox = q] \in Copy
        /\ \A q \in Seq(Msgs), m \in Msgs : [r EXCEPT !.busy = m, !.mailbox = q] \in Copy
        /\ \A S \in SUBSET Msgs : [r EXCEPT !.state = S] \in Copy
        /\ \A S \in SUBSET Msgs : [r EXCEPT !.busy = NoMsg, !.state = S] \in Copy
        /\ \A v \in Statuses : [r EXCEPT !.status = v, !.paused = FALSE] \in Copy
        /\ \A q \in Seq(Msgs), v \in BOOLEAN : [r EXCEPT !.paused = v, !.mailbox = q] \in Copy
        /\ \A v \in Statuses, q \in Seq(Msgs), S \in SUBSET Msgs :
              [r EXCEPT !.status = v, !.state = S, !.mailbox = q] \in Copy
BY DEF Copy

\* New copies.
LEMMA NewCopies ==
    /\ Unused \in Copy
    /\ \A n \in Nodes : /\ Spawned(n) \in Copy
                        /\ [Unused EXCEPT !.node = n, !.status = "building"] \in Copy
<1>1. <<>> \in Seq(Msgs)
  OBVIOUS
<1>2. Unused \in Copy
  BY <1>1, Constants DEF Unused, Copy, Statuses
<1> QED BY <1>2 DEF Spawned, Copy, Statuses

\* Nothing has been sent or made at first.
LEMMA InitMigrationTyped == MigrationInit => MigrationTyped
<1> SUFFICES ASSUME MigrationInit PROVE MigrationTyped
  OBVIOUS
<1>1. <<>> \in Seq(Msgs)
  OBVIOUS
<1>2. Idle \in Locals
  BY <1>1, Constants DEF Idle, Locals, Phases
<1>3. copies \in [Copies -> Copy] /\ migrations \in [Migrations -> Locals]
  BY <1>2, NewCopies DEF MigrationInit
<1>4. <<>> \in Queues
  BY DEF Queues
<1>5. /\ requests \in [Migrations -> Queues] /\ named \in [Nodes -> 0..MaxCopies]
      /\ reply \in [Migrations -> {"none", "ready", "refused", "success", "failure"}]
      /\ reservation \in [Migrations -> {"none", "held", "confirmed"}]
  BY <1>4, Constants DEF MigrationInit
<1>6. did \in [Copies -> SUBSET Msgs] /\ direct \in [Copies -> SUBSET Msgs] /\ overlapped \in BOOLEAN
  BY DEF MigrationInit
<1> QED BY <1>3, <1>5, <1>6 DEF MigrationTyped

\* What a copy and a migration consist of.
LEMMA Fields ==
    ASSUME MigrationTyped
    PROVE  /\ \A c \in Copies :
                 /\ copies[c] \in Copy /\ copies[c].node \in Nodes /\ copies[c].status \in Statuses
                 /\ copies[c].paused \in BOOLEAN /\ copies[c].mailbox \in Seq(Msgs)
                 /\ copies[c].busy \in Msgs \cup {NoMsg} /\ copies[c].state \subseteq Msgs
                 /\ did[c] \subseteq Msgs /\ direct[c] \subseteq Msgs
           /\ \A g \in Migrations :
                 /\ migrations[g] \in Locals /\ migrations[g].phase \in Phases
                 /\ migrations[g].from \in Nodes /\ migrations[g].to \in Nodes
                 /\ migrations[g].src \in Copies /\ migrations[g].new \in 0..MaxCopies
                 /\ migrations[g].pending \in Seq(Msgs) /\ migrations[g].state \subseteq Msgs
                 /\ requests[g] \in Queues
BY DEF MigrationTyped, Copy, Locals

\* A step changes one copy, to r.
Changes(c, r) == c \in Copies /\ r \in Copy /\ copies' = [copies EXCEPT ![c] = r]

\* What the steps of a copy do to it.
LEMMA CopySteps ==
    ASSUME MigrationTyped, NEW c \in Copies
    PROVE  /\ \A m \in Msgs : cast(c, m) =>
                 Changes(c, [copies[c] EXCEPT !.mailbox = Append(copies[c].mailbox, m)])
           /\ Handle(c) => Changes(c, [copies[c] EXCEPT !.busy = Head(copies[c].mailbox),
                                                        !.mailbox = Tail(copies[c].mailbox)])
           /\ Handled(c) => Changes(c, [copies[c] EXCEPT !.busy = NoMsg,
                                                         !.state = copies[c].state \cup {copies[c].busy}])
           /\ \A m \in Msgs : RpcHandled(c, m) =>
                 Changes(c, [copies[c] EXCEPT !.state = copies[c].state \cup {m}])
           /\ stop(c) => Changes(c, [copies[c] EXCEPT !.status = "stopping"])
<1> DEFINE r == copies[c]
<1>0. r \in Copy /\ r.mailbox \in Seq(Msgs) /\ r.busy \in Msgs \cup {NoMsg} /\ r.state \subseteq Msgs
  BY Fields
<1>1. ASSUME NEW m \in Msgs, cast(c, m) PROVE Changes(c, [r EXCEPT !.mailbox = Append(r.mailbox, m)])
  <2>1. Append(r.mailbox, m) \in Seq(Msgs)
    BY <1>0
  <2>2. [r EXCEPT !.mailbox = Append(r.mailbox, m)] \in Copy
    BY <1>0, <2>1, CopyFields
  <2> QED BY <1>1, <2>2 DEF cast, Changes
<1>2. ASSUME Handle(c)
      PROVE  Changes(c, [r EXCEPT !.busy = Head(r.mailbox), !.mailbox = Tail(r.mailbox)])
  <2>1. Head(r.mailbox) \in Msgs /\ Tail(r.mailbox) \in Seq(Msgs)
    BY <1>0, <1>2 DEF Handle
  <2>2. [r EXCEPT !.busy = Head(r.mailbox), !.mailbox = Tail(r.mailbox)] \in Copy
    BY <1>0, <2>1, CopyFields
  <2> QED BY <1>2, <2>2 DEF Handle, Changes
<1>3. ASSUME Handled(c) PROVE Changes(c, [r EXCEPT !.busy = NoMsg, !.state = r.state \cup {r.busy}])
  <2>0. r.state \cup {r.busy} \in SUBSET Msgs
    BY <1>0, <1>3 DEF Handled
  <2>1. [r EXCEPT !.busy = NoMsg, !.state = r.state \cup {r.busy}] \in Copy
    BY <1>0, <2>0, CopyFields, ZenonT(60)
  <2> QED BY <1>3, <2>1 DEF Handled, Changes
<1>4. ASSUME stop(c) PROVE Changes(c, [r EXCEPT !.status = "stopping"])
  BY <1>0, <1>4, CopyFields DEF stop, Changes, Statuses
<1>5. ASSUME NEW m \in Msgs, RpcHandled(c, m) PROVE Changes(c, [r EXCEPT !.state = r.state \cup {m}])
  <2>1. [r EXCEPT !.state = r.state \cup {m}] \in Copy
    BY <1>0, CopyFields
  <2> QED BY <1>5, <2>1 DEF RpcHandled, Changes
<1> QED BY <1>1, <1>2, <1>3, <1>4, <1>5

\* The locals of a migration with some of them changed.
LEMMA LocalsFields ==
    \A r \in Locals :
        /\ \A v \in Phases : [r EXCEPT !.phase = v] \in Locals
        /\ \A v \in Phases, q \in Seq(Msgs) : [r EXCEPT !.phase = v, !.pending = q] \in Locals
        /\ \A v \in Phases, S \in SUBSET Msgs : [r EXCEPT !.phase = v, !.state = S] \in Locals
        /\ \A v \in Phases, n, t \in Nodes, c \in Copies :
              [r EXCEPT !.phase = v, !.from = n, !.to = t, !.src = c] \in Locals
        /\ \A c \in 0..MaxCopies : [r EXCEPT !.new = c] \in Locals
BY ZenonT(60) DEF Locals

\* A step changes the locals of one migration, to r.
Moves(g, r) == r \in Locals /\ migrations' = [migrations EXCEPT ![g] = r]

Source(g) == migrations[g].src

\* The node that migrates the actor has a copy of it.
LEMMA NamedIsCopy ==
    ASSUME MigrationTyped, Typed, RegistryKnown,
           NEW g \in Migrations, NEW n \in Nodes, NEW target \in Nodes, migrate(g, n, target)
    PROVE  named[n] \in Copies
<1>1. named[n] # 0 /\ named[n] \in 0..MaxCopies
  BY DEF migrate, RegistryKnown, MigrationTyped
<1> QED BY <1>1, Constants DEF Copies

\* What migrate does to the copy and to the locals.
LEMMA MigrateStep ==
    ASSUME MigrationTyped, Typed, RegistryKnown,
           NEW g \in Migrations, NEW n \in Nodes, NEW target \in Nodes, migrate(g, n, target)
    PROVE  /\ Changes(named[n], [copies[named[n]] EXCEPT !.paused = TRUE])
           /\ Moves(g, [migrations[g] EXCEPT !.phase = "preparing", !.from = n, !.to = target,
                                             !.src = named[n]])
<1>1. named[n] \in Copies
  BY NamedIsCopy
<1>2. [copies[named[n]] EXCEPT !.paused = TRUE] \in Copy
  BY <1>1, Fields, CopyFields, ZenonT(60)
<1>3. [migrations[g] EXCEPT !.phase = "preparing", !.from = n, !.to = target, !.src = named[n]] \in Locals
  BY <1>1, Fields, LocalsFields DEF Phases
<1> QED BY <1>1, <1>2, <1>3 DEF migrate, Changes, Moves

\* What the steps of the source do to its copy and to the locals.
LEMMA SourceSteps ==
    ASSUME MigrationTyped, NEW g \in Migrations
    PROVE  /\ PrepareFails(g) =>
                 /\ Moves(g, [migrations[g] EXCEPT !.phase = "failed"])
                 /\ Changes(Source(g), [copies[Source(g)] EXCEPT
                       !.paused = copies[Source(g)].paused /\ ~Present(Source(g))])
           /\ PrepareSucceeds(g) =>
                 \/ /\ Present(Source(g)) /\ Moves(g, [migrations[g] EXCEPT !.phase = "draining"])
                    /\ Changes(Source(g), [copies[Source(g)] EXCEPT !.paused = TRUE])
                 \/ /\ ~Present(Source(g)) /\ Moves(g, [migrations[g] EXCEPT !.phase = "serializing"])
                    /\ UNCHANGED copies
           /\ drainMailbox(g) =>
                 /\ Moves(g, [migrations[g] EXCEPT !.phase = "serializing",
                                                   !.pending = copies[Source(g)].mailbox])
                 /\ Changes(Source(g), [copies[Source(g)] EXCEPT !.mailbox = <<>>])
           /\ GetState(g) => Moves(g, [migrations[g] EXCEPT !.phase = "executing",
                                                            !.state = copies[Source(g)].state])
           /\ GetStateFails(g) \/ ExecuteFails(g) =>
                 Moves(g, [migrations[g] EXCEPT !.phase = "rollingBack"])
           /\ ExecuteSucceeds(g) => Moves(g, [migrations[g] EXCEPT !.phase = "unregistering"])
           /\ cleanupActorForMigration(g) =>
                 /\ Moves(g, [migrations[g] EXCEPT !.phase = "moved"])
                 /\ Changes(Source(g), [copies[Source(g)] EXCEPT !.status = "gone", !.paused = FALSE])
<1> DEFINE c == Source(g)
           r == copies[c]
           l == migrations[g]
<1>0. /\ c \in Copies /\ r \in Copy /\ r.mailbox \in Seq(Msgs) /\ r.state \in SUBSET Msgs /\ l \in Locals
      /\ <<>> \in Seq(Msgs) /\ c = migrations[g].src /\ r.paused \in BOOLEAN
  BY Fields DEF Source
<1>1. ASSUME NEW v \in Phases, migrations' = Phase(g, v) PROVE Moves(g, [l EXCEPT !.phase = v])
  BY <1>0, <1>1, LocalsFields DEF Phase, Moves
<1>2. \A v \in {"failed", "draining", "serializing", "rollingBack", "unregistering", "moved", "executing"} :
         v \in Phases
  BY DEF Phases
<1>3. ASSUME NEW v \in BOOLEAN PROVE [r EXCEPT !.paused = v] \in Copy
  BY <1>0, CopyFields
<1>4. ASSUME PrepareFails(g)
      PROVE  /\ Moves(g, [l EXCEPT !.phase = "failed"])
             /\ Changes(c, [r EXCEPT !.paused = r.paused /\ ~Present(c)])
  <2>1. [r EXCEPT !.paused = r.paused /\ ~Present(c)] \in Copy
    BY <1>0, CopyFields
  <2> QED BY <1>0, <1>1, <1>2, <1>4, <2>1 DEF PrepareFails, resumeMailbox, Changes
<1>5. ASSUME PrepareSucceeds(g)
      PROVE  \/ /\ Present(c) /\ Moves(g, [l EXCEPT !.phase = "draining"])
                /\ Changes(c, [r EXCEPT !.paused = TRUE])
             \/ /\ ~Present(c) /\ Moves(g, [l EXCEPT !.phase = "serializing"])
                /\ UNCHANGED copies
  BY <1>0, <1>1, <1>2, <1>3, <1>5 DEF PrepareSucceeds, Changes
<1>6. ASSUME drainMailbox(g)
      PROVE  /\ Moves(g, [l EXCEPT !.phase = "serializing", !.pending = r.mailbox])
             /\ Changes(c, [r EXCEPT !.mailbox = <<>>])
  <2>1. [l EXCEPT !.phase = "serializing", !.pending = r.mailbox] \in Locals
    BY <1>0, <1>2, LocalsFields
  <2>2. [r EXCEPT !.mailbox = <<>>] \in Copy
    BY <1>0, CopyFields
  <2> QED BY <1>0, <1>6, <2>1, <2>2 DEF drainMailbox, Changes, Moves
<1>7. ASSUME GetState(g) PROVE Moves(g, [l EXCEPT !.phase = "executing", !.state = r.state])
  <2>1. [l EXCEPT !.phase = "executing", !.state = r.state] \in Locals
    BY <1>0, <1>2, LocalsFields
  <2> QED BY <1>0, <1>7, <2>1 DEF GetState, Moves
<1>8. ASSUME GetStateFails(g) \/ ExecuteFails(g) PROVE Moves(g, [l EXCEPT !.phase = "rollingBack"])
  BY <1>1, <1>2, <1>8 DEF GetStateFails, ExecuteFails
<1>9. ASSUME ExecuteSucceeds(g) PROVE Moves(g, [l EXCEPT !.phase = "unregistering"])
  BY <1>1, <1>2, <1>9 DEF ExecuteSucceeds
<1>10. ASSUME cleanupActorForMigration(g)
       PROVE  /\ Moves(g, [l EXCEPT !.phase = "moved"])
              /\ Changes(c, [r EXCEPT !.status = "gone", !.paused = FALSE])
  <2>1. [r EXCEPT !.status = "gone", !.paused = FALSE] \in Copy
    BY <1>0, CopyFields DEF Statuses
  <2> QED BY <1>0, <1>1, <1>2, <1>10, <2>1 DEF cleanupActorForMigration, Changes
<1> QED BY <1>4, <1>5, <1>6, <1>7, <1>8, <1>9, <1>10

\* What RolledBack gives back.
GivenBack(g) ==
    [copies[Source(g)] EXCEPT
        !.paused = copies[Source(g)].paused /\ ~Present(Source(g)),
        !.mailbox = IF Present(Source(g)) THEN migrations[g].pending \o copies[Source(g)].mailbox
                    ELSE copies[Source(g)].mailbox]

\* A migration that is rolled back gives back what it drained.
LEMMA RolledBackStep ==
    ASSUME MigrationTyped, NEW g \in Migrations, RolledBack(g)
    PROVE  /\ Moves(g, [migrations[g] EXCEPT !.phase = "failed"])
           /\ Changes(Source(g), GivenBack(g))
<1> DEFINE c == Source(g)
           r == copies[c]
           q == IF Present(c) THEN migrations[g].pending \o r.mailbox ELSE r.mailbox
<1>1. c \in Copies /\ r \in Copy /\ q \in Seq(Msgs) /\ c = migrations[g].src
  BY Fields, SMTT(60) DEF Source
<1>2. Moves(g, [migrations[g] EXCEPT !.phase = "failed"])
  BY Fields, LocalsFields DEF RolledBack, Phase, Moves, Phases
<1>3. GivenBack(g) \in Copy
  <2> DEFINE v == r.paused /\ ~Present(c)
  <2>1. v \in BOOLEAN
    OBVIOUS
  <2>2. GivenBack(g) = [r EXCEPT !.paused = v, !.mailbox = q]
    BY DEF GivenBack
  <2>3. [r EXCEPT !.paused = v, !.mailbox = q] \in Copy
    <3> HIDE DEF q, v, r
    <3> QED BY <1>1, <2>1, CopyFields
  <2> QED BY <2>2, <2>3
<1>4. copies' = [copies EXCEPT ![c] = GivenBack(g)]
  BY <1>1, ZenonT(60) DEF RolledBack, injectAndResume, resumeMailbox, GivenBack, MigrationTyped, Present
<1> QED BY <1>1, <1>2, <1>3, <1>4 DEF Changes

\* What the steps of the target do to the new copy and to the locals.
LEMMA TargetSteps ==
    ASSUME MigrationTyped, NEW g \in Migrations
    PROVE  /\ handleMigrateExecute(g) =>
                 /\ Moves(g, [migrations[g] EXCEPT !.new = Fresh])
                 /\ copies[Fresh].status = "unused"
                 /\ Changes(Fresh, [Unused EXCEPT !.node = migrations[g].to, !.status = "building"])
           /\ confirmReservation(g) =>
                 \/ /\ reservation[g] = "held"
                    /\ Changes(migrations[g].new, [copies[migrations[g].new] EXCEPT
                          !.status = "live", !.state = migrations[g].state,
                          !.mailbox = migrations[g].pending])
                 \/ /\ reservation[g] # "held"
                    /\ Changes(migrations[g].new, [copies[migrations[g].new] EXCEPT !.status = "gone"])
           /\ ExecuteThrows(g) =>
                 Changes(migrations[g].new, [copies[migrations[g].new] EXCEPT !.status = "broken"])
<1> DEFINE c == migrations[g].new
           l == migrations[g]
           r == copies[c]
<1>0. l \in Locals /\ l.to \in Nodes /\ l.pending \in Seq(Msgs) /\ l.state \in SUBSET Msgs
  BY Fields
<1>1. Building(g) => c \in Copies /\ r \in Copy
  BY Fields, Constants DEF Building, Copies
<1>2. ASSUME handleMigrateExecute(g)
      PROVE  /\ Moves(g, [l EXCEPT !.new = Fresh]) /\ copies[Fresh].status = "unused"
             /\ Changes(Fresh, [Unused EXCEPT !.node = l.to, !.status = "building"])
  <2>1. Fresh \in Copies /\ copies[Fresh].status = "unused"
    BY <1>2, FreshIsUnused DEF handleMigrateExecute
  <2>2. [l EXCEPT !.new = Fresh] \in Locals
    BY <1>0, <2>1, LocalsFields, Constants
  <2>3. [Unused EXCEPT !.node = l.to, !.status = "building"] \in Copy
    BY <1>0, NewCopies
  <2> QED BY <1>2, <2>1, <2>2, <2>3 DEF handleMigrateExecute, Moves, Changes
<1>3. ASSUME Building(g)
      PROVE  /\ [r EXCEPT !.status = "gone"] \in Copy /\ [r EXCEPT !.status = "broken"] \in Copy
             /\ [r EXCEPT !.status = "live", !.state = l.state, !.mailbox = l.pending] \in Copy
  <2>1. {"gone", "broken", "live"} \subseteq Statuses
    BY DEF Statuses
  <2> QED BY <1>0, <1>1, <1>3, <2>1, CopyFields
<1>4. ASSUME confirmReservation(g), reservation[g] = "held"
      PROVE  Changes(c, [r EXCEPT !.status = "live", !.state = l.state, !.mailbox = l.pending])
  BY <1>1, <1>3, <1>4 DEF confirmReservation, Changes
<1>5. ASSUME confirmReservation(g), reservation[g] # "held"
      PROVE  Changes(c, [r EXCEPT !.status = "gone"])
  BY <1>1, <1>3, <1>5 DEF confirmReservation, Changes
<1>6. ASSUME ExecuteThrows(g) PROVE Changes(c, [r EXCEPT !.status = "broken"])
  BY <1>1, <1>3, <1>6 DEF ExecuteThrows, Changes
<1> QED BY <1>2, <1>4, <1>5, <1>6

\* What spawning and the end of a stop do to the copies.
LEMMA SpawnSteps ==
    ASSUME MigrationTyped
    PROVE  /\ spawn => copies[1].status = "unused" /\ Changes(1, Spawned(Home))
           /\ \A c \in Copies : StopEnds(c) =>
                 \/ Changes(c, [copies[c] EXCEPT !.status = "gone"]) /\ UNCHANGED named
                 \/ /\ Fresh \in Copies /\ Fresh # c /\ copies[Fresh].status = "unused"
                    /\ copies' \in [Copies -> Copy]
                    /\ copies'[c] = [copies[c] EXCEPT !.status = "gone"]
                    /\ copies'[Fresh] = Spawned(copies[c].node)
                    /\ \A b \in Copies \ {c, Fresh} : copies'[b] = copies[b]
                    /\ named' = [named EXCEPT ![copies[c].node] = Fresh]
                    /\ Registers(localClock, registrations, copies[c].node)
<1>1. ASSUME spawn PROVE copies[1].status = "unused" /\ Changes(1, Spawned(Home))
  BY <1>1, NewCopies, Constants DEF spawn, Changes
<1>2. ASSUME NEW c \in Copies, StopEnds(c),
             ~(Changes(c, [copies[c] EXCEPT !.status = "gone"]) /\ UNCHANGED named)
      PROVE  /\ Fresh \in Copies /\ Fresh # c /\ copies[Fresh].status = "unused"
             /\ copies' \in [Copies -> Copy]
             /\ copies'[c] = [copies[c] EXCEPT !.status = "gone"]
             /\ copies'[Fresh] = Spawned(copies[c].node)
             /\ \A b \in Copies \ {c, Fresh} : copies'[b] = copies[b]
             /\ named' = [named EXCEPT ![copies[c].node] = Fresh]
             /\ Registers(localClock, registrations, copies[c].node)
  <2>0. [copies[c] EXCEPT !.status = "gone"] \in Copy
    BY Fields, CopyFields DEF Statuses
  <2>1. ~(copies' = [copies EXCEPT ![c].status = "gone"] /\ UNCHANGED named)
    BY <1>2, <2>0 DEF Changes
  <2>2. /\ Room /\ copies[c].status = "stopping"
        /\ copies' = [[copies EXCEPT ![c].status = "gone"] EXCEPT ![Fresh] = Spawned(copies[c].node)]
        /\ named' = [named EXCEPT ![copies[c].node] = Fresh]
        /\ Registers(localClock, registrations, copies[c].node)
    BY <1>2, <2>1 DEF StopEnds, registry
  <2>3. Fresh \in Copies /\ Fresh # c /\ copies[Fresh].status = "unused"
    BY <2>2, FreshIsUnused
  <2>4. Spawned(copies[c].node) \in Copy
    BY Fields, NewCopies
  <2>5. copies \in [Copies -> Copy]
    BY DEF MigrationTyped
  <2> HIDE DEF Fresh
  <2> QED BY <2>0, <2>2, <2>3, <2>4, <2>5, SMTT(60)
<1> QED BY <1>1, <1>2

----------------------------------------------------------------------------
(* The registry: whoever is known to have registered the name has a copy.  *)

\* Registering the name after naming a copy.
LEMMA RegistryRegisters ==
    ASSUME Typed, RegistryKnown, named \in [Nodes -> 0..MaxCopies],
           NEW n \in Nodes, NEW c \in Copies, named' = [named EXCEPT ![n] = c],
           Registers(localClock, registrations, n)
    PROVE  Typed' /\ RegistryKnown' /\ named' \in [Nodes -> 0..MaxCopies]
<1> DEFINE clock == increment(localClock[n], n)
<1>1. PICK generation \in Generations :
         LET reg == [node |-> n, generation |-> generation, vectorClock |-> clock]
         IN  /\ localClock' = [localClock EXCEPT ![n] = clock]
             /\ registrations' = [registrations EXCEPT ![n][Name] = reg]
             /\ wire' = Published(n, <<[type |-> "register", name |-> Name, registration |-> reg]>>)
  BY DEF Registers
<1> DEFINE reg == [node |-> n, generation |-> generation, vectorClock |-> clock]
           u   == [type |-> "register", name |-> Name, registration |-> reg]
           us  == <<u>>
<1>2. clock \in Clock /\ reg \in Registration /\ u \in Update
  <2>1. clock \in Clock
    BY IncrementCovers DEF Typed
  <2> QED BY <2>1, Constants DEF Registration, Update
<1>3. us \in Seq(Update) /\ Len(us) = 1 /\ us[1] = u
  BY <1>2
<1>4. named' \in [Nodes -> 0..MaxCopies] /\ \A m \in Nodes : named[m] # 0 \/ m = n => named'[m] # 0
  BY Constants
<1>5. Typed'
  <2>1. wire' \in [Nodes -> [Nodes -> Seq(Update)]]
    BY <1>1, <1>3, PublishedType
  <2>2. localClock' \in [Nodes -> Clock]
    <3> HIDE DEF clock
    <3> QED BY <1>1, <1>2 DEF Typed
  <2>3. registrations' \in [Nodes -> [Names -> Registration \union {None}]]
    <3>1. registrations' = [registrations EXCEPT ![n][Name] = reg]
      BY <1>1
    <3> HIDE DEF reg
    <3> QED BY <1>2, <3>1, Constants DEF Typed
  <2> QED BY <2>1, <2>2, <2>3 DEF Typed
<1>6. ASSUME NEW m \in Nodes, registrations'[m][Name] # None PROVE named'[registrations'[m][Name].node] # 0
  <2>1. CASE m = n
    <3>1. registrations'[n][Name] = reg
      BY <1>1, Constants DEF Typed
    <3> QED BY <1>4, <2>1, <3>1
  <2>2. CASE m # n
    <3>1. registrations'[m][Name] = registrations[m][Name]
      BY <1>1, <2>2 DEF Typed
    <3>2. registrations[m][Name] \in Registration
      BY <1>6, <3>1, Constants DEF Typed
    <3> QED BY <1>4, <1>6, <3>1, <3>2 DEF RegistryKnown, Registration
  <2> QED BY <2>1, <2>2
<1>7. ASSUME NEW p \in Nodes, NEW s \in Nodes, NEW i \in 1..Len(wire'[p][s])
      PROVE  Known(wire'[p][s][i], named')
  <2>1. wire' = Published(n, us)
    BY <1>1
  <2>2. \/ \E j \in 1..Len(wire[p][s]) : wire'[p][s][i] = wire[p][s][j]
        \/ \E j \in 1..Len(us) : wire'[p][s][i] = us[j]
    <3> HIDE DEF us
    <3>1. i \in 1..Len(Published(n, us)[p][s])
      BY <1>7, <2>1
    <3> QED BY <1>3, <2>1, <3>1, WireAfterPublish, ZenonT(60)
  <2>3. CASE \E j \in 1..Len(wire[p][s]) : wire'[p][s][i] = wire[p][s][j]
    <3>1. PICK j \in 1..Len(wire[p][s]) : wire'[p][s][i] = wire[p][s][j]
      BY <2>3
    <3>2. wire[p][s][j] \in Update /\ Known(wire[p][s][j], named)
      BY CarriesClock DEF RegistryKnown
    <3>3. wire[p][s][j].registration.node \in Nodes
      BY <3>2 DEF Update, Registration
    <3> QED BY <1>4, <3>1, <3>2, <3>3 DEF Known
  <2>4. CASE \E j \in 1..Len(us) : wire'[p][s][i] = us[j]
    <3>1. wire'[p][s][i] = u
      BY <1>3, <2>4
    <3> QED BY <1>4, <3>1 DEF Known
  <2> QED BY <2>2, <2>3, <2>4
<1> QED BY <1>4, <1>5, <1>6, <1>7 DEF RegistryKnown

\* Withdrawing the name.
LEMMA RegistryUnregisters ==
    ASSUME Typed, RegistryKnown, NEW n \in Nodes, Unregisters(n)
    PROVE  Typed' /\ RegistryKnown'
<1> DEFINE clock == increment(localClock[n], n)
           reg == [registrations[n][Name] EXCEPT !.vectorClock = clock]
           u == [type |-> "unregister", name |-> Name, registration |-> reg]
           us == <<u>>
<1>1. named' = named
  BY DEF Unregisters
<1>2. CASE registrations[n][Name] = None
  <2>1. UNCHANGED <<localClock, registrations, wire>>
    BY <1>2 DEF Unregisters
  <2> QED BY <1>1, <2>1 DEF Typed, RegistryKnown, Known
<1>3. CASE registrations[n][Name] # None
  <2>1. /\ localClock' = [localClock EXCEPT ![n] = clock]
        /\ registrations' = [registrations EXCEPT ![n][Name] = None]
        /\ wire' = Published(n, us)
    BY <1>3 DEF Unregisters
  <2>2. clock \in Clock
    BY IncrementCovers DEF Typed
  <2>3. reg \in Registration
    <3>1. registrations[n][Name] \in Registration
      BY <1>3, Constants DEF Typed
    <3> HIDE DEF clock
    <3> QED BY <2>2, <3>1 DEF Registration
  <2>4. u \in Update /\ us \in Seq(Update) /\ Len(us) = 1 /\ us[1] = u
    <3> HIDE DEF reg
    <3> QED BY <2>3, Constants DEF Update
  <2>5. Typed'
    <3>1. wire' \in [Nodes -> [Nodes -> Seq(Update)]]
      BY <2>1, <2>4, PublishedType
    <3> HIDE DEF clock, us
    <3> QED BY <2>1, <2>2, <3>1 DEF Typed
  <2>6. ASSUME NEW m \in Nodes, registrations'[m][Name] # None
        PROVE  named'[registrations'[m][Name].node] # 0
    <3>1. registrations'[m][Name] = registrations[m][Name]
      <4>1. m # n
        BY <2>1, <2>6, Constants DEF Typed
      <4> QED BY <2>1, <4>1 DEF Typed
    <3> QED BY <1>1, <2>6, <3>1 DEF RegistryKnown
  <2>7. ASSUME NEW p \in Nodes, NEW s \in Nodes, NEW i \in 1..Len(wire'[p][s])
        PROVE  Known(wire'[p][s][i], named')
    <3>2. \/ \E j \in 1..Len(wire[p][s]) : wire'[p][s][i] = wire[p][s][j]
          \/ \E j \in 1..Len(us) : wire'[p][s][i] = us[j]
      <4>1. us \in Seq(Update) /\ wire' = Published(n, us)
        BY <2>1, <2>4
      <4> HIDE DEF us
      <4>2. i \in 1..Len(Published(n, us)[p][s])
        BY <2>7, <4>1
      <4> QED BY <4>1, <4>2, WireAfterPublish
    <3>3. CASE \E j \in 1..Len(wire[p][s]) : wire'[p][s][i] = wire[p][s][j]
      BY <1>1, <3>3 DEF RegistryKnown, Known
    <3>4. CASE \E j \in 1..Len(us) : wire'[p][s][i] = us[j]
      <4>1. wire'[p][s][i] = u
        BY <2>4, <3>4
      <4> QED BY <4>1 DEF Known
    <3> QED BY <3>2, <3>3, <3>4
  <2> QED BY <2>5, <2>6, <2>7 DEF RegistryKnown
<1> QED BY <1>2, <1>3

\* Delivering an update.
LEMMA RegistryDelivers ==
    ASSUME Typed, RegistryKnown, NEW p \in Nodes, NEW s \in Nodes, RegistryUpdate(p, s)
    PROVE  Typed' /\ RegistryKnown'
<1> DEFINE u == Head(wire[p][s])
           value == IF u.type = "register" THEN u.registration ELSE None
<1>1. Delivery(p, s) /\ named' = named
  BY DEF RegistryUpdate, handleRegistryUpdate
<1>2. /\ u \in Update /\ u = wire[p][s][1] /\ 1 \in 1..Len(wire[p][s])
      /\ wire' \in [Nodes -> [Nodes -> Seq(Update)]]
      /\ \A q, r \in Nodes : \A i \in 1..Len(wire'[q][r]) :
            \E j \in 1..Len(wire[q][r]) : wire'[q][r][i] = wire[q][r][j]
  BY <1>1, DeliveryFacts
<1>3. u.name \in Names /\ u.registration \in Registration /\ u.registration.vectorClock \in Clock
  BY <1>2 DEF Update, Registration
<1>4. value \in Registration \union {None}
  BY <1>3
<1>5. \/ /\ registrations' = [registrations EXCEPT ![s][u.name] = value]
         /\ localClock' = [localClock EXCEPT ![s] = merge(localClock[s], u.registration.vectorClock)]
      \/ UNCHANGED <<registrations, localClock>>
  BY DEF RegistryUpdate, handleRegistryUpdate
<1>6. merge(localClock[s], u.registration.vectorClock) \in Clock
  BY <1>3, MergeIsLeastUpperBound DEF Typed
<1>7. Typed'
  <2> DEFINE clock == merge(localClock[s], u.registration.vectorClock)
  <2>1. clock \in Clock
    BY <1>6
  <2>2. \/ /\ registrations' = [registrations EXCEPT ![s][u.name] = value]
           /\ localClock' = [localClock EXCEPT ![s] = clock]
        \/ UNCHANGED <<registrations, localClock>>
    BY <1>5
  <2>3. u.name \in Names
    BY <1>3
  <2> HIDE DEF u, value, clock
  <2>4. localClock' \in [Nodes -> Clock]
    BY <2>1, <2>2 DEF Typed
  <2>5. registrations' \in [Nodes -> [Names -> Registration \union {None}]]
    <3>1. registrations \in [Nodes -> [Names -> Registration \union {None}]]
      BY DEF Typed
    <3>2. CASE UNCHANGED registrations
      BY <3>1, <3>2
    <3>3. CASE registrations' = [registrations EXCEPT ![s][u.name] = value]
      <4>1. [registrations[s] EXCEPT ![u.name] = value] \in [Names -> Registration \union {None}]
        BY <1>4, <2>3, <3>1
      <4> QED BY <3>1, <3>3, <4>1
    <3> QED BY <2>2, <3>2, <3>3
  <2> QED BY <1>2, <2>4, <2>5 DEF Typed
<1>8. ASSUME NEW m \in Nodes, registrations'[m][Name] # None
      PROVE  named'[registrations'[m][Name].node] # 0
  <2>1. CASE registrations'[m][Name] = registrations[m][Name]
    BY <1>1, <1>8, <2>1 DEF RegistryKnown
  <2>2. CASE registrations'[m][Name] # registrations[m][Name]
    <3>1. u.name = Name /\ registrations'[m][Name] = value
      <4>1. registrations' = [registrations EXCEPT ![s][u.name] = value] /\ u.name \in Names
        BY <1>3, <1>5, <2>2
      <4>2. registrations \in [Nodes -> [Names -> Registration \union {None}]]
        BY DEF Typed
      <4> HIDE DEF u, value
      <4> QED BY <2>2, <4>1, <4>2, Constants
    <3>2. u.type = "register" /\ registrations'[m][Name] = u.registration
      BY <1>8, <3>1
    <3>3. Known(u, named)
      BY <1>2 DEF RegistryKnown
    <3> QED BY <1>1, <3>1, <3>2, <3>3 DEF Known
  <2> QED BY <2>1, <2>2
<1>9. ASSUME NEW q \in Nodes, NEW r \in Nodes, NEW i \in 1..Len(wire'[q][r])
      PROVE  Known(wire'[q][r][i], named')
  <2>1. PICK j \in 1..Len(wire[q][r]) : wire'[q][r][i] = wire[q][r][j]
    BY <1>2
  <2> QED BY <1>1, <2>1 DEF RegistryKnown, Known
<1> QED BY <1>7, <1>8, <1>9 DEF RegistryKnown

----------------------------------------------------------------------------
(* The types, the copies and the protocol are one inductive invariant.     *)

BaseInv == MigrationTyped /\ Typed /\ RegistryKnown /\ CopiesInv /\ ProtocolInv

\* A copy that a step changes, and the others.
LEMMA ChangesAre ==
    ASSUME MigrationTyped, NEW c, NEW r, Changes(c, r)
    PROVE  /\ copies' \in [Copies -> Copy] /\ c \in Copies /\ r \in Copy /\ copies'[c] = r
           /\ \A b \in Copies : b # c => copies'[b] = copies[b]
BY DEF Changes, MigrationTyped

\* A migration whose locals a step changes, and the others.
LEMMA MovesAre ==
    ASSUME MigrationTyped, NEW g \in Migrations, NEW r, Moves(g, r)
    PROVE  /\ migrations' \in [Migrations -> Locals] /\ r \in Locals /\ migrations'[g] = r
           /\ \A h \in Migrations : h # g => migrations'[h] = migrations[h]
BY DEF Moves, MigrationTyped

\* A step gives copy c these values and leaves the other copies alone.
Sets(c, status, paused, mailbox, busy, state) ==
    /\ c \in Copies /\ copies' \in [Copies -> Copy]
    /\ copies'[c].status = status /\ copies'[c].paused = paused
    /\ copies'[c].mailbox = mailbox /\ copies'[c].busy = busy /\ copies'[c].state = state
    /\ \A b \in Copies : b # c => copies'[b] = copies[b]

\* A step gives migration g these values and leaves the others alone.
SetsLocals(g, phase, src, new, pending, state) ==
    /\ migrations' \in [Migrations -> Locals]
    /\ migrations'[g].phase = phase /\ migrations'[g].src = src /\ migrations'[g].new = new
    /\ migrations'[g].pending = pending /\ migrations'[g].state = state
    /\ \A h \in Migrations : h # g => migrations'[h] = migrations[h]

\* The values of a changed copy.
LEMMA SetsOf ==
    ASSUME MigrationTyped, NEW c
    PROVE  LET r == copies[c] IN
           /\ \A v : Changes(c, [r EXCEPT !.status = v]) =>
                 Sets(c, v, r.paused, r.mailbox, r.busy, r.state)
           /\ \A v : Changes(c, [r EXCEPT !.paused = v]) =>
                 Sets(c, r.status, v, r.mailbox, r.busy, r.state)
           /\ \A q : Changes(c, [r EXCEPT !.mailbox = q]) =>
                 Sets(c, r.status, r.paused, q, r.busy, r.state)
           /\ \A m, q : Changes(c, [r EXCEPT !.busy = m, !.mailbox = q]) =>
                 Sets(c, r.status, r.paused, q, m, r.state)
           /\ \A S : Changes(c, [r EXCEPT !.state = S]) =>
                 Sets(c, r.status, r.paused, r.mailbox, r.busy, S)
           /\ \A m, S : Changes(c, [r EXCEPT !.busy = m, !.state = S]) =>
                 Sets(c, r.status, r.paused, r.mailbox, m, S)
           /\ \A v, w : Changes(c, [r EXCEPT !.status = v, !.paused = w]) =>
                 Sets(c, v, w, r.mailbox, r.busy, r.state)
           /\ \A v, q : Changes(c, [r EXCEPT !.paused = v, !.mailbox = q]) =>
                 Sets(c, r.status, v, q, r.busy, r.state)
           /\ \A v, q, S : Changes(c, [r EXCEPT !.status = v, !.state = S, !.mailbox = q]) =>
                 Sets(c, v, r.paused, q, r.busy, S)
<1> DEFINE r == copies[c]
<1>1. ASSUME NEW s, Changes(c, s)
      PROVE  r \in Copy /\ Sets(c, s.status, s.paused, s.mailbox, s.busy, s.state)
  BY <1>1, ChangesAre DEF Sets, Changes, MigrationTyped
<1> HIDE DEF r
<1>2. ASSUME NEW v, Changes(c, [r EXCEPT !.status = v])
      PROVE  Sets(c, v, r.paused, r.mailbox, r.busy, r.state)
  <2> DEFINE s == [r EXCEPT !.status = v]
  <2>1. Changes(c, s) /\ r \in Copy
    BY <1>1, <1>2
  <2>2. s.status = v /\ s.paused = r.paused /\ s.mailbox = r.mailbox /\ s.busy = r.busy /\ s.state = r.state
    BY <2>1 DEF Copy
  <2> HIDE DEF s
  <2> QED BY <1>1, <2>1, <2>2
<1>3. ASSUME NEW v, Changes(c, [r EXCEPT !.paused = v])
      PROVE  Sets(c, r.status, v, r.mailbox, r.busy, r.state)
  <2> DEFINE s == [r EXCEPT !.paused = v]
  <2>1. Changes(c, s) /\ r \in Copy
    BY <1>1, <1>3
  <2>2. s.status = r.status /\ s.paused = v /\ s.mailbox = r.mailbox /\ s.busy = r.busy /\ s.state = r.state
    BY <2>1 DEF Copy
  <2> HIDE DEF s
  <2> QED BY <1>1, <2>1, <2>2
<1>4. ASSUME NEW q, Changes(c, [r EXCEPT !.mailbox = q])
      PROVE  Sets(c, r.status, r.paused, q, r.busy, r.state)
  <2> DEFINE s == [r EXCEPT !.mailbox = q]
  <2>1. Changes(c, s) /\ r \in Copy
    BY <1>1, <1>4
  <2>2. s.status = r.status /\ s.paused = r.paused /\ s.mailbox = q /\ s.busy = r.busy /\ s.state = r.state
    BY <2>1 DEF Copy
  <2> HIDE DEF s
  <2> QED BY <1>1, <2>1, <2>2
<1>5. ASSUME NEW m, NEW q, Changes(c, [r EXCEPT !.busy = m, !.mailbox = q])
      PROVE  Sets(c, r.status, r.paused, q, m, r.state)
  <2> DEFINE s == [r EXCEPT !.busy = m, !.mailbox = q]
  <2>1. Changes(c, s) /\ r \in Copy
    BY <1>1, <1>5
  <2>2. s.status = r.status /\ s.paused = r.paused /\ s.mailbox = q /\ s.busy = m /\ s.state = r.state
    BY <2>1 DEF Copy
  <2> HIDE DEF s
  <2> QED BY <1>1, <2>1, <2>2
<1>6. ASSUME NEW m, NEW S, Changes(c, [r EXCEPT !.busy = m, !.state = S])
      PROVE  Sets(c, r.status, r.paused, r.mailbox, m, S)
  <2> DEFINE s == [r EXCEPT !.busy = m, !.state = S]
  <2>1. Changes(c, s) /\ r \in Copy
    BY <1>1, <1>6
  <2>2. s.status = r.status /\ s.paused = r.paused /\ s.mailbox = r.mailbox /\ s.busy = m /\ s.state = S
    BY <2>1 DEF Copy
  <2> HIDE DEF s
  <2> QED BY <1>1, <2>1, <2>2
<1>7. ASSUME NEW v, NEW w, Changes(c, [r EXCEPT !.status = v, !.paused = w])
      PROVE  Sets(c, v, w, r.mailbox, r.busy, r.state)
  <2> DEFINE s == [r EXCEPT !.status = v, !.paused = w]
  <2>1. Changes(c, s) /\ r \in Copy
    BY <1>1, <1>7
  <2>2. s.status = v /\ s.paused = w /\ s.mailbox = r.mailbox /\ s.busy = r.busy /\ s.state = r.state
    BY <2>1 DEF Copy
  <2> HIDE DEF s
  <2> QED BY <1>1, <2>1, <2>2
<1>8. ASSUME NEW v, NEW q, Changes(c, [r EXCEPT !.paused = v, !.mailbox = q])
      PROVE  Sets(c, r.status, v, q, r.busy, r.state)
  <2> DEFINE s == [r EXCEPT !.paused = v, !.mailbox = q]
  <2>1. Changes(c, s) /\ r \in Copy
    BY <1>1, <1>8
  <2>2. s.status = r.status /\ s.paused = v /\ s.mailbox = q /\ s.busy = r.busy /\ s.state = r.state
    BY <2>1 DEF Copy
  <2> HIDE DEF s
  <2> QED BY <1>1, <2>1, <2>2
<1>9. ASSUME NEW v, NEW q, NEW S, Changes(c, [r EXCEPT !.status = v, !.state = S, !.mailbox = q])
      PROVE  Sets(c, v, r.paused, q, r.busy, S)
  <2> DEFINE s == [r EXCEPT !.status = v, !.state = S, !.mailbox = q]
  <2>1. Changes(c, s) /\ r \in Copy
    BY <1>1, <1>9
  <2>2. s.status = v /\ s.paused = r.paused /\ s.mailbox = q /\ s.busy = r.busy /\ s.state = S
    BY <2>1 DEF Copy
  <2> HIDE DEF s
  <2> QED BY <1>1, <2>1, <2>2
<1>10. ASSUME NEW S, Changes(c, [r EXCEPT !.state = S])
       PROVE  Sets(c, r.status, r.paused, r.mailbox, r.busy, S)
  <2> DEFINE s == [r EXCEPT !.state = S]
  <2>1. Changes(c, s) /\ r \in Copy
    BY <1>1, <1>10
  <2>2. s.status = r.status /\ s.paused = r.paused /\ s.mailbox = r.mailbox /\ s.busy = r.busy /\ s.state = S
    BY <2>1, SMTT(60) DEF Copy
  <2> HIDE DEF s
  <2> QED BY <1>1, <2>1, <2>2
<1> QED BY <1>2, <1>3, <1>4, <1>5, <1>6, <1>7, <1>8, <1>9, <1>10 DEF r

\* The values of a changed migration.
LEMMA LocalsOf ==
    ASSUME MigrationTyped, NEW g \in Migrations
    PROVE  LET l == migrations[g] IN
           /\ \A v : Moves(g, [l EXCEPT !.phase = v]) =>
                 SetsLocals(g, v, l.src, l.new, l.pending, l.state)
           /\ \A v, q : Moves(g, [l EXCEPT !.phase = v, !.pending = q]) =>
                 SetsLocals(g, v, l.src, l.new, q, l.state)
           /\ \A v, S : Moves(g, [l EXCEPT !.phase = v, !.state = S]) =>
                 SetsLocals(g, v, l.src, l.new, l.pending, S)
           /\ \A v, n, t, c : Moves(g, [l EXCEPT !.phase = v, !.from = n, !.to = t, !.src = c]) =>
                 SetsLocals(g, v, c, l.new, l.pending, l.state)
           /\ \A c : Moves(g, [l EXCEPT !.new = c]) =>
                 SetsLocals(g, l.phase, l.src, c, l.pending, l.state)
<1> DEFINE l == migrations[g]
<1>1. ASSUME NEW s, Moves(g, s)
      PROVE  l \in Locals /\ SetsLocals(g, s.phase, s.src, s.new, s.pending, s.state)
  BY <1>1, MovesAre DEF SetsLocals, Moves, MigrationTyped
<1> HIDE DEF l
<1>2. ASSUME NEW v, Moves(g, [l EXCEPT !.phase = v])
      PROVE  SetsLocals(g, v, l.src, l.new, l.pending, l.state)
  <2> DEFINE s == [l EXCEPT !.phase = v]
  <2>1. Moves(g, s) /\ l \in Locals
    BY <1>1, <1>2
  <2>2. s.phase = v /\ s.src = l.src /\ s.new = l.new /\ s.pending = l.pending /\ s.state = l.state
    BY <2>1 DEF Locals
  <2> HIDE DEF s
  <2> QED BY <1>1, <2>1, <2>2
<1>3. ASSUME NEW v, NEW q, Moves(g, [l EXCEPT !.phase = v, !.pending = q])
      PROVE  SetsLocals(g, v, l.src, l.new, q, l.state)
  <2> DEFINE s == [l EXCEPT !.phase = v, !.pending = q]
  <2>1. Moves(g, s) /\ l \in Locals
    BY <1>1, <1>3
  <2>2. s.phase = v /\ s.src = l.src /\ s.new = l.new /\ s.pending = q /\ s.state = l.state
    BY <2>1 DEF Locals
  <2> HIDE DEF s
  <2> QED BY <1>1, <2>1, <2>2
<1>4. ASSUME NEW v, NEW S, Moves(g, [l EXCEPT !.phase = v, !.state = S])
      PROVE  SetsLocals(g, v, l.src, l.new, l.pending, S)
  <2> DEFINE s == [l EXCEPT !.phase = v, !.state = S]
  <2>1. Moves(g, s) /\ l \in Locals
    BY <1>1, <1>4
  <2>2. s.phase = v /\ s.src = l.src /\ s.new = l.new /\ s.pending = l.pending /\ s.state = S
    BY <2>1 DEF Locals
  <2> HIDE DEF s
  <2> QED BY <1>1, <2>1, <2>2
<1>5. ASSUME NEW v, NEW n, NEW t, NEW c, Moves(g, [l EXCEPT !.phase = v, !.from = n, !.to = t, !.src = c])
      PROVE  SetsLocals(g, v, c, l.new, l.pending, l.state)
  <2> DEFINE s == [l EXCEPT !.phase = v, !.from = n, !.to = t, !.src = c]
  <2>1. Moves(g, s) /\ l \in Locals
    BY <1>1, <1>5
  <2>2. s.phase = v /\ s.src = c /\ s.new = l.new /\ s.pending = l.pending /\ s.state = l.state
    BY <2>1 DEF Locals
  <2> HIDE DEF s
  <2> QED BY <1>1, <2>1, <2>2
<1>6. ASSUME NEW c, Moves(g, [l EXCEPT !.new = c])
      PROVE  SetsLocals(g, l.phase, l.src, c, l.pending, l.state)
  <2> DEFINE s == [l EXCEPT !.new = c]
  <2>1. Moves(g, s) /\ l \in Locals
    BY <1>1, <1>6
  <2>2. s.phase = l.phase /\ s.src = l.src /\ s.new = c /\ s.pending = l.pending /\ s.state = l.state
    BY <2>1 DEF Locals
  <2> HIDE DEF s
  <2> QED BY <1>1, <2>1, <2>2
<1> QED BY <1>2, <1>3, <1>4, <1>5, <1>6 DEF l

\* Appending to a sequence of one element.
LEMMA AppendToOne ==
    ASSUME NEW R, NEW a \in R, NEW b \in R
    PROVE  Append(<<a>>, b) = <<a, b>>
<1>1. <<a>> \in Seq(R) /\ Len(<<a>>) = 1 /\ <<a>>[1] = a
  OBVIOUS
<1>2. <<a, b>> \in Seq(R) /\ Len(<<a, b>>) = 2 /\ <<a, b>>[1] = a /\ <<a, b>>[2] = b
  OBVIOUS
<1>3. Append(<<a>>, b) \in Seq(R) /\ Len(Append(<<a>>, b)) = 2
  BY <1>1
<1>4. Append(<<a>>, b)[1] = a /\ Append(<<a>>, b)[2] = b
  BY <1>1
<1>5. \A i \in 1..Len(Append(<<a>>, b)) : Append(<<a>>, b)[i] = <<a, b>>[i]
  BY <1>2, <1>3, <1>4
<1> QED BY <1>2, <1>3, <1>5, SeqEqual

\* The queues of requests, before and after one is sent or arrives.
LEMMA QueueFacts ==
    /\ <<>> \in Queues /\ Append(<<>>, "prepare") = <<"prepare">>
    /\ Append(<<>>, "execute") = <<"execute">> /\ Append(<<>>, "rollback") = <<"rollback">>
    /\ Append(<<"execute">>, "rollback") = <<"execute", "rollback">>
    /\ <<"prepare">> # <<>> /\ <<"execute">> # <<>> /\ <<"rollback">> # <<>>
    /\ <<"prepare">> # <<"execute">> /\ <<"prepare">> # <<"rollback">> /\ <<"execute">> # <<"rollback">>
    /\ <<"execute", "rollback">> \notin {<<>>, <<"prepare">>, <<"execute">>, <<"rollback">>}
    /\ \A q \in Queues : q # <<>> =>
          /\ Head(q) = "prepare" => q = <<"prepare">> /\ Tail(q) = <<>>
          /\ Head(q) = "execute" => \/ q = <<"execute">> /\ Tail(q) = <<>>
                                    \/ q = <<"execute", "rollback">> /\ Tail(q) = <<"rollback">>
          /\ Head(q) = "rollback" => q = <<"rollback">> /\ Tail(q) = <<>>
<1>1. <<>> \in Queues
  BY DEF Queues
<1>2. \A t : Append(<<>>, t) = <<t>> /\ <<t>> # <<>> /\ Head(<<t>>) = t /\ Tail(<<t>>) = <<>>
  OBVIOUS
<1>3. Append(<<"execute">>, "rollback") = <<"execute", "rollback">>
  <2> DEFINE R == {"execute", "rollback"}
  <2>1. "execute" \in R /\ "rollback" \in R
    OBVIOUS
  <2> HIDE DEF R
  <2> QED BY <2>1, AppendToOne
<1>4. \A t, u : <<t>> = <<u>> => t = u
  OBVIOUS
<1>5. \A t : <<"execute", "rollback">> # <<>> /\ <<"execute", "rollback">> # <<t>>
  OBVIOUS
<1>6. Head(<<"execute", "rollback">>) = "execute" /\ Tail(<<"execute", "rollback">>) = <<"rollback">>
  OBVIOUS
<1>7. ASSUME NEW q \in Queues, q # <<>>
      PROVE  /\ Head(q) = "prepare" => q = <<"prepare">> /\ Tail(q) = <<>>
             /\ Head(q) = "execute" => \/ q = <<"execute">> /\ Tail(q) = <<>>
                                       \/ q = <<"execute", "rollback">> /\ Tail(q) = <<"rollback">>
             /\ Head(q) = "rollback" => q = <<"rollback">> /\ Tail(q) = <<>>
  <2>1. q \in {<<"prepare">>, <<"execute">>, <<"execute", "rollback">>, <<"rollback">>}
    BY <1>7 DEF Queues
  <2>2. "prepare" # "execute" /\ "prepare" # "rollback" /\ "execute" # "rollback"
    OBVIOUS
  <2>3. CASE q = <<"prepare">>
    BY <1>2, <2>2, <2>3
  <2>4. CASE q = <<"execute">>
    BY <1>2, <2>2, <2>4
  <2>5. CASE q = <<"execute", "rollback">>
    BY <1>6, <2>2, <2>5
  <2>6. CASE q = <<"rollback">>
    BY <1>2, <2>2, <2>6
  <2> QED BY <2>1, <2>3, <2>4, <2>5, <2>6
<1>8. <<"prepare">> # <<"execute">> /\ <<"prepare">> # <<"rollback">> /\ <<"execute">> # <<"rollback">>
  BY <1>4
<1>9. <<"execute", "rollback">> \notin {<<>>, <<"prepare">>, <<"execute">>, <<"rollback">>}
  BY <1>5
<1>10. /\ Append(<<>>, "prepare") = <<"prepare">> /\ Append(<<>>, "execute") = <<"execute">>
       /\ Append(<<>>, "rollback") = <<"rollback">>
       /\ <<"prepare">> # <<>> /\ <<"execute">> # <<>> /\ <<"rollback">> # <<>>
  BY <1>2
<1> QED BY <1>1, <1>3, <1>7, <1>8, <1>9, <1>10

\* What keeps the copies as they must be.
LEMMA CopiesKept ==
    ASSUME BaseInv,
           \A c \in Copies : /\ copies[c].status \in Grown => copies'[c].status \in Grown
                             /\ copies[c].status # "unused" => copies'[c].status # "unused"
                             /\ did'[c] \subseteq copies'[c].state
                             /\ copies'[c].status \in Fallow =>
                                   did'[c] = {} /\ direct'[c] = {} /\ copies'[c].busy = NoMsg /\ copies'[c].mailbox = <<>>,
           \A n \in Nodes : named'[n] = named[n] \/ copies'[named'[n]].status \in Grown,
           \A g \in Migrations :
               \/ /\ migrations'[g].src = migrations[g].src
                  /\ migrations[g].phase = "idle" => migrations'[g].phase = "idle"
               \/ copies'[migrations'[g].src].status \in Grown,
           \A g \in Migrations : \/ migrations'[g].new = migrations[g].new
                                 \/ copies'[migrations'[g].new].status # "unused"
    PROVE  CopiesInv'
<1>1. MigrationTyped /\ CopiesInv
  BY DEF BaseInv
<1>2. ASSUME NEW n \in Nodes, named'[n] # 0 PROVE copies'[named'[n]].status \in Grown
  <2>1. named[n] \in 0..MaxCopies
    BY <1>1 DEF MigrationTyped
  <2>2. CASE named'[n] = named[n]
    <3>1. named[n] \in Copies
      BY <1>2, <2>1, <2>2, Constants DEF Copies
    <3> QED BY <1>1, <1>2, <2>2, <3>1 DEF CopiesInv
  <2> QED BY <2>2
<1>3. ASSUME NEW g \in Migrations, migrations'[g].phase # "idle"
      PROVE  copies'[migrations'[g].src].status \in Grown
  BY <1>1, <1>3, Fields DEF CopiesInv
<1>4. ASSUME NEW g \in Migrations, migrations'[g].new # 0
      PROVE  copies'[migrations'[g].new].status # "unused"
  <2>1. CASE migrations'[g].new = migrations[g].new
    <3>1. migrations[g].new \in Copies
      BY <1>1, <1>4, <2>1, Fields, Constants DEF Copies
    <3> QED BY <1>1, <1>4, <2>1, <3>1 DEF CopiesInv
  <2> QED BY <2>1
<1> QED BY <1>2, <1>3, <1>4 DEF CopiesInv

\* What keeps migration h as it must be.
LEMMA ProtocolKept ==
    ASSUME NEW h \in Migrations, Protocol(h),
           migrations'[h] = migrations[h], requests'[h] = requests[h], reply'[h] = reply[h],
           reservation'[h] = reservation[h], Building(h)' => Building(h),
           h \in gaveUp' <=> h \in gaveUp, h \in undone' <=> h \in undone
    PROVE  Protocol(h)'
BY DEF Protocol, ToExecute

\* The effects of the steps of a copy.
LEMMA CopyEffects ==
    ASSUME MigrationTyped, NEW c \in Copies
    PROVE  LET r == copies[c] IN
           /\ \A m \in Msgs : cast(c, m) =>
                 Sets(c, r.status, r.paused, Append(r.mailbox, m), r.busy, r.state)
           /\ Handle(c) => Sets(c, r.status, r.paused, Tail(r.mailbox), Head(r.mailbox), r.state)
           /\ Handled(c) => Sets(c, r.status, r.paused, r.mailbox, NoMsg, r.state \cup {r.busy})
           /\ \A m \in Msgs : RpcHandled(c, m) =>
                 Sets(c, r.status, r.paused, r.mailbox, r.busy, r.state \cup {m})
           /\ stop(c) => Sets(c, "stopping", r.paused, r.mailbox, r.busy, r.state)
<1> DEFINE r == copies[c]
<1>1. ASSUME NEW m \in Msgs, cast(c, m)
      PROVE  Sets(c, r.status, r.paused, Append(r.mailbox, m), r.busy, r.state)
  BY <1>1, CopySteps, SetsOf, Zenon
<1>2. ASSUME Handle(c) PROVE Sets(c, r.status, r.paused, Tail(r.mailbox), Head(r.mailbox), r.state)
  BY <1>2, CopySteps, SetsOf, Zenon
<1>3. ASSUME Handled(c) PROVE Sets(c, r.status, r.paused, r.mailbox, NoMsg, r.state \cup {r.busy})
  BY <1>3, CopySteps, SetsOf, Zenon
<1>4. ASSUME stop(c) PROVE Sets(c, "stopping", r.paused, r.mailbox, r.busy, r.state)
  BY <1>4, CopySteps, SetsOf, Zenon
<1>5. ASSUME NEW m \in Msgs, RpcHandled(c, m)
      PROVE  Sets(c, r.status, r.paused, r.mailbox, r.busy, r.state \cup {m})
  BY <1>5, CopySteps, SetsOf, Zenon
<1> QED BY <1>1, <1>2, <1>3, <1>4, <1>5

\* The effects of the steps of the source.
LEMMA SourceEffects ==
    ASSUME MigrationTyped, NEW g \in Migrations
    PROVE  LET l == migrations[g]
               c == Source(g)
               r == copies[c] IN
           /\ PrepareFails(g) =>
                 /\ SetsLocals(g, "failed", l.src, l.new, l.pending, l.state)
                 /\ Sets(c, r.status, r.paused /\ ~Present(c), r.mailbox, r.busy, r.state)
           /\ PrepareSucceeds(g) =>
                 \/ /\ Present(c) /\ SetsLocals(g, "draining", l.src, l.new, l.pending, l.state)
                    /\ Sets(c, r.status, TRUE, r.mailbox, r.busy, r.state)
                 \/ /\ ~Present(c) /\ SetsLocals(g, "serializing", l.src, l.new, l.pending, l.state)
                    /\ copies' = copies
           /\ drainMailbox(g) =>
                 /\ SetsLocals(g, "serializing", l.src, l.new, r.mailbox, l.state)
                 /\ Sets(c, r.status, r.paused, <<>>, r.busy, r.state)
           /\ GetState(g) => SetsLocals(g, "executing", l.src, l.new, l.pending, r.state)
           /\ GetStateFails(g) \/ ExecuteFails(g) =>
                 SetsLocals(g, "rollingBack", l.src, l.new, l.pending, l.state)
           /\ RolledBack(g) =>
                 /\ SetsLocals(g, "failed", l.src, l.new, l.pending, l.state)
                 /\ Sets(c, r.status, r.paused /\ ~Present(c),
                         IF Present(c) THEN l.pending \o r.mailbox ELSE r.mailbox, r.busy, r.state)
           /\ ExecuteSucceeds(g) => SetsLocals(g, "unregistering", l.src, l.new, l.pending, l.state)
           /\ cleanupActorForMigration(g) =>
                 /\ SetsLocals(g, "moved", l.src, l.new, l.pending, l.state)
                 /\ Sets(c, "gone", FALSE, r.mailbox, r.busy, r.state)
<1> DEFINE l == migrations[g]
           c == Source(g)
           r == copies[c]
<1>1. ASSUME NEW v, Moves(g, [l EXCEPT !.phase = v])
      PROVE  SetsLocals(g, v, l.src, l.new, l.pending, l.state)
  BY <1>1, LocalsOf, Zenon
<1>2. ASSUME PrepareFails(g)
      PROVE  /\ SetsLocals(g, "failed", l.src, l.new, l.pending, l.state)
             /\ Sets(c, r.status, r.paused /\ ~Present(c), r.mailbox, r.busy, r.state)
  BY <1>1, <1>2, SourceSteps, SetsOf, Zenon
<1>3. ASSUME PrepareSucceeds(g)
      PROVE  \/ /\ Present(c) /\ SetsLocals(g, "draining", l.src, l.new, l.pending, l.state)
                /\ Sets(c, r.status, TRUE, r.mailbox, r.busy, r.state)
             \/ /\ ~Present(c) /\ SetsLocals(g, "serializing", l.src, l.new, l.pending, l.state)
                /\ copies' = copies
  BY <1>1, <1>3, SourceSteps, SetsOf, Zenon
<1>4. ASSUME drainMailbox(g)
      PROVE  /\ SetsLocals(g, "serializing", l.src, l.new, r.mailbox, l.state)
             /\ Sets(c, r.status, r.paused, <<>>, r.busy, r.state)
  BY <1>4, SourceSteps, SetsOf, LocalsOf, Zenon
<1>5. ASSUME GetState(g) PROVE SetsLocals(g, "executing", l.src, l.new, l.pending, r.state)
  BY <1>5, SourceSteps, LocalsOf, Zenon
<1>6. ASSUME GetStateFails(g) \/ ExecuteFails(g)
      PROVE  SetsLocals(g, "rollingBack", l.src, l.new, l.pending, l.state)
  BY <1>1, <1>6, SourceSteps, Zenon
<1>7. ASSUME RolledBack(g)
      PROVE  /\ SetsLocals(g, "failed", l.src, l.new, l.pending, l.state)
             /\ Sets(c, r.status, r.paused /\ ~Present(c),
                     IF Present(c) THEN l.pending \o r.mailbox ELSE r.mailbox, r.busy, r.state)
  BY <1>1, <1>7, RolledBackStep, SetsOf, Zenon DEF GivenBack
<1>8. ASSUME ExecuteSucceeds(g) PROVE SetsLocals(g, "unregistering", l.src, l.new, l.pending, l.state)
  BY <1>1, <1>8, SourceSteps, Zenon
<1>9. ASSUME cleanupActorForMigration(g)
      PROVE  /\ SetsLocals(g, "moved", l.src, l.new, l.pending, l.state)
             /\ Sets(c, "gone", FALSE, r.mailbox, r.busy, r.state)
  BY <1>1, <1>9, SourceSteps, SetsOf, Zenon
<1> QED BY <1>2, <1>3, <1>4, <1>5, <1>6, <1>7, <1>8, <1>9

\* The effects of migrate.
LEMMA MigrateEffect ==
    ASSUME MigrationTyped, Typed, RegistryKnown,
           NEW g \in Migrations, NEW n \in Nodes, NEW target \in Nodes, migrate(g, n, target)
    PROVE  LET l == migrations[g]
               c == named[n]
               r == copies[c] IN
           /\ Sets(c, r.status, TRUE, r.mailbox, r.busy, r.state)
           /\ SetsLocals(g, "preparing", c, l.new, l.pending, l.state)
BY MigrateStep, SetsOf, LocalsOf, Zenon

\* The effects of the steps of the target.
LEMMA TargetEffects ==
    ASSUME MigrationTyped, NEW g \in Migrations
    PROVE  LET l == migrations[g]
               c == l.new
               r == copies[c] IN
           /\ handleMigrateExecute(g) =>
                 /\ Fresh \in Copies /\ copies[Fresh].status = "unused"
                 /\ SetsLocals(g, l.phase, l.src, Fresh, l.pending, l.state)
                 /\ Sets(Fresh, "building", FALSE, <<>>, NoMsg, {})
           /\ confirmReservation(g) =>
                 \/ /\ reservation[g] = "held"
                    /\ Sets(c, "live", r.paused, l.pending, r.busy, l.state)
                 \/ /\ reservation[g] # "held"
                    /\ Sets(c, "gone", r.paused, r.mailbox, r.busy, r.state)
           /\ ExecuteThrows(g) => Sets(c, "broken", r.paused, r.mailbox, r.busy, r.state)
<1> DEFINE l == migrations[g]
           c == l.new
           r == copies[c]
<1>1. ASSUME handleMigrateExecute(g)
      PROVE  /\ Fresh \in Copies /\ copies[Fresh].status = "unused"
             /\ SetsLocals(g, l.phase, l.src, Fresh, l.pending, l.state)
             /\ Sets(Fresh, "building", FALSE, <<>>, NoMsg, {})
  <2> DEFINE s == [Unused EXCEPT !.node = l.to, !.status = "building"]
  <2>1. copies[Fresh].status = "unused" /\ Changes(Fresh, s) /\ Moves(g, [l EXCEPT !.new = Fresh])
    BY <1>1, TargetSteps
  <2>2. s.status = "building" /\ s.paused = FALSE /\ s.mailbox = <<>> /\ s.busy = NoMsg /\ s.state = {}
    BY DEF Unused
  <2>3. SetsLocals(g, l.phase, l.src, Fresh, l.pending, l.state)
    BY <2>1, LocalsOf, Zenon
  <2> HIDE DEF s
  <2>4. Sets(Fresh, "building", FALSE, <<>>, NoMsg, {})
    BY <2>1, <2>2, ChangesAre DEF Sets
  <2> QED BY <2>1, <2>3, <2>4 DEF Changes
<1>2. ASSUME confirmReservation(g)
      PROVE  \/ /\ reservation[g] = "held"
                /\ Sets(c, "live", r.paused, l.pending, r.busy, l.state)
             \/ /\ reservation[g] # "held"
                /\ Sets(c, "gone", r.paused, r.mailbox, r.busy, r.state)
  BY <1>2, TargetSteps, SetsOf, Zenon
<1>3. ASSUME ExecuteThrows(g) PROVE Sets(c, "broken", r.paused, r.mailbox, r.busy, r.state)
  BY <1>3, TargetSteps, SetsOf, Zenon
<1> QED BY <1>1, <1>2, <1>3

\* A stopped copy is gone, and the restarted one is new.
Respawns(c) ==
    /\ Fresh \in Copies /\ Fresh # c /\ copies[Fresh].status = "unused"
    /\ copies' \in [Copies -> Copy]
    /\ copies'[c].status = "gone" /\ copies'[c].paused = copies[c].paused
    /\ copies'[c].mailbox = copies[c].mailbox /\ copies'[c].busy = copies[c].busy
    /\ copies'[c].state = copies[c].state
    /\ copies'[Fresh].status = "live" /\ copies'[Fresh].paused = FALSE
    /\ copies'[Fresh].mailbox = <<>> /\ copies'[Fresh].busy = NoMsg /\ copies'[Fresh].state = {}
    /\ \A b \in Copies : b # c /\ b # Fresh => copies'[b] = copies[b]

\* The effects of spawning and of the end of a stop.
LEMMA SpawnEffects ==
    ASSUME MigrationTyped
    PROVE  /\ spawn => copies[1].status = "unused" /\ Sets(1, "live", FALSE, <<>>, NoMsg, {})
           /\ \A c \in Copies : StopEnds(c) =>
                 LET r == copies[c] IN
                 \/ Sets(c, "gone", r.paused, r.mailbox, r.busy, r.state) /\ named' = named
                 \/ /\ Respawns(c) /\ named' = [named EXCEPT ![r.node] = Fresh]
                    /\ Registers(localClock, registrations, r.node)
<1>0. ASSUME NEW n
      PROVE  /\ Spawned(n).status = "live" /\ Spawned(n).paused = FALSE
             /\ Spawned(n).mailbox = <<>> /\ Spawned(n).busy = NoMsg /\ Spawned(n).state = {}
  BY DEF Spawned, Unused
<1>1. ASSUME spawn PROVE copies[1].status = "unused" /\ Sets(1, "live", FALSE, <<>>, NoMsg, {})
  <2>1. copies[1].status = "unused" /\ Changes(1, Spawned(Home))
    BY <1>1, SpawnSteps
  <2> DEFINE s == Spawned(Home)
  <2>2. s.status = "live" /\ s.paused = FALSE /\ s.mailbox = <<>> /\ s.busy = NoMsg /\ s.state = {}
    BY <1>0
  <2>3. Changes(1, s)
    BY <2>1
  <2> HIDE DEF s
  <2>4. Sets(1, "live", FALSE, <<>>, NoMsg, {})
    BY <2>2, <2>3, ChangesAre DEF Sets
  <2> QED BY <2>1, <2>4
<1>2. ASSUME NEW c \in Copies, StopEnds(c)
      PROVE  LET r == copies[c] IN
             \/ Sets(c, "gone", r.paused, r.mailbox, r.busy, r.state) /\ named' = named
             \/ /\ Respawns(c) /\ named' = [named EXCEPT ![r.node] = Fresh]
                /\ Registers(localClock, registrations, r.node)
  <2> DEFINE r == copies[c]
  <2>1. CASE Changes(c, [r EXCEPT !.status = "gone"]) /\ UNCHANGED named
    BY <2>1, SetsOf, Zenon
  <2>2. CASE ~(Changes(c, [r EXCEPT !.status = "gone"]) /\ UNCHANGED named)
    <3>1. /\ Fresh \in Copies /\ Fresh # c /\ copies[Fresh].status = "unused"
          /\ copies' \in [Copies -> Copy]
          /\ copies'[c] = [r EXCEPT !.status = "gone"]
          /\ copies'[Fresh] = Spawned(r.node)
          /\ \A b \in Copies \ {c, Fresh} : copies'[b] = copies[b]
          /\ named' = [named EXCEPT ![r.node] = Fresh]
          /\ Registers(localClock, registrations, r.node)
      BY <1>2, <2>2, SpawnSteps
    <3>2. LET s == [r EXCEPT !.status = "gone"] IN
             /\ s.status = "gone" /\ s.paused = r.paused /\ s.mailbox = r.mailbox
             /\ s.busy = r.busy /\ s.state = r.state
      BY Fields DEF Copy
    <3>3. Respawns(c)
      <4> DEFINE s == Spawned(r.node)
                 t == [r EXCEPT !.status = "gone"]
      <4>1. s.status = "live" /\ s.paused = FALSE /\ s.mailbox = <<>> /\ s.busy = NoMsg /\ s.state = {}
        BY <1>0
      <4>2. copies'[Fresh] = s /\ copies'[c] = t
        BY <3>1
      <4> HIDE DEF s, t, Fresh
      <4>3. /\ t.status = "gone" /\ t.paused = r.paused /\ t.mailbox = r.mailbox
            /\ t.busy = r.busy /\ t.state = r.state
        BY <3>2 DEF t
      <4> QED BY <3>1, <4>1, <4>2, <4>3 DEF Respawns
    <3> QED BY <3>1, <3>3
  <2> QED BY <2>1, <2>2
<1> QED BY <1>1, <1>2

\* A step that leaves the migrations alone and makes no copy "building".
LEMMA ProtocolUntouched ==
    ASSUME BaseInv, migrations' = migrations, requests' = requests, reply' = reply,
           reservation' = reservation, gaveUp' = gaveUp, undone' = undone,
           \A b \in Copies : copies'[b].status = "building" => copies[b].status = "building"
    PROVE  ProtocolInv'
<1> SUFFICES ASSUME NEW h \in Migrations PROVE Protocol(h)'
  BY DEF ProtocolInv
<1>1. Protocol(h) /\ migrations[h].new \in 0..MaxCopies
  BY Fields DEF BaseInv, ProtocolInv
<1>2. Building(h)' => Building(h)
  BY <1>1, Constants DEF Building, Copies
<1> QED BY <1>1, <1>2, ProtocolKept

\* What a step may do to a copy.
Ages(b) ==
    /\ copies[b].status \in Grown => copies'[b].status \in Grown
    /\ copies[b].status # "unused" => copies'[b].status # "unused"
    /\ did'[b] \subseteq copies'[b].state
    /\ copies'[b].status \in Fallow =>
          did'[b] = {} /\ direct'[b] = {} /\ copies'[b].busy = NoMsg /\ copies'[b].mailbox = <<>>

\* A copy that a step leaves alone, or that it changes without waking it.
LEMMA AgesUnchanged ==
    ASSUME CopiesInv, NEW b \in Copies, did'[b] = did[b], direct'[b] = direct[b]
    PROVE  /\ copies'[b] = copies[b] => Ages(b)
           /\ /\ copies'[b].state = copies[b].state /\ copies'[b].busy = copies[b].busy
              /\ copies'[b].mailbox = copies[b].mailbox
              /\ \/ copies'[b].status = copies[b].status
                 \/ copies[b].status \in Grown /\ copies'[b].status \in Grown
                 \/ copies[b].status = "building" /\ copies'[b].status \in {"broken", "gone"}
              => Ages(b)
           /\ /\ copies'[b].state = copies[b].state /\ copies[b].status \in Grown
              /\ copies'[b].status \in Grown
              => Ages(b)
           /\ /\ copies[b].status \in {"unused", "building"} /\ copies'[b].status = "live"
              => Ages(b)
           /\ /\ copies[b].status = "unused" /\ copies'[b].status = "building"
              /\ copies'[b].busy = NoMsg /\ copies'[b].mailbox = <<>>
              => Ages(b)
BY DEF CopiesInv, Ages, Grown, Fallow

\* What a step of a copy may do.
AgesAlone(c) ==
    /\ copies' \in [Copies -> Copy] /\ did' \in [Copies -> SUBSET Msgs]
    /\ direct' \in [Copies -> SUBSET Msgs]
    /\ \A b \in Copies : b # c => /\ copies'[b] = copies[b] /\ did'[b] = did[b]
                                   /\ direct'[b] = direct[b]
    /\ \/ copies'[c].status = copies[c].status
       \/ copies[c].status = "live" /\ copies'[c].status = "stopping"
    /\ Ages(c)

\* The steps of a copy.
LEMMA BaseOfCopySteps ==
    ASSUME BaseInv, NEW c \in Copies,
           (\E m \in Msgs : cast(c, m) \/ handleRpc(c, m) \/ RpcHandled(c, m)) \/ Handle(c) \/ Handled(c) \/ stop(c)
    PROVE  BaseInv'
<1>0. MigrationTyped /\ Typed /\ RegistryKnown /\ CopiesInv
  BY DEF BaseInv
<1>1. /\ migrations' = migrations /\ requests' = requests /\ reply' = reply
      /\ reservation' = reservation /\ gaveUp' = gaveUp /\ undone' = undone /\ overlapped' = overlapped
      /\ named' = named
  BY DEF cast, handleRpc, RpcHandled, Handle, Handled, stop, registry, protocol, history, Unregisters
<1>2. Typed' /\ RegistryKnown'
  <2>1. CASE stop(c)
    BY <1>0, <2>1, Fields, RegistryUnregisters DEF stop
  <2>2. CASE ~stop(c)
    <3>1. UNCHANGED registry
      BY <2>2 DEF cast, handleRpc, RpcHandled, Handle, Handled
    <3> QED BY <1>0, <3>1 DEF registry, Typed, RegistryKnown, Known
  <2> QED BY <2>1, <2>2
<1>3. did \in [Copies -> SUBSET Msgs] /\ direct \in [Copies -> SUBSET Msgs]
  BY <1>0 DEF MigrationTyped
<1>4. AgesAlone(c)
  <2>1. CASE (\E m \in Msgs : cast(c, m)) \/ Handle(c)
    <3>1. /\ copies' \in [Copies -> Copy] /\ \A b \in Copies : b # c => copies'[b] = copies[b]
          /\ copies'[c].status = copies[c].status /\ copies'[c].state = copies[c].state
      BY <1>0, <2>1, CopyEffects DEF Sets
    <3>2. did' = did /\ direct' = direct /\ copies[c].status \in Grown
      BY <2>1 DEF cast, handleRpc, RpcHandled, Handle, history, Reachable, Grown
    <3>3. Ages(c)
      BY <1>0, <3>1, <3>2, AgesUnchanged
    <3> QED BY <1>3, <3>1, <3>2, <3>3 DEF AgesAlone
  <2>2. CASE Handled(c)
    <3>1. /\ copies' \in [Copies -> Copy] /\ \A b \in Copies : b # c => copies'[b] = copies[b]
          /\ copies'[c].status = copies[c].status
          /\ copies'[c].state = copies[c].state \cup {copies[c].busy}
      BY <1>0, <2>2, CopyEffects DEF Sets
    <3>2. /\ did' = [did EXCEPT ![c] = @ \cup {copies[c].busy}] /\ copies[c].busy # NoMsg
          /\ direct' = direct
      BY <2>2 DEF Handled
    <3>3. copies[c].busy \in Msgs
      BY <1>0, <3>2, Fields
    <3>4. /\ did' \in [Copies -> SUBSET Msgs] /\ did'[c] = did[c] \cup {copies[c].busy}
          /\ \A b \in Copies : b # c => did'[b] = did[b]
      BY <1>3, <3>2, <3>3
    <3>5. did[c] \subseteq copies[c].state /\ copies[c].status \notin Fallow
      BY <1>0, <3>2 DEF CopiesInv
    <3>6. did'[c] \subseteq copies'[c].state
      BY <3>1, <3>4, <3>5
    <3>7. Ages(c)
      BY <3>1, <3>5, <3>6 DEF Ages, Grown, Fallow
    <3> QED BY <1>3, <3>1, <3>2, <3>4, <3>7 DEF AgesAlone
  <2>4. ASSUME NEW m \in Msgs, handleRpc(c, m) PROVE AgesAlone(c)
    <3>1. /\ copies' = copies /\ did' = did /\ copies[c].status \in Grown
          /\ direct' = [direct EXCEPT ![c] = @ \cup {m}]
      BY <2>4 DEF handleRpc, Reachable, Grown
    <3>2. Ages(c)
      BY <1>0, <3>1 DEF CopiesInv, Ages, Grown, Fallow
    <3> QED BY <1>0, <1>3, <3>1, <3>2 DEF MigrationTyped, AgesAlone
  <2>5. ASSUME NEW m \in Msgs, RpcHandled(c, m) PROVE AgesAlone(c)
    <3>1. /\ copies' \in [Copies -> Copy] /\ \A b \in Copies : b # c => copies'[b] = copies[b]
          /\ copies'[c].status = copies[c].status
          /\ copies'[c].state = copies[c].state \cup {m}
      BY <1>0, <2>5, CopyEffects DEF Sets
    <3>2. did' = [did EXCEPT ![c] = @ \cup {m}] /\ direct' = direct /\ m \in direct[c]
      BY <2>5 DEF RpcHandled
    <3>3. did[c] \subseteq copies[c].state /\ copies[c].status \notin Fallow
      BY <1>0, <3>2 DEF CopiesInv
    <3>4. Ages(c)
      BY <1>3, <3>1, <3>2, <3>3 DEF Ages, Grown, Fallow
    <3> QED BY <1>3, <3>1, <3>2, <3>4 DEF AgesAlone
  <2>3. CASE stop(c)
    <3>1. /\ copies' \in [Copies -> Copy] /\ \A b \in Copies : b # c => copies'[b] = copies[b]
          /\ copies'[c].status = "stopping" /\ copies'[c].state = copies[c].state
      BY <1>0, <2>3, CopyEffects DEF Sets
    <3>2. did' = did /\ direct' = direct /\ copies[c].status = "live"
      BY <2>3 DEF stop, history
    <3>3. Ages(c)
      BY <1>0, <3>1, <3>2, AgesUnchanged DEF Grown
    <3> QED BY <1>3, <3>1, <3>2, <3>3 DEF AgesAlone
  <2> QED BY <2>1, <2>2, <2>3, <2>4, <2>5
<1>5. MigrationTyped'
  BY <1>0, <1>1, <1>4 DEF MigrationTyped, AgesAlone
<1>6. CopiesInv'
  <2>1. \A b \in Copies : Ages(b)
    BY <1>0, <1>4, AgesUnchanged DEF AgesAlone
  <2> QED BY <1>1, <2>1, CopiesKept DEF Ages
<1>7. ProtocolInv'
  <2>1. \A b \in Copies : copies'[b].status = "building" => copies[b].status = "building"
    BY <1>4 DEF AgesAlone
  <2> QED BY <1>1, <2>1, ProtocolUntouched
<1> QED BY <1>2, <1>5, <1>6, <1>7 DEF BaseInv

\* Spawning, the end of a stop, and registry updates.
LEMMA BaseOfSpawns ==
    ASSUME BaseInv, spawn \/ (\E c \in Copies : StopEnds(c)) \/ \E p, s \in Nodes : RegistryUpdate(p, s)
    PROVE  BaseInv'
<1>0. MigrationTyped /\ Typed /\ RegistryKnown /\ CopiesInv /\ named \in [Nodes -> 0..MaxCopies]
  BY DEF BaseInv, MigrationTyped
<1>1. /\ migrations' = migrations /\ requests' = requests /\ reply' = reply
      /\ reservation' = reservation /\ gaveUp' = gaveUp /\ undone' = undone /\ overlapped' = overlapped
      /\ did' = did /\ direct' = direct
  BY DEF spawn, StopEnds, RegistryUpdate, protocol, history
<1>2. ASSUME copies' \in [Copies -> Copy], named' \in [Nodes -> 0..MaxCopies], Typed', RegistryKnown',
             \A b \in Copies : Ages(b),
             \A b \in Copies : copies'[b].status = "building" => copies[b].status = "building",
             \A n \in Nodes : named'[n] = named[n] \/ copies'[named'[n]].status \in Grown
      PROVE  BaseInv'
  <2>1. MigrationTyped'
    BY <1>0, <1>1, <1>2 DEF MigrationTyped
  <2>2. CopiesInv'
    BY <1>1, <1>2, CopiesKept DEF Ages
  <2>3. ProtocolInv'
    BY <1>1, <1>2, ProtocolUntouched
  <2> QED BY <1>2, <2>1, <2>2, <2>3 DEF BaseInv
<1>3. CASE spawn
  <2>1. copies[1].status = "unused" /\ Sets(1, "live", FALSE, <<>>, NoMsg, {})
    BY <1>0, <1>3, SpawnEffects
  <2>2. named' = [named EXCEPT ![Home] = 1] /\ Registers(localClock, registrations, Home)
    BY <1>3 DEF spawn
  <2>3. Typed' /\ RegistryKnown' /\ named' \in [Nodes -> 0..MaxCopies]
    BY <1>0, <2>2, RegistryRegisters, Constants
  <2>4. /\ copies' \in [Copies -> Copy] /\ copies'[1].status = "live"
        /\ \A b \in Copies : b # 1 => copies'[b] = copies[b]
    BY <2>1 DEF Sets
  <2>5. \A b \in Copies : Ages(b)
    BY <1>0, <1>1, <2>1, <2>4, AgesUnchanged
  <2>6. \A n \in Nodes : named'[n] = named[n] \/ copies'[named'[n]].status \in Grown
    BY <1>0, <2>2, <2>4 DEF Grown
  <2>7. \A b \in Copies : copies'[b].status = "building" => copies[b].status = "building"
    BY <2>4
  <2> QED BY <1>2, <2>3, <2>4, <2>5, <2>6, <2>7
<1>4. ASSUME NEW c \in Copies, StopEnds(c) PROVE BaseInv'
  <2>0. copies[c].status = "stopping" /\ copies[c].node \in Nodes
    BY <1>0, <1>4, Fields DEF StopEnds
  <2>1. CASE Respawns(c) /\ named' = [named EXCEPT ![copies[c].node] = Fresh]
             /\ Registers(localClock, registrations, copies[c].node)
    <3>1. Typed' /\ RegistryKnown' /\ named' \in [Nodes -> 0..MaxCopies]
      BY <1>0, <2>0, <2>1, RegistryRegisters DEF Respawns
    <3>2. \A b \in Copies : Ages(b)
      <4> SUFFICES ASSUME NEW b \in Copies PROVE Ages(b)
        OBVIOUS
      <4> HIDE DEF Fresh
      <4>1. CASE b = c
        BY <1>0, <1>1, <2>0, <2>1, <4>1, AgesUnchanged DEF Respawns, Grown
      <4>2. CASE b = Fresh
        BY <1>0, <1>1, <2>1, <4>2, AgesUnchanged DEF Respawns
      <4>3. CASE b # c /\ b # Fresh
        BY <1>0, <1>1, <2>1, <4>3, AgesUnchanged DEF Respawns
      <4> QED BY <4>1, <4>2, <4>3
    <3>3. \A n \in Nodes : named'[n] = named[n] \/ copies'[named'[n]].status \in Grown
      <4> HIDE DEF Fresh
      <4> QED BY <1>0, <2>1 DEF Respawns, Grown
    <3>4. \A b \in Copies : copies'[b].status = "building" => copies[b].status = "building"
      <4> HIDE DEF Fresh
      <4> QED BY <2>1 DEF Respawns
    <3>5. copies' \in [Copies -> Copy]
      BY <2>1 DEF Respawns
    <3> QED BY <1>2, <3>1, <3>2, <3>3, <3>4, <3>5
  <2>2. CASE ~(Respawns(c) /\ named' = [named EXCEPT ![copies[c].node] = Fresh]
               /\ Registers(localClock, registrations, copies[c].node))
    <3>1. Sets(c, "gone", copies[c].paused, copies[c].mailbox, copies[c].busy, copies[c].state)
          /\ named' = named
      BY <1>0, <1>4, <2>2, SpawnEffects, Zenon
    <3>2. UNCHANGED registry
      <4>1. CASE UNCHANGED registry
        BY <4>1
      <4>2. CASE Room /\ named' = [named EXCEPT ![copies[c].node] = Fresh]
        <5>1. Fresh \in Copies /\ copies[Fresh].status = "unused"
          BY <4>2, FreshIsUnused
        <5>2. named[copies[c].node] = Fresh
          BY <1>0, <2>0, <3>1, <4>2
        <5>3. Fresh # 0 /\ named[copies[c].node] # 0
          BY <5>1, <5>2, Constants
        <5> QED BY <1>0, <2>0, <5>1, <5>2, <5>3 DEF CopiesInv, Grown
      <4> QED BY <1>4, <4>1, <4>2 DEF StopEnds
    <3>3. Typed' /\ RegistryKnown'
      BY <1>0, <3>2 DEF registry, Typed, RegistryKnown, Known
    <3>4. /\ copies' \in [Copies -> Copy] /\ \A b \in Copies : b # c => copies'[b] = copies[b]
          /\ copies'[c].status = "gone" /\ copies'[c].state = copies[c].state
      BY <3>1 DEF Sets
    <3>5. \A b \in Copies : Ages(b)
      BY <1>0, <1>1, <2>0, <3>4, AgesUnchanged DEF Grown
    <3>6. \A b \in Copies : copies'[b].status = "building" => copies[b].status = "building"
      BY <3>4
    <3> QED BY <1>0, <1>2, <3>1, <3>3, <3>4, <3>5, <3>6
  <2> QED BY <2>1, <2>2
<1>5. ASSUME NEW p \in Nodes, NEW s \in Nodes, RegistryUpdate(p, s) PROVE BaseInv'
  <2>1. copies' = copies /\ named' = named
    BY <1>5 DEF RegistryUpdate
  <2>2. Typed' /\ RegistryKnown'
    BY <1>0, <1>5, RegistryDelivers
  <2>3. copies' \in [Copies -> Copy]
    BY <1>0, <2>1 DEF MigrationTyped
  <2>4. \A b \in Copies : Ages(b)
    BY <1>0, <1>1, <2>1, AgesUnchanged
  <2> QED BY <1>0, <1>2, <2>1, <2>2, <2>3, <2>4
<1> QED BY <1>3, <1>4, <1>5

\* A step of migration g does not disturb the others.
LEMMA ProtocolOfOthers ==
    ASSUME BaseInv, NEW g \in Migrations, Protocol(g)',
           \A h \in Migrations : h # g => /\ migrations'[h] = migrations[h] /\ requests'[h] = requests[h]
                                          /\ reply'[h] = reply[h] /\ reservation'[h] = reservation[h]
                                          /\ h \in gaveUp' <=> h \in gaveUp
                                          /\ h \in undone' <=> h \in undone,
           \A b \in Copies : copies'[b].status = "building" => copies[b].status \in {"building", "unused"}
    PROVE  ProtocolInv'
<1> SUFFICES ASSUME NEW h \in Migrations, h # g PROVE Protocol(h)'
  BY DEF ProtocolInv
<1>1. Protocol(h) /\ migrations[h].new \in 0..MaxCopies
  BY Fields DEF BaseInv, ProtocolInv
<1>2. migrations[h].new # 0 => migrations[h].new \in Copies /\ copies[migrations[h].new].status # "unused"
  BY <1>1, Constants DEF BaseInv, CopiesInv, Copies
<1>3. Building(h)' => Building(h)
  BY <1>1, <1>2 DEF Building
<1> QED BY <1>1, <1>3, ProtocolKept

\* A request is sent.
LEMMA RequestSent ==
    ASSUME MigrationTyped, NEW g \in Migrations, NEW type, Request(g, type),
           NEW q \in Queues, Append(requests[g], type) = q
    PROVE  /\ requests' \in [Migrations -> Queues] /\ requests'[g] = q
           /\ reply' \in [Migrations -> {"none", "ready", "refused", "success", "failure"}]
           /\ reply'[g] = "none"
           /\ \A h \in Migrations : h # g => requests'[h] = requests[h] /\ reply'[h] = reply[h]
<1>1. requests' = [requests EXCEPT ![g] = q] /\ reply' = [reply EXCEPT ![g] = "none"]
  BY DEF Request
<1> QED BY <1>1 DEF MigrationTyped

\* What every step of the source leaves alone.
LEMMA SourceFrame ==
    ASSUME BaseInv, NEW g \in Migrations, SourceStep(g)
    PROVE  /\ reservation' = reservation /\ undone' = undone /\ overlapped' = overlapped /\ named' = named
           /\ did' = did /\ direct' = direct /\ Typed' /\ RegistryKnown'
           /\ ~ExecuteFails(g) => gaveUp' = gaveUp
<1>1. /\ reservation' = reservation /\ undone' = undone /\ overlapped' = overlapped /\ named' = named
      /\ did' = did /\ direct' = direct /\ (~ExecuteFails(g) => gaveUp' = gaveUp)
  BY DEF SourceStep, PrepareFails, PrepareSucceeds, drainMailbox, GetState, GetStateFails, ExecuteFails,
         RolledBack, ExecuteSucceeds, cleanupActorForMigration, registry, history, Unregisters
<1>2. Typed /\ RegistryKnown /\ migrations[g].from \in Nodes
  BY Fields DEF BaseInv
<1>3. CASE ExecuteSucceeds(g)
  BY <1>1, <1>2, <1>3, RegistryUnregisters DEF ExecuteSucceeds
<1>4. CASE ~ExecuteSucceeds(g)
  <2>1. UNCHANGED registry
    BY <1>4 DEF SourceStep, PrepareFails, PrepareSucceeds, drainMailbox, GetState, GetStateFails,
                ExecuteFails, RolledBack, cleanupActorForMigration
  <2> QED BY <1>1, <1>2, <2>1 DEF registry, Typed, RegistryKnown, Known
<1> QED BY <1>1, <1>3, <1>4

\* What a step of the source does to the copies and to the locals of others.
LEMMA SourceCopies ==
    ASSUME BaseInv, NEW g \in Migrations, SourceStep(g)
    PROVE  /\ copies' \in [Copies -> Copy] /\ migrations' \in [Migrations -> Locals]
           /\ \A b \in Copies : b # Source(g) => copies'[b] = copies[b]
           /\ \A h \in Migrations : h # g => migrations'[h] = migrations[h]
           /\ migrations'[g].src = migrations[g].src /\ migrations'[g].new = migrations[g].new
           /\ migrations[g].phase # "idle"
           /\ copies'[Source(g)].state = copies[Source(g)].state
           /\ copies'[Source(g)].busy = copies[Source(g)].busy
           /\ Source(g) \in Copies /\ copies[Source(g)].status \in Grown
           /\ copies'[Source(g)].status = copies[Source(g)].status \/ copies'[Source(g)].status = "gone"
<1>0. MigrationTyped /\ CopiesInv /\ copies \in [Copies -> Copy] /\ Source(g) \in Copies
  BY Fields DEF BaseInv, MigrationTyped, Source
<1>1. migrations[g].phase # "idle"
  BY DEF SourceStep, PrepareFails, PrepareSucceeds, drainMailbox, GetState, GetStateFails, ExecuteFails,
         RolledBack, ExecuteSucceeds, cleanupActorForMigration
<1>2. copies[Source(g)].status \in Grown
  BY <1>0, <1>1 DEF CopiesInv, Source
<1>3. /\ migrations' \in [Migrations -> Locals]
      /\ \A h \in Migrations : h # g => migrations'[h] = migrations[h]
      /\ migrations'[g].src = migrations[g].src /\ migrations'[g].new = migrations[g].new
  BY <1>0, SourceEffects DEF SourceStep, SetsLocals
<1>4. \/ copies' = copies
      \/ /\ copies' \in [Copies -> Copy] /\ \A b \in Copies : b # Source(g) => copies'[b] = copies[b]
         /\ copies'[Source(g)].state = copies[Source(g)].state
         /\ copies'[Source(g)].busy = copies[Source(g)].busy
         /\ copies'[Source(g)].status = copies[Source(g)].status \/ copies'[Source(g)].status = "gone"
  <2>1. CASE PrepareFails(g) \/ drainMailbox(g) \/ RolledBack(g) \/ cleanupActorForMigration(g)
             \/ PrepareSucceeds(g)
    BY <1>0, <2>1, SourceEffects DEF Sets
  <2>2. CASE GetState(g) \/ GetStateFails(g) \/ ExecuteFails(g) \/ ExecuteSucceeds(g)
    BY <2>2 DEF GetState, GetStateFails, ExecuteFails, ExecuteSucceeds
  <2> QED BY <2>1, <2>2 DEF SourceStep
<1> QED BY <1>0, <1>1, <1>2, <1>3, <1>4

\* What a step of the source does to the requests, the reply and the phase.
LEMMA SourceProtocol ==
    ASSUME BaseInv, NEW g \in Migrations, SourceStep(g)
    PROVE  /\ requests' \in [Migrations -> Queues]
           /\ reply' \in [Migrations -> {"none", "ready", "refused", "success", "failure"}]
           /\ \A h \in Migrations : h # g => requests'[h] = requests[h] /\ reply'[h] = reply[h]
           /\ Protocol(g)'
<1>0. MigrationTyped /\ Protocol(g)
  BY DEF BaseInv, ProtocolInv
<1>1. /\ requests \in [Migrations -> Queues]
      /\ reply \in [Migrations -> {"none", "ready", "refused", "success", "failure"}]
      /\ requests[g] \in Queues
  BY <1>0 DEF MigrationTyped
<1>2. reservation' = reservation /\ undone' = undone /\ (~ExecuteFails(g) => gaveUp' = gaveUp)
  BY SourceFrame
<1>3. Building(g)' => Building(g)
  <2>1. migrations[g].new \in 0..MaxCopies /\ migrations'[g].new = migrations[g].new
    BY <1>0, Fields, SourceCopies
  <2>2. ASSUME NEW b \in Copies, copies'[b].status = "building" PROVE copies[b].status = "building"
    <3>1. CASE b = Source(g)
      BY <2>2, <3>1, SourceCopies DEF Grown
    <3>2. CASE b # Source(g)
      BY <2>2, <3>2, SourceCopies
    <3> QED BY <3>1, <3>2
  <2> QED BY <2>1, <2>2, Constants DEF Building, Copies
<1>4. ASSUME reply' = [reply EXCEPT ![g] = "none"], requests' = requests
      PROVE  /\ requests' \in [Migrations -> Queues]
             /\ reply' \in [Migrations -> {"none", "ready", "refused", "success", "failure"}]
             /\ reply'[g] = "none" /\ requests'[g] = requests[g]
             /\ \A h \in Migrations : h # g => requests'[h] = requests[h] /\ reply'[h] = reply[h]
  BY <1>1, <1>4
<1>5. CASE PrepareFails(g)
  <2>1. reply' = [reply EXCEPT ![g] = "none"] /\ requests' = requests
        /\ migrations[g].phase = "preparing" /\ ~ExecuteFails(g)
    BY <1>5 DEF PrepareFails, ExecuteFails
  <2>2. /\ migrations'[g].phase = "failed" /\ migrations'[g].new = migrations[g].new
        /\ migrations'[g].pending = migrations[g].pending
    BY <1>0, <1>5, SourceEffects DEF SetsLocals
  <2>3. Protocol(g)'
    BY <1>0, <1>2, <1>3, <1>4, <2>1, <2>2, QueueFacts DEF Protocol, ToExecute
  <2> QED BY <1>4, <2>1, <2>3
<1>6. CASE PrepareSucceeds(g)
  <2>1. reply' = [reply EXCEPT ![g] = "none"] /\ requests' = requests /\ reply[g] = "ready"
        /\ migrations[g].phase = "preparing" /\ ~ExecuteFails(g)
    BY <1>6 DEF PrepareSucceeds, ExecuteFails
  <2>2. /\ migrations'[g].phase \in {"draining", "serializing"} /\ migrations'[g].new = migrations[g].new
        /\ migrations'[g].pending = migrations[g].pending
    BY <1>0, <1>6, SourceEffects DEF SetsLocals
  <2>3. Protocol(g)'
    BY <1>0, <1>2, <1>3, <1>4, <2>1, <2>2, QueueFacts DEF Protocol, ToExecute
  <2> QED BY <1>4, <2>1, <2>3
<1>7. CASE drainMailbox(g)
  <2>1. reply' = reply /\ requests' = requests /\ migrations[g].phase = "draining" /\ ~ExecuteFails(g)
    BY <1>7 DEF drainMailbox, ExecuteFails
  <2>2. migrations'[g].phase = "serializing" /\ migrations'[g].new = migrations[g].new
    BY <1>0, <1>7, SourceEffects DEF SetsLocals
  <2>3. Protocol(g)'
    BY <1>0, <1>2, <1>3, <2>1, <2>2, QueueFacts DEF Protocol, ToExecute
  <2> QED BY <1>1, <2>1, <2>3
<1>8. CASE GetState(g)
  <2>1. Request(g, "execute") /\ migrations[g].phase = "serializing" /\ ~ExecuteFails(g)
    BY <1>8 DEF GetState, ExecuteFails
  <2>2. <<"execute">> \in Queues /\ Append(requests[g], "execute") = <<"execute">>
    BY <1>0, <2>1, QueueFacts DEF Protocol, Queues
  <2>3. /\ requests' \in [Migrations -> Queues] /\ requests'[g] = <<"execute">>
        /\ reply' \in [Migrations -> {"none", "ready", "refused", "success", "failure"}]
        /\ reply'[g] = "none"
        /\ \A h \in Migrations : h # g => requests'[h] = requests[h] /\ reply'[h] = reply[h]
    BY <1>0, <2>1, <2>2, RequestSent
  <2>4. migrations'[g].phase = "executing" /\ migrations'[g].new = migrations[g].new
    BY <1>0, <1>8, SourceEffects DEF SetsLocals
  <2>5. Protocol(g)'
    BY <1>0, <1>2, <1>3, <2>1, <2>3, <2>4, QueueFacts DEF Protocol, ToExecute
  <2> QED BY <2>3, <2>5
<1>9. CASE GetStateFails(g) \/ ExecuteFails(g)
  <2>1. /\ Request(g, "rollback")
        /\ \/ migrations[g].phase = "serializing" /\ gaveUp' = gaveUp
           \/ migrations[g].phase = "executing" /\ gaveUp' = gaveUp \cup {g}
    BY <1>9, <1>2 DEF GetStateFails, ExecuteFails, history
  <2>2. PICK q \in {<<"rollback">>, <<"execute", "rollback">>} :
           /\ q \in Queues /\ Append(requests[g], "rollback") = q
           /\ q = <<"execute", "rollback">> => requests[g] = <<"execute">> /\ migrations[g].phase = "executing"
    BY <1>0, <2>1, QueueFacts DEF Protocol, Queues
  <2>3. /\ requests' \in [Migrations -> Queues] /\ requests'[g] = q
        /\ reply' \in [Migrations -> {"none", "ready", "refused", "success", "failure"}]
        /\ reply'[g] = "none"
        /\ \A h \in Migrations : h # g => requests'[h] = requests[h] /\ reply'[h] = reply[h]
    BY <1>0, <2>1, <2>2, RequestSent
  <2>4. migrations'[g].phase = "rollingBack" /\ migrations'[g].new = migrations[g].new
    BY <1>0, <1>9, SourceEffects DEF SetsLocals
  <2>5. Protocol(g)'
    BY <1>0, <1>2, <1>3, <2>1, <2>2, <2>3, <2>4, QueueFacts DEF Protocol, ToExecute
  <2> QED BY <2>3, <2>5
<1>10. CASE RolledBack(g)
  <2>1. reply' = [reply EXCEPT ![g] = "none"] /\ requests' = requests /\ ~ExecuteFails(g)
        /\ \/ migrations[g].phase = "rollingBack"
           \/ migrations[g].phase = "executing" /\ reply[g] = "failure"
    BY <1>10 DEF RolledBack, ExecuteFails
  <2>2. migrations'[g].phase = "failed" /\ migrations'[g].new = migrations[g].new
    BY <1>0, <1>10, SourceEffects DEF SetsLocals
  <2>3. Protocol(g)'
    BY <1>0, <1>2, <1>3, <1>4, <2>1, <2>2, QueueFacts DEF Protocol, ToExecute
  <2> QED BY <1>4, <2>1, <2>3
<1>11. CASE ExecuteSucceeds(g)
  <2>1. reply' = [reply EXCEPT ![g] = "none"] /\ requests' = requests /\ ~ExecuteFails(g)
        /\ migrations[g].phase = "executing" /\ reply[g] = "success"
    BY <1>11 DEF ExecuteSucceeds, ExecuteFails
  <2>2. migrations'[g].phase = "unregistering" /\ migrations'[g].new = migrations[g].new
    BY <1>0, <1>11, SourceEffects DEF SetsLocals
  <2>3. Protocol(g)'
    BY <1>0, <1>2, <1>3, <1>4, <2>1, <2>2, QueueFacts DEF Protocol, ToExecute
  <2> QED BY <1>4, <2>1, <2>3
<1>12. CASE cleanupActorForMigration(g)
  <2>1. reply' = reply /\ requests' = requests /\ ~ExecuteFails(g)
        /\ migrations[g].phase = "unregistering"
    BY <1>12 DEF cleanupActorForMigration, ExecuteFails
  <2>2. migrations'[g].phase = "moved" /\ migrations'[g].new = migrations[g].new
    BY <1>0, <1>12, SourceEffects DEF SetsLocals
  <2>3. Protocol(g)'
    BY <1>0, <1>2, <1>3, <2>1, <2>2, QueueFacts DEF Protocol, ToExecute
  <2> QED BY <1>1, <2>1, <2>3
<1> QED BY <1>5, <1>6, <1>7, <1>8, <1>9, <1>10, <1>11, <1>12 DEF SourceStep

\* The steps of the source.
LEMMA BaseOfSourceSteps ==
    ASSUME BaseInv, NEW g \in Migrations, SourceStep(g)
    PROVE  BaseInv'
<1>0. MigrationTyped /\ CopiesInv
  BY DEF BaseInv
<1>1. MigrationTyped'
  BY <1>0, SourceFrame, SourceCopies, SourceProtocol DEF MigrationTyped
<1>2. CopiesInv'
  <2>1. ASSUME NEW b \in Copies PROVE Ages(b)
    <3>1. CASE b = Source(g)
      <4>1. /\ did'[b] = did[b] /\ direct'[b] = direct[b]
            /\ copies'[b].state = copies[b].state /\ copies[b].status \in Grown
            /\ copies'[b].status \in Grown
        BY <3>1, SourceFrame, SourceCopies DEF Grown
      <4> QED BY <1>0, <4>1, AgesUnchanged
    <3>2. CASE b # Source(g)
      BY <1>0, <3>2, SourceFrame, SourceCopies, AgesUnchanged
    <3> QED BY <3>1, <3>2
  <2>2. \A h \in Migrations :
           \/ /\ migrations'[h].src = migrations[h].src
              /\ migrations[h].phase = "idle" => migrations'[h].phase = "idle"
           \/ copies'[migrations'[h].src].status \in Grown
    <3> SUFFICES ASSUME NEW h \in Migrations
                 PROVE  /\ migrations'[h].src = migrations[h].src
                        /\ migrations[h].phase = "idle" => migrations'[h].phase = "idle"
      OBVIOUS
    <3> QED BY SourceCopies
  <2>3. \A h \in Migrations : migrations'[h].new = migrations[h].new
    BY SourceCopies
  <2> QED BY <2>1, <2>2, <2>3, SourceFrame, CopiesKept DEF Ages
<1>3. ProtocolInv'
  <2>1. \A h \in Migrations : h # g => /\ migrations'[h] = migrations[h] /\ requests'[h] = requests[h]
                                       /\ reply'[h] = reply[h] /\ reservation'[h] = reservation[h]
                                       /\ h \in gaveUp' <=> h \in gaveUp
                                       /\ h \in undone' <=> h \in undone
    <3>1. gaveUp' = gaveUp \/ gaveUp' = gaveUp \cup {g}
      BY SourceFrame DEF ExecuteFails
    <3> QED BY <3>1, SourceFrame, SourceCopies, SourceProtocol
  <2>2. ASSUME NEW b \in Copies, copies'[b].status = "building"
        PROVE  copies[b].status \in {"building", "unused"}
    BY <2>2, SourceCopies DEF Grown
  <2> QED BY <2>1, <2>2, SourceProtocol, ProtocolOfOthers
<1> QED BY <1>1, <1>2, <1>3, SourceFrame DEF BaseInv

\* migrate.
LEMMA BaseOfMigrate ==
    ASSUME BaseInv, NEW g \in Migrations, NEW n \in Nodes, NEW target \in Nodes, migrate(g, n, target)
    PROVE  BaseInv'
<1> DEFINE c == named[n]
<1>0. MigrationTyped /\ CopiesInv /\ Typed /\ RegistryKnown /\ Protocol(g)
  BY DEF BaseInv, ProtocolInv
<1>1. /\ reservation' = reservation /\ undone' = undone /\ gaveUp' = gaveUp /\ named' = named
      /\ did' = did /\ direct' = direct /\ UNCHANGED registry /\ overlapped' \in BOOLEAN /\ migrations[g].phase = "idle"
      /\ Request(g, "prepare")
  BY DEF migrate, registry
<1>2. Typed' /\ RegistryKnown'
  BY <1>0, <1>1 DEF registry, Typed, RegistryKnown, Known
<1>3. /\ c \in Copies /\ copies' \in [Copies -> Copy] /\ migrations' \in [Migrations -> Locals]
      /\ \A b \in Copies : b # c => copies'[b] = copies[b]
      /\ \A h \in Migrations : h # g => migrations'[h] = migrations[h]
      /\ migrations'[g].src = c /\ migrations'[g].new = migrations[g].new
      /\ migrations'[g].phase = "preparing" /\ migrations'[g].pending = migrations[g].pending
      /\ copies'[c].state = copies[c].state /\ copies'[c].busy = copies[c].busy
      /\ copies'[c].mailbox = copies[c].mailbox /\ copies'[c].status = copies[c].status
  BY <1>0, MigrateEffect DEF Sets, SetsLocals
<1>4. copies[c].status \in Grown
  <2>1. c # 0
    BY <1>3, Constants
  <2> QED BY <1>0, <2>1 DEF CopiesInv
<1>5. <<"prepare">> \in Queues /\ Append(requests[g], "prepare") = <<"prepare">>
  BY <1>0, <1>1, QueueFacts DEF Protocol, Queues
<1>6. /\ requests' \in [Migrations -> Queues] /\ requests'[g] = <<"prepare">>
      /\ reply' \in [Migrations -> {"none", "ready", "refused", "success", "failure"}]
      /\ reply'[g] = "none"
      /\ \A h \in Migrations : h # g => requests'[h] = requests[h] /\ reply'[h] = reply[h]
  BY <1>0, <1>1, <1>5, RequestSent
<1>7. MigrationTyped'
  BY <1>0, <1>1, <1>3, <1>6 DEF MigrationTyped
<1>8. CopiesInv'
  <2>1. \A b \in Copies : Ages(b)
    <3> HIDE DEF c
    <3> QED BY <1>0, <1>1, <1>3, <1>4, AgesUnchanged
  <2>2. ASSUME NEW h \in Migrations
        PROVE  \/ /\ migrations'[h].src = migrations[h].src
                  /\ migrations[h].phase = "idle" => migrations'[h].phase = "idle"
               \/ copies'[migrations'[h].src].status \in Grown
    <3> HIDE DEF c
    <3> QED BY <1>3, <1>4
  <2>3. \A h \in Migrations : migrations'[h].new = migrations[h].new
    BY <1>3
  <2> QED BY <1>1, <2>1, <2>2, <2>3, CopiesKept DEF Ages
<1>9. ProtocolInv'
  <2>1. Protocol(g)'
    <3>1. ~Building(g)' /\ ~Building(g)
      BY <1>0, <1>1, <1>3 DEF Building, Protocol
    <3> QED BY <1>0, <1>1, <1>3, <1>6, <3>1, QueueFacts DEF Protocol, ToExecute
  <2>2. \A b \in Copies : copies'[b].status = "building" => copies[b].status \in {"building", "unused"}
    BY <1>3
  <2> HIDE DEF c
  <2> QED BY <1>1, <1>3, <1>6, <2>1, <2>2, ProtocolOfOthers
<1> QED BY <1>2, <1>7, <1>8, <1>9 DEF BaseInv

\* A request arrives.
LEMMA RequestArrives ==
    ASSUME MigrationTyped, NEW g \in Migrations, NEW type, Arrives(g, type),
           type \in {"prepare", "execute", "rollback"}
    PROVE  /\ requests' \in [Migrations -> Queues]
           /\ \A h \in Migrations : h # g => requests'[h] = requests[h]
           /\ type = "prepare" => requests[g] = <<"prepare">> /\ requests'[g] = <<>>
           /\ type = "rollback" => requests[g] = <<"rollback">> /\ requests'[g] = <<>>
           /\ type = "execute" =>
                 \/ requests[g] = <<"execute">> /\ requests'[g] = <<>>
                 \/ requests[g] = <<"execute", "rollback">> /\ requests'[g] = <<"rollback">>
<1>1. /\ requests \in [Migrations -> Queues] /\ requests[g] \in Queues
      /\ requests[g] # <<>> /\ Head(requests[g]) = type
  BY DEF Arrives, MigrationTyped
<1>2. requests' = [requests EXCEPT ![g] = Tail(requests[g])]
  BY DEF Arrives
<1>3. /\ Tail(requests[g]) \in Queues
      /\ type = "prepare" => requests[g] = <<"prepare">> /\ Tail(requests[g]) = <<>>
      /\ type = "rollback" => requests[g] = <<"rollback">> /\ Tail(requests[g]) = <<>>
      /\ type = "execute" =>
            \/ requests[g] = <<"execute">> /\ Tail(requests[g]) = <<>>
            \/ requests[g] = <<"execute", "rollback">> /\ Tail(requests[g]) = <<"rollback">>
  BY <1>1, QueueFacts DEF Queues
<1> DEFINE q == Tail(requests[g])
<1>4. requests' = [requests EXCEPT ![g] = q] /\ q \in Queues
  BY <1>2, <1>3
<1>5. requests'[g] = q /\ requests' \in [Migrations -> Queues]
      /\ \A h \in Migrations : h # g => requests'[h] = requests[h]
  <2> HIDE DEF q
  <2> QED BY <1>1, <1>4
<1> QED BY <1>3, <1>5

\* What keeps the invariant when the target takes a step for migration g.
LEMMA TargetKept ==
    ASSUME BaseInv, NEW g \in Migrations,
           copies' \in [Copies -> Copy], migrations' \in [Migrations -> Locals],
           requests' \in [Migrations -> Queues],
           reply' \in [Migrations -> {"none", "ready", "refused", "success", "failure"}],
           reservation' \in [Migrations -> {"none", "held", "confirmed"}],
           named' \in [Nodes -> 0..MaxCopies], did' = did /\ direct' = direct, overlapped' = overlapped, gaveUp' = gaveUp,
           Typed', RegistryKnown', Protocol(g)',
           \A h \in Migrations : h # g => /\ migrations'[h] = migrations[h] /\ requests'[h] = requests[h]
                                          /\ reply'[h] = reply[h] /\ reservation'[h] = reservation[h]
                                          /\ h \in undone' <=> h \in undone,
           migrations'[g].src = migrations[g].src, migrations'[g].phase = migrations[g].phase,
           migrations'[g].new = migrations[g].new \/ copies'[migrations'[g].new].status # "unused",
           \A b \in Copies : Ages(b),
           \A b \in Copies : copies'[b].status = "building" => copies[b].status \in {"building", "unused"},
           \A n \in Nodes : named'[n] = named[n] \/ copies'[named'[n]].status \in Grown
    PROVE  BaseInv'
<1>1. MigrationTyped'
  BY DEF MigrationTyped, BaseInv
<1>2. CopiesInv'
  <2>1. \A h \in Migrations : /\ migrations'[h].src = migrations[h].src
                              /\ migrations'[h].phase = migrations[h].phase
                              /\ \/ migrations'[h].new = migrations[h].new
                                 \/ copies'[migrations'[h].new].status # "unused"
    OBVIOUS
  <2> QED BY <2>1, CopiesKept DEF Ages
<1>3. ProtocolInv'
  BY ProtocolOfOthers
<1> QED BY <1>1, <1>2, <1>3 DEF BaseInv

\* An answer.
LEMMA AnswerGiven ==
    ASSUME MigrationTyped, NEW g \in Migrations, NEW phase,
           NEW answer \in {"none", "ready", "refused", "success", "failure"}, Answer(g, phase, answer)
    PROVE  /\ reply' \in [Migrations -> {"none", "ready", "refused", "success", "failure"}]
           /\ \A h \in Migrations : h # g => reply'[h] = reply[h]
           /\ reply'[g] = IF migrations[g].phase = phase THEN answer ELSE reply[g]
BY DEF Answer, MigrationTyped

\* Releasing a reservation.
LEMMA ReservationReleased ==
    ASSUME MigrationTyped, NEW g \in Migrations, reservation' = Released(g)
    PROVE  /\ reservation' \in [Migrations -> {"none", "held", "confirmed"}]
           /\ \A h \in Migrations : h # g => reservation'[h] = reservation[h]
           /\ reservation[g] = "confirmed" => reservation'[g] = "confirmed"
           /\ reservation[g] # "confirmed" => reservation'[g] = "none"
BY DEF Released, MigrationTyped

\* Preparing, rolling back, and the end of a reservation's time.
LEMMA BaseOfReservations ==
    ASSUME BaseInv, NEW g \in Migrations,
           handleMigratePrepare(g) \/ handleMigrateRollback(g) \/ Expires(g)
    PROVE  BaseInv'
<1>0. MigrationTyped /\ CopiesInv /\ Typed /\ RegistryKnown /\ Protocol(g)
  BY DEF BaseInv, ProtocolInv
<1>1. /\ copies' = copies /\ migrations' = migrations /\ UNCHANGED registry /\ did' = did /\ direct' = direct
      /\ overlapped' = overlapped /\ gaveUp' = gaveUp /\ named' = named
  BY DEF handleMigratePrepare, handleMigrateRollback, Expires, registry, history
<1>2. Typed' /\ RegistryKnown'
  BY <1>0, <1>1 DEF registry, Typed, RegistryKnown, Known
<1>3. \A b \in Copies : Ages(b)
  BY <1>0, <1>1, AgesUnchanged
<1>4. copies \in [Copies -> Copy] /\ migrations \in [Migrations -> Locals] /\ named \in [Nodes -> 0..MaxCopies]
      /\ requests \in [Migrations -> Queues]
      /\ reply \in [Migrations -> {"none", "ready", "refused", "success", "failure"}]
      /\ reservation \in [Migrations -> {"none", "held", "confirmed"}]
  BY <1>0 DEF MigrationTyped
<1>5. Building(g)' <=> Building(g)
  BY <1>1 DEF Building
<1>6. ASSUME requests' \in [Migrations -> Queues], Protocol(g)',
             reply' \in [Migrations -> {"none", "ready", "refused", "success", "failure"}],
             reservation' \in [Migrations -> {"none", "held", "confirmed"}],
             \A h \in Migrations : h # g => /\ requests'[h] = requests[h] /\ reply'[h] = reply[h]
                                            /\ reservation'[h] = reservation[h]
                                            /\ h \in undone' <=> h \in undone
      PROVE  BaseInv'
  BY <1>1, <1>2, <1>3, <1>4, <1>6, TargetKept
<1>7. CASE handleMigratePrepare(g)
  <2>1. /\ requests' \in [Migrations -> Queues] /\ requests[g] = <<"prepare">> /\ requests'[g] = <<>>
        /\ \A h \in Migrations : h # g => requests'[h] = requests[h]
    BY <1>0, <1>7, RequestArrives DEF handleMigratePrepare
  <2>2. PICK answer \in {"ready", "refused"} : Answer(g, "preparing", answer)
    BY <1>7 DEF handleMigratePrepare
  <2>3. /\ reply' \in [Migrations -> {"none", "ready", "refused", "success", "failure"}]
        /\ \A h \in Migrations : h # g => reply'[h] = reply[h]
        /\ reply'[g] = IF migrations[g].phase = "preparing" THEN answer ELSE reply[g]
    BY <1>0, <2>2, AnswerGiven
  <2>4. reservation' = reservation \/ reservation' = [reservation EXCEPT ![g] = "held"]
    BY <1>7 DEF handleMigratePrepare
  <2>5. /\ reservation' \in [Migrations -> {"none", "held", "confirmed"}]
        /\ \A h \in Migrations : h # g => reservation'[h] = reservation[h]
        /\ reservation'[g] \in {reservation[g], "held"}
    BY <1>4, <2>4
  <2>6. undone' = undone
    BY <1>7 DEF handleMigratePrepare, history
  <2>7. Protocol(g)'
    BY <1>0, <1>1, <1>5, <2>1, <2>3, <2>5, <2>6, QueueFacts DEF Protocol, ToExecute
  <2> QED BY <1>6, <2>1, <2>3, <2>5, <2>6, <2>7
<1>8. CASE handleMigrateRollback(g)
  <2>1. /\ requests' \in [Migrations -> Queues] /\ requests[g] = <<"rollback">> /\ requests'[g] = <<>>
        /\ \A h \in Migrations : h # g => requests'[h] = requests[h]
    BY <1>0, <1>8, RequestArrives DEF handleMigrateRollback
  <2>2. reply' = reply /\ reservation' = Released(g)
        /\ undone' = IF reservation[g] = "confirmed" THEN undone ELSE undone \cup {g}
    BY <1>8 DEF handleMigrateRollback
  <2>3. /\ reservation' \in [Migrations -> {"none", "held", "confirmed"}]
        /\ \A h \in Migrations : h # g => reservation'[h] = reservation[h]
        /\ reservation[g] = "confirmed" => reservation'[g] = "confirmed"
        /\ reservation[g] # "confirmed" => reservation'[g] = "none"
    BY <1>0, <2>2, ReservationReleased
  <2>4. migrations[g].phase \in {"rollingBack", "failed"}
    BY <1>0, <2>1, Fields, QueueFacts DEF Protocol, Phases
  <2>5. Protocol(g)'
    BY <1>0, <1>1, <1>5, <2>1, <2>2, <2>3, <2>4, QueueFacts DEF Protocol, ToExecute
  <2> QED BY <1>4, <1>6, <2>1, <2>2, <2>3, <2>5
<1>9. CASE Expires(g)
  <2>1. reply' = reply /\ reservation' = Released(g) /\ reservation[g] = "held"
        /\ undone' = undone /\ requests' = requests
    BY <1>9 DEF Expires, history
  <2>2. /\ reservation' \in [Migrations -> {"none", "held", "confirmed"}]
        /\ \A h \in Migrations : h # g => reservation'[h] = reservation[h]
        /\ reservation'[g] = "none"
    BY <1>0, <2>1, ReservationReleased
  <2>3. Protocol(g)'
    BY <1>0, <1>1, <1>5, <2>1, <2>2 DEF Protocol, ToExecute
  <2> QED BY <1>4, <1>6, <2>1, <2>2, <2>3
<1> QED BY <1>7, <1>8, <1>9

\* Executing, on the target.
LEMMA BaseOfExecute ==
    ASSUME BaseInv, NEW g \in Migrations,
           handleMigrateExecute(g) \/ confirmReservation(g) \/ ExecuteThrows(g)
    PROVE  BaseInv'
<1> DEFINE l == migrations[g]
<1>0. MigrationTyped /\ CopiesInv /\ Typed /\ RegistryKnown /\ Protocol(g)
  BY DEF BaseInv, ProtocolInv
<1>1. did' = did /\ direct' = direct /\ overlapped' = overlapped /\ gaveUp' = gaveUp /\ undone' = undone
  BY DEF handleMigrateExecute, confirmReservation, ExecuteThrows, history
<1>2. copies \in [Copies -> Copy] /\ migrations \in [Migrations -> Locals] /\ named \in [Nodes -> 0..MaxCopies]
      /\ requests \in [Migrations -> Queues]
      /\ reply \in [Migrations -> {"none", "ready", "refused", "success", "failure"}]
      /\ reservation \in [Migrations -> {"none", "held", "confirmed"}]
  BY <1>0 DEF MigrationTyped
<1>3. CASE handleMigrateExecute(g)
  <2>1. /\ requests' \in [Migrations -> Queues]
        /\ \/ requests[g] = <<"execute">> /\ requests'[g] = <<>>
           \/ requests[g] = <<"execute", "rollback">> /\ requests'[g] = <<"rollback">>
        /\ \A h \in Migrations : h # g => requests'[h] = requests[h]
    BY <1>0, <1>3, RequestArrives DEF handleMigrateExecute
  <2>2. UNCHANGED registry /\ reply' = reply /\ reservation' = reservation /\ named' = named
    BY <1>3 DEF handleMigrateExecute, registry
  <2>3. Typed' /\ RegistryKnown'
    BY <1>0, <2>2 DEF registry, Typed, RegistryKnown, Known
  <2> HIDE DEF Fresh
  <2>4. /\ Fresh \in Copies /\ copies[Fresh].status = "unused"
        /\ migrations' \in [Migrations -> Locals] /\ copies' \in [Copies -> Copy]
        /\ migrations'[g].phase = l.phase /\ migrations'[g].src = l.src /\ migrations'[g].new = Fresh
        /\ migrations'[g].pending = l.pending
        /\ copies'[Fresh].status = "building" /\ copies'[Fresh].busy = NoMsg /\ copies'[Fresh].mailbox = <<>>
        /\ \A h \in Migrations : h # g => migrations'[h] = migrations[h]
        /\ \A b \in Copies : b # Fresh => copies'[b] = copies[b]
    BY <1>0, <1>3, TargetEffects DEF SetsLocals, Sets
  <2>5. \A b \in Copies : Ages(b)
    BY <1>0, <1>1, <2>4, AgesUnchanged
  <2>6. Protocol(g)'
    <3>1. Fresh # 0 /\ Building(g)'
      BY <2>4, Constants DEF Building
    <3> QED BY <1>0, <1>1, <2>1, <2>2, <2>4, <3>1, QueueFacts DEF Protocol, ToExecute
  <2>7. \A b \in Copies : copies'[b].status = "building" => copies[b].status \in {"building", "unused"}
    BY <2>4
  <2> QED BY <1>1, <1>2, <2>1, <2>2, <2>3, <2>4, <2>5, <2>6, <2>7, TargetKept
<1>4. CASE confirmReservation(g) \/ ExecuteThrows(g)
  <2> DEFINE c == l.new
  <2>1. Building(g) /\ c \in Copies /\ copies[c].status = "building" /\ l.to \in Nodes
        /\ requests' = requests /\ migrations' = migrations
    BY <1>0, <1>4, Fields, Constants DEF confirmReservation, ExecuteThrows, Building, Copies
  <2>2. c # 0 /\ ~ToExecute(g) /\ reservation[g] # "confirmed" /\ requests[g] # <<"prepare">>
    BY <1>0, <2>1, SMTT(60) DEF Protocol, Building
  <2>3. PICK answer \in {"success", "failure"} :
           /\ Answer(g, "executing", answer)
           /\ answer = "success" => confirmReservation(g) /\ reservation[g] = "held"
           /\ answer = "failure" => ExecuteThrows(g) \/ reservation[g] # "held"
    BY <1>4 DEF confirmReservation, ExecuteThrows
  <2>4. /\ reply' \in [Migrations -> {"none", "ready", "refused", "success", "failure"}]
        /\ \A h \in Migrations : h # g => reply'[h] = reply[h]
        /\ reply'[g] = IF migrations[g].phase = "executing" THEN answer ELSE reply[g]
    BY <1>0, <2>3, AnswerGiven
  <2>5. ASSUME Sets(c, copies'[c].status, copies'[c].paused, copies'[c].mailbox, copies'[c].busy,
                    copies'[c].state),
               copies'[c].status # "building", Ages(c),
               Typed', RegistryKnown', named' \in [Nodes -> 0..MaxCopies],
               \A n \in Nodes : named'[n] = named[n] \/ copies'[named'[n]].status \in Grown,
               reservation' \in [Migrations -> {"none", "held", "confirmed"}],
               \A h \in Migrations : h # g => reservation'[h] = reservation[h],
               \/ answer = "success" /\ reservation'[g] = "confirmed" /\ reservation[g] = "held"
               \/ answer = "failure" /\ reservation'[g] = "none"
        PROVE  BaseInv'
    <3>1. /\ copies' \in [Copies -> Copy] /\ \A b \in Copies : b # c => copies'[b] = copies[b]
          /\ migrations'[g] = l
      BY <2>1, <2>5 DEF Sets
    <3> HIDE DEF c
    <3>2. \A b \in Copies : Ages(b)
      BY <1>0, <1>1, <2>5, <3>1, AgesUnchanged
    <3>3. \A b \in Copies : copies'[b].status = "building" => copies[b].status \in {"building", "unused"}
      BY <2>5, <3>1
    <3>4. Protocol(g)'
      <4>1. ~Building(g)'
        BY <2>1, <2>5 DEF Building, c
      <4>2. migrations[g].new # 0
        BY <2>2 DEF c
      <4>3. /\ migrations'[g] = migrations[g] /\ requests'[g] = requests[g] /\ gaveUp' = gaveUp
            /\ undone' = undone
        BY <1>1, <2>1
      <4>4. answer = "success" => g \notin undone
        BY <1>0, <2>5 DEF Protocol
      <4>5. migrations[g].phase \in {"executing", "unregistering", "moved"} \/ g \in gaveUp
        BY <1>0, <2>1 DEF Protocol
      <4> QED BY <1>0, <2>2, <2>4, <2>5, <4>1, <4>2, <4>3, <4>4, <4>5 DEF Protocol, ToExecute
    <3> QED BY <1>1, <1>2, <2>1, <2>4, <2>5, <3>1, <3>2, <3>3, <3>4, TargetKept
  <2>6. CASE answer = "success"
    <3>1. /\ Sets(c, "live", copies[c].paused, l.pending, copies[c].busy, l.state)
          /\ reservation[g] = "held"
      BY <1>0, <2>3, <2>6, TargetEffects
    <3>2. /\ named' = [named EXCEPT ![l.to] = c] /\ Registers(localClock, registrations, l.to)
          /\ reservation' = [reservation EXCEPT ![g] = "confirmed"]
      BY <2>3, <2>6 DEF confirmReservation
    <3>3. Typed' /\ RegistryKnown' /\ named' \in [Nodes -> 0..MaxCopies]
      BY <1>0, <1>2, <2>1, <3>2, RegistryRegisters
    <3> HIDE DEF c
    <3>4. copies'[c].status = "live"
          /\ Sets(c, copies'[c].status, copies'[c].paused, copies'[c].mailbox, copies'[c].busy, copies'[c].state)
      BY <3>1 DEF Sets
    <3>5. Ages(c)
      BY <1>0, <1>1, <2>1, <3>4, AgesUnchanged
    <3>6. \A n \in Nodes : named'[n] = named[n] \/ copies'[named'[n]].status \in Grown
      BY <1>2, <2>1, <3>2, <3>4 DEF Grown
    <3>7. reservation' \in [Migrations -> {"none", "held", "confirmed"}] /\ reservation'[g] = "confirmed"
          /\ \A h \in Migrations : h # g => reservation'[h] = reservation[h]
      BY <1>2, <3>2
    <3>8. copies'[c].status # "building"
      BY <3>4
    <3>9. answer = "success" /\ reservation'[g] = "confirmed" /\ reservation[g] = "held"
      BY <2>6, <3>1, <3>7
    <3> QED BY <2>5, <3>3, <3>4, <3>5, <3>6, <3>7, <3>8, <3>9
  <2>7. CASE answer = "failure"
    <3>1. \E v \in {"gone", "broken"} :
             Sets(c, v, copies[c].paused, copies[c].mailbox, copies[c].busy, copies[c].state)
      BY <1>0, <1>4, <2>3, <2>7, TargetEffects
    <3>2. UNCHANGED registry /\ named' = named
      BY <1>4, <2>3, <2>7 DEF confirmReservation, ExecuteThrows, registry
    <3>3. Typed' /\ RegistryKnown' /\ named' \in [Nodes -> 0..MaxCopies]
      BY <1>0, <1>2, <3>2 DEF registry, Typed, RegistryKnown, Known
    <3> HIDE DEF c
    <3>4. /\ copies'[c].status \in {"gone", "broken"} /\ copies'[c].busy = copies[c].busy
          /\ copies'[c].mailbox = copies[c].mailbox /\ copies'[c].state = copies[c].state
          /\ Sets(c, copies'[c].status, copies'[c].paused, copies'[c].mailbox, copies'[c].busy, copies'[c].state)
      BY <3>1 DEF Sets
    <3>5. Ages(c)
      BY <1>0, <1>1, <2>1, <3>4, AgesUnchanged
    <3>6. reservation' \in [Migrations -> {"none", "held", "confirmed"}] /\ reservation'[g] = "none"
          /\ \A h \in Migrations : h # g => reservation'[h] = reservation[h]
      <4>1. CASE ExecuteThrows(g)
        <5>1. reservation' = Released(g)
          BY <4>1 DEF ExecuteThrows
        <5> QED BY <1>0, <2>2, <5>1, ReservationReleased
      <4>2. CASE confirmReservation(g) /\ reservation[g] # "held"
        BY <1>2, <2>2, <4>2 DEF confirmReservation
      <4> QED BY <1>4, <2>3, <2>7, <4>1, <4>2
    <3> QED BY <2>5, <2>7, <3>2, <3>3, <3>4, <3>5, <3>6
  <2> QED BY <2>6, <2>7, SMTT(60)
<1> QED BY <1>3, <1>4

\* Nothing is registered, sent or made at first.
LEMMA InitBase == MigrationInit => BaseInv
<1> SUFFICES ASSUME MigrationInit PROVE BaseInv
  OBVIOUS
<1>1. MigrationTyped
  BY InitMigrationTyped
<1>2. Typed /\ RegistryKnown
  <2>1. NoTicks \in Clock
    BY DEF NoTicks, Clock
  <2>2. Typed
    BY <2>1 DEF MigrationInit, Typed
  <2>3. \A p, s \in Nodes : wire[p][s] = <<>> /\ Len(wire[p][s]) = 0
    BY DEF MigrationInit
  <2> QED BY <2>2, <2>3, Constants DEF MigrationInit, RegistryKnown
<1>3. CopiesInv
  BY DEF MigrationInit, CopiesInv, Unused, Idle, Fallow, Grown
<1>4. ASSUME NEW g \in Migrations PROVE Protocol(g)
  <2>1. /\ migrations[g].phase = "idle" /\ migrations[g].new = 0 /\ migrations[g].pending = <<>>
        /\ requests[g] = <<>> /\ reply[g] = "none" /\ reservation[g] = "none"
        /\ g \notin gaveUp /\ g \notin undone
    BY DEF MigrationInit, Idle
  <2> QED BY <2>1, QueueFacts DEF Protocol, ToExecute, Building
<1> QED BY <1>1, <1>2, <1>3, <1>4 DEF BaseInv, ProtocolInv

\* Every step keeps the types, the copies and the protocol.
LEMMA StepBase == BaseInv /\ [MigrationNext]_migrationVars => BaseInv'
<1> SUFFICES ASSUME BaseInv, [MigrationNext]_migrationVars PROVE BaseInv'
  OBVIOUS
<1>1. CASE UNCHANGED migrationVars
  <2>1. /\ localClock' = localClock /\ registrations' = registrations /\ wire' = wire /\ named' = named
        /\ copies' = copies /\ migrations' = migrations /\ requests' = requests /\ reply' = reply
        /\ reservation' = reservation /\ did' = did /\ direct' = direct /\ gaveUp' = gaveUp /\ undone' = undone
        /\ overlapped' = overlapped
    BY <1>1 DEF migrationVars, registry, protocol, history
  <2>2. MigrationTyped' /\ Typed' /\ RegistryKnown'
    BY <2>1 DEF BaseInv, MigrationTyped, Typed, RegistryKnown, Known
  <2>3. CopiesInv'
    BY <2>1 DEF BaseInv, CopiesInv
  <2>4. ProtocolInv'
    BY <2>1, ProtocolUntouched
  <2> QED BY <2>2, <2>3, <2>4 DEF BaseInv
<1>2. CASE MigrationNext
  BY <1>2, BaseOfCopySteps, BaseOfSpawns, BaseOfSourceSteps, BaseOfMigrate, BaseOfReservations,
     BaseOfExecute DEF MigrationNext, TargetStep
<1> QED BY <1>1, <1>2

----------------------------------------------------------------------------
(* No mailbox is left paused.                                              *)

\* A copy that a step does not pause, and whose migrations go on.
LEMMA PausedKept ==
    ASSUME MigrationTyped, NotLeftPaused, NEW c \in Copies,
           Present(c)' /\ copies'[c].paused => Present(c) /\ copies[c].paused,
           \A h \in Migrations : UnderWay(h) /\ migrations[h].src = c =>
                                    UnderWay(h)' /\ migrations'[h].src = c
    PROVE  Present(c)' /\ copies'[c].paused =>
               \E h \in Migrations : UnderWay(h)' /\ migrations'[h].src = c
BY DEF NotLeftPaused

\* Steps that leave the phases alone: no copy is paused by them.
LEMMA PausedByOthers ==
    ASSUME BaseInv, NotLeftPaused,
           \/ spawn \/ \E p, s \in Nodes : RegistryUpdate(p, s)
           \/ \E c \in Copies :
                 \/ \E m \in Msgs : cast(c, m) \/ handleRpc(c, m) \/ RpcHandled(c, m)
                 \/ Handle(c) \/ Handled(c) \/ stop(c) \/ StopEnds(c)
           \/ \E g \in Migrations : TargetStep(g)
    PROVE  NotLeftPaused'
<1>0. MigrationTyped
  BY DEF BaseInv
<1>1. \A h \in Migrations : migrations'[h].phase = migrations[h].phase /\ migrations'[h].src = migrations[h].src
  <2>1. CASE \E g \in Migrations : handleMigrateExecute(g)
    BY <1>0, <2>1, TargetEffects DEF SetsLocals
  <2>2. CASE ~\E g \in Migrations : handleMigrateExecute(g)
    <3>1. migrations' = migrations
      BY <2>2 DEF spawn, RegistryUpdate, cast, handleRpc, RpcHandled, Handle, Handled, stop, StopEnds, protocol, TargetStep,
                  handleMigratePrepare, confirmReservation, ExecuteThrows, handleMigrateRollback, Expires
    <3> QED BY <3>1
  <2> QED BY <2>1, <2>2
<1>2. ASSUME NEW b \in Copies, Present(b)', copies'[b].paused PROVE Present(b) /\ copies[b].paused
  <2>1. CASE copies'[b] = copies[b]
    BY <1>2, <2>1 DEF Present
  <2>2. ASSUME NEW c \in Copies, NEW m \in Msgs, handleRpc(c, m)
        PROVE  Present(b) /\ copies[b].paused
    BY <2>1, <2>2 DEF handleRpc
  <2>3. ASSUME NEW c \in Copies, \/ \E m \in Msgs : cast(c, m) \/ RpcHandled(c, m)
                                 \/ Handle(c) \/ Handled(c) \/ stop(c)
        PROVE  Present(b) /\ copies[b].paused
    <3>1. \/ copies'[c].status = copies[c].status \/ copies[c].status = "live"
      BY <1>0, <2>3, CopyEffects DEF Sets, stop
    <3>2. copies'[c].paused = copies[c].paused /\ \A a \in Copies : a # c => copies'[a] = copies[a]
      BY <1>0, <2>3, CopyEffects DEF Sets
    <3> QED BY <1>2, <2>1, <3>1, <3>2 DEF Present
  <2>4. CASE spawn
    <3>1. copies'[1].paused = FALSE /\ \A a \in Copies : a # 1 => copies'[a] = copies[a]
      BY <1>0, <2>4, SpawnEffects DEF Sets
    <3> QED BY <1>2, <2>1, <3>1
  <2>5. ASSUME NEW c \in Copies, StopEnds(c) PROVE Present(b) /\ copies[b].paused
    <3>1. CASE Respawns(c)
      <4>1. /\ copies'[c].status = "gone" /\ copies'[Fresh].paused = FALSE
            /\ \A a \in Copies : a # c /\ a # Fresh => copies'[a] = copies[a]
        BY <3>1 DEF Respawns
      <4> HIDE DEF Fresh
      <4> QED BY <1>2, <2>1, <4>1 DEF Present
    <3>2. CASE Sets(c, "gone", copies[c].paused, copies[c].mailbox, copies[c].busy, copies[c].state)
      BY <1>2, <2>1, <3>2 DEF Sets, Present
    <3> QED BY <1>0, <2>5, <3>1, <3>2, SpawnEffects
  <2>6. CASE \E p, s \in Nodes : RegistryUpdate(p, s)
    BY <2>1, <2>6 DEF RegistryUpdate
  <2>7. ASSUME NEW g \in Migrations, TargetStep(g) PROVE Present(b) /\ copies[b].paused
    <3>1. CASE handleMigrateExecute(g)
      <4>1. copies'[Fresh].paused = FALSE /\ \A a \in Copies : a # Fresh => copies'[a] = copies[a]
        BY <1>0, <3>1, TargetEffects DEF Sets
      <4> HIDE DEF Fresh
      <4> QED BY <1>2, <2>1, <4>1
    <3>2. CASE confirmReservation(g) \/ ExecuteThrows(g)
      <4> DEFINE c == migrations[g].new
      <4>1. copies'[c].paused = copies[c].paused /\ \A a \in Copies : a # c => copies'[a] = copies[a]
        BY <1>0, <3>2, TargetEffects DEF Sets
      <4>2. copies[c].status = "building"
        BY <3>2 DEF confirmReservation, ExecuteThrows, Building
      <4> HIDE DEF c
      <4> QED BY <1>2, <2>1, <4>1, <4>2 DEF Present
    <3>3. CASE handleMigratePrepare(g) \/ handleMigrateRollback(g) \/ Expires(g)
      BY <2>1, <3>3 DEF handleMigratePrepare, handleMigrateRollback, Expires
    <3> QED BY <2>7, <3>1, <3>2, <3>3 DEF TargetStep
  <2> QED BY <2>2, <2>3, <2>4, <2>5, <2>6, <2>7
<1>3. ASSUME NEW b \in Copies
      PROVE  Present(b)' /\ copies'[b].paused => \E h \in Migrations : UnderWay(h)' /\ migrations'[h].src = b
  <2>1. \A h \in Migrations : UnderWay(h) /\ migrations[h].src = b => UnderWay(h)' /\ migrations'[h].src = b
    BY <1>1 DEF UnderWay
  <2> QED BY <1>0, <1>2, <2>1, PausedKept
<1> QED BY <1>3 DEF NotLeftPaused

\* migrate pauses the copy of a migration that is then under way.
LEMMA PausedByMigrate ==
    ASSUME BaseInv, NotLeftPaused, NEW g \in Migrations, NEW n \in Nodes, NEW target \in Nodes,
           migrate(g, n, target)
    PROVE  NotLeftPaused'
<1> DEFINE c == named[n]
<1>0. MigrationTyped /\ Typed /\ RegistryKnown
  BY DEF BaseInv
<1>1. /\ migrations'[g].phase = "preparing" /\ migrations'[g].src = c /\ migrations[g].phase = "idle"
      /\ \A h \in Migrations : h # g => migrations'[h] = migrations[h]
      /\ \A b \in Copies : b # c => copies'[b] = copies[b]
  BY <1>0, MigrateEffect DEF Sets, SetsLocals, migrate
<1> HIDE DEF c
<1>2. ASSUME NEW b \in Copies
      PROVE  Present(b)' /\ copies'[b].paused => \E h \in Migrations : UnderWay(h)' /\ migrations'[h].src = b
  <2>1. CASE b = c
    BY <1>1, <2>1 DEF UnderWay
  <2>2. CASE b # c
    <3>1. Present(b)' /\ copies'[b].paused => Present(b) /\ copies[b].paused
      BY <1>1, <2>2 DEF Present
    <3>2. \A h \in Migrations : UnderWay(h) /\ migrations[h].src = b => UnderWay(h)' /\ migrations'[h].src = b
      BY <1>1 DEF UnderWay
    <3> QED BY <1>0, <3>1, <3>2, PausedKept
  <2> QED BY <2>1, <2>2
<1> QED BY <1>2 DEF NotLeftPaused

\* A migration that ends resumes its copy, or removes it.
LEMMA PausedBySource ==
    ASSUME BaseInv, NotLeftPaused, NEW g \in Migrations, SourceStep(g)
    PROVE  NotLeftPaused'
<1> DEFINE c == Source(g)
<1>0. MigrationTyped /\ c = migrations[g].src
  BY DEF BaseInv, Source
<1>1. /\ \A h \in Migrations : h # g => migrations'[h] = migrations[h]
      /\ \A b \in Copies : b # c => copies'[b] = copies[b]
      /\ migrations'[g].src = c
  BY <1>0, SourceCopies
<1>2. \/ UnderWay(g)' \/ ~copies'[c].paused
      \/ copies'[c].status \notin {"building", "live", "stopping", "broken"}
  <2>1. CASE PrepareFails(g) \/ RolledBack(g)
    <3>1. copies'[c].paused = (copies[c].paused /\ ~Present(c)) /\ copies'[c].status = copies[c].status
      BY <1>0, <2>1, SourceEffects DEF Sets
    <3> QED BY <3>1 DEF Present
  <2>2. CASE cleanupActorForMigration(g)
    <3>1. copies'[c].paused = FALSE
      BY <1>0, <2>2, SourceEffects DEF Sets
    <3> QED BY <3>1
  <2>3. CASE PrepareSucceeds(g) \/ drainMailbox(g) \/ GetState(g) \/ GetStateFails(g) \/ ExecuteFails(g)
             \/ ExecuteSucceeds(g)
    <3>1. migrations'[g].phase \in {"draining", "serializing", "executing", "rollingBack", "unregistering"}
      BY <1>0, <2>3, SourceEffects DEF SetsLocals
    <3> QED BY <3>1 DEF UnderWay
  <2> QED BY <2>1, <2>2, <2>3 DEF SourceStep
<1> HIDE DEF c
<1>3. ASSUME NEW b \in Copies
      PROVE  Present(b)' /\ copies'[b].paused => \E h \in Migrations : UnderWay(h)' /\ migrations'[h].src = b
  <2>1. CASE b = c
    BY <1>1, <1>2, <2>1 DEF Present
  <2>2. CASE b # c
    <3>1. Present(b)' /\ copies'[b].paused => Present(b) /\ copies[b].paused
      BY <1>1, <2>2 DEF Present
    <3>2. \A h \in Migrations : UnderWay(h) /\ migrations[h].src = b => UnderWay(h)' /\ migrations'[h].src = b
      BY <1>0, <1>1, <2>2 DEF UnderWay
    <3> QED BY <1>0, <3>1, <3>2, PausedKept
  <2> QED BY <2>1, <2>2
<1> QED BY <1>3 DEF NotLeftPaused

\* Whatever fails, times out or overlaps, migrate() leaves no actor paused: a
\* paused mailbox always has a migration under way that will resume or remove it.
THEOREM MigrationResumes == MigrationSpec => []NotLeftPaused
<1>1. MigrationInit => NotLeftPaused
  BY DEF MigrationInit, NotLeftPaused, Unused, Present
<1>2. ASSUME BaseInv, NotLeftPaused, [MigrationNext]_migrationVars PROVE NotLeftPaused'
  <2>1. CASE UNCHANGED migrationVars
    <3>1. copies' = copies /\ migrations' = migrations
      BY <2>1 DEF migrationVars, protocol
    <3> QED BY <1>2, <3>1 DEF NotLeftPaused, Present, UnderWay
  <2>2. CASE MigrationNext
    BY <1>2, <2>2, PausedByOthers, PausedByMigrate, PausedBySource DEF MigrationNext
  <2> QED BY <1>2, <2>1, <2>2
<1> QED BY InitBase, StepBase, <1>1, <1>2, PTL DEF MigrationSpec

----------------------------------------------------------------------------
(* A message is handled once.                                              *)

\* What a step never takes back: a confirmed name, a failed migration, a
\* request given up on, and what was drained.
Settled(g) ==
    /\ reservation[g] = "confirmed" => reservation'[g] = "confirmed"
    /\ migrations[g].phase = "failed" => migrations'[g].phase = "failed"
    /\ g \in gaveUp => g \in gaveUp'
    /\ g \in undone' /\ reservation[g] = "confirmed" => g \in undone
    /\ migrations'[g].pending = migrations[g].pending \/ drainMailbox(g)

\* Each step keeps them.
LEMMA StepSettles ==
    ASSUME BaseInv, [MigrationNext]_migrationVars, NEW h \in Migrations
    PROVE  Settled(h)
<1>0. MigrationTyped /\ Typed /\ RegistryKnown
  BY DEF BaseInv
<1>1. ASSUME migrations' = migrations, reservation' = reservation, gaveUp' = gaveUp, undone' = undone
      PROVE  Settled(h)
  BY <1>1 DEF Settled
<1>2. CASE \/ UNCHANGED migrationVars \/ spawn \/ \E p, s \in Nodes : RegistryUpdate(p, s)
           \/ \E c \in Copies : (\E m \in Msgs : cast(c, m) \/ handleRpc(c, m) \/ RpcHandled(c, m)) \/ Handle(c) \/ Handled(c) \/ stop(c) \/ StopEnds(c)
  BY <1>1, <1>2, ZenonT(60) DEF migrationVars, spawn, RegistryUpdate, cast, handleRpc, RpcHandled, Handle, Handled, stop, StopEnds, protocol, history
<1>3. ASSUME NEW g \in Migrations, NEW n \in Nodes, NEW target \in Nodes, migrate(g, n, target)
      PROVE  Settled(h)
  <2>1. reservation' = reservation /\ gaveUp' = gaveUp /\ undone' = undone /\ migrations[g].phase = "idle"
    BY <1>3 DEF migrate
  <2>2. /\ migrations'[g].pending = migrations[g].pending
        /\ h # g => migrations'[h] = migrations[h]
    BY <1>0, <1>3, MigrateEffect DEF SetsLocals
  <2> QED BY <2>1, <2>2 DEF Settled
<1>4. ASSUME NEW g \in Migrations, SourceStep(g) PROVE Settled(h)
  <2>1. reservation' = reservation /\ undone' = undone /\ (gaveUp' = gaveUp \/ gaveUp' = gaveUp \cup {g})
    BY <1>4, SourceFrame DEF ExecuteFails
  <2>2. h # g => migrations'[h] = migrations[h]
    BY <1>4, SourceCopies
  <2>3. migrations'[g].pending = migrations[g].pending \/ drainMailbox(g)
    BY <1>0, <1>4, SourceEffects DEF SourceStep, SetsLocals
  <2>4. migrations[g].phase # "failed"
    BY <1>4 DEF SourceStep, PrepareFails, PrepareSucceeds, drainMailbox, GetState, GetStateFails,
                ExecuteFails, RolledBack, ExecuteSucceeds, cleanupActorForMigration
  <2> QED BY <2>1, <2>2, <2>3, <2>4 DEF Settled
<1>5. ASSUME NEW g \in Migrations, TargetStep(g) PROVE Settled(h)
  <2>1. gaveUp' = gaveUp
    BY <1>5 DEF TargetStep, handleMigratePrepare, handleMigrateExecute, confirmReservation, ExecuteThrows,
                handleMigrateRollback, Expires, history
  <2>2. migrations'[h].phase = migrations[h].phase /\ migrations'[h].pending = migrations[h].pending
    <3>1. CASE handleMigrateExecute(g)
      BY <1>0, <3>1, TargetEffects DEF SetsLocals
    <3>2. CASE ~handleMigrateExecute(g)
      BY <1>5, <3>2 DEF TargetStep, handleMigratePrepare, confirmReservation, ExecuteThrows,
                        handleMigrateRollback, Expires
    <3> QED BY <3>1, <3>2
  <2>3. reservation \in [Migrations -> {"none", "held", "confirmed"}]
    BY <1>0 DEF MigrationTyped
  <2>4. reservation[h] = "confirmed" => reservation'[h] = "confirmed"
    <3>1. CASE handleMigratePrepare(g)
      <4>1. requests[g] = <<"prepare">>
        BY <1>0, <3>1, RequestArrives DEF handleMigratePrepare
      <4>2. reservation[g] # "confirmed"
        BY <4>1 DEF BaseInv, ProtocolInv, Protocol
      <4>3. reservation' = reservation \/ reservation' = [reservation EXCEPT ![g] = "held"]
        BY <3>1 DEF handleMigratePrepare
      <4> QED BY <2>3, <4>2, <4>3
    <3>2. CASE ExecuteThrows(g) \/ handleMigrateRollback(g) \/ Expires(g)
      <4>1. reservation' = Released(g)
        BY <3>2 DEF ExecuteThrows, handleMigrateRollback, Expires
      <4> QED BY <1>0, <4>1, ReservationReleased
    <3>3. CASE handleMigrateExecute(g) \/ confirmReservation(g)
      BY <2>3, <3>3 DEF handleMigrateExecute, confirmReservation
    <3> QED BY <1>5, <3>1, <3>2, <3>3 DEF TargetStep
  <2>5. h \in undone' /\ reservation[h] = "confirmed" => h \in undone
    <3>1. CASE handleMigrateRollback(g)
      BY <3>1 DEF handleMigrateRollback
    <3>2. CASE ~handleMigrateRollback(g)
      BY <1>5, <3>2 DEF TargetStep, handleMigratePrepare, handleMigrateExecute, confirmReservation,
                        ExecuteThrows, Expires, history
    <3> QED BY <3>1, <3>2
  <2> QED BY <2>1, <2>2, <2>4, <2>5 DEF Settled
<1> QED BY <1>2, <1>3, <1>4, <1>5 DEF MigrationNext

\* A message that is excused stays excused.
LEMMA ExcusedStays ==
    ASSUME BaseInv, [MigrationNext]_migrationVars, NEW m \in Msgs, Excused(m)
    PROVE  Excused(m)'
<1>1. PICK g \in gaveUp \ undone : /\ g \in Migrations /\ m \in Range(migrations[g].pending)
                                   /\ reservation[g] = "confirmed"
  BY DEF Excused
<1>2. Settled(g)
  BY <1>1, StepSettles
<1>3. ~drainMailbox(g)
  BY <1>1 DEF BaseInv, ProtocolInv, Protocol, drainMailbox
<1> QED BY <1>1, <1>2, <1>3 DEF Settled, Excused

\* What is in limbo was in limbo.
LEMMA LimboShrinks ==
    ASSUME BaseInv, [MigrationNext]_migrationVars, NEW h \in Migrations, Limbo(h)'
    PROVE  Limbo(h) /\ (migrations'[h].pending = migrations[h].pending \/ drainMailbox(h))
BY StepSettles DEF Settled, Limbo

\* A step that takes no message anywhere.
LEMMA PlacesSame ==
    ASSUME BaseInv, [MigrationNext]_migrationVars, NEW m \in Msgs, AtOnePlace(m),
           \A h \in Migrations : migrations'[h].pending = migrations[h].pending,
           did' = did /\ direct' = direct,
           \A b \in Copies : /\ copies'[b].mailbox = copies[b].mailbox \/ copies'[b].mailbox = <<>>
                             /\ copies'[b].busy = copies[b].busy \/ copies'[b].busy = NoMsg
    PROVE  AtOnePlace(m)'
<1>1. ASSUME NEW k \in Kinds, NEW x \in Nat, NEW i \in Nat, At(m, k, x, i)' PROVE At(m, k, x, i)
  <2>1. m # NoMsg
    BY Constants
  <2>2. CASE k = "mailbox"
    <3>1. x \in Copies /\ i \in DOMAIN copies'[x].mailbox /\ copies'[x].mailbox[i] = m
      BY <1>1, <2>2 DEF At
    <3>2. copies'[x].mailbox # <<>>
      BY <3>1
    <3> QED BY <2>2, <3>1, <3>2 DEF At
  <2>3. CASE k = "busy"
    BY <1>1, <2>1, <2>3 DEF At
  <2>4. CASE k = "did" \/ k = "direct"
    BY <1>1, <2>4 DEF At
  <2>5. CASE k = "pending"
    <3>1. /\ x \in Migrations /\ Limbo(x)' /\ i \in DOMAIN migrations'[x].pending
          /\ migrations'[x].pending[i] = m
      BY <1>1, <2>5 DEF At
    <3>2. Limbo(x) /\ migrations'[x].pending = migrations[x].pending
      BY <3>1, LimboShrinks
    <3> QED BY <2>5, <3>1, <3>2 DEF At
  <2> QED BY <2>2, <2>3, <2>4, <2>5 DEF Kinds
<1> QED BY <1>1 DEF AtOnePlace

\* At, kind by kind, before and after a step.
LEMMA AtKinds ==
    ASSUME NEW m, NEW x, NEW i
    PROVE  /\ At(m, "mailbox", x, i) <=>
                 x \in Copies /\ i \in DOMAIN copies[x].mailbox /\ copies[x].mailbox[i] = m
           /\ At(m, "busy", x, i) <=> x \in Copies /\ i = 0 /\ copies[x].busy = m
           /\ At(m, "direct", x, i) <=> x \in Copies /\ i = 0 /\ m \in direct[x] \ did[x]
           /\ At(m, "did", x, i) <=> x \in Copies /\ i = 0 /\ m \in did[x]
           /\ At(m, "pending", x, i) <=> /\ x \in Migrations /\ Limbo(x)
                                         /\ i \in DOMAIN migrations[x].pending /\ migrations[x].pending[i] = m
           /\ At(m, "mailbox", x, i)' <=>
                 x \in Copies /\ i \in DOMAIN copies'[x].mailbox /\ copies'[x].mailbox[i] = m
           /\ At(m, "busy", x, i)' <=> x \in Copies /\ i = 0 /\ copies'[x].busy = m
           /\ At(m, "direct", x, i)' <=> x \in Copies /\ i = 0 /\ m \in direct'[x] \ did'[x]
           /\ At(m, "did", x, i)' <=> x \in Copies /\ i = 0 /\ m \in did'[x]
           /\ At(m, "pending", x, i)' <=> /\ x \in Migrations /\ Limbo(x)'
                                          /\ i \in DOMAIN migrations'[x].pending
                                          /\ migrations'[x].pending[i] = m
BY DEF At

\* Copies and migrations are numbers.
LEMMA Numbers == Copies \subseteq Nat /\ Migrations \subseteq Nat
BY MigrationAssumption DEF Copies, Migrations

\* A message at some place was sent.
LEMMA SomewhereIsSent ==
    ASSUME NEW m \in Msgs, NEW k \in Kinds, NEW x \in Nat, NEW i \in Nat, At(m, k, x, i)
    PROVE  m \in Sent
<1>1. CASE k = "mailbox"
  <2>1. x \in Copies /\ m \in Range(copies[x].mailbox)
    BY <1>1, AtKinds DEF Range
  <2> QED BY <2>1 DEF Sent
<1>2. CASE k = "busy"
  <2>1. x \in Copies /\ m = copies[x].busy
    BY <1>2, AtKinds
  <2> QED BY <2>1 DEF Sent
<1>3. CASE k = "did" \/ k = "direct"
  <2>1. x \in Copies /\ (m \in did[x] \/ m \in direct[x])
    BY <1>3, AtKinds
  <2> QED BY <2>1 DEF Sent
<1>4. CASE k = "pending"
  <2>1. x \in Migrations /\ m \in Range(migrations[x].pending)
    BY <1>4, AtKinds DEF Range
  <2> QED BY <2>1 DEF Sent
<1> QED BY <1>1, <1>2, <1>3, <1>4 DEF Kinds

\* A cast puts a message that is nowhere in one place.
LEMMA PlacesOfCast ==
    ASSUME BaseInv, [MigrationNext]_migrationVars, NEW c \in Copies, NEW n \in Msgs, cast(c, n),
           NEW m \in Msgs, AtOnePlace(m)
    PROVE  AtOnePlace(m)'
<1> DEFINE q == copies[c].mailbox
<1>0. MigrationTyped /\ q \in Seq(Msgs) /\ n \notin Sent
  BY Fields DEF BaseInv, cast
<1>1. /\ copies'[c].mailbox = Append(q, n) /\ copies'[c].busy = copies[c].busy
      /\ \A b \in Copies : b # c => copies'[b] = copies[b]
  BY <1>0, CopyEffects DEF Sets
<1>2. did' = did /\ direct' = direct /\ migrations' = migrations /\ reservation' = reservation
  BY DEF cast, history, protocol
<1>3. /\ DOMAIN Append(q, n) = 1..(Len(q) + 1) /\ DOMAIN q = 1..Len(q) /\ Append(q, n)[Len(q) + 1] = n
      /\ \A i \in 1..Len(q) : Append(q, n)[i] = q[i]
      /\ Len(q) \in Nat
  BY <1>0
<1>4. ASSUME NEW k \in Kinds, NEW x \in Nat, NEW i \in Nat, At(m, k, x, i)'
      PROVE  \/ At(m, k, x, i)
             \/ m = n /\ k = "mailbox" /\ x = c /\ i = Len(q) + 1
  <2>1. CASE k = "mailbox"
    <3>1. x \in Copies /\ i \in DOMAIN copies'[x].mailbox /\ copies'[x].mailbox[i] = m
      BY <1>4, <2>1, AtKinds
    <3>2. CASE x = c
      <4>1. i \in 1..(Len(q) + 1) /\ Append(q, n)[i] = m
        BY <1>1, <1>3, <3>1, <3>2
      <4>2. CASE i = Len(q) + 1
        BY <1>3, <2>1, <3>2, <4>1, <4>2
      <4>3. CASE i # Len(q) + 1
        <5>1. i \in 1..Len(q) /\ q[i] = m
          BY <1>3, <4>1, <4>3
        <5> QED BY <1>3, <2>1, <3>2, <5>1, AtKinds
      <4> QED BY <4>2, <4>3
    <3>3. CASE x # c
      BY <1>1, <2>1, <3>1, <3>3, AtKinds
    <3> QED BY <3>2, <3>3
  <2>2. CASE k = "busy"
    BY <1>1, <1>4, <2>2, AtKinds
  <2>3. CASE k \in {"did", "direct", "pending"}
    BY <1>2, <1>4, <2>3 DEF At, Limbo
  <2> QED BY <2>1, <2>2, <2>3 DEF Kinds
<1>5. ASSUME NEW k \in Kinds, NEW x \in Nat, NEW i \in Nat, At(m, k, x, i) PROVE m # n
  BY <1>0, <1>5, SomewhereIsSent
<1> QED BY <1>4, <1>5 DEF AtOnePlace

\* A message moves from the head of the mailbox to the handler.
LEMMA PlacesOfHandle ==
    ASSUME BaseInv, [MigrationNext]_migrationVars, NEW c \in Copies, Handle(c),
           NEW m \in Msgs, AtOnePlace(m)
    PROVE  AtOnePlace(m)'
<1> DEFINE q == copies[c].mailbox
<1>0. MigrationTyped /\ q \in Seq(Msgs) /\ q # <<>> /\ c \in Nat
  BY Fields, Numbers DEF BaseInv, Handle
<1>1. /\ copies'[c].mailbox = Tail(q) /\ copies'[c].busy = Head(q)
      /\ \A b \in Copies : b # c => copies'[b] = copies[b]
  BY <1>0, CopyEffects DEF Sets
<1>2. did' = did /\ direct' = direct /\ migrations' = migrations /\ reservation' = reservation
  BY DEF Handle, history, protocol
<1>3. /\ DOMAIN Tail(q) = 1..(Len(q) - 1) /\ DOMAIN q = 1..Len(q) /\ Head(q) = q[1] /\ 1 \in DOMAIN q
      /\ \A i \in 1..(Len(q) - 1) : Tail(q)[i] = q[i + 1]
      /\ Len(q) \in Nat
  BY <1>0
<1>4. ASSUME NEW k \in Kinds, NEW x \in Nat, NEW i \in Nat, At(m, k, x, i)'
      PROVE  \/ k = "mailbox" /\ x = c /\ i >= 1 /\ At(m, "mailbox", c, i + 1)
             \/ k = "busy" /\ x = c /\ i = 0 /\ At(m, "mailbox", c, 1)
             \/ ~(k = "mailbox" /\ x = c) /\ ~(k = "busy" /\ x = c) /\ At(m, k, x, i)
  <2>1. CASE k = "mailbox"
    <3>1. x \in Copies /\ i \in DOMAIN copies'[x].mailbox /\ copies'[x].mailbox[i] = m
      BY <1>4, <2>1, AtKinds
    <3>2. CASE x = c
      <4>1. i \in 1..(Len(q) - 1) /\ q[i + 1] = m
        BY <1>1, <1>3, <3>1, <3>2
      <4>2. i >= 1 /\ i + 1 \in DOMAIN q
        BY <1>3, <4>1
      <4> QED BY <2>1, <3>2, <4>1, <4>2, AtKinds
    <3>3. CASE x # c
      BY <1>1, <2>1, <3>1, <3>3, AtKinds
    <3> QED BY <3>2, <3>3
  <2>2. CASE k = "busy"
    <3>1. x \in Copies /\ i = 0 /\ copies'[x].busy = m
      BY <1>4, <2>2, AtKinds
    <3>2. CASE x = c
      BY <1>1, <1>3, <2>2, <3>1, <3>2, AtKinds
    <3>3. CASE x # c
      BY <1>1, <2>2, <3>1, <3>3, AtKinds
    <3> QED BY <3>2, <3>3
  <2>3. CASE k \in {"did", "direct", "pending"}
    BY <1>2, <1>4, <2>3 DEF At, Limbo
  <2> QED BY <2>1, <2>2, <2>3 DEF Kinds
<1>5. "mailbox" \in Kinds
  BY DEF Kinds
<1>6. ASSUME NEW k \in Kinds, NEW l \in Kinds, NEW x \in Nat, NEW y \in Nat, NEW i \in Nat, NEW j \in Nat,
             At(m, k, x, i)', At(m, l, y, j)'
      PROVE  k = l /\ x = y /\ i = j
  <2>1. i + 1 \in Nat /\ j + 1 \in Nat /\ 1 \in Nat
    OBVIOUS
  <2>2. \/ k = "mailbox" /\ x = c /\ i >= 1 /\ At(m, "mailbox", c, i + 1)
        \/ k = "busy" /\ x = c /\ i = 0 /\ At(m, "mailbox", c, 1)
        \/ ~(k = "mailbox" /\ x = c) /\ ~(k = "busy" /\ x = c) /\ At(m, k, x, i)
    BY <1>4, <1>6
  <2>3. \/ l = "mailbox" /\ y = c /\ j >= 1 /\ At(m, "mailbox", c, j + 1)
        \/ l = "busy" /\ y = c /\ j = 0 /\ At(m, "mailbox", c, 1)
        \/ ~(l = "mailbox" /\ y = c) /\ ~(l = "busy" /\ y = c) /\ At(m, l, y, j)
    BY <1>4, <1>6
  <2>4. \A kk, ll \in Kinds : \A xx, yy, ii, jj \in Nat :
           At(m, kk, xx, ii) /\ At(m, ll, yy, jj) => kk = ll /\ xx = yy /\ ii = jj
    BY DEF AtOnePlace
  <2>5. CASE k = "mailbox" /\ x = c /\ i >= 1 /\ At(m, "mailbox", c, i + 1)
    BY <1>0, <1>5, <2>1, <2>3, <2>4, <2>5
  <2>6. CASE k = "busy" /\ x = c /\ i = 0 /\ At(m, "mailbox", c, 1)
    BY <1>0, <1>5, <2>1, <2>3, <2>4, <2>6
  <2>7. CASE ~(k = "mailbox" /\ x = c) /\ ~(k = "busy" /\ x = c) /\ At(m, k, x, i)
    BY <1>0, <1>5, <2>1, <2>3, <2>4, <2>7
  <2> QED BY <2>2, <2>5, <2>6, <2>7
<1> QED BY <1>6 DEF AtOnePlace

\* A message moves from the handler to what was handled.
LEMMA PlacesOfHandled ==
    ASSUME BaseInv, [MigrationNext]_migrationVars, NEW c \in Copies, Handled(c),
           NEW m \in Msgs, AtOnePlace(m)
    PROVE  AtOnePlace(m)'
<1>0. MigrationTyped /\ c \in Nat /\ m # NoMsg /\ did \in [Copies -> SUBSET Msgs]
  BY Numbers, Constants DEF BaseInv, MigrationTyped
<1>1. /\ copies'[c].mailbox = copies[c].mailbox /\ copies'[c].busy = NoMsg
      /\ \A b \in Copies : b # c => copies'[b] = copies[b]
  BY <1>0, CopyEffects DEF Sets
<1>2. migrations' = migrations /\ reservation' = reservation
      /\ did' = [did EXCEPT ![c] = @ \cup {copies[c].busy}]
      /\ direct' = direct
  BY DEF Handled, protocol
<1>3. ASSUME NEW k \in Kinds, NEW x \in Nat, NEW i \in Nat, At(m, k, x, i)'
      PROVE  \/ ~(k = "busy" /\ x = c) /\ At(m, k, x, i)
             \/ k = "did" /\ x = c /\ i = 0 /\ At(m, "busy", c, 0)
  <2>1. CASE k = "mailbox"
    BY <1>1, <1>3, <2>1, AtKinds
  <2>2. CASE k = "busy"
    BY <1>0, <1>1, <1>3, <2>2, AtKinds
  <2>3. CASE k = "did"
    <3>1. x \in Copies /\ i = 0 /\ m \in did'[x]
      BY <1>3, <2>3, AtKinds
    <3>2. CASE x = c
      <4>1. m \in did[c] \/ m = copies[c].busy
        BY <1>0, <1>2, <3>1, <3>2
      <4> QED BY <2>3, <3>1, <3>2, <4>1, AtKinds
    <3>3. CASE x # c
      BY <1>0, <1>2, <2>3, <3>1, <3>3, AtKinds
    <3> QED BY <3>2, <3>3
  <2>4. CASE k = "pending"
    BY <1>2, <1>3, <2>4 DEF At, Limbo
  <2>5. CASE k = "direct"
    <3>1. x \in Copies /\ i = 0 /\ m \in direct'[x] \ did'[x]
      BY <1>3, <2>5, AtKinds
    <3>2. did[x] \subseteq did'[x]
      BY <1>0, <1>2, <3>1
    <3> QED BY <1>2, <2>5, <3>1, <3>2, AtKinds
  <2> QED BY <2>1, <2>2, <2>3, <2>4, <2>5 DEF Kinds
<1>4. "busy" \in Kinds /\ "did" \in Kinds
  BY DEF Kinds
<1> QED BY <1>0, <1>3, <1>4 DEF AtOnePlace

\* A message from another node goes from nowhere to its handler.
LEMMA PlacesOfRpc ==
    ASSUME BaseInv, NEW c \in Copies, NEW n \in Msgs, handleRpc(c, n),
           NEW m \in Msgs, AtOnePlace(m)
    PROVE  AtOnePlace(m)'
<1>0. direct \in [Copies -> SUBSET Msgs] /\ n \notin Sent
  BY DEF BaseInv, MigrationTyped, handleRpc
<1>1. /\ copies' = copies /\ did' = did /\ migrations' = migrations /\ reservation' = reservation
      /\ direct' = [direct EXCEPT ![c] = @ \cup {n}]
  BY DEF handleRpc, protocol
<1>2. ASSUME NEW k \in Kinds, NEW x \in Nat, NEW i \in Nat, At(m, k, x, i)'
      PROVE  At(m, k, x, i) \/ (m = n /\ k = "direct" /\ x = c /\ i = 0)
  <2>1. CASE k \in {"mailbox", "busy", "did", "pending"}
    BY <1>1, <1>2, <2>1 DEF At, Limbo
  <2>2. CASE k = "direct"
    <3>1. x \in Copies /\ i = 0 /\ m \in direct'[x] \ did'[x]
      BY <1>2, <2>2, AtKinds
    <3>2. m \in direct[x] \/ (m = n /\ x = c)
      BY <1>0, <1>1, <3>1
    <3> QED BY <1>1, <2>2, <3>1, <3>2, AtKinds
  <2> QED BY <2>1, <2>2 DEF Kinds
<1>3. ASSUME NEW k \in Kinds, NEW x \in Nat, NEW i \in Nat, At(m, k, x, i) PROVE m # n
  BY <1>0, <1>3, SomewhereIsSent
<1> QED BY <1>2, <1>3 DEF AtOnePlace

\* Its handler ends.
LEMMA PlacesOfRpcHandled ==
    ASSUME BaseInv, NEW c \in Copies, NEW n \in Msgs, RpcHandled(c, n),
           NEW m \in Msgs, AtOnePlace(m)
    PROVE  AtOnePlace(m)'
<1>0. MigrationTyped /\ c \in Nat /\ did \in [Copies -> SUBSET Msgs]
  BY Numbers DEF BaseInv, MigrationTyped
<1>1. /\ \A b \in Copies : copies'[b].mailbox = copies[b].mailbox /\ copies'[b].busy = copies[b].busy
      /\ direct' = direct /\ migrations' = migrations /\ reservation' = reservation
      /\ did' = [did EXCEPT ![c] = @ \cup {n}] /\ n \in direct[c] \ did[c]
  <2>1. /\ copies'[c].mailbox = copies[c].mailbox /\ copies'[c].busy = copies[c].busy
        /\ \A b \in Copies : b # c => copies'[b] = copies[b]
    BY <1>0, CopyEffects DEF Sets
  <2> QED BY <2>1 DEF RpcHandled, protocol
<1>2. ASSUME NEW k \in Kinds, NEW x \in Nat, NEW i \in Nat, At(m, k, x, i)'
      PROVE  \/ At(m, k, x, i) /\ ~(m = n /\ k = "direct" /\ x = c)
             \/ m = n /\ k = "did" /\ x = c /\ i = 0 /\ At(m, "direct", c, 0)
  <2>1. CASE k \in {"mailbox", "busy", "pending"}
    BY <1>1, <1>2, <2>1 DEF At, Limbo
  <2>2. CASE k = "did"
    <3>1. x \in Copies /\ i = 0 /\ m \in did'[x]
      BY <1>2, <2>2, AtKinds
    <3>2. m \in did[x] \/ (m = n /\ x = c)
      BY <1>0, <1>1, <3>1
    <3> QED BY <1>1, <2>2, <3>1, <3>2, AtKinds
  <2>3. CASE k = "direct"
    <3>1. x \in Copies /\ i = 0 /\ m \in direct'[x] \ did'[x]
      BY <1>2, <2>3, AtKinds
    <3>2. did[x] \subseteq did'[x] /\ n \in did'[c]
      BY <1>0, <1>1, <3>1
    <3> QED BY <1>1, <2>3, <3>1, <3>2, AtKinds
  <2> QED BY <2>1, <2>2, <2>3 DEF Kinds
<1>3. "direct" \in Kinds /\ "did" \in Kinds
  BY DEF Kinds
<1> QED BY <1>0, <1>2, <1>3 DEF AtOnePlace

\* The messages of the mailbox move to what the migration has drained.
LEMMA PlacesOfDrain ==
    ASSUME BaseInv, [MigrationNext]_migrationVars, NEW g \in Migrations, drainMailbox(g),
           NEW m \in Msgs, AtOnePlace(m)
    PROVE  AtOnePlace(m)'
<1> DEFINE c == Source(g)
<1>0. MigrationTyped /\ c \in Copies /\ c \in Nat /\ g \in Nat
  BY Fields, Numbers DEF BaseInv, Source
<1>1. /\ copies'[c].mailbox = <<>> /\ copies'[c].busy = copies[c].busy
      /\ \A b \in Copies : b # c => copies'[b] = copies[b]
      /\ migrations'[g].pending = copies[c].mailbox
      /\ \A h \in Migrations : h # g => migrations'[h] = migrations[h]
  BY <1>0, SourceEffects DEF Sets, SetsLocals
<1>2. did' = did /\ direct' = direct
  BY DEF drainMailbox
<1>3. ASSUME NEW k \in Kinds, NEW x \in Nat, NEW i \in Nat, At(m, k, x, i)'
      PROVE  \/ k = "pending" /\ x = g /\ At(m, "mailbox", c, i)
             \/ ~(k = "mailbox" /\ x = c) /\ ~(k = "pending" /\ x = g) /\ At(m, k, x, i)
  <2> HIDE DEF c
  <2>1. CASE k = "mailbox"
    <3>1. x \in Copies /\ i \in DOMAIN copies'[x].mailbox /\ copies'[x].mailbox[i] = m
      BY <1>3, <2>1, AtKinds
    <3>2. x # c
      BY <1>1, <3>1
    <3> QED BY <1>1, <2>1, <3>1, <3>2, AtKinds
  <2>2. CASE k = "busy"
    BY <1>1, <1>3, <2>2, AtKinds
  <2>3. CASE k = "did" \/ k = "direct"
    BY <1>2, <1>3, <2>3, AtKinds
  <2>4. CASE k = "pending"
    <3>1. /\ x \in Migrations /\ Limbo(x)' /\ i \in DOMAIN migrations'[x].pending
          /\ migrations'[x].pending[i] = m
      BY <1>3, <2>4, AtKinds
    <3>2. CASE x = g
      BY <1>0, <1>1, <2>4, <3>1, <3>2, AtKinds
    <3>3. CASE x # g
      <4>1. migrations'[x].pending = migrations[x].pending /\ Limbo(x)
        BY <1>1, <3>1, <3>3, LimboShrinks
      <4> QED BY <2>4, <3>1, <3>3, <4>1, AtKinds
    <3> QED BY <3>2, <3>3
  <2> QED BY <2>1, <2>2, <2>3, <2>4 DEF Kinds
<1>4. "mailbox" \in Kinds /\ "pending" \in Kinds
  BY DEF Kinds
<1>5. ASSUME NEW k \in Kinds, NEW l \in Kinds, NEW x \in Nat, NEW y \in Nat, NEW i \in Nat, NEW j \in Nat,
             At(m, k, x, i)', At(m, l, y, j)'
      PROVE  k = l /\ x = y /\ i = j
  <2> HIDE DEF c
  <2>1. \/ k = "pending" /\ x = g /\ At(m, "mailbox", c, i)
        \/ ~(k = "mailbox" /\ x = c) /\ ~(k = "pending" /\ x = g) /\ At(m, k, x, i)
    BY <1>3, <1>5
  <2>2. \/ l = "pending" /\ y = g /\ At(m, "mailbox", c, j)
        \/ ~(l = "mailbox" /\ y = c) /\ ~(l = "pending" /\ y = g) /\ At(m, l, y, j)
    BY <1>3, <1>5
  <2> QED BY <1>0, <1>4, <2>1, <2>2 DEF AtOnePlace
<1> QED BY <1>5 DEF AtOnePlace

\* A migration that has drained m and is rolled back is in limbo, unless m is excused.
LEMMA RolledBackInLimbo ==
    ASSUME BaseInv, NEW g \in Migrations, RolledBack(g), NEW m \in Msgs, ~Excused(m),
           m \in Range(migrations[g].pending)
    PROVE  Limbo(g)
<1>1. Protocol(g)
  BY DEF BaseInv, ProtocolInv
<1>2. migrations[g].phase # "failed"
  BY DEF RolledBack
<1>3. ASSUME reservation[g] = "confirmed" PROVE FALSE
  <2>1. g \in gaveUp /\ g \notin undone
    BY <1>1, <1>3 DEF Protocol, RolledBack
  <2> QED BY <1>3, <2>1 DEF Excused
<1> QED BY <1>2, <1>3 DEF Limbo

\* What was drained moves back in front of the mailbox.
LEMMA PlacesOfRollback ==
    ASSUME BaseInv, [MigrationNext]_migrationVars, NEW g \in Migrations, RolledBack(g),
           Present(Source(g)), NEW m \in Msgs, AtOnePlace(m), ~Excused(m)
    PROVE  AtOnePlace(m)'
<1> DEFINE c == Source(g)
           p == migrations[g].pending
           q == copies[c].mailbox
<1>0. MigrationTyped /\ c \in Copies /\ c \in Nat /\ g \in Nat /\ p \in Seq(Msgs) /\ q \in Seq(Msgs)
  BY Fields, Numbers DEF BaseInv, Source
<1>1. /\ copies'[c].mailbox = p \o q /\ copies'[c].busy = copies[c].busy
      /\ \A b \in Copies : b # c => copies'[b] = copies[b]
      /\ migrations'[g].phase = "failed"
      /\ \A h \in Migrations : h # g => migrations'[h] = migrations[h]
  BY <1>0, SourceEffects DEF Sets, SetsLocals
<1>2. did' = did /\ direct' = direct
  BY DEF RolledBack, history
<1>3. /\ Len(p) \in Nat /\ Len(q) \in Nat /\ DOMAIN p = 1..Len(p) /\ DOMAIN q = 1..Len(q)
      /\ DOMAIN (p \o q) = 1..(Len(p) + Len(q))
      /\ \A i \in 1..(Len(p) + Len(q)) : (p \o q)[i] = IF i <= Len(p) THEN p[i] ELSE q[i - Len(p)]
  <2>1. p \in Seq(Msgs) /\ q \in Seq(Msgs)
    BY <1>0
  <2> HIDE DEF p, q
  <2>2. p \o q \in Seq(Msgs) /\ Len(p \o q) = Len(p) + Len(q)
    BY <2>1
  <2>3. Len(p) \in Nat /\ Len(q) \in Nat /\ DOMAIN p = 1..Len(p) /\ DOMAIN q = 1..Len(q)
    BY <2>1
  <2>4. DOMAIN (p \o q) = 1..(Len(p) + Len(q))
    BY <2>2
  <2>5. \A i \in 1..(Len(p) + Len(q)) : (p \o q)[i] = IF i <= Len(p) THEN p[i] ELSE q[i - Len(p)]
    BY <2>1
  <2> QED BY <2>3, <2>4, <2>5
<1>4. ASSUME NEW k \in Kinds, NEW x \in Nat, NEW i \in Nat, At(m, k, x, i)'
      PROVE  \/ k = "mailbox" /\ x = c /\ i <= Len(p) /\ At(m, "pending", g, i)
             \/ k = "mailbox" /\ x = c /\ i > Len(p) /\ At(m, "mailbox", c, i - Len(p))
             \/ ~(k = "mailbox" /\ x = c) /\ ~(k = "pending" /\ x = g) /\ At(m, k, x, i)
  <2>1. CASE k = "mailbox"
    <3>1. x \in Copies /\ i \in DOMAIN copies'[x].mailbox /\ copies'[x].mailbox[i] = m
      BY <1>4, <2>1, AtKinds, SMTT(60)
    <3>2. CASE x = c
      <4>1. i \in 1..(Len(p) + Len(q)) /\ m = IF i <= Len(p) THEN p[i] ELSE q[i - Len(p)]
        BY <1>1, <1>3, <3>1, <3>2
      <4>2. CASE i <= Len(p)
        <5>1. i \in DOMAIN p /\ p[i] = m
          BY <1>3, <4>1, <4>2
        <5>2. Limbo(g)
          BY <5>1, RolledBackInLimbo DEF Range
        <5> QED BY <2>1, <3>2, <4>2, <5>1, <5>2, AtKinds
      <4>3. CASE i > Len(p)
        <5>1. i - Len(p) \in DOMAIN q /\ q[i - Len(p)] = m
          <6>1. ~(i <= Len(p)) /\ Len(p) \in Nat /\ Len(q) \in Nat /\ DOMAIN q = 1..Len(q)
            BY <1>3, <4>3
          <6> HIDE DEF p, q
          <6>2. i - Len(p) \in 1..Len(q)
            BY <4>1, <4>3, <6>1
          <6> QED BY <4>1, <6>1, <6>2
        <5> QED BY <1>0, <2>1, <3>2, <4>3, <5>1, AtKinds
      <4> QED BY <1>3, <4>1, <4>2, <4>3
    <3>3. CASE x # c
      BY <1>1, <2>1, <3>1, <3>3, AtKinds
    <3> QED BY <3>2, <3>3
  <2>2. CASE k = "busy"
    <3> HIDE DEF c
    <3> QED BY <1>1, <1>4, <2>2, AtKinds
  <2>3. CASE k = "did" \/ k = "direct"
    BY <1>2, <1>4, <2>3, AtKinds
  <2>4. CASE k = "pending"
    <3>1. /\ x \in Migrations /\ Limbo(x)' /\ i \in DOMAIN migrations'[x].pending
          /\ migrations'[x].pending[i] = m
      BY <1>4, <2>4, AtKinds
    <3>2. x # g
      BY <1>1, <3>1 DEF Limbo
    <3>3. migrations'[x].pending = migrations[x].pending /\ Limbo(x)
      BY <1>1, <3>1, <3>2, LimboShrinks
    <3> QED BY <2>4, <3>1, <3>2, <3>3, AtKinds
  <2> QED BY <2>1, <2>2, <2>3, <2>4 DEF Kinds
<1>5. "mailbox" \in Kinds /\ "pending" \in Kinds
  BY DEF Kinds
<1>6. ASSUME NEW k \in Kinds, NEW l \in Kinds, NEW x \in Nat, NEW y \in Nat, NEW i \in Nat, NEW j \in Nat,
             At(m, k, x, i)', At(m, l, y, j)'
      PROVE  k = l /\ x = y /\ i = j
  <2> DEFINE L == Len(p)
  <2>0. L \in Nat
    BY <1>3
  <2>1. \/ k = "mailbox" /\ x = c /\ i <= L /\ At(m, "pending", g, i)
        \/ k = "mailbox" /\ x = c /\ i > L /\ At(m, "mailbox", c, i - L)
        \/ ~(k = "mailbox" /\ x = c) /\ ~(k = "pending" /\ x = g) /\ At(m, k, x, i)
    BY <1>4, <1>6
  <2>2. \/ l = "mailbox" /\ y = c /\ j <= L /\ At(m, "pending", g, j)
        \/ l = "mailbox" /\ y = c /\ j > L /\ At(m, "mailbox", c, j - L)
        \/ ~(l = "mailbox" /\ y = c) /\ ~(l = "pending" /\ y = g) /\ At(m, l, y, j)
    BY <1>4, <1>6
  <2>3. (i > L => i - L \in Nat) /\ (j > L => j - L \in Nat)
    BY <2>0
  <2>4. \A kk, ll \in Kinds : \A xx, yy, ii, jj \in Nat :
           At(m, kk, xx, ii) /\ At(m, ll, yy, jj) => kk = ll /\ xx = yy /\ ii = jj
    BY DEF AtOnePlace
  <2>5. c \in Nat /\ g \in Nat
    BY <1>0
  <2> HIDE DEF c, L
  <2>6. CASE k = "mailbox" /\ x = c /\ i <= L /\ At(m, "pending", g, i)
    BY <1>5, <2>0, <2>2, <2>3, <2>4, <2>5, <2>6
  <2>7. CASE k = "mailbox" /\ x = c /\ i > L /\ At(m, "mailbox", c, i - L)
    BY <1>5, <2>0, <2>2, <2>3, <2>4, <2>5, <2>7
  <2>8. CASE ~(k = "mailbox" /\ x = c) /\ ~(k = "pending" /\ x = g) /\ At(m, k, x, i)
    BY <1>5, <2>0, <2>2, <2>3, <2>4, <2>5, <2>8
  <2> QED BY <2>1, <2>6, <2>7, <2>8
<1> QED BY <1>6 DEF AtOnePlace

\* What was drained moves to the mailbox of the new copy, unless the source has
\* taken it back already: then it is excused.
LEMMA PlacesOfConfirm ==
    ASSUME BaseInv, [MigrationNext]_migrationVars, NEW g \in Migrations, confirmReservation(g),
           reservation[g] = "held", NEW m \in Msgs, AtOnePlace(m), ~Excused(m)'
    PROVE  AtOnePlace(m)'
<1> DEFINE c == migrations[g].new
           p == migrations[g].pending
<1>0. MigrationTyped /\ Building(g) /\ migrations' = migrations /\ Protocol(g)
      /\ gaveUp' = gaveUp /\ undone' = undone /\ did' = did /\ direct' = direct
  BY DEF BaseInv, ProtocolInv, confirmReservation, history
<1>1. c \in Copies /\ c \in Nat /\ g \in Nat
  BY <1>0, Fields, Constants, Numbers DEF Building, Copies
<1>2. /\ copies'[c].mailbox = p /\ copies'[c].busy = copies[c].busy
      /\ \A b \in Copies : b # c => copies'[b] = copies[b]
  BY <1>0, TargetEffects DEF Sets
<1>3. reservation'[g] = "confirmed"
  BY <1>0 DEF confirmReservation, MigrationTyped
<1>4. ASSUME m \in Range(p) PROVE Limbo(g)
  <2>1. ASSUME migrations[g].phase = "failed" PROVE FALSE
    <3>1. g \in gaveUp /\ g \notin undone
      BY <1>0, <2>1 DEF Protocol
    <3> QED BY <1>0, <1>3, <1>4, <3>1 DEF Excused
  <2> QED BY <2>1 DEF Limbo
<1>5. ASSUME NEW k \in Kinds, NEW x \in Nat, NEW i \in Nat, At(m, k, x, i)'
      PROVE  \/ k = "mailbox" /\ x = c /\ At(m, "pending", g, i)
             \/ ~(k = "mailbox" /\ x = c) /\ ~(k = "pending" /\ x = g) /\ At(m, k, x, i)
  <2>1. CASE k = "mailbox"
    <3>1. x \in Copies /\ i \in DOMAIN copies'[x].mailbox /\ copies'[x].mailbox[i] = m
      BY <1>5, <2>1, AtKinds
    <3>2. CASE x = c
      <4>1. i \in DOMAIN p /\ p[i] = m
        BY <1>2, <3>1, <3>2
      <4>2. Limbo(g)
        BY <1>4, <4>1 DEF Range
      <4> QED BY <2>1, <3>2, <4>1, <4>2, AtKinds
    <3>3. CASE x # c
      BY <1>2, <2>1, <3>1, <3>3, AtKinds
    <3> QED BY <3>2, <3>3
  <2>2. CASE k = "busy"
    <3> HIDE DEF c
    <3> QED BY <1>2, <1>5, <2>2, AtKinds
  <2>3. CASE k = "did" \/ k = "direct"
    BY <1>0, <1>5, <2>3, AtKinds
  <2>4. CASE k = "pending"
    <3>1. /\ x \in Migrations /\ Limbo(x)' /\ i \in DOMAIN migrations'[x].pending
          /\ migrations'[x].pending[i] = m
      BY <1>5, <2>4, AtKinds
    <3>2. x # g
      BY <1>3, <3>1 DEF Limbo
    <3>3. Limbo(x)
      BY <3>1, LimboShrinks
    <3> QED BY <1>0, <2>4, <3>1, <3>2, <3>3, AtKinds
  <2> QED BY <2>1, <2>2, <2>3, <2>4 DEF Kinds
<1>6. "mailbox" \in Kinds /\ "pending" \in Kinds
  BY DEF Kinds
<1>7. ASSUME NEW k \in Kinds, NEW l \in Kinds, NEW x \in Nat, NEW y \in Nat, NEW i \in Nat, NEW j \in Nat,
             At(m, k, x, i)', At(m, l, y, j)'
      PROVE  k = l /\ x = y /\ i = j
  <2>1. \/ k = "mailbox" /\ x = c /\ At(m, "pending", g, i)
        \/ ~(k = "mailbox" /\ x = c) /\ ~(k = "pending" /\ x = g) /\ At(m, k, x, i)
    BY <1>5, <1>7
  <2>2. \/ l = "mailbox" /\ y = c /\ At(m, "pending", g, j)
        \/ ~(l = "mailbox" /\ y = c) /\ ~(l = "pending" /\ y = g) /\ At(m, l, y, j)
    BY <1>5, <1>7
  <2> HIDE DEF c
  <2> QED BY <1>1, <1>6, <2>1, <2>2 DEF AtOnePlace
<1> QED BY <1>7 DEF AtOnePlace

\* The steps that take no message anywhere.
LEMMA PlacesOfOthers ==
    ASSUME BaseInv, [MigrationNext]_migrationVars, NEW m \in Msgs, AtOnePlace(m),
           \/ UNCHANGED migrationVars \/ spawn \/ \E p, s \in Nodes : RegistryUpdate(p, s)
           \/ \E c \in Copies : stop(c) \/ StopEnds(c)
           \/ \E g \in Migrations :
                 \/ \E n, target \in Nodes : migrate(g, n, target)
                 \/ SourceStep(g) /\ ~drainMailbox(g) /\ (RolledBack(g) => ~Present(Source(g)))
                 \/ TargetStep(g) /\ (confirmReservation(g) => reservation[g] # "held")
    PROVE  AtOnePlace(m)'
<1>0. MigrationTyped /\ Typed /\ RegistryKnown
  BY DEF BaseInv
<1> DEFINE Same(b) == /\ copies'[b].mailbox = copies[b].mailbox \/ copies'[b].mailbox = <<>>
                      /\ copies'[b].busy = copies[b].busy \/ copies'[b].busy = NoMsg
<1>1. CASE UNCHANGED migrationVars \/ \E p, s \in Nodes : RegistryUpdate(p, s)
  <2>1. copies' = copies /\ migrations' = migrations /\ did' = did /\ direct' = direct
    BY <1>1 DEF migrationVars, RegistryUpdate, protocol, history
  <2> QED BY <2>1, PlacesSame
<1>2. CASE spawn
  <2>1. migrations' = migrations /\ did' = did /\ direct' = direct
    BY <1>2 DEF spawn, protocol, history
  <2>2. /\ copies'[1].mailbox = <<>> /\ copies'[1].busy = NoMsg
        /\ \A b \in Copies : b # 1 => copies'[b] = copies[b]
    BY <1>0, <1>2, SpawnEffects DEF Sets
  <2>3. \A b \in Copies : Same(b)
    BY <2>2
  <2> QED BY <2>1, <2>3, PlacesSame
<1>3. ASSUME NEW c \in Copies, stop(c) \/ StopEnds(c) PROVE AtOnePlace(m)'
  <2>1. migrations' = migrations /\ did' = did /\ direct' = direct
    BY <1>3 DEF stop, StopEnds, protocol, history
  <2>2. \A b \in Copies : Same(b)
    <3>1. CASE Respawns(c)
      <4> HIDE DEF Fresh
      <4> QED BY <3>1 DEF Respawns
    <3>2. CASE ~Respawns(c)
      <4>1. /\ copies'[c].mailbox = copies[c].mailbox /\ copies'[c].busy = copies[c].busy
            /\ \A b \in Copies : b # c => copies'[b] = copies[b]
        BY <1>0, <1>3, <3>2, CopyEffects, SpawnEffects DEF Sets
      <4> QED BY <4>1
    <3> QED BY <3>1, <3>2
  <2> QED BY <2>1, <2>2, PlacesSame
<1>4. ASSUME NEW g \in Migrations, NEW n \in Nodes, NEW target \in Nodes, migrate(g, n, target)
      PROVE  AtOnePlace(m)'
  <2>1. did' = did /\ direct' = direct
    BY <1>4 DEF migrate
  <2>2. \A h \in Migrations : migrations'[h].pending = migrations[h].pending
    BY <1>0, <1>4, MigrateEffect DEF SetsLocals
  <2>3. \A b \in Copies : Same(b)
    BY <1>0, <1>4, MigrateEffect DEF Sets
  <2> QED BY <2>1, <2>2, <2>3, PlacesSame
<1>5. ASSUME NEW g \in Migrations, SourceStep(g), ~drainMailbox(g), RolledBack(g) => ~Present(Source(g))
      PROVE  AtOnePlace(m)'
  <2> DEFINE c == Source(g)
  <2>1. did' = did /\ direct' = direct
    BY <1>5, SourceFrame
  <2>2. \A h \in Migrations : migrations'[h].pending = migrations[h].pending
    BY <1>0, <1>5, SourceEffects DEF SetsLocals, SourceStep
  <2>3. copies'[c].mailbox = copies[c].mailbox
    <3>1. CASE PrepareFails(g) \/ PrepareSucceeds(g) \/ RolledBack(g) \/ cleanupActorForMigration(g)
      BY <1>0, <1>5, <3>1, SourceEffects DEF Sets
    <3>2. CASE GetState(g) \/ GetStateFails(g) \/ ExecuteFails(g) \/ ExecuteSucceeds(g)
      BY <3>2 DEF GetState, GetStateFails, ExecuteFails, ExecuteSucceeds
    <3> QED BY <1>5, <3>1, <3>2 DEF SourceStep
  <2>4. \A b \in Copies : Same(b)
    BY <1>5, <2>3, SourceCopies
  <2> QED BY <2>1, <2>2, <2>4, PlacesSame
<1>6. ASSUME NEW g \in Migrations, TargetStep(g), confirmReservation(g) => reservation[g] # "held"
      PROVE  AtOnePlace(m)'
  <2>1. did' = did /\ direct' = direct
    BY <1>6 DEF TargetStep, handleMigratePrepare, handleMigrateExecute, confirmReservation, ExecuteThrows,
                handleMigrateRollback, Expires, history
  <2>2. CASE handleMigrateExecute(g)
    <3>1. \A h \in Migrations : migrations'[h].pending = migrations[h].pending
      BY <1>0, <2>2, TargetEffects DEF SetsLocals
    <3>2. \A b \in Copies : Same(b)
      <4> HIDE DEF Fresh
      <4> QED BY <1>0, <2>2, TargetEffects DEF Sets
    <3> QED BY <2>1, <3>1, <3>2, PlacesSame
  <2>3. CASE confirmReservation(g) \/ ExecuteThrows(g)
    <3> DEFINE c == migrations[g].new
    <3>1. migrations' = migrations
      BY <2>3 DEF confirmReservation, ExecuteThrows
    <3>2. /\ copies'[c].mailbox = copies[c].mailbox /\ copies'[c].busy = copies[c].busy
          /\ \A b \in Copies : b # c => copies'[b] = copies[b]
      BY <1>0, <1>6, <2>3, TargetEffects DEF Sets
    <3>3. \A b \in Copies : Same(b)
      BY <3>2
    <3> QED BY <2>1, <3>1, <3>3, PlacesSame, SMTT(60)
  <2>4. CASE handleMigratePrepare(g) \/ handleMigrateRollback(g) \/ Expires(g)
    <3>1. migrations' = migrations /\ copies' = copies
      BY <2>4 DEF handleMigratePrepare, handleMigrateRollback, Expires
    <3> QED BY <2>1, <3>1, PlacesSame
  <2> QED BY <1>6, <2>2, <2>3, <2>4, SMTT(60) DEF TargetStep
<1> QED BY <1>1, <1>2, <1>3, <1>4, <1>5, <1>6

\* Every step keeps each message in one place, or excused.
LEMMA StepPlaces ==
    ASSUME BaseInv, PlacesInv, [MigrationNext]_migrationVars
    PROVE  PlacesInv'
<1> SUFFICES ASSUME NEW m \in Msgs, ~Excused(m)' PROVE AtOnePlace(m)'
  BY DEF PlacesInv
<1>1. ~Excused(m) /\ AtOnePlace(m)
  BY ExcusedStays DEF PlacesInv
<1>2. CASE \E c \in Copies : \/ \E n \in Msgs : cast(c, n) \/ handleRpc(c, n) \/ RpcHandled(c, n)
                             \/ Handle(c) \/ Handled(c)
  BY <1>1, <1>2, PlacesOfCast, PlacesOfRpc, PlacesOfRpcHandled, PlacesOfHandle, PlacesOfHandled
<1>3. CASE \E g \in Migrations : drainMailbox(g)
  BY <1>1, <1>3, PlacesOfDrain
<1>4. CASE \E g \in Migrations : RolledBack(g) /\ Present(Source(g))
  BY <1>1, <1>4, PlacesOfRollback
<1>5. CASE \E g \in Migrations : confirmReservation(g) /\ reservation[g] = "held"
  BY <1>1, <1>5, PlacesOfConfirm
<1>6. CASE /\ ~\E g \in Migrations : \/ drainMailbox(g) \/ (RolledBack(g) /\ Present(Source(g)))
                                     \/ (confirmReservation(g) /\ reservation[g] = "held")
           /\ ~\E c \in Copies : \/ \E n \in Msgs : cast(c, n) \/ handleRpc(c, n) \/ RpcHandled(c, n)
                                \/ Handle(c) \/ Handled(c)
  <2>1. \/ UNCHANGED migrationVars \/ spawn \/ \E p, s \in Nodes : RegistryUpdate(p, s)
        \/ \E c \in Copies : stop(c) \/ StopEnds(c)
        \/ \E g \in Migrations :
              \/ \E n, target \in Nodes : migrate(g, n, target)
              \/ SourceStep(g) /\ ~drainMailbox(g) /\ (RolledBack(g) => ~Present(Source(g)))
              \/ TargetStep(g) /\ (confirmReservation(g) => reservation[g] # "held")
    BY <1>6 DEF MigrationNext
  <2> QED BY <1>1, <2>1, PlacesOfOthers
<1> QED BY <1>2, <1>3, <1>4, <1>5, <1>6

\* Two copies handle the same message only where the source gave up on an
\* execute request that the target completed, and the rollback came too late:
\* for any number of migrations, overlapping or not, stops and restarts.
THEOREM MigrationHandlesOnce == MigrationSpec => []HandledOnce
<1>1. MigrationInit => PlacesInv
  <2> SUFFICES ASSUME MigrationInit, NEW m \in Msgs PROVE AtOnePlace(m)
    BY DEF PlacesInv
  <2>1. \A c \in Copies : copies[c].mailbox = <<>> /\ copies[c].busy = NoMsg /\ did[c] = {} /\ direct[c] = {}
    BY DEF MigrationInit, Unused
  <2>2. \A g \in Migrations : migrations[g].pending = <<>>
    BY DEF MigrationInit, Idle
  <2>3. m # NoMsg
    BY Constants
  <2>4. \A k \in Kinds : \A x, i \in Nat : ~At(m, k, x, i)
    BY <2>1, <2>2, <2>3 DEF At
  <2> QED BY <2>4 DEF AtOnePlace
<1>2. PlacesInv => HandledOnce
  <2> SUFFICES ASSUME PlacesInv, NEW m \in Msgs, NEW b \in Copies, NEW c \in Copies,
                      b # c, m \in did[b], m \in did[c]
               PROVE  \E g \in gaveUp \ undone : /\ m \in Range(migrations[g].pending)
                                                 /\ reservation[g] = "confirmed"
    BY DEF HandledOnce
  <2>1. At(m, "did", b, 0) /\ At(m, "did", c, 0)
    BY AtKinds
  <2>2. ~AtOnePlace(m)
    BY <2>1, Numbers DEF AtOnePlace, Kinds
  <2> QED BY <2>2 DEF PlacesInv, Excused
<1> QED BY InitBase, StepBase, StepPlaces, <1>1, <1>2, PTL DEF MigrationSpec

----------------------------------------------------------------------------
(* The state is carried over.                                              *)

\* What a step that resumes nothing does to a copy that was live: it stays
\* paused or gone, and one at rest handles nothing of its mailbox.
Put(c) ==
    /\ copies[c].paused \/ copies[c].status = "gone" => copies'[c].paused \/ copies'[c].status = "gone"
    /\ copies[c].status = "gone" => copies'[c].status = "gone"
    /\ AtRest(c) => copies'[c].busy = NoMsg /\ Boxed(c)' \subseteq Boxed(c)

\* States only grow, once the copy is there.
Grows(c) ==
    copies[c].status \notin {"unused", "building"} => copies[c].state \subseteq copies'[c].state

\* The steps of copies, of the target and of the registry, and migrate.
LEMMA StaysPut ==
    ASSUME BaseInv, NEW b \in Copies,
           \/ UNCHANGED migrationVars \/ spawn \/ \E p, s \in Nodes : RegistryUpdate(p, s)
           \/ \E c \in Copies : (\E m \in Msgs : cast(c, m) \/ handleRpc(c, m) \/ RpcHandled(c, m)) \/ Handle(c) \/ Handled(c) \/ stop(c) \/ StopEnds(c)
           \/ \E g \in Migrations : TargetStep(g) \/ \E n, target \in Nodes : migrate(g, n, target)
    PROVE  Grows(b) /\ (copies[b].status \in Grown => Put(b))
<1>0. MigrationTyped /\ Typed /\ RegistryKnown
  BY DEF BaseInv
<1>1. ASSUME copies'[b] = copies[b], did'[b] = did[b], direct'[b] = direct[b]
      PROVE  Grows(b) /\ Put(b)
  BY <1>1 DEF Grows, Put, AtRest, Boxed
<1>2. ASSUME copies[b].status \in {"unused", "building"} PROVE Grows(b) /\ copies[b].status \notin Grown
  BY <1>2 DEF Grows, Grown
<1>3. CASE UNCHANGED migrationVars \/ \E p, s \in Nodes : RegistryUpdate(p, s)
  BY <1>1, <1>3 DEF migrationVars, RegistryUpdate, history
<1>4. CASE spawn
  <2>1. did' = did /\ direct' = direct
    BY <1>4 DEF spawn, history
  <2>2. copies[1].status = "unused" /\ \A a \in Copies : a # 1 => copies'[a] = copies[a]
    BY <1>0, <1>4, SpawnEffects DEF Sets
  <2> QED BY <1>1, <1>2, <2>1, <2>2
<1>5. ASSUME NEW c \in Copies, NEW m \in Msgs, cast(c, m) PROVE Grows(b) /\ Put(b)
  <2>1. did' = did /\ direct' = direct
    BY <1>5 DEF cast, history
  <2>2. /\ copies'[c].status = copies[c].status /\ copies'[c].paused = copies[c].paused
        /\ copies'[c].busy = copies[c].busy /\ copies'[c].state = copies[c].state
        /\ \A a \in Copies : a # c => copies'[a] = copies[a]
    BY <1>0, <1>5, CopyEffects DEF Sets
  <2> QED BY <1>1, <2>1, <2>2 DEF Grows, Put, AtRest, Boxed
<1>6. ASSUME NEW c \in Copies, Handle(c) PROVE Grows(b) /\ Put(b)
  <2>1. did' = did /\ direct' = direct /\ ~copies[c].paused /\ copies[c].status # "gone"
    BY <1>6 DEF Handle, Reachable, history
  <2>2. copies'[c].state = copies[c].state /\ \A a \in Copies : a # c => copies'[a] = copies[a]
    BY <1>0, <1>6, CopyEffects DEF Sets
  <2> QED BY <1>1, <2>1, <2>2 DEF Grows, Put, AtRest, Boxed
<1>7. ASSUME NEW c \in Copies, Handled(c) PROVE Grows(b) /\ Put(b)
  <2>1. copies[c].busy # NoMsg /\ \A a \in Copies : a # c => did'[a] = did[a] /\ direct'[a] = direct[a]
    BY <1>0, <1>7 DEF Handled, MigrationTyped
  <2>2. /\ copies'[c].status = copies[c].status /\ copies'[c].paused = copies[c].paused
        /\ copies[c].state \subseteq copies'[c].state
        /\ \A a \in Copies : a # c => copies'[a] = copies[a]
    BY <1>0, <1>7, CopyEffects DEF Sets
  <2> QED BY <1>1, <2>1, <2>2 DEF Grows, Put, AtRest, Boxed
<1>12. ASSUME NEW c \in Copies, NEW m \in Msgs, handleRpc(c, m) PROVE Grows(b) /\ Put(b)
  <2>1. copies' = copies /\ did' = did /\ direct[b] \subseteq direct'[b]
    BY <1>0, <1>12 DEF handleRpc, MigrationTyped
  <2> QED BY <2>1 DEF Grows, Put, AtRest, Boxed
<1>13. ASSUME NEW c \in Copies, NEW m \in Msgs, RpcHandled(c, m) PROVE Grows(b) /\ Put(b)
  <2>1. direct' = direct /\ did'[b] \ direct[b] \subseteq did[b] \ direct[b]
    BY <1>0, <1>13 DEF RpcHandled, MigrationTyped
  <2>2. /\ copies'[b].status = copies[b].status /\ copies'[b].paused = copies[b].paused
        /\ copies'[b].busy = copies[b].busy /\ copies[b].state \subseteq copies'[b].state
    BY <1>0, <1>13, CopyEffects DEF Sets
  <2> QED BY <2>1, <2>2 DEF Grows, Put, AtRest, Boxed
<1>8. ASSUME NEW c \in Copies, stop(c) PROVE Grows(b) /\ Put(b)
  <2>1. did' = did /\ direct' = direct /\ copies[c].status = "live"
    BY <1>8 DEF stop, history
  <2>2. /\ copies'[c].paused = copies[c].paused
        /\ copies'[c].busy = copies[c].busy /\ copies'[c].state = copies[c].state
        /\ \A a \in Copies : a # c => copies'[a] = copies[a]
    BY <1>0, <1>8, CopyEffects DEF Sets
  <2> QED BY <1>1, <2>1, <2>2 DEF Grows, Put, AtRest, Boxed
<1>9. ASSUME NEW c \in Copies, StopEnds(c) PROVE Grows(b) /\ (copies[b].status \in Grown => Put(b))
  <2>1. did' = did /\ direct' = direct
    BY <1>9 DEF StopEnds, history
  <2>2. ASSUME /\ copies'[c].status = "gone" /\ copies'[c].busy = copies[c].busy
               /\ copies'[c].state = copies[c].state
        PROVE  Grows(c) /\ Put(c)
    BY <2>1, <2>2 DEF Grows, Put, AtRest, Boxed
  <2>3. CASE Respawns(c)
    <3>1. /\ copies'[c].status = "gone" /\ copies'[c].busy = copies[c].busy
          /\ copies'[c].state = copies[c].state /\ copies[Fresh].status = "unused"
          /\ \A a \in Copies : a # c /\ a # Fresh => copies'[a] = copies[a]
      BY <2>3 DEF Respawns
    <3> HIDE DEF Fresh
    <3> QED BY <1>1, <1>2, <2>1, <2>2, <3>1
  <2>4. CASE Sets(c, "gone", copies[c].paused, copies[c].mailbox, copies[c].busy, copies[c].state)
    BY <1>1, <2>1, <2>2, <2>4 DEF Sets
  <2> QED BY <1>0, <1>9, <2>3, <2>4, SpawnEffects
<1>10. ASSUME NEW g \in Migrations, NEW n \in Nodes, NEW target \in Nodes, migrate(g, n, target)
       PROVE  Grows(b) /\ Put(b)
  <2> DEFINE c == named[n]
  <2>1. did' = did /\ direct' = direct
    BY <1>10 DEF migrate
  <2>2. /\ copies'[c].status = copies[c].status /\ copies'[c].paused = TRUE
        /\ copies'[c].busy = copies[c].busy /\ copies'[c].state = copies[c].state
        /\ \A a \in Copies : a # c => copies'[a] = copies[a]
    BY <1>0, <1>10, MigrateEffect DEF Sets
  <2> HIDE DEF c
  <2> QED BY <1>1, <2>1, <2>2 DEF Grows, Put, AtRest, Boxed
<1>11. ASSUME NEW g \in Migrations, TargetStep(g)
       PROVE  Grows(b) /\ (copies[b].status \in Grown => Put(b))
  <2>1. did' = did /\ direct' = direct
    BY <1>11 DEF TargetStep, handleMigratePrepare, handleMigrateExecute, confirmReservation, ExecuteThrows,
                 handleMigrateRollback, Expires, history
  <2>2. CASE handleMigrateExecute(g)
    <3>1. copies[Fresh].status = "unused" /\ \A a \in Copies : a # Fresh => copies'[a] = copies[a]
      BY <1>0, <2>2, TargetEffects DEF Sets
    <3> HIDE DEF Fresh
    <3> QED BY <1>1, <1>2, <2>1, <3>1
  <2>3. CASE confirmReservation(g) \/ ExecuteThrows(g)
    <3> DEFINE c == migrations[g].new
    <3>1. copies[c].status = "building" /\ \A a \in Copies : a # c => copies'[a] = copies[a]
      BY <1>0, <2>3, TargetEffects DEF Sets, confirmReservation, ExecuteThrows, Building
    <3> HIDE DEF c
    <3> QED BY <1>1, <1>2, <2>1, <3>1
  <2>4. CASE handleMigratePrepare(g) \/ handleMigrateRollback(g) \/ Expires(g)
    BY <1>1, <2>1, <2>4 DEF handleMigratePrepare, handleMigrateRollback, Expires
  <2> QED BY <1>11, <2>2, <2>3, <2>4 DEF TargetStep
<1> QED BY <1>3, <1>4, <1>5, <1>6, <1>7, <1>8, <1>9, <1>10, <1>11, <1>12, <1>13

\* A confirmed migration stays one, and its new copy and state stay what they were.
LEMMA ConfirmedStays ==
    ASSUME BaseInv, [MigrationNext]_migrationVars, NEW h \in Migrations, reservation[h] = "confirmed"
    PROVE  /\ migrations'[h].new = migrations[h].new /\ migrations'[h].state = migrations[h].state
           /\ migrations[h].new \in Copies
           /\ copies[migrations[h].new].status \notin {"unused", "building"}
<1>0. MigrationTyped /\ Typed /\ RegistryKnown /\ Protocol(h)
  BY DEF BaseInv, ProtocolInv
<1>1. /\ migrations[h].new # 0 /\ ~Building(h) /\ ~ToExecute(h)
      /\ migrations[h].phase \notin {"idle", "serializing"}
  BY <1>0 DEF Protocol
<1>2. migrations[h].new \in Copies
  BY <1>0, <1>1, Fields, Constants DEF Copies
<1>3. copies[migrations[h].new].status \notin {"unused", "building"}
  BY <1>1 DEF Building, BaseInv, CopiesInv
<1>4. CASE migrations' = migrations
  BY <1>2, <1>3, <1>4
<1>5. CASE migrations' # migrations
  <2>1. PICK g \in Migrations : \/ \E n, target \in Nodes : migrate(g, n, target)
                                \/ SourceStep(g) \/ handleMigrateExecute(g)
    BY <1>5 DEF MigrationNext, migrationVars, spawn, RegistryUpdate, cast, handleRpc, RpcHandled, Handle, Handled, stop, StopEnds,
                protocol, TargetStep, handleMigratePrepare, confirmReservation, ExecuteThrows,
                handleMigrateRollback, Expires
  <2>2. h # g => migrations'[h] = migrations[h]
    BY <1>0, <2>1, MigrateEffect, SourceCopies, TargetEffects DEF SetsLocals
  <2>3. CASE h = g
    <3>1. ~GetState(h) /\ \A n, target \in Nodes : ~migrate(h, n, target)
      BY <1>1 DEF migrate, GetState
    <3>2. ~handleMigrateExecute(h)
      BY <1>0, <1>1, RequestArrives DEF handleMigrateExecute, ToExecute
    <3>3. SourceStep(h) /\ ~GetState(h)
      BY <2>1, <2>3, <3>1, <3>2
    <3>4. migrations'[h].state = migrations[h].state /\ migrations'[h].new = migrations[h].new
      BY <1>0, <3>3, SourceEffects DEF SourceStep, SetsLocals
    <3> QED BY <1>2, <1>3, <3>4, SMTT(60)
  <2> QED BY <1>2, <1>3, <2>2, <2>3, SMTT(60)
<1> QED BY <1>4, <1>5

\* The new copy has the state that went over, and keeps it.
LEMMA StatesKept ==
    ASSUME BaseInv, [MigrationNext]_migrationVars, NEW h \in Migrations, reservation'[h] = "confirmed",
           reservation[h] = "confirmed" => migrations[h].state \subseteq copies[migrations[h].new].state
    PROVE  migrations'[h].state \subseteq copies'[migrations'[h].new].state
<1>0. MigrationTyped
  BY DEF BaseInv
<1>1. CASE reservation[h] = "confirmed"
  <2> DEFINE c == migrations[h].new
  <2>1. /\ migrations'[h].new = c /\ migrations'[h].state = migrations[h].state
        /\ c \in Copies /\ copies[c].status \notin {"unused", "building"}
    BY <1>1, ConfirmedStays
  <2>2. copies[c].state \subseteq copies'[c].state
    <3>1. CASE \E g \in Migrations : SourceStep(g)
      BY <2>1, <3>1, SourceCopies
    <3>2. CASE ~\E g \in Migrations : SourceStep(g)
      <4>1. Grows(c)
        BY <2>1, <3>2, StaysPut DEF MigrationNext
      <4> QED BY <2>1, <4>1 DEF Grows
    <3> QED BY <3>1, <3>2
  <2> QED BY <1>1, <2>1, <2>2
<1>2. CASE reservation[h] # "confirmed"
  <2>1. PICK g \in Migrations : confirmReservation(g) /\ reservation[g] = "held"
    <3>1. reservation' # reservation
      BY <1>2
    <3>2. ASSUME NEW g \in Migrations, reservation' = Released(g) PROVE FALSE
      BY <1>0, <1>2, <3>2, ReservationReleased
    <3>3. ASSUME NEW g \in Migrations, handleMigratePrepare(g) PROVE FALSE
      <4>1. reservation' = reservation \/ reservation' = [reservation EXCEPT ![g] = "held"]
        BY <3>3 DEF handleMigratePrepare
      <4> QED BY <1>0, <1>2, <4>1 DEF MigrationTyped
    <3>4. ASSUME NEW g \in Migrations, SourceStep(g) PROVE FALSE
      BY <3>1, <3>4, SourceFrame, SMTT(60)
    <3>5. \E g \in Migrations : confirmReservation(g)
      BY <3>1, <3>2, <3>3, <3>4, ZenonT(60)
         DEF MigrationNext, migrationVars, spawn, RegistryUpdate, cast, handleRpc, RpcHandled, Handle, Handled, stop, StopEnds,
             protocol, migrate, TargetStep, handleMigrateExecute, ExecuteThrows, handleMigrateRollback, Expires
    <3> QED BY <3>1, <3>5 DEF confirmReservation
  <2>2. h = g
    <3>1. reservation' = [reservation EXCEPT ![g] = "confirmed"]
      BY <2>1 DEF confirmReservation
    <3> QED BY <1>0, <1>2, <3>1 DEF MigrationTyped
  <2>3. copies'[migrations[g].new].state = migrations[g].state /\ migrations' = migrations
    BY <1>0, <2>1, TargetEffects DEF Sets, confirmReservation
  <2> QED BY <2>2, <2>3, SMTT(60)
<1> QED BY <1>1, <1>2

\* Migrations that a step does not touch, whose copy stays put.
LEMMA CarriesKept ==
    ASSUME BaseInv, NEW h \in Migrations, Carries(h), migrations'[h] = migrations[h],
           h \in quiet' <=> h \in quiet,
           UnderWay(h) => \A k \in Migrations :
               UnderWay(k)' /\ migrations'[k].src = migrations[h].src =>
                   UnderWay(k) /\ migrations[k].src = migrations[h].src,
           migrations[h].phase \in {"draining", "serializing", "executing", "unregistering", "moved"}
               => Put(migrations[h].src)
    PROVE  Carries(h)'
<1>1. UnderWay(h)' <=> UnderWay(h)
  BY DEF UnderWay
<1> DEFINE c == migrations[h].src
<1>2. c = migrations'[h].src
  OBVIOUS
<1>3. AtRest(c) /\ Put(c) => /\ copies'[c].busy = NoMsg /\ Boxed(c)' \subseteq Boxed(c)
                             /\ copies'[c].paused \/ copies'[c].status = "gone"
  BY DEF Put, AtRest, Boxed
<1> QED BY <1>1, <1>3 DEF Carries, Put, AtRest, Boxed

\* The steps that leave the phases and quiet alone.
LEMMA CarriesByOthers ==
    ASSUME BaseInv, CarryInv, ~overlapped, NEW h \in Migrations,
           \/ UNCHANGED migrationVars \/ spawn \/ \E p, s \in Nodes : RegistryUpdate(p, s)
           \/ \E c \in Copies : (\E m \in Msgs : cast(c, m) \/ handleRpc(c, m) \/ RpcHandled(c, m)) \/ Handle(c) \/ Handled(c) \/ stop(c) \/ StopEnds(c)
           \/ \E g \in Migrations : TargetStep(g)
    PROVE  Carries(h)'
<1>0. MigrationTyped /\ Carries(h) /\ CopiesInv
  BY DEF BaseInv, CarryInv
<1>1. \A k \in Migrations : /\ migrations'[k].phase = migrations[k].phase
                            /\ migrations'[k].src = migrations[k].src
                            /\ migrations'[k].state = migrations[k].state
  <2>1. CASE \E g \in Migrations : handleMigrateExecute(g)
    BY <1>0, <2>1, TargetEffects DEF SetsLocals
  <2>2. CASE ~\E g \in Migrations : handleMigrateExecute(g)
    <3>1. migrations' = migrations
      BY <2>2, ZenonT(60) DEF migrationVars, spawn, RegistryUpdate, cast, handleRpc, RpcHandled, Handle, Handled, stop, StopEnds, protocol,
                  TargetStep, handleMigratePrepare, confirmReservation, ExecuteThrows, handleMigrateRollback,
                  Expires
    <3> QED BY <3>1
  <2> QED BY <2>1, <2>2
<1>2. quiet' = quiet
  BY DEF migrationVars, spawn, RegistryUpdate, cast, handleRpc, RpcHandled, Handle, Handled, stop, StopEnds, history, TargetStep,
         handleMigratePrepare, handleMigrateExecute, confirmReservation, ExecuteThrows,
         handleMigrateRollback, Expires
<1> DEFINE c == migrations[h].src
<1>3. c \in Copies /\ c = migrations'[h].src
  BY <1>0, <1>1, Fields
<1>4. migrations[h].phase # "idle" => Put(c)
  <2>1. migrations[h].phase # "idle" => copies[c].status \in Grown
    BY <1>0 DEF CopiesInv
  <2> QED BY <1>3, <2>1, StaysPut
<1>5. AtRest(c) /\ Put(c) => /\ copies'[c].busy = NoMsg /\ Boxed(c)' \subseteq Boxed(c)
                             /\ copies'[c].paused \/ copies'[c].status = "gone"
  BY DEF Put, AtRest, Boxed
<1>6. \A k \in Migrations : UnderWay(k)' <=> UnderWay(k)
  BY <1>1 DEF UnderWay
<1> QED BY <1>0, <1>1, <1>2, <1>4, <1>5, <1>6 DEF Carries, Put, AtRest, Boxed

\* migrate, of a copy that no other migration is moving.
LEMMA CarriesByMigrate ==
    ASSUME BaseInv, CarryInv, ~overlapped', NEW h \in Migrations,
           NEW g \in Migrations, NEW n \in Nodes, NEW target \in Nodes, migrate(g, n, target)
    PROVE  Carries(h)'
<1> DEFINE c == named[n]
<1>0. MigrationTyped /\ Typed /\ RegistryKnown /\ CopiesInv
  BY DEF BaseInv
<1>1. /\ migrations'[g].phase = "preparing" /\ migrations'[g].src = c /\ migrations[g].phase = "idle"
      /\ \A k \in Migrations : k # g => migrations'[k] = migrations[k]
      /\ quiet' = quiet
  BY <1>0, MigrateEffect, ZenonT(60) DEF SetsLocals, migrate
<1>2. ~overlapped /\ \A k \in Migrations : UnderWay(k) => migrations[k].src # c
  BY DEF migrate
<1>3. Carries(h) /\ Carries(g) /\ g \notin quiet
  BY <1>1, <1>2 DEF CarryInv, Carries
<1> HIDE DEF c
<1>4. CASE h = g
  <2>1. \A k \in Migrations : UnderWay(k)' /\ migrations'[k].src = c => k = g
    BY <1>1, <1>2 DEF UnderWay
  <2> QED BY <1>1, <1>3, <1>4, <2>1 DEF Carries
<1>5. CASE h # g
  <2>1. migrations[h].src \in Copies
    BY <1>0, Fields
  <2>2. migrations[h].phase # "idle" => Put(migrations[h].src)
    <3>1. migrations[h].phase # "idle" => copies[migrations[h].src].status \in Grown
      BY <1>0 DEF CopiesInv
    <3> QED BY <2>1, <3>1, StaysPut
  <2>3. UnderWay(h) => \A k \in Migrations :
            UnderWay(k)' /\ migrations'[k].src = migrations[h].src =>
                UnderWay(k) /\ migrations[k].src = migrations[h].src
    BY <1>1, <1>2 DEF UnderWay
  <2> QED BY <1>1, <1>3, <1>5, <2>2, <2>3, CarriesKept
<1> QED BY <1>4, <1>5

\* A step of the source, for the other migrations: those of the same copy are over.
LEMMA CarriesOfOthers ==
    ASSUME BaseInv, CarryInv, ~overlapped, NEW g \in Migrations, SourceStep(g),
           NEW h \in Migrations, h # g
    PROVE  Carries(h)'
<1> DEFINE c == Source(g)
           b == migrations[h].src
<1>0. MigrationTyped /\ Carries(h) /\ Carries(g)
  BY DEF BaseInv, CarryInv
<1>1. /\ \A a \in Copies : a # c => copies'[a] = copies[a]
      /\ \A k \in Migrations : k # g => migrations'[k] = migrations[k]
      /\ migrations'[g].src = migrations[g].src /\ migrations[g].phase # "idle"
      /\ copies'[c].busy = copies[c].busy
      /\ copies'[c].status = copies[c].status \/ copies'[c].status = "gone"
      /\ did' = did /\ direct' = direct
  BY SourceCopies, SourceFrame
<1>2. UnderWay(g)
  BY DEF UnderWay, SourceStep, PrepareFails, PrepareSucceeds, drainMailbox, GetState, GetStateFails,
         ExecuteFails, RolledBack, ExecuteSucceeds, cleanupActorForMigration
<1>3. h \in quiet' <=> h \in quiet
  BY DEF SourceStep, PrepareFails, PrepareSucceeds, drainMailbox, GetState, GetStateFails,
         ExecuteFails, RolledBack, ExecuteSucceeds, cleanupActorForMigration, history
<1>4. b \in Copies /\ c = migrations[g].src
  BY <1>0, Fields DEF Source
<1>5. migrations[h].phase \in {"draining", "serializing", "executing", "unregistering", "moved"} => Put(b)
  <2>1. CASE b # c
    BY <1>1, <1>4, <2>1 DEF Put, AtRest, Boxed
  <2>2. CASE b = c
    <3>1. ~UnderWay(h)
      BY <1>0, <1>2, <1>4, <2>2 DEF Carries
    <3>2. migrations[h].phase = "moved" => copies[b].status = "gone"
      BY <1>0 DEF Carries
    <3> QED BY <1>1, <2>2, <3>1, <3>2 DEF Put, AtRest, Boxed, UnderWay
  <2> QED BY <2>1, <2>2
<1>6. \A k \in Migrations : UnderWay(k)' => UnderWay(k) /\ migrations'[k].src = migrations[k].src
  BY <1>1, <1>2 DEF UnderWay
<1> QED BY <1>0, <1>1, <1>3, <1>5, <1>6, CarriesKept

\* A step of the source, for its own migration.
LEMMA CarriesBySource ==
    ASSUME BaseInv, CarryInv, ~overlapped, NEW g \in Migrations, SourceStep(g)
    PROVE  Carries(g)'
<1> DEFINE c == Source(g)
           phase == migrations[g].phase
           next == migrations'[g].phase
<1>0. MigrationTyped /\ Carries(g) /\ CopiesInv /\ c = migrations[g].src /\ c \in Copies
  BY Fields DEF BaseInv, CarryInv, Source
<1>1. /\ \A k \in Migrations : k # g => migrations'[k] = migrations[k]
      /\ migrations'[g].src = c /\ phase # "idle"
      /\ copies'[c].busy = copies[c].busy /\ copies[c].status \in Grown
      /\ copies'[c].status = copies[c].status \/ copies'[c].status = "gone"
      /\ did' = did /\ direct' = direct
  BY <1>0, SourceCopies, SourceFrame
<1>2. UnderWay(g)
  BY DEF UnderWay, SourceStep, PrepareFails, PrepareSucceeds, drainMailbox, GetState, GetStateFails,
         ExecuteFails, RolledBack, ExecuteSucceeds, cleanupActorForMigration
<1>3. \A k \in Migrations : UnderWay(k)' /\ migrations'[k].src = c => k = g
  <2>1. \A k \in Migrations : UnderWay(k)' => UnderWay(k) /\ migrations'[k].src = migrations[k].src
    BY <1>0, <1>1, <1>2 DEF UnderWay
  <2> QED BY <1>0, <1>2, <2>1 DEF Carries
<1> DEFINE Paused == copies[c].paused \/ copies[c].status = "gone"
<1>4. CASE PrepareFails(g) \/ GetStateFails(g) \/ ExecuteFails(g) \/ RolledBack(g)
  <2>1. next \in {"failed", "rollingBack"}
    BY <1>0, <1>4, SourceEffects DEF SetsLocals
  <2>2. next \notin {"idle", "preparing", "draining", "serializing", "executing", "unregistering", "moved"}
    BY <2>1
  <2> QED BY <1>1, <1>3, <2>2 DEF Carries
<1>5. CASE PrepareSucceeds(g)
  <2>1. phase = "preparing" /\ g \notin quiet
    BY <1>0, <1>5 DEF PrepareSucceeds, Carries
  <2>2. CASE Present(c)
    <3>1. next = "draining" /\ copies'[c].paused = TRUE
      BY <1>0, <1>5, <2>2, SourceEffects DEF SetsLocals, Sets
    <3>2. quiet' = quiet
      BY <1>0, <1>5, <2>2 DEF PrepareSucceeds
    <3> QED BY <1>1, <1>3, <2>1, <3>1, <3>2 DEF Carries
  <2>3. CASE ~Present(c)
    <3>1. next = "serializing" /\ copies' = copies
      BY <1>0, <1>5, <2>3, SourceEffects DEF SetsLocals
    <3>2. copies[c].status = "gone"
      BY <1>1, <2>3 DEF Present, Grown
    <3>3. g \in quiet' => copies[c].busy = NoMsg
      BY <1>0, <1>5, <2>1, <2>3 DEF PrepareSucceeds
    <3> QED BY <1>1, <1>3, <3>1, <3>2, <3>3 DEF Carries, AtRest, Boxed
  <2> QED BY <2>2, <2>3
<1>6. CASE drainMailbox(g)
  <2>1. phase = "draining" /\ g \notin quiet /\ (g \in quiet' => copies[c].busy = NoMsg)
    BY <1>0, <1>6 DEF drainMailbox, Carries
  <2>2. next = "serializing" /\ copies'[c].paused = copies[c].paused
    BY <1>0, <1>6, SourceEffects DEF SetsLocals, Sets
  <2>3. Paused
    BY <1>0, <2>1 DEF Carries
  <2> QED BY <1>1, <1>3, <2>1, <2>2, <2>3 DEF Carries, AtRest, Boxed
<1>7. CASE GetState(g)
  <2>1. phase = "serializing" /\ quiet' = quiet /\ copies' = copies
    BY <1>7 DEF GetState, history
  <2>2. next = "executing" /\ migrations'[g].state = copies[c].state
    BY <1>0, <1>7, SourceEffects DEF SetsLocals
  <2>3. Boxed(c) \subseteq copies[c].state
    BY <1>0 DEF CopiesInv, Boxed
  <2>4. Paused /\ (g \in quiet => AtRest(c))
    BY <1>0, <2>1 DEF Carries
  <2> QED BY <1>1, <1>3, <2>1, <2>2, <2>3, <2>4 DEF Carries, AtRest, Boxed
<1>8. CASE ExecuteSucceeds(g)
  <2>1. phase = "executing" /\ quiet' = quiet /\ copies' = copies
    BY <1>8 DEF ExecuteSucceeds, history
  <2>2. next = "unregistering" /\ migrations'[g].state = migrations[g].state
    BY <1>0, <1>8, SourceEffects DEF SetsLocals
  <2>3. Paused /\ (g \in quiet => AtRest(c) /\ Boxed(c) \subseteq migrations[g].state)
    BY <1>0, <2>1 DEF Carries
  <2> QED BY <1>1, <1>3, <2>1, <2>2, <2>3 DEF Carries, AtRest, Boxed
<1>9. CASE cleanupActorForMigration(g)
  <2>1. phase = "unregistering" /\ quiet' = quiet
    BY <1>9 DEF cleanupActorForMigration, history
  <2>2. /\ next = "moved" /\ migrations'[g].state = migrations[g].state
        /\ copies'[c].status = "gone"
    BY <1>0, <1>9, SourceEffects DEF SetsLocals, Sets
  <2>3. g \in quiet => AtRest(c) /\ Boxed(c) \subseteq migrations[g].state
    BY <1>0, <2>1 DEF Carries
  <2> QED BY <1>1, <1>3, <2>1, <2>2, <2>3 DEF Carries, AtRest, Boxed
<1> QED BY <1>4, <1>5, <1>6, <1>7, <1>8, <1>9 DEF SourceStep

\* Every step keeps it.
LEMMA StepCarry == BaseInv /\ CarryInv /\ [MigrationNext]_migrationVars => CarryInv'
<1> SUFFICES ASSUME BaseInv, CarryInv, [MigrationNext]_migrationVars PROVE CarryInv'
  OBVIOUS
<1>1. quiet' \subseteq Migrations
  <2>1. quiet' = quiet \/ \E g \in Migrations : quiet' = quiet \cup {g}
    BY ZenonT(60) DEF MigrationNext, migrationVars, spawn, RegistryUpdate, cast, handleRpc, RpcHandled, Handle, Handled, stop, StopEnds,
           history, migrate, SourceStep, PrepareFails, PrepareSucceeds, drainMailbox, GetState, GetStateFails,
           ExecuteFails, RolledBack, ExecuteSucceeds, cleanupActorForMigration, TargetStep,
           handleMigratePrepare, handleMigrateExecute, confirmReservation, ExecuteThrows,
           handleMigrateRollback, Expires
  <2> QED BY <2>1, SMTT(60) DEF CarryInv
<1>2. \A h \in Migrations : reservation'[h] = "confirmed" =>
          migrations'[h].state \subseteq copies'[migrations'[h].new].state
  BY StatesKept DEF CarryInv
<1>3. ASSUME ~overlapped', NEW h \in Migrations PROVE Carries(h)'
  <2>1. CASE \E g \in Migrations : \E n, target \in Nodes : migrate(g, n, target)
    BY <1>3, <2>1, CarriesByMigrate
  <2>2. CASE \E g \in Migrations : SourceStep(g)
    <3>1. ~overlapped
      BY <1>3, <2>2, SourceFrame
    <3> QED BY <2>2, <3>1, CarriesOfOthers, CarriesBySource
  <2>3. CASE \/ UNCHANGED migrationVars \/ spawn \/ \E p, s \in Nodes : RegistryUpdate(p, s)
             \/ \E c \in Copies : (\E m \in Msgs : cast(c, m) \/ handleRpc(c, m) \/ RpcHandled(c, m)) \/ Handle(c) \/ Handled(c) \/ stop(c) \/ StopEnds(c)
             \/ \E g \in Migrations : TargetStep(g)
    <3>1. overlapped' = overlapped
      BY <2>3 DEF migrationVars, spawn, RegistryUpdate, cast, handleRpc, RpcHandled, Handle, Handled, stop, StopEnds, history,
                  TargetStep, handleMigratePrepare, handleMigrateExecute, confirmReservation, ExecuteThrows,
                  handleMigrateRollback, Expires
    <3> QED BY <1>3, <2>3, <3>1, CarriesByOthers
  <2> QED BY <2>1, <2>2, <2>3 DEF MigrationNext
<1> QED BY <1>1, <1>2, <1>3 DEF CarryInv

\* The new copy has the state that was captured, and with it whatever the old
\* one has handled from its mailbox, unless the drain gave up on a running
\* handler or two migrations of the copy overlapped: however many casts and
\* calls of other nodes are handled past the mailbox meanwhile.
THEOREM MigrationCarriesState == MigrationSpec => []StateCarried
<1>1. MigrationInit => CarryInv
  <2> SUFFICES ASSUME MigrationInit PROVE CarryInv
    OBVIOUS
  <2>1. quiet = {} /\ \A g \in Migrations : reservation[g] = "none" /\ migrations[g].phase = "idle"
    BY DEF MigrationInit, Idle
  <2> QED BY <2>1 DEF CarryInv, Carries, UnderWay
<1>2. BaseInv /\ CarryInv => StateCarried
  <2> SUFFICES ASSUME BaseInv, CarryInv, ~overlapped, NEW g \in quiet,
                      migrations[g].phase \in {"unregistering", "moved"}
               PROVE  migrations[g].state \union Boxed(migrations[g].src)
                          \subseteq copies[migrations[g].new].state
    BY DEF StateCarried, Boxed
  <2>1. g \in Migrations
    BY DEF CarryInv
  <2>2. Boxed(migrations[g].src) \subseteq migrations[g].state
    BY <2>1 DEF CarryInv, Carries
  <2>3. reservation[g] = "confirmed"
    BY <2>1 DEF BaseInv, ProtocolInv, Protocol
  <2> QED BY <2>1, <2>2, <2>3 DEF CarryInv
<1> QED BY InitBase, StepBase, StepCarry, <1>1, <1>2, PTL DEF MigrationSpec

=============================================================================
